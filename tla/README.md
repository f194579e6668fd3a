# TLA+ models of EDPS

EDPS polls PLCs in an industrial plant and stores what it reads, through a local
buffer, in a database. This directory holds TLA+ models of its parts, the TLC
configurations that check them on small instances, and proofs that TLAPS checks
for every value of the constants. All paths below are relative to the root of the
repository (`src/`). `PROJECT.json` lists the runs, the theorems, the hazards each
property is for, and for every definition the lines it models.

Contents: 1 the system, 2 the modules, 3 the runs and their bounds, 4 fairness,
5 the proofs, 6 findings, 7 assumptions and abstractions, 8 what is not modelled,
9 the plan.

## 1. The system

### Components, their state and their operations

| Component | State | Operations |
|---|---|---|
| **EDPSRun**, the starter (`edpsrun/Main.frm`) | a program counter; references to the scheduler and the calculators | `Activate` (refresh LEIS, load SIS, start), `Deactivate` (stop), a timer that shows log messages |
| **SIS scheduler** (`SIS/Scheduler.cls`) | table `vSchedule` of formulas with `TimeLoop` and `Left2Run`; `bFirstRun`; a one-second timer | `AddSchedule`, timer event, `StartProcessing`, `StopProcessing`, log queue |
| **SIS calculator** (`SIS/Calculator.cls`) | `vFormulas`, operands, a named mutex, a 10 ms timer | `AddFormula`, timer event, `Calculate` (the interpreter), `StartProcessing`, `StopProcessing` |
| **request queue** `ToCalculate` (`SIS/QM.dll`, only a binary) | a queue of formula numbers | `qm_push`, `qm_pushex`, `qm_pop`, `qm_length`, `qm_drain` |
| **SIS parameters** (`SIS/FDPTR.cls`, `SIS/Declares.bas`) | name, address, value of a parameter, shared through the pool in `ds.dll` | setting `Value` writes the history through LEIS; `CombineToRead`, `SpreadResuts` make the request of a group and spread its result |
| **LEIS** (`LEIS/DB.cls`, `LEIS/LeisSer.cls`) | the Jet database file (history, parameters, formulas, operations), its compacted copy, the connection, `ConnPermission` | `WriteQueue`, `ReadQueue`, `MasterSQLDone`, `SlaveSQLDone`, `KillMasterSent`, `WriteSISInfo`, `GetSISInfo`, `AllowConnection`, `DenyConnection`, `Maintenance` |
| **SAPI** (`SAPI/*.cpp`) | tables of connections and sessions, reference counts | `SAPI_read`, `SAPI_write`, `SAPI_Shut`; per connection `Read` and `Write` over the S7 driver |
| **OpcS7** (`OpcS7/*.cpp`) | connections to two OPC servers, with the interfaces held, the shutdown sink and counts of references; groups by name; items with handle, flags, value, quality | `SAPI_Read`, `SAPI_Write`, `SAPI_MRead`, `SAPI_MWrite`, `SAPI_Shut`; the server's calls to the sink |
| **FDIS** (`FDIS/*.cls`) | request and result queues, a pool of parameters | the older access to DDE and SAPI; SIS no longer calls it |
| **EdpsUtils timer** (`edpsrun/EdpsUtils/EdpsTimer.cpp`) | a timer queue timer, `m_bEnabled`, the interval | `put_Enabled`, `put_Interval`, the callback |
| **DBIS, QR, HMI** | only named in `readme.md` | not in the repository |

### Interaction

* EDPSRun, SIS and LEIS are processes that call each other by COM. SIS and LEIS are
  ActiveX EXEs with one thread each. An incoming call or a timer event is a message:
  it enters when the thread dispatches messages, which it does when it is idle, in
  `DoEvents`, and while it waits for the reply of an out-of-process call. Handlers
  of one thread therefore *nest*; they never run in parallel.
* The scheduler puts formula numbers into `ToCalculate`; calculators take them out.
* A calculator reads and writes PLC items through OpcS7 (or SAPI) and stores values
  through LEIS, waiting for the reply each time.
* EDPSRun and a calculator share the mutex `MUTEX_<CalculatorID>`.
* Forwarders (QR and DBIS) read rows of the history that are not done, deliver them
  to the two servers and mark them.

### What is hard, and what makes each part correct

* **SIS**: events enter in the middle of other events. Correct: a formula that was
  requested is calculated once, in order, and not after the stop; autoexec formulas
  come first; all periodic formulas count the same ticks; a formula that cannot keep
  up does not fill the queue; stopping ends and does not lose what it waits for.
* **LEIS**: denial and maintenance enter each other in a `DoEvents`; statements fail;
  the process may die between any two steps, also between deleting the database file
  and replacing it. Correct: an accepted sample is stored until the master server has
  it; a download is written as a whole or not at all (but for a failed DELETE nobody
  looks at); the file is alone during a maintenance, which ends; what is held gets out.
* **SAPI sessions**: objects shared by reference counts, uninitialised members, a table
  that is shifted. Correct: nothing that is used is deleted; a caller gets the
  processor it has named; closing logs off.
* **S7 exchange**: time-outs race late answers, writes are repeated. Correct: success
  means the PLC has done it in this call, a value read is one it had during the call,
  and every call returns.
* **EdpsUtils timer**: callbacks on another thread than calls, calls of several threads
  without a lock, timers that cannot be created. Correct: the queue has the object's timer and no other, and none for an object
  that is disabled or gone.
* **OpcS7, items**: the server answers per item, in an order and with handles; what one
  call leaves in a group the next one uses. Correct: a write that reports success has
  written; a call changes only what it was asked to change.
* **Values**: a value goes from the PLC through an item, a result text, the pool and
  another formula back to the PLC, and on the way to the history; each step may fail
  for one parameter of a group. Correct: what is shared or queued for a parameter is what
  the PLC holds at the address of that parameter, or the text of an error.
* **OpcS7, connection**: while a call to the server is out, the server calls the shutdown
  sink, which has a reference count of its own and a pointer back to the connection; the
  process of the server may end at any time. Correct: references balance whatever could
  not be had; nothing deleted is used; both sides know the same groups.

## 2. The modules

| Module | Models | State and actions |
|---|---|---|
| `SisHost` | the thread of Sis.exe and qm.dll | `stack` is the handlers entered and not left; only the innermost executes. `queue` is `ToCalculate` |
| `SisScheduler` | `Scheduler.cls`, `SchedPTR.cls` | `SchedulerTimer`, then one action per turn of the two loops (`AutoexecRow`, `ScanRow`) and per wait (`AutoexecTaken` is the end of the `DoEvents` loop); `SchedulerStart`, `SchedulerStop` |
| `SisCalculator` | `Calculator.cls` | `CalculatorTimer` takes a request, `MutexWait`, then `Line`, `PlcReply`, `LeisReply` |
| `SisSystem` | all of it with EDPSRun | `Load`, `StartScheduler`, `Close`, `StopCalculator`, `WaitMutex`, `Slept`, `ReleaseCalculator`, `StopScheduler`, `CallFails` are the steps of `Activate` and `Deactivate` |
| `FormulaDispatch` | *abstract*: what the pipeline promises | `Request`, `Begin`, `End`, `Stop`, `Discard`, `Crash` |
| `SisRefinement` | the mapping of `SisSystem` to it | the line is the queue; a worker has a formula from the pop to the return of the event |
| `SisProofs`, `SisScheduleProofs` | the theorems about the pipeline and its refinement | see 5, as for the other modules of proofs: `LeisProofs`, `SapiSessionsProofs`, `S7ExchangeProofs`, `SisValuesProofs`, `OpcServerProofs`, `EdpsTimerProofs` |
| `LeisDb` | `DB.cls`, `LeisSer.cls` | one action per operation; `frames` is the nesting of denials and maintenances; a download is a transaction (`tran`), with one step per table and the commit (`BeginTran`, `WriteSISInfo`); `last` is history, the download that was committed last; a maintenance has the steps `Maintenance`, `MaintenanceCloses`, `Compact`, `Swap`, `Clean`; `Crash`, `Restart` |
| `LeisSystem` | LEIS with SIS, EDPSRun, an operator, forwarders | `Offer`, `Refresh`, `Load`, `Operator`, `Continue`, `Fetch`, `Deliver`, `Report`, `Forget` |
| `HistBuffer` | *abstract*: a buffer that loses nothing | `Accept`, `Confirm` |
| `SapiSessions` | tables of `SAPIlib.cpp`, `CConnection.cpp`, `CPSession.cpp` | a call on an existing connection, on a new connection of an existing session, on a new session, at the limit; `SAPI_Shut`. Addresses of the heap are explicit, so a deleted session can be replaced by another at its address |
| `SapiData` | `Convert2Flt` to `ConvertInt`, the types of `ReadData` and `WriteData` | pure operators: `ToPlc` is the buffer `WriteData` makes of a value, `FromPlc` the value `ReadData` makes of a buffer; `PlcValue` and `PlcBytes` are what the bytes mean to the PLC, `TypeRange` the values a variable of a type can have |
| `S7Exchange` | `CConnection::ReadData`, `WriteData`, `Read`, `Write` | `BeginCall`, `UnknownType`, `StartPoint`, one action per branch of the receive loop, `TenSeconds`, and the PLC's side |
| `OpcGroups` | the calls of `OpcS7.cpp`, groups and items | a call is one step (its caller is one thread): `FindOrAddItems`, `AddItems`, `InitReading` or `InitWriting`, `ReadItems` or `WriteItems` on one group, where each answer of the server is a choice. `AnswerOf` is the loop that gives the answers to the items: it passes through the items once and takes the next answer only when an item has its handle. `ListHash` is the hash in the name of a list's group |
| `SisValues` | the lines of a formula that use those calls, `Declares.bas`, the `Value` of `FDPTR.cls` | `pool` is what `ds.dll` holds; `READ`, `MREAD`, `SMREAD`, `WRITE`, `WriteGroup`, `SET` are one line each, with the call in it; `Queued` is what a line queues at LEIS |
| `OpcServer` | `OPCDAServer.cpp`, `OPCGroup.cpp`, `CObject.cpp`, connecting and `SAPI_Shut` | one step per call to the server, up to the next: `Call`, `CoCreateInstanceEx`, `FindConnectionPoint`, `Advise`, `AddGroup`, `GroupBuilt`, `GroupNotBuilt`, `CallEnds`, `SAPI_Shut`, `Unadvise`, `RemoveGroup`, `Disconnected`; the server: `ServerTakesSink`, `ServerReleasesSink`, `ShutdownRequest`, `ServerEnds` |
| `EdpsTimer` | `EdpsTimer.cpp` | one step per access of a call to a shared member and per call of the operating system: `ReadBefore`, `StoreEnabled`, `StoreInterval`, `ClampInterval`, `DeleteTimer`, `ForgetTimer`, `CreateTimer`; the callback; `FinalRelease` |
| `OpcListName` | `AddHash` and `GetListName` | pure operators; a DWORD is the set of its bits that are 1. The runs take `ListHash` of `OpcGroups` from it |

The `MC*` modules give the constants their values for TLC. A definition with the
comment "mutant" or "a bug" is not part of a model: it is the form the definition
above or below it would have with a plausible bug, and the property named in
`PROJECT.json` is violated with it.

`SisSystem` EXTENDS scheduler and calculator, which EXTEND `SisHost`, because they
share its thread and queue. `LeisSystem` EXTENDS `LeisDb`, `S7Exchange` EXTENDS `SapiData`,
`SisValues` EXTENDS `OpcGroups`: a line of a formula is composed with the call it makes.
SIS and LEIS meet at `WriteQueue`: `SisCalculator` has it as a call that is answered some
time (`LeisReply`), `LeisSystem` as the step `Offer`, `SisValues` as the sample that is
queued. The same holds for the PLC access: `PlcReply` in SIS, `OpcGroups` or `S7Exchange`
for what happens in it. `OpcServer` and `OpcGroups` model the same DLL from two sides: the
objects and who refers to them, with the calls of the server in between; and what the
items hold, with a call as one step.

## 3. The runs and their bounds

Runs that pass (number of distinct states):

| Run | Checks | Bounds, and why they are enough |
|---|---|---|
| `pipeline` (46,075) | safety and liveness of the pipeline, the refinement of `FormulaDispatch` | one calculator (the value `WorkThreads` has in `EDPS.ini`), two autoexec formulas and three periodic ones with loops 2, 1 and 4, using every kind of line. A loop of 1 asks for a formula at each tick, so the queue meets its duplicate rule and the calculator falls behind; loops of 2 and 4 go out of step as soon as one of them misses a tick, or counts one twice, that the other counts; two autoexec formulas make the `DoEvents` loop wait twice. Queue and stack are bounded by themselves |
| `pipeline_gap` (3,540) | that the shutdown ends also if Sis.exe dies before it or in the middle of it | two calculators, of which EDPSRun gives formulas to the first only, and a scheduled formula without operations between two that have some |
| `leis` (255,717) | denial, maintenance and downloads; nothing is hidden from the forwarders; `LeisSystem` implements `HistBuffer`; maintenance ends and the buffer drains | statements fail, also the DELETEs whose answer is not looked at, the file does not open, processes die, in every order, and between any two statements of a transaction; two samples, each of a parameter of its own (`ParOf`), two downloads that differ in all three parts; calls nest two deep (`MaxFrames`, which bounds denials, maintenances and the transaction they enter), which is enough for a maintenance in a denial, a denial in a maintenance and each in itself; `iQueLength` 1, so that a read does not return everything. No symmetry, because liveness is checked |
| `sapi_sessions` (30,134) | reference counts and tables | three processors, two connection names, a table of three connections and one of two sessions, so that both limits are met; three addresses, so that the heap gives an address again; both classes of what an uninitialised member may hold; counts up to 4 |
| `s7_exchange` (1,311,380) | results of reads and writes; calls return | a variable of each type, with two values that differ in sign and in every byte, so that an exchanged byte or a lost sign shows; the three attempts of the code. Each `s7_abort` that is not followed by `SAPI_Shut` may fail (`AbortMayFail`) and leaves what is under way to the next attempt or call; the driver holds `MaxQueue` = 2 requests and messages at most, one of before and one of the attempt |
| `opc_groups` (205,134) | results of reads and writes; a call changes only what it was asked to; what is shared and queued is what the PLC holds | two values, two addresses whose hashes are equal, which are read alone, written alone, or read and written as lists, and lists of one; every line of `SisValues`; one address and all lists have a data set (`Auto2LEIS`, `GroupAuto2LEIS`); two servers; every answer of the server, per item and for a whole call, also one that does not say whose it is; a handle nobody has assigned is 0 or 1, which is that of the first item. Groups share nothing but the PLC and the connection, and the PLC may change at any time, so the formulas (`Formulas`) are one of seven uses at a time, among them two lists to write, and a list to read and one to write, that have one name at the server |
| `opc_server` (45,712) | references, the sink after its owner, the groups of both sides | the names of the single reads, the single writes and one list; each of the five interfaces may be missing; a state that cannot be read does harm or none; the process of the server ends and its calls come at any time |
| `timer` (2,620,886) | the timer of the object and no other (`TimerMatches`); it fires again and again (`TimerFires`) | two threads, whose calls may overlap; intervals 5 and 50, the first of which becomes 10; creation may fail; a timer number is used again |

One fault is not in the passing run `leis`, nor in the theorem of that property: with `swap`
(the copy of the compacted file fails) samples are lost; that is the run `leis_swap`. With
`delete` (a DELETE fails) the new rows of that table join the old ones, because the answer is
not looked at (`LEIS/LeisSer.cls:56`, `:93`). The run has it, and `OneDownload` allows it for
the tables whose DELETE has failed since the last download that was committed (`last.kept`),
for no other table and with no new row missing.

Several properties have exceptions for what the code does get wrong. Each of those in
`PoolIsPlc`, `HistoryIsPlc`, `ConfirmedIsWritten` and `OnlyAskedWritten` is needed: without it
TLC finds the property violated in `opc_groups`.

Runs that are violated, as they should be, are the findings of 6.

Deadlock is checked in the runs of LEIS and of the items of OpcS7 (`opc_groups`), whose systems go on for
ever. It is not in that of the server's connection, where an exception that nobody handles
ends the process, in those of the pipeline, which ends when EDPSRun has closed or Sis.exe has died,
of SAPI, which ends at undefined behaviour or when the process has died, and of the
timer, whose object may be gone.

Every property of a run that passes has a mutant: a definition changed as a plausible
bug would change it, with which TLC finds the property violated in the same run.

## 4. Fairness

*Pipeline* (`SisSystem!Fairness`). The thread goes on with the handler it executes
(weak). A reply that is awaited is taken in the end although handlers that enter
suspend the waiting one now and then (strong). `WM_TIMER` is generated when nothing
else waits and stays due, so a timer that is enabled whenever the thread dispatches
fires in the end (strong). EDPSRun's calls are dispatched in the end (strong); the user
need not close the window. With 10 ms between calculator events and a formula that may
take longer than a second nothing is assumed of their relative speed.

*LEIS* (`LeisSystem!Fairness`). LEIS goes on at each depth of nesting: `DoEvents`
dispatches what waits and returns. A dead Leis.exe is started by the next COM call. The
forwarder of the master server tries again and is not refused for ever (`Fetch`): some sample of those it has fetched is
delivered (`Deliver`), and some delivered one is reported with success (`Report`), if that
is possible again and again; which one it is is not assumed. Crashes, lost answers and
failing statements stay possible at every step. Nothing is assumed of the operator and of SIS;
`Drains` is conditional on the connection being allowed again and again. `MaintenanceEnds`
asks for more than that the maintenance leaves its `DoEvents`: all calls of a maintenance have
returned and the connection is allowed, or LEIS has died.

*S7 exchange*. The thread runs and the clock advances, until the process dies, which
`CallReturns` names as the other outcome. Nothing is assumed of the PLC.

*Timer* (`EdpsTimer!Fairness`). The threads of calls run, a timer of the queue fires, and
the client handles `OnTimer`. That it calls the object is not assumed. `TimerFires` is about an
object that stays enabled with one interval, however often it is enabled again or given the
interval it has; that such a call leaves the timer alone is what it depends on.

## 5. The proofs

The theorems hold for every value of the constants that the named assumptions of the
modules allow: any tables, names, sizes, values and numbers of processes. Where a theorem
needs more, it says so in its ASSUME, and the table below in its last column. Each module
of proofs begins with the inductive invariant of its system as a conjunction of named
parts (`IInv`; `ScheduleInv` on top of it in `SisScheduleProofs`), proves that each part is
kept by one lemma (one step per action), and derives the theorems. TLC has found each of
these invariants to hold in the instances of 3 before it was proved.

| Module | Theorems | The properties they establish | Excluded |
|---|---|---|---|
| `SisProofs` | `Invariance`, `TypeCorrect`, `SleepExcludes`, `NoTimeOut`, `NoDuplicates`, `Quiet`, `NothingBegins`, `Refinement` | `TypeOK`, `SleepExcludesCalculation`, `NoRequestTimesOut`, `ImplementsDispatch`; `QueueNoDuplicates`, `QuietWhenDone` and `NothingBeginsAfterStop`, which no run checks besides | |
| `SisScheduleProofs` | `ScheduleInvariance`, `AutoexecBeforePeriodic`, `SameTicks` | `AutoexecFirst`, `OneTickCount` | |
| `LeisProofs` | `Invariance`, `TypeCorrect`, `DeniedCloses`, `AloneInMaintenance`, `NothingHidden`, `WholeDownload`, `BufferRefinement` | `TypeOK`, `DeniedIsClosed`, `MaintenanceAlone`, `Drainable`, `OneDownload`, `ImplementsHistBuffer` with `AcceptedIsStored` | the fault `swap` in `BufferRefinement` |
| `SapiSessionsProofs` | `Invariance`, `TypeCorrect`, `UsedLive`, `AskedUsed`, `UndefinedCause` | `TypeOK`, `UsedIsLive`, `AskedIsUsed`, `UndefinedNeedsLeak` | |
| `S7ExchangeProofs` | `Invariance`, `TypeCorrect`, `WrittenOnSuccess`, `CurrentOnSuccess`, `CrashCause` | `TypeOK`, `WriteReturnsWritten`, `ReadReturnsCurrent`, `CrashNeedsRefusal` | |
| `SisValuesProofs`, the calls | `CallsInvariance`, `CallsConfirmed`, `CallsOnlyAsked` | `ConfirmedIsWritten`, `OnlyAskedWritten` | |
| `SisValuesProofs`, the lines | `LinesInvariance`, `ValuesTyped`, `LinesConfirmed`, `LinesOnlyAsked`, `PoolTrue`, `HistoryTrue` | `ValuesTypeOK`, `ConfirmedIsWritten`, `OnlyAskedWritten`, `PoolIsPlc`, `HistoryIsPlc` | |
| `OpcServerProofs` | `Invariance`, `TypeCorrect`, `DeletedNotUsed`, `NothingLeaks`, `TablesTheSame` | `TypeOK`, `FreedNotUsed`, `ReferencesBalance`, `TablesAgree` | |
| `EdpsTimerProofs` | `Invariance`, `TypeCorrect`, `Matches` | `TypeOK`, `TimerMatches` | |

None of the properties is inductive. What the invariants add, and why:

* *Pipeline* (`SisProofs`). Handlers nest (each is entered at most once; one that is
  entered is on the stack; all but the innermost are where they dispatch messages), which
  is why a step of one handler leaves the others alone. A calculator owns its mutex
  exactly while it calculates and EDPSRun exactly while it sleeps. Once the calculators
  are stopped none waits for its mutex, because the stop entered while the thread
  dispatched messages, when no handler is at that point. The queue holds only formulas of
  the rows that have been passed, which is why the autoexec loop, which uses `qm_push` and
  not `qm_pushex`, makes no duplicates. The refinement has one lemma per process
  (`SchedulingImplements`, `CalculatingImplements`, `EdpsRunImplements`): most steps are
  stutters of the abstract specification.
* *Scheduler* (`SisScheduleProofs`). The first timer event is the first handler of the
  thread and stays below all others, so a calculator that has taken an autoexec formula has
  returned when the scan begins. For `OneTickCount` the invariant has any number of ticks,
  not one below the common period: that the countdowns repeat after `Cycle` ticks is a
  lemma of its own (`WithinCycle`), for which `Cycle` is shown to be a multiple of every
  period.
* *LEIS*. Only a call in `DoEvents` has another above it; an open connection is allowed and
  has a file; the copy that is about to replace the file equals it; the parameters SIS has
  loaded are in the database, so no row it offers is hidden; what a forwarder has fetched
  was accepted. Between two statements of a download nothing else changes the database, so what
  the transaction will commit has the history of the file and the parts of the download it has
  come to, each alone in its table unless the DELETE has failed (`TranInv`).
* *SAPI sessions*. The live sessions are as many as the table says and each is counted at
  least as often as connections use it, also halfway through the loop of `SAPI_Shut`
  (`DestroyOwned`), where the table may already name the wrong ones; if a deleted session
  is named in the table when that loop has ended, a session has leaked. The result of the
  loop is that of `LoopOfShut`.
* *S7 exchange*. All that is under way between a call and the PLC was asked for by this call,
  unless an `s7_abort` has failed before it began (`stale`); what comes late from an earlier
  attempt of the call answers the same call, with the same value. The length that is sent is that of the value until a confirmation of 0 bytes, which only a write that was
  executed gives, or the negative one of a refusal. That `FromPlc` undoes what the PLC
  does, and `ToPlc` is what it expects, is proved for every number of each type from the
  digits to the base 256 (`Digits`, `ShortDigits`, `SentBytes`, `BytesOfValue`).
* *Items and values* (`SisValuesProofs`). The items of a group have the
  identifiers its name gives (`NameInv`), but not always the addresses, for two lists may have one
  name: `Misplaced` and `Misdirected` say what that does. An item has the handle of its state:
  its own if the server knows it, none if it was refused, one nobody has assigned if it is
  new (`ItemInv`); new items are the last of a group; the items of the single reads are never
  chosen for a write; and an item that the server knows is left chosen only beside a refused
  one (`Rested`), the case the exception `LeftChosen` is for. Reading rests on
  `AnswerFits` and `AnswerOfItself`: an answer with the key of an item goes to that item, since
  keys differ, and one without stops the loop, so that the items behind it are still to be read
  (`Unread`). Writing needs more: the answers to a write have no key but the handles that were
  asked for, and a handle nobody has assigned may be that of another item (`SharesHandle`); where
  it is not, each value goes to its own item. One lemma per kind of call (`SingleRead`,
  `SingleWrite`, `ListRead`, `ListWrite`) says what it returns and what it does to the PLC
  (`ReadReturns`, `WriteDoes`), and one per line of a formula (`ReadLine` to `SetLine`) what
  becomes of that in the pool and in the queue of LEIS.
* *OPC server*. Which interfaces are held is a function of where the call stands; the
  count of the sink is the number of the three who may refer to it; a group is counted by
  the list and by the call that uses it; the interfaces an exception has left behind belong to
  groups of `halfBuilt`, which a group never leaves (`HalfBuiltStays`). From `NamesInv` follows
  which groups the server has.
* *Timer*. Threads may call as they like. As long as no two calls have been in the object at
  once (`overlapped` is history), all callers but one are idle, and until that one has stored its
  value the queue has the timer of the members, then that of the values the call has read before,
  until it is deleted. After an overlap only types are promised: a timer may start
  with an interval that is not yet raised to 10 ms, and two may be created (see 6).

Induction. The theorems of the library cannot be applied where they take an operator as a
parameter. What needs induction over numbers here (that the recursive functions of
`CycleOf`, `Shut`, `AnswerOf` and `FindOrAddItems` exist, that each period divides the cycle, that the loop of
`SAPI_Shut` and the loops over the items of a group keep their invariants) is proved by the least number that would be a
counterexample (`LeastNumber`), which exists because `<` is well-founded.

Only model-checked:

* All liveness: `QueuedIsCalculated`, `FirstEventEnds`, `DeactivateEnds`,
  `PeriodicRunsForever`, `MaintenanceEnds`, `Drains`, `CallReturns`, `TimerFires`. The prover
  has no rules for ENABLED.
* `OpcListName`, whose recursive functions compute a hash of which nothing general is
  claimed: that two lists get different names is false (`opc_name`). The theorems about items hold
  for any `ListHash`, also for one that gives two lists one name; the runs take the one of the code.
* That each exception in the properties of `opc_groups` is needed; the theorems only say that they
  are enough.

## 6. Findings

Each is a run in which TLC finds a statement of the repository violated.

* `leis_swap`: a maintenance deletes the database file before the copy is in place; if
  the copy fails, or LEIS dies then, what was accepted is gone at the next maintenance
  (`LEIS/DB.cls:102`).
* `sapi_shut`: a session stays logged on after `SAPI_Shut` because `SessStatus` was never
  set (`SAPI/CConnection.cpp:120`).
* `s7_late`: a confirmed write is reported as timed out (`SAPI/CConnection.cpp:337`).
* `opc_name`: two lists of items get one group name, and the second is written to the
  items of the first (`OpcS7/EdpsParams.cpp:38`).

Observations met while modelling, which no run records. The models contain the behaviour;
the properties are stated so that they allow it.

* A value offered while the connection is denied is dropped, and the calculator waits for
  the database's answer each time (`SIS/FDPTR.cls:239`).
* EDPSRun releases the calculator although it still calculates, when the calculation takes
  longer than 100 ms (`edpsrun/Main.frm:264`).
* `ReadData` returns a negative INTEGER with 65536 added (`SAPI/CConnection.cpp:423`);
  `StandsFor` in `ReadReturnsCurrent` allows it.
* A group read of exactly one parameter makes an empty request, which is refused
  (`SIS/Declares.bas:39`): such a formula always raises an error.
* A value that could not be written is stored in the history as the text of the error
  (`SIS/Calculator.cls:176`), and one that could not be read in a group is shared as that
  text, which a later `WRITE` turns into 0 (`atol`). `HistoryIsPlc` and `PoolIsPlc` name both; the
  formulas of `opc_groups` do not read a group and write one of its members, so the last is in
  the theorem only.
* A group that the server has made but whose interfaces or state could not be had keeps its
  name at the server, and every later call that needs that group is refused until the server
  ends (`OpcS7/OPCRelease/OPCGroup.cpp:12`, `:36`): the exception `halfBuilt` in `TablesAgree`.
  If it was the state that could not be read, the name it has not set is measured, converted and
  freed nevertheless (`OpcS7/OPCRelease/OPCGroup.cpp:69`). Where that raises an exception the
  constructor is left with the interfaces it has had, which nobody releases (`LeftBehind`, the
  exception in `ReferencesBalance`).
* When a DELETE of a download fails, the old formulas or operations stay beside the new ones, and
  the transaction is committed (`LEIS/LeisSer.cls:56`, `:93`): `last.kept` in `OneDownload`.
* The answers to a group read are given to the items in order, by their client handles. A server
  that gives no handle for an item it could not read (the OPC specification leaves it undefined)
  stops the loop there, and the items behind it keep the value of an earlier read, which is
  returned as if it were new (`OpcS7/OPCRelease/OPCItems.cpp:302`): the exception `Unread` in
  `PoolIsPlc` and `HistoryIsPlc`.
* The server handle of a new item is whatever the memory held
  (`OpcS7/OPCRelease/OPCItems.cpp:147`). If it is by chance the handle of another item of the
  group, the value is written to that item's address, and success returned: `SharesHandle` in
  `Misplaced` and `Misdirected`.
* The shutdown sink points to the `COpcServer` that made it. A server that keeps the sink, or
  was gone when `Unadvise` was called, may use or release it after `SAPI_Shut` has deleted
  that object (`OpcS7/OPCRelease/OPCDAServer.cpp:83`, `:97`): the exception in `FreedNotUsed`.
* `SAPI_MWrite` is the one call without an exception handler (`OpcS7/OpcS7.cpp:298`).
* Nothing notices that the process of the server has ended: the connection is used, and
  refused, until SIS is stopped (`OpcS7/OPCRelease/OPCDAServer.cpp:312`).
* Items of an `AddItems` call that was refused as a whole are used with a handle nobody has
  assigned (`OpcS7/OPCRelease/OPCGroup.cpp:112`). Such an item may stay chosen and be written
  by a later call that was not asked to, if an item that the server has refused, which has no
  handle either, takes its answer (`OpcS7/OPCRelease/OPCItems.cpp:392`); it is still chosen when
  a call for another item has added it (`OpcS7/EdpsParams.cpp:155`). Both are the exception
  `LeftChosen` in `OnlyAskedWritten`; the second takes three addresses, so only the theorem,
  and not the run `opc_groups`, meets it.
* A group write reports success although a member was not written (`OpcS7/OpcS7.cpp:308`).
* The second server is connected only while `bEmergency` is FALSE, which it never is when it
  is needed (`OpcS7/OpcS7.cpp:393`).
* The timer object is registered as free-threaded (`edpsrun/EdpsUtils/EdpsTimer.h:41`) and has
  no lock. Two calls at the same time may each create a timer, of which one is then nobody's and
  fires for an object that is disabled, or has been freed; a timer may also be started with an
  interval below 10 ms (`edpsrun/EdpsUtils/EdpsTimer.cpp:44`). The model has both; `TimerMatches` and the last
  part of `TypeOK` say what holds until calls have overlapped. Nothing in the
  repository makes calls of several threads; the documents do not rule them out either.
* An object whose timer could not be created stays enabled, and enabling it again does nothing
  (`edpsrun/EdpsUtils/EdpsTimer.cpp:47`): `failed` in `TimerMatches`.

## 7. Assumptions and abstractions

*Pipeline.* The interpreter's lines are kept by what they do to other components; the
values of operands are not, so each jump may or may not be taken and each line may raise
an error. The instances have no formula that jumps backwards: one that does so without a
call never gives the thread back, and nothing in the code bounds it. Whether a timer event
of the same form can enter while one of it is being handled is answered with no, as VB's
timer does. EDPSRun does not die between its calls. `qm_pushex` refuses a second entry:
its source is missing and this is what its object code does.

*LEIS.* ADO calls are synchronous and dispatch no messages (the code opens no asynchronous
connection), so `DoEvents` in `ConnPermission` is the one place where calls enter. A
statement has its effect or not; one of a download that fails, but for the DELETEs, rolls the
transaction back. The forwarders are modelled from the calls LEIS offers;
their code is not in the repository.

*S7.* An `s7_abort` that succeeds discards what is pending on the connection; one that fails
leaves all of it, and what comes of it is taken for an answer of the next attempt, because order
identifiers are not compared. Within one call the properties hold all the same. A call that begins
after one has failed is exempt (`stale`): it may take the confirmation of an earlier call for its
own. After a negative return SAPI closes the connection (`SAPI_Shut`), which is assumed to discard
what is under way. One connection. What a number's text is to `atol` and back is the number; a FLOAT is
the four bytes of its pattern, and its text with 12 digits stands for it; a `STRING*n` is
given with its n characters (`Write` copies n bytes whatever the text's length).

*OpcS7.* Of an item that could be read or not the server may say whose its answer is, or not; it
answers in the order of the request. A handle nobody has assigned is any integer in the theorems
(`JunkHandles`), 0 or 1 in the run. The handle the server gives an item is modelled as the item's
own number; items of one list have distinct identifiers and addresses, and two lists may have one
name. A value is a value model: that a text keeps 8 digits and a result is converted by its type
(`OpcS7/EdpsParams.cpp:273-281`) is not modelled, nor the size of the buffer for the identifiers in
a name (`OpcS7/EdpsParams.cpp:52`, ten characters for each). Errors of type conversion in a
write are part of what the server may refuse. Of a server's conduct `OpcServer` assumes that
it has no two groups of one name, that an `Unadvise` it answers with S_OK has released the
sink, and that it takes a reference to the sink only while it serves `Advise`.

*Values.* The text of a number stands for the number, a text of `<length><text>` parts for
the sequence of its parts, and a parameter is named by its address. `WriteGroup` writes
any values: the text it takes them from is an operand like any other.

*Timer.* A step is one access to a shared member or one call of the operating system. No call
is in the object when its last reference is released. The condition of an `if` and the call in it are one step. The hits are not counted.

## 8. What is not modelled

* `RunID` and `PoolString` (texts only), the conversions by `convert.dll` (a binary), the
  arithmetic and comparisons of the interpreter: no other component can tell what they
  compute. The lengths in the texts of requests.
* The log queue `Messages` and the log view of EDPSRun.
* FDIS: SIS no longer calls it (its use is commented out in `SIS/Scheduler.cls:86-99`). The
  calls it makes of OpcS7.dll are those of `OpcGroups`; `SAPI_Shut` only FDIS calls.
* Of OpcS7: `UploadGroups`, removal of a group or an item by name, `SetStatus`, `GetStatus`,
  the language of the server and `CombineToWrite` in SIS, which nothing calls; reading of
  EDPS.ini, log files and the enumeration of OPC servers, which are input and output.
* `EventDispatch.cpp` and `EnumOpcServers.cpp`, which no project file compiles.
* About 17,000 of the 22,700 lines of source outside forms are interface definitions of the
  OPC foundation and of Siemens, and stubs generated from them (`OpcS7/Interfaces`,
  `SAPI/SAPI_S7.H`): they have no behaviour. What the modules map is a large part of the rest.
* Test programs, DBIS, QR and the HMI (not in the repository).

## 9. The plan

Order of work, the most important behaviour first:

1. The SIS pipeline: `SisHost`, `SisScheduler`, `SisCalculator`, `SisSystem`; its abstract
   specification `FormulaDispatch`; the invariant and the refinement proved. *Done.*
2. LEIS: `LeisDb`, `LeisSystem`, abstract specification `HistBuffer`. *Done, checked and proved.*
3. SAPI: `SapiSessions`, `SapiData`, `S7Exchange`. *Done, checked and proved.*
4. OpcS7: `OpcGroups`, `OpcListName`; the connection to the server, `OpcServer`. *Done, checked
   and proved.*
5. The timer: `EdpsTimer`. *Done, checked and proved for calls of any
   threads, until two overlap.*
6. The values of parameters from the PLC to the pool and the history: `SisValues`.
   *Done, checked and proved.*
7. Proofs of the safety of all that is named above. *Done* (see 5). What remains with TLC is
   liveness and the hash of the names.
