-------------------------------- MODULE LeisDb --------------------------------
(***************************************************************************)
(* LEIS, the local engine: class DB (LEIS/DB.cls), which owns the one      *)
(* connection to the Jet database file, and the operations of class LEISer *)
(* (LEIS/LeisSer.cls) on it.                                               *)
(*                                                                         *)
(* Leis.exe is an ActiveX EXE with one thread (leis.vbp), and a statement  *)
(* runs to its end without dispatching messages.  The one place where      *)
(* another call can enter is the DoEvents before ConnPermission = False    *)
(* closes the connection; `frames' holds the calls that have been entered  *)
(* and not returned, innermost last.                                       *)
(***************************************************************************)
EXTENDS Naturals, Sequences, FiniteSets

CONSTANTS
  Samples,       \* the samples that may be offered; their number is Hist_ID
  Params,        \* the values of PhysPar_ID
  Downloads,     \* what the master server may send: records [params, formulas,
                 \* operations], the latter two sets of rows
  iQueLength,    \* EDPS.ini, section LEIS, key QueueLength
  Faults,        \* the failures that may happen, a subset of FaultKinds
  MaxFrames      \* bound on the nesting of calls

\* A statement or a file operation fails and has no effect, a DELETE of
\* WriteSISInfo fails, the file cannot be opened, a process dies, and the one
\* that loses data: the process dies, or the copy fails, after the database
\* file has been deleted and before its copy is in place.
FaultKinds == {"sql", "delete", "open", "crash", "swap"}

ASSUME LeisAssumption ==
  /\ Downloads \subseteq [params : SUBSET Params, formulas : SUBSET Nat, operations : SUBSET Nat]
  /\ iQueLength \in Nat \ {0}
  /\ Faults \subseteq FaultKinds
  /\ MaxFrames \in Nat

VARIABLES
  up,            \* Leis.exe runs
  file, bak,     \* the database file and its compacted copy: << >> if there is
                 \* none, or the sequence of its one content
  bConnStatus,   \* the connection is open
  bConnPermission,
  frames,        \* the calls in progress: "deny" and "maintain" (in DoEvents),
                 \* "compact", "swap", "clean" (the later steps of Maintenance),
                 \* "parameters", "formulas", "operations" (the tables
                 \* WriteSISInfo writes next)
  tran,          \* the open transaction, << >> or << a Tran >>
  last           \* history: the download that was committed last, and the tables
                 \* in which it has left rows of before

dbVars == <<up, file, bak, bConnStatus, bConnPermission, frames, tran, last>>

\* A row of tblHistData, and the content of the database.
Row     == [id : Samples, par : Params, MasterDone : BOOLEAN, SlaveDone : BOOLEAN]
Content == [hist : SUBSET Row, params : SUBSET Params, formulas : SUBSET Nat,
            operations : SUBSET Nat]

\* A transaction of WriteSISInfo: the content it will commit, the download,
\* and the tables in which rows of before are left.
Tables == {"formulas", "operations"}
Tran   == [db : Content, of : Downloads, kept : SUBSET Tables]

Frame == IF frames = << >> THEN "none" ELSE frames[Len(frames)]

\* A call can enter.
Accepting == up /\ Frame \in {"none", "deny", "maintain"}

Push(f)    == frames' = Append(frames, f)
Goto(f)    == frames' = [frames EXCEPT ![Len(frames)] = f]
PopFrame   == frames' = SubSeq(frames, 1, Len(frames) - 1)

Db        == file[1]
Update(d) == file' = << d >>

\* A database that holds one download and no history.
FirstContent(v) ==
  [hist |-> {}, params |-> v.params, formulas |-> v.formulas, operations |-> v.operations]

DbInit(v) ==
  /\ up = TRUE
  /\ file = << FirstContent(v) >>
  /\ bak = << >>
  /\ bConnStatus = TRUE
  /\ bConnPermission = TRUE
  /\ frames = << >>
  /\ tran = << >>
  /\ last = [of |-> v, kept |-> {}]

-----------------------------------------------------------------------------
\* Mutant of SQLExecute: the permission is not asked for.
SQLExecuteUnasked(answer) ==
  /\ file # << >>
  /\ answer = ""
  /\ bConnStatus' = TRUE

\* SQLExecute: how a statement is answered, and what becomes of the connection.
\* An answer of more than "" is a text; only that of a failed statement starts
\* with "Error:".
SQLExecute(answer) ==
  \/ /\ ~bConnPermission
     /\ answer = "prohibited"
     /\ UNCHANGED bConnStatus
  \/ /\ bConnPermission
     /\ ~bConnStatus
     /\ file = << >> \/ "open" \in Faults
     /\ answer = "broken"
     /\ UNCHANGED bConnStatus
  \/ /\ bConnPermission
     /\ file # << >>
     /\ answer = "" \/ (answer = "Error:" /\ "sql" \in Faults)
     /\ bConnStatus' = TRUE

Answers == {"", "prohibited", "broken", "Error:"}

\* A statement that changes the content to d is executed.
Statement(answer, d) ==
  /\ SQLExecute(answer)
  /\ IF answer = "" THEN Update(d) ELSE UNCHANGED file
  /\ UNCHANGED <<up, bak, bConnPermission, frames, tran, last>>

-----------------------------------------------------------------------------
\* WriteQueue: INSERT INTO tblHistData.
NewRow(s, p) == [id |-> s, par |-> p, MasterDone |-> FALSE, SlaveDone |-> FALSE]

WriteQueue(s, p, answer) ==
  /\ Accepting
  /\ Statement(answer, [Db EXCEPT !.hist = @ \cup {NewRow(s, p)}])

\* ReadQueue("MASTER" or "SLAVE"): any iQueLength of the rows that are not done
\* and whose parameter is in tblPhysPar.
UndoneOther(server) ==  \* mutant: the column of the other server
  {r \in Db.hist : /\ r.par \in Db.params
                   /\ IF server = "MASTER" THEN ~r.SlaveDone ELSE ~r.MasterDone}

Undone(server) ==
  {r \in Db.hist : /\ r.par \in Db.params
                   /\ IF server = "MASTER" THEN ~r.MasterDone ELSE ~r.SlaveDone}

TopOf(S) ==
  {T \in SUBSET S : Cardinality(T) = iQueLength \/ (T = S /\ Cardinality(S) < iQueLength)}

ReadQueue(server, rows) ==
  /\ Accepting
  /\ \E answer \in Answers :
       /\ SQLExecute(answer)
       /\ IF answer = "" THEN rows \in TopOf(Undone(server)) ELSE rows = {}
  /\ UNCHANGED <<up, file, bak, bConnPermission, frames, tran, last>>

\* MasterSQLDone and SlaveSQLDone: UPDATE tblHistData.
Done(r, server) ==
  IF server = "MASTER" THEN [r EXCEPT !.MasterDone = TRUE] ELSE [r EXCEPT !.SlaveDone = TRUE]

SQLDoneInserts(s, server, answer) ==  \* mutant: the old row stays
  /\ Accepting
  /\ Statement(answer,
       [Db EXCEPT !.hist = @ \cup {Done(r, server) : r \in {q \in @ : q.id = s}}])

SQLDone(s, server, answer) ==
  /\ Accepting
  /\ Statement(answer,
       [Db EXCEPT !.hist = {IF r.id = s THEN Done(r, server) ELSE r : r \in @}])

-----------------------------------------------------------------------------
\* BeginTran with download v: it needs an open connection, and WriteSISInfo
\* returns False without one.
BeginTran(v) ==
  /\ Accepting
  /\ Len(frames) < MaxFrames
  /\ \/ /\ bConnStatus
        /\ tran' = << [db |-> Db, of |-> v, kept |-> {}] >>
        /\ Push("parameters")
     \/ /\ ~bConnStatus \/ "sql" \in Faults
        /\ UNCHANGED <<tran, frames>>
  /\ UNCHANGED <<up, file, bak, bConnStatus, bConnPermission, last>>

CommitTran(t) ==
  /\ Update(t.db)
  /\ last' = [of |-> t.of, kept |-> t.kept]
  /\ tran' = << >>
  /\ PopFrame

\* Mutant of RollbackTran: what was written stays.
RollbackNothing == CommitTran(tran[1])

RollbackTran == tran' = << >> /\ PopFrame /\ UNCHANGED <<file, last>>

\* Mutant of WriteParameters: the parameters are replaced.
WriteParametersAnew(t) == {[t EXCEPT !.db.params = t.of.params]}

\* WriteParameters updates and inserts, it never deletes.
WriteParameters(t) == {[t EXCEPT !.db.params = @ \cup t.of.params]}

\* WriteFormulas and WriteOperations do not look at the answer to their DELETE:
\* when it fails, the new rows join the old ones.
Deleted(rows) == {{}} \cup (IF "delete" \in Faults THEN {rows} ELSE {})

Kept(t, table, left, rows) == IF left \subseteq rows THEN t.kept ELSE t.kept \cup {table}

WriteFormulas(t) ==
  {[t EXCEPT !.db.formulas = left \cup t.of.formulas,
             !.kept = Kept(t, "formulas", left, t.of.formulas)] : left \in Deleted(t.db.formulas)}

WriteOperations(t) ==
  {[t EXCEPT !.db.operations = left \cup t.of.operations,
             !.kept = Kept(t, "operations", left, t.of.operations)] :
     left \in Deleted(t.db.operations)}

\* WriteSISInfo goes on to the next table; after the last one it commits.  An
\* INSERT or an UPDATE that fails rolls the transaction back.
Write(step, written, next) ==
  /\ Frame = step
  /\ \E t \in written : tran' = << t >>
  /\ Goto(next)
  /\ UNCHANGED <<file, last>>

WriteSISInfo ==
  /\ up
  /\ \/ Write("parameters", WriteParameters(tran[1]), "formulas")
     \/ Write("formulas", WriteFormulas(tran[1]), "operations")
     \/ Frame = "operations" /\ \E t \in WriteOperations(tran[1]) : CommitTran(t)
     \/ Frame \in {"parameters", "formulas", "operations"} /\ "sql" \in Faults /\ RollbackTran
  /\ UNCHANGED <<up, bak, bConnStatus, bConnPermission>>

-----------------------------------------------------------------------------
\* ConnPermission = True.
AllowConnection ==
  /\ Accepting
  /\ bConnPermission' = TRUE
  /\ UNCHANGED <<up, file, bak, bConnStatus, frames, tran, last>>

\* ConnPermission = False: at once if the connection is not open, otherwise
\* after a DoEvents.  (Its wait for a pending statement never waits: the thread
\* has none.)
DenyConnection ==
  /\ Accepting
  /\ Len(frames) < MaxFrames
  /\ IF bConnStatus
       THEN Push("deny") /\ UNCHANGED bConnPermission
       ELSE bConnPermission' = FALSE /\ UNCHANGED frames
  /\ UNCHANGED <<up, file, bak, bConnStatus, tran, last>>

\* Mutant: nothing but the permission is taken back after the DoEvents.
LeaveConnection ==
  /\ bConnPermission' = FALSE
  /\ UNCHANGED bConnStatus

CloseConnection ==
  /\ bConnStatus' = FALSE
  /\ bConnPermission' = FALSE

DenyCloses ==
  /\ up
  /\ Frame = "deny"
  /\ CloseConnection
  /\ PopFrame
  /\ UNCHANGED <<up, file, bak, tran, last>>

KillMasterSent(hist) == {r \in hist : ~r.MasterDone}

\* Maintenance: KillMasterSent, whatever is answered, then MantainDatabase.
Maintenance ==
  /\ Accepting
  /\ Len(frames) < MaxFrames
  /\ \E answer \in Answers :
       /\ SQLExecute(answer)
       /\ IF answer = ""
            THEN Update([Db EXCEPT !.hist = KillMasterSent(@)])
            ELSE UNCHANGED file
  /\ IF bConnStatus'
       THEN Push("maintain") /\ UNCHANGED bConnPermission
       ELSE Push("compact") /\ bConnPermission' = FALSE
  /\ UNCHANGED <<up, bak, tran, last>>

MaintenanceCloses ==
  /\ up
  /\ Frame = "maintain"
  /\ CloseConnection
  /\ Goto("compact")
  /\ UNCHANGED <<up, file, bak, tran, last>>

\* Mutant of MExit: the connection stays prohibited.
MExitDenied == PopFrame /\ UNCHANGED bConnPermission

\* MExit: the connection is allowed again.
MExit == bConnPermission' = TRUE /\ PopFrame

\* The old copy is deleted, then CompactDatabase makes a new one.
Compact ==
  /\ up
  /\ Frame = "compact"
  /\ \/ file # << >> /\ bak' = file /\ Goto("swap") /\ UNCHANGED bConnPermission
     \/ /\ file = << >> \/ "sql" \in Faults
        /\ bak' \in {<< >>} \cup (IF "sql" \in Faults THEN {bak} ELSE {})
        /\ MExit
  /\ UNCHANGED <<up, file, bConnStatus, tran, last>>

\* Mutant of Swap: the copy is moved away before it is checked that it exists.
SwapWithoutCopy ==
  /\ up
  /\ Frame = "swap"
  /\ file' = << >>
  /\ bak' = << >>
  /\ Goto("clean")
  /\ UNCHANGED <<up, bConnStatus, bConnPermission, tran, last>>

\* The database file is deleted and the copy takes its place.
Swap ==
  /\ up
  /\ Frame = "swap"
  /\ \/ file' = bak /\ Goto("clean") /\ UNCHANGED bConnPermission
     \/ "sql" \in Faults /\ UNCHANGED file /\ MExit
     \/ "swap" \in Faults /\ file' = << >> /\ MExit
  /\ UNCHANGED <<up, bak, bConnStatus, tran, last>>

Clean ==
  /\ up
  /\ Frame = "clean"
  /\ bak' = << >> \/ ("sql" \in Faults /\ UNCHANGED bak)
  /\ MExit
  /\ UNCHANGED <<up, file, bConnStatus, tran, last>>

MaintenanceStep == MaintenanceCloses \/ Compact \/ Swap \/ Clean

-----------------------------------------------------------------------------
\* The process dies; a statement takes effect or does not, and a transaction that
\* was not committed does not.
Crash ==
  /\ up
  /\ \/ "crash" \in Faults /\ UNCHANGED file
     \/ "swap" \in Faults /\ Frame = "swap" /\ file' = << >>
  /\ up' = FALSE
  /\ frames' = << >>
  /\ bConnStatus' = FALSE
  /\ tran' = << >>
  /\ UNCHANGED <<bak, bConnPermission, last>>

\* The next call starts it again: Class_Initialize of class DB.
Restart ==
  /\ ~up
  /\ up' = TRUE
  /\ bConnPermission' = TRUE
  /\ \/ bConnStatus' = (file # << >>)
     \/ "open" \in Faults /\ bConnStatus' = FALSE
  /\ UNCHANGED <<file, bak, frames, tran, last>>
=============================================================================
