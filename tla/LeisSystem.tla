------------------------------ MODULE LeisSystem ------------------------------
(***************************************************************************)
(* LEIS and the processes that call it: SIS, which offers each sample of a *)
(* historical parameter once and does not look at the answer               *)
(* (SIS/FDPTR.cls), the starter EDPSRun, which replaces formulas and       *)
(* parameters (edpsrun/Main.frm), an operator who denies and allows the    *)
(* connection or starts the maintenance, and, outside this repository, one *)
(* forwarder per server, which reads the rows that are not done, delivers  *)
(* them and reports each one done.                                         *)
(***************************************************************************)
EXTENDS LeisDb

CONSTANTS
  Servers,       \* the servers that have a forwarder
  ParOf          \* by sample: its parameter

Master == "MASTER"

ASSUME SystemAssumption ==
  /\ Master \in Servers /\ Servers \subseteq {Master, "SLAVE"}
  /\ ParOf \in [Samples -> Params]

VARIABLES
  known,         \* the parameters SIS has loaded
  accepted,      \* the samples SIS has handed to WriteQueue that were answered
                 \* with "": the others are gone, and have no Hist_ID
  inFlight,      \* by server: the samples its forwarder has read and not reported
  delivered,     \* by server: the samples the server has
  acked          \* by server: the samples whose row has been marked done

callerVars == <<known, accepted, inFlight, delivered, acked>>
vars == <<dbVars, callerVars>>

Init ==
  /\ \E v \in Downloads : DbInit(v)
  /\ known = {}
  /\ accepted = {}
  /\ inFlight = [k \in Servers |-> {}]
  /\ delivered = [k \in Servers |-> {}]
  /\ acked = [k \in Servers |-> {}]

-----------------------------------------------------------------------------
\* SIS stores a value of a historical parameter.
Offer(s) ==
  /\ s \notin accepted
  /\ ParOf[s] \in known
  /\ \E answer \in Answers :
       /\ WriteQueue(s, ParOf[s], answer)
       /\ accepted' = IF answer = "" THEN accepted \cup {s} ELSE accepted
  /\ UNCHANGED <<known, inFlight, delivered, acked>>

\* EDPSRun starts, SIS with it, and begins to write what it has got from the
\* master server.
Refresh(v) ==
  /\ BeginTran(v)
  /\ known' = {}
  /\ UNCHANGED <<accepted, inFlight, delivered, acked>>

\* EDPSRun, after it has written or when the master server is not there, loads
\* SIS with the parameters that are in the database; if a read is refused SIS
\* has none and is not started.
Load ==
  /\ Accepting
  /\ \E answer \in Answers :
       /\ SQLExecute(answer)
       /\ known' = IF answer = "" THEN Db.params ELSE {}
  /\ UNCHANGED <<up, file, bak, bConnPermission, frames, tran, last>>
  /\ UNCHANGED <<accepted, inFlight, delivered, acked>>

\* The operator.
Operator ==
  /\ AllowConnection \/ DenyConnection \/ Maintenance
  /\ UNCHANGED callerVars

\* LEIS goes on with what the operator or EDPSRun has started.
Continue ==
  /\ DenyCloses \/ MaintenanceStep \/ WriteSISInfo
  /\ UNCHANGED callerVars

\* A forwarder.
Ids(rows) == {r.id : r \in rows}

ReadableRows == IF file = << >> THEN {} ELSE Db.hist

Fetch(k) ==
  /\ inFlight[k] = {}
  /\ \E rows \in SUBSET ReadableRows : /\ ReadQueue(k, rows)
                              /\ inFlight' = [inFlight EXCEPT ![k] = Ids(rows)]
  /\ UNCHANGED <<known, accepted, delivered, acked>>

Deliver(k, s) ==
  /\ s \in inFlight[k] \ delivered[k]
  /\ delivered' = [delivered EXCEPT ![k] = @ \cup {s}]
  /\ UNCHANGED <<dbVars, known, accepted, inFlight, acked>>

\* The report is repeated until it is answered with ""; an answer may be lost.
Report(k, s) ==
  /\ s \in inFlight[k] \cap delivered[k]
  /\ \E answer \in Answers :
       /\ SQLDone(s, k, answer)
       /\ IF answer = ""
            THEN /\ acked' = [acked EXCEPT ![k] = @ \cup {s}]
                 /\ \/ inFlight' = [inFlight EXCEPT ![k] = @ \ {s}]
                    \/ "crash" \in Faults /\ UNCHANGED inFlight
            ELSE UNCHANGED <<acked, inFlight>>
  /\ UNCHANGED <<known, accepted, delivered>>

\* A forwarder dies and starts anew.
Forget(k) ==
  /\ "crash" \in Faults
  /\ inFlight[k] # {}
  /\ inFlight' = [inFlight EXCEPT ![k] = {}]
  /\ UNCHANGED <<dbVars, known, accepted, delivered, acked>>

Next ==
  \/ \E s \in Samples : Offer(s)
  \/ \E v \in Downloads : Refresh(v)
  \/ Load
  \/ Operator
  \/ Continue
  \/ \E k \in Servers : Fetch(k) \/ Forget(k)
  \/ \E k \in Servers, s \in Samples : Deliver(k, s) \/ Report(k, s)
  \/ (Crash \/ Restart) /\ UNCHANGED callerVars

Spec == Init /\ [][Next]_vars

(***************************************************************************)
(* Fairness.  LEIS goes on with a call at each depth of nesting, strongly  *)
(* because it may sit in DoEvents, which dispatches the messages that wait *)
(* and returns, whatever they start.  It is started again by the next      *)
(* call.  The forwarder of the master server goes on: again and again one  *)
(* of its calls is not refused, and it does not always die before it has   *)
(* delivered.  Nothing is assumed of the operator and of SIS.              *)
(***************************************************************************)
Fairness ==
  /\ \A n \in 1 .. MaxFrames : SF_vars(Continue /\ Len(frames) = n)
  /\ WF_vars(Restart /\ UNCHANGED callerVars)
  /\ SF_vars(Fetch(Master) /\ inFlight' # inFlight)
  /\ SF_vars(\E s \in Samples : Deliver(Master, s))
  /\ SF_vars(\E s \in Samples : Report(Master, s) /\ inFlight' # inFlight)

LiveSpec == Spec /\ Fairness

-----------------------------------------------------------------------------
\* The rows that wait for the master server.  Between the deletion of the
\* database file and the end of the copy they are in the compacted one.
Stored == IF file # << >> THEN file[1].hist ELSE IF bak # << >> THEN bak[1].hist ELSE {}
Held   == Ids({r \in Stored : ~r.MasterDone})

\* Every variable has its type, an ID names one row of the history, and a
\* process that is down has no call and no connection.
TypeOK ==
  /\ up \in BOOLEAN /\ bConnStatus \in BOOLEAN /\ bConnPermission \in BOOLEAN
  /\ \A f \in {file, bak} :
       f # << >> => /\ Len(f) = 1 /\ f[1] \in Content
                    /\ \A r, q \in f[1].hist : r.id = q.id => r = q
  /\ Len(frames) \in 0 .. MaxFrames
  /\ \A i \in 1 .. Len(frames) :
       frames[i] \in {"deny", "maintain", "compact", "swap", "clean",
                     "parameters", "formulas", "operations"}
  /\ tran = << >> \/ (Len(tran) = 1 /\ tran[1] \in Tran)
  /\ last \in [of : Downloads, kept : SUBSET Tables]
  /\ ~up => frames = << >> /\ ~bConnStatus
  /\ known \subseteq Params
  /\ accepted \subseteq Samples
  /\ \A k \in Servers : /\ inFlight[k] \subseteq accepted /\ delivered[k] \subseteq accepted
                        /\ acked[k] \subseteq delivered[k]

\* While the connection is denied it is closed: no statement that entered in
\* the DoEvents of a denial has left it open (DB.cls, ConnPermission).
DeniedIsClosed == ~bConnPermission => ~bConnStatus

\* While the database is compacted and replaced nobody has it open, and nobody
\* is allowed to open it, however denials and maintenances were nested.
MaintenanceAlone ==
  Frame \in {"compact", "swap", "clean"} => ~bConnStatus /\ ~bConnPermission

\* A row is never hidden from the forwarders: ReadQueue joins the history with
\* the parameters, and a download takes no parameter away.
Drainable == file # << >> => \A r \in file[1].hist : r.par \in file[1].params

\* The database holds the download that was committed last, all of it and, except
\* in a table whose DELETE has failed, nothing else: one that fails or is cut off
\* by a crash at any of its statements leaves no trace (LeisSer.cls,
\* WriteSISInfo).
Holds(d, v, kept) ==
  /\ v.params \subseteq d.params
  /\ v.formulas \subseteq d.formulas /\ ("formulas" \notin kept => d.formulas = v.formulas)
  /\ v.operations \subseteq d.operations
  /\ "operations" \notin kept => d.operations = v.operations

OneDownload == file # << >> => Holds(file[1], last.of, last.kept)

\* No sample is lost between the answer of WriteQueue and the report of the
\* forwarder: the local buffer is a HistBuffer.
Buffer == INSTANCE HistBuffer WITH Sample <- Samples, held <- Held, confirmed <- acked[Master]

ImplementsHistBuffer == Buffer!BufferSpec

\* The same as a state predicate: a sample that LEIS has accepted is stored
\* until the master server has it.
AcceptedIsStored == \A s \in accepted : s \in Held \/ s \in acked[Master]

\* Maintenances come to their end, whatever enters while they are in DoEvents:
\* their calls return and leave the connection allowed, or LEIS dies (DB.cls,
\* MantainDatabase).
InMaintenance(f) == f \in {"maintain", "compact", "swap", "clean"}

Maintaining == \E i \in 1 .. Len(frames) : InMaintenance(frames[i])

MaintenanceEnds == Maintaining ~> (~Maintaining /\ bConnPermission) \/ ~up

\* Unless the operator denies the connection for good, no sample is held for ever:
\* it gets to the master server and is reported, the only way out of the buffer.
Drains == []<>bConnPermission => \A s \in Samples : []<>(s \notin Held)
=============================================================================
