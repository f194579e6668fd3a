------------------------------ MODULE LeisProofs ------------------------------
(***************************************************************************)
(* Proofs about LEIS and its callers, for any samples, parameters,         *)
(* downloads and depth of nesting, with every fault but those a theorem    *)
(* excludes by name.                                                       *)
(***************************************************************************)
EXTENDS LeisSystem, TLAPS

WriteFrames == {"parameters", "formulas", "operations"}
FrameKinds  == {"deny", "maintain", "compact", "swap", "clean"} \cup WriteFrames

\* Only a call that is in DoEvents has another one above it, and a process that
\* is down has none.
FramesInv ==
  /\ frames \in Seq(FrameKinds) /\ Len(frames) <= MaxFrames
  /\ \A i \in 1 .. Len(frames) - 1 : frames[i] \in {"deny", "maintain"}
  /\ ~up => frames = << >> /\ ~bConnStatus

\* An open connection has a file and is allowed.
ConnInv ==
  /\ up \in BOOLEAN /\ bConnStatus \in BOOLEAN /\ bConnPermission \in BOOLEAN
  /\ DeniedIsClosed
  /\ MaintenanceAlone
  /\ bConnStatus => file # << >>

\* A content of the database whose rows are samples of ids, each once, and of
\* parameters the database has.
Sound(d, ids) ==
  /\ d \in Content
  /\ \A r, q \in d.hist : r.id = q.id => r = q
  /\ \A r \in d.hist : r.id \in ids /\ r.par \in d.params

\* The copy that is about to replace the database file is equal to it, and the
\* parameters SIS has loaded are in the database.
FileInv ==
  /\ \A f \in {file, bak} : f # << >> => f = << f[1] >> /\ Sound(f[1], accepted)
  /\ Frame = "swap" => bak = file /\ file # << >>
  /\ file # << >> => known \subseteq file[1].params

\* While WriteSISInfo goes on nothing else changes the database, so what it will
\* commit has the history and the parameters of the file, and the parts of the
\* download it has written.
Started(t) ==
  /\ t \in Tran /\ Sound(t.db, accepted)
  /\ t.db.hist = file[1].hist /\ file[1].params \subseteq t.db.params

ParametersIn(t) == t.of.params \subseteq t.db.params
FormulasIn(t) ==
  /\ t.of.formulas \subseteq t.db.formulas
  /\ "formulas" \notin t.kept => t.db.formulas = t.of.formulas
OperationsIn(t) ==
  /\ t.of.operations \subseteq t.db.operations
  /\ "operations" \notin t.kept => t.db.operations = t.of.operations

TranInv ==
  /\ last \in [of : Downloads, kept : SUBSET Tables]
  /\ Frame \notin WriteFrames => tran = << >>
  /\ Frame \in WriteFrames => tran = << tran[1] >> /\ file # << >> /\ Started(tran[1])
  /\ Frame \in WriteFrames => "operations" \notin tran[1].kept
  /\ Frame \in {"formulas", "operations"} => ParametersIn(tran[1])
  /\ Frame \in {"parameters", "formulas"} => tran[1].kept = {}
  /\ Frame = "operations" => FormulasIn(tran[1])

\* What the callers know of the samples.
CallerInv ==
  /\ known \subseteq Params
  /\ accepted \subseteq Samples
  /\ inFlight \in [Servers -> SUBSET Samples]
  /\ delivered \in [Servers -> SUBSET Samples]
  /\ acked \in [Servers -> SUBSET Samples]
  /\ \A k \in Servers : /\ inFlight[k] \subseteq accepted /\ delivered[k] \subseteq accepted
                        /\ acked[k] \subseteq delivered[k]

IInv == FramesInv /\ ConnInv /\ FileInv /\ TranInv /\ CallerInv

-----------------------------------------------------------------------------
(* The calls in progress                                                   *)

\* The innermost call.
LEMMA InnermostCall ==
  ASSUME FramesInv
  PROVE  /\ Frame \in FrameKinds \cup {"none"}
         /\ Frame = "none" <=> frames = << >>
         /\ Frame # "none" => Len(frames) \in Nat \ {0} /\ frames[Len(frames)] = Frame
<1>1. CASE frames = << >>
  BY <1>1 DEF Frame, FrameKinds, WriteFrames
<1>2. CASE frames # << >>
  <2>1. Len(frames) \in Nat \ {0} /\ frames[Len(frames)] \in FrameKinds
    BY <1>2 DEF FramesInv
  <2>. QED
    BY <1>2, <2>1 DEF Frame, FrameKinds, WriteFrames
<1>. QED
  BY <1>1, <1>2

\* A call enters above one that is in DoEvents, or above none.
LEMMA PushedCall ==
  ASSUME FramesInv, Accepting, NEW f \in FrameKinds, Push(f), Len(frames) < MaxFrames,
         up' = up
  PROVE  FramesInv' /\ Frame' = f
<1>1. /\ frames' \in Seq(FrameKinds) /\ Len(frames') = Len(frames) + 1 /\ Len(frames) \in Nat
      /\ frames'[Len(frames) + 1] = f /\ \A i \in 1 .. Len(frames) : frames'[i] = frames[i]
  BY DEF FramesInv, Push
<1>2. ASSUME NEW i \in 1 .. Len(frames)
      PROVE  frames'[i] \in {"deny", "maintain"}
  <2>1. CASE i = Len(frames)
    BY <1>1, <2>1, InnermostCall DEF Accepting
  <2>2. CASE i # Len(frames)
    BY <1>1, <2>2 DEF FramesInv
  <2>. QED
    BY <2>1, <2>2
<1>3. Frame' = f
  BY <1>1 DEF Frame
<1>. QED
  BY <1>1, <1>2, <1>3, LeisAssumption DEF FramesInv, Accepting

\* A call goes on at its next step.
LEMMA NextStepOfCall ==
  ASSUME FramesInv, NEW f \in FrameKinds, Goto(f), Frame # "none", up, up' = up
  PROVE  FramesInv' /\ Frame' = f
<1>1. Len(frames) \in Nat \ {0} /\ frames \in Seq(FrameKinds)
  BY InnermostCall DEF FramesInv
<1>2. /\ frames' \in Seq(FrameKinds) /\ Len(frames') = Len(frames)
      /\ frames'[Len(frames)] = f /\ \A i \in 1 .. Len(frames) - 1 : frames'[i] = frames[i]
  BY <1>1 DEF Goto
<1>3. Frame' = f
  BY <1>1, <1>2 DEF Frame
<1>. QED
  BY <1>1, <1>2, <1>3 DEF FramesInv

\* A call returns to one that is in DoEvents, or to none.
LEMMA PoppedCall ==
  ASSUME FramesInv, PopFrame, Frame # "none", up, up' = up
  PROVE  FramesInv' /\ Frame' \in {"none", "deny", "maintain"}
<1>1. Len(frames) \in Nat \ {0} /\ frames \in Seq(FrameKinds)
  BY InnermostCall DEF FramesInv
<1>2. frames' = [i \in 1 .. Len(frames) - 1 |-> frames[i]]
  BY <1>1 DEF PopFrame
<1>3. /\ frames' \in Seq(FrameKinds) /\ Len(frames') = Len(frames) - 1
      /\ \A i \in 1 .. Len(frames) - 1 : frames'[i] = frames[i]
  BY <1>1, <1>2
<1>4. Frame' \in {"none", "deny", "maintain"}
  <2>1. CASE frames' = << >>
    BY <2>1 DEF Frame
  <2>2. CASE frames' # << >>
    <3>1. Len(frames') \in 1 .. Len(frames) - 1
      BY <1>1, <1>3, <2>2
    <3>2. frames'[Len(frames')] \in {"deny", "maintain"}
      BY <1>3, <3>1 DEF FramesInv
    <3>. QED
      BY <2>2, <3>2 DEF Frame
  <2>. QED
    BY <2>1, <2>2
<1>. QED
  BY <1>1, <1>3, <1>4, LeisAssumption DEF FramesInv

-----------------------------------------------------------------------------
(* The connection                                                          *)

\* A file that has a content is there.
LEMMA ContentOfFile ==
  \A d : << d >> # << >> /\ << d >>[1] = d
OBVIOUS

\* A statement opens the connection only if that is allowed and there is a
\* file, and it never closes it.
LEMMA SQLExecuteEffect ==
  ASSUME ConnInv, NEW answer, SQLExecute(answer)
  PROVE  /\ bConnStatus' \in BOOLEAN
         /\ bConnStatus' => bConnPermission /\ file # << >>
         /\ bConnStatus => bConnStatus'
         /\ answer = "" => file # << >> /\ bConnPermission /\ bConnStatus'
<1>. bConnStatus \in BOOLEAN /\ bConnPermission \in BOOLEAN /\ (bConnStatus => bConnPermission)
    /\ (bConnStatus => file # << >>)
  BY DEF ConnInv, DeniedIsClosed
<1>1. CASE answer = "prohibited" /\ UNCHANGED bConnStatus
  BY <1>1
<1>2. CASE answer = "broken" /\ UNCHANGED bConnStatus
  BY <1>2
<1>3. CASE bConnPermission /\ file # << >> /\ bConnStatus' = TRUE
  BY <1>3
<1>. QED
  BY <1>1, <1>2, <1>3 DEF SQLExecute

\* A call that waits for no other one and only executes a statement.
StatementStep ==
  /\ Accepting
  /\ \E answer \in Answers : SQLExecute(answer)
  /\ UNCHANGED <<up, bak, bConnPermission, frames, tran, last>>
  /\ file # << >> => file' # << >>

LEMMA StatementKeepsCalls ==
  ASSUME FramesInv, ConnInv, StatementStep
  PROVE  /\ FramesInv' /\ ConnInv' /\ Frame' = Frame
         /\ Frame \in {"none", "deny", "maintain"}
<1>1. Frame' = Frame /\ Frame \in {"none", "deny", "maintain"}
  BY DEF StatementStep, Accepting, Frame
<1>2. FramesInv'
  BY DEF FramesInv, StatementStep, Accepting
<1>3. ConnInv'
  BY <1>1, SQLExecuteEffect DEF StatementStep, ConnInv, DeniedIsClosed, MaintenanceAlone
<1>. QED
  BY <1>1, <1>2, <1>3

\* The operations of the callers that execute statements.
LEMMA CallersStatements ==
  ASSUME \/ \E s \in Samples : Offer(s)
         \/ Load
         \/ \E k \in Servers : Fetch(k)
         \/ \E k \in Servers, s \in Samples : Report(k, s)
  PROVE  StatementStep
<1>1. ASSUME NEW answer, NEW d, Accepting, Statement(answer, d), answer \in Answers
      PROVE  StatementStep
  <2>1. file # << >> => file' # << >>
    BY <1>1, ContentOfFile DEF Statement, Update
  <2>. QED
    BY <1>1, <2>1 DEF Statement, StatementStep
<1>2. ASSUME NEW s \in Samples, Offer(s)
      PROVE  StatementStep
  BY <1>1, <1>2 DEF Offer, WriteQueue
<1>3. ASSUME NEW k \in Servers, NEW s \in Samples, Report(k, s)
      PROVE  StatementStep
  BY <1>1, <1>3 DEF Report, SQLDone
<1>4. CASE Load
  BY <1>4 DEF Load, StatementStep
<1>5. ASSUME NEW k \in Servers, Fetch(k)
      PROVE  StatementStep
  BY <1>5 DEF Fetch, ReadQueue, StatementStep
<1>. QED
  BY <1>2, <1>3, <1>4, <1>5

\* WriteSISInfo begins with an open connection, or does not begin.
LEMMA RefreshKeepsCalls ==
  ASSUME FramesInv, ConnInv, NEW v \in Downloads, Refresh(v)
  PROVE  /\ FramesInv' /\ ConnInv' /\ UNCHANGED <<file, bak, accepted, last>> /\ known' = {}
         /\ Frame \in {"none", "deny", "maintain"}
         /\ \/ Frame' = Frame /\ UNCHANGED tran
            \/ /\ bConnStatus /\ Frame' = "parameters"
               /\ tran' = << [db |-> Db, of |-> v, kept |-> {}] >>
<1>1. /\ UNCHANGED <<up, file, bak, bConnStatus, bConnPermission, last, accepted>> /\ known' = {}
      /\ Accepting /\ up /\ Len(frames) < MaxFrames
  BY DEF Refresh, BeginTran, Accepting
<1>2. Frame \in {"none", "deny", "maintain"}
  BY <1>1 DEF Accepting
<1>3. CASE UNCHANGED <<tran, frames>>
  <2>1. Frame' = Frame
    BY <1>3 DEF Frame
  <2>. QED
    BY <1>1, <1>2, <1>3, <2>1 DEF FramesInv, ConnInv, DeniedIsClosed, MaintenanceAlone
<1>4. CASE /\ bConnStatus /\ Push("parameters")
           /\ tran' = << [db |-> Db, of |-> v, kept |-> {}] >>
  <2>1. FramesInv' /\ Frame' = "parameters"
    BY <1>1, <1>4, PushedCall DEF FrameKinds, WriteFrames
  <2>. QED
    BY <1>1, <1>2, <1>4, <2>1 DEF ConnInv, DeniedIsClosed, MaintenanceAlone
<1>. QED
  BY <1>3, <1>4 DEF Refresh, BeginTran

\* The three ways a step of WriteSISInfo ends.
Advances ==
  \/ /\ Frame = "parameters" /\ Frame' = "formulas"
     /\ \E t \in WriteParameters(tran[1]) : tran' = << t >>
  \/ /\ Frame = "formulas" /\ Frame' = "operations"
     /\ \E t \in WriteFormulas(tran[1]) : tran' = << t >>

Commits ==
  /\ Frame = "operations"
  /\ \E t \in WriteOperations(tran[1]) :
       Update(t.db) /\ last' = [of |-> t.of, kept |-> t.kept]

LEMMA WriteKeepsCalls ==
  ASSUME FramesInv, ConnInv, WriteSISInfo
  PROVE  /\ FramesInv' /\ ConnInv' /\ UNCHANGED <<up, bak, bConnStatus>> /\ Frame \in WriteFrames
         /\ \/ Advances /\ UNCHANGED <<file, last>>
            \/ Commits /\ Frame' \in {"none", "deny", "maintain"} /\ tran' = << >>
            \/ UNCHANGED <<file, last>> /\ Frame' \in {"none", "deny", "maintain"} /\ tran' = << >>
<1>1. up /\ up' = up /\ UNCHANGED <<bak, bConnStatus, bConnPermission>>
  BY DEF WriteSISInfo
<1>2. ASSUME NEW step \in {"parameters", "formulas"}, NEW written,
             NEW next \in {"formulas", "operations"}, Write(step, written, next)
      PROVE  FramesInv' /\ ConnInv' /\ Frame = step /\ Frame' = next
  <2>1. FramesInv' /\ Frame' = next
    BY <1>1, <1>2, NextStepOfCall DEF Write, FrameKinds, WriteFrames
  <2>. QED
    BY <1>1, <1>2, <2>1 DEF Write, ConnInv, DeniedIsClosed, MaintenanceAlone
<1>3. ASSUME Frame \in WriteFrames, PopFrame, bConnStatus => file' # << >>
      PROVE  FramesInv' /\ ConnInv' /\ Frame' \in {"none", "deny", "maintain"}
  <2>1. FramesInv' /\ Frame' \in {"none", "deny", "maintain"}
    BY <1>1, <1>3, PoppedCall DEF WriteFrames
  <2>. QED
    BY <1>1, <1>3, <2>1 DEF ConnInv, DeniedIsClosed, MaintenanceAlone
<1>4. CASE Write("parameters", WriteParameters(tran[1]), "formulas")
  BY <1>1, <1>2, <1>4 DEF Write, Advances, WriteFrames
<1>5. CASE Write("formulas", WriteFormulas(tran[1]), "operations")
  BY <1>1, <1>2, <1>5 DEF Write, Advances, WriteFrames
<1>6. CASE Frame = "operations" /\ \E t \in WriteOperations(tran[1]) : CommitTran(t)
  <2>1. file' # << >> /\ PopFrame /\ Commits /\ tran' = << >>
    BY <1>6, ContentOfFile DEF CommitTran, Update, Commits
  <2>. QED
    BY <1>1, <1>3, <1>6, <2>1 DEF WriteFrames
<1>7. CASE Frame \in {"parameters", "formulas", "operations"} /\ RollbackTran
  <2>1. Frame \in WriteFrames /\ PopFrame /\ UNCHANGED <<file, last>> /\ tran' = << >>
    BY <1>7 DEF RollbackTran, WriteFrames
  <2>2. bConnStatus => file' # << >>
    BY <2>1 DEF ConnInv
  <2>. QED
    BY <1>1, <1>3, <2>1, <2>2
<1>. QED
  BY <1>4, <1>5, <1>6, <1>7 DEF WriteSISInfo

\* Maintenance begins: the connection is left open for the DoEvents, or the
\* maintenance is alone at once.
LEMMA MaintenanceKeepsCalls ==
  ASSUME FramesInv, ConnInv, Maintenance
  PROVE  FramesInv' /\ ConnInv' /\ Frame' \in {"maintain", "compact"}
<1>1. PICK answer \in Answers :
        /\ SQLExecute(answer)
        /\ IF answer = "" THEN Update([Db EXCEPT !.hist = KillMasterSent(@)]) ELSE UNCHANGED file
  BY DEF Maintenance
<1>2. /\ bConnStatus' \in BOOLEAN
      /\ bConnStatus' => bConnPermission /\ file' # << >>
  <2>1. file # << >> => file' # << >>
    BY <1>1, ContentOfFile DEF Update
  <2>. QED
    BY <1>1, <2>1, SQLExecuteEffect
<1>3. up /\ up' = up /\ Accepting /\ Len(frames) < MaxFrames
  BY DEF Maintenance, Accepting
<1>4. CASE bConnStatus'
  <2>1. FramesInv' /\ Frame' = "maintain" /\ bConnPermission' = bConnPermission
    BY <1>3, <1>4, PushedCall DEF Maintenance, FrameKinds
  <2>. QED
    BY <1>2, <1>4, <2>1, <1>3 DEF ConnInv, DeniedIsClosed, MaintenanceAlone
<1>5. CASE ~bConnStatus'
  <2>1. FramesInv' /\ Frame' = "compact" /\ bConnPermission' = FALSE
    BY <1>3, <1>5, PushedCall DEF Maintenance, FrameKinds
  <2>2. up' \in BOOLEAN
    BY <1>3 DEF ConnInv
  <2>. QED
    BY <1>2, <1>5, <2>1, <2>2 DEF ConnInv, DeniedIsClosed, MaintenanceAlone
<1>. QED
  BY <1>4, <1>5

\* A maintenance that ends, well or not.
LEMMA MExitKeepsCalls ==
  ASSUME FramesInv, ConnInv, up, up' = up, bConnStatus' = bConnStatus,
         Frame \in {"compact", "swap", "clean"}, MExit
  PROVE  FramesInv' /\ ConnInv' /\ Frame' \in {"none", "deny", "maintain"}
<1>1. FramesInv' /\ Frame' \in {"none", "deny", "maintain"}
  BY PoppedCall DEF MExit
<1>. QED
  BY <1>1 DEF MExit, ConnInv, DeniedIsClosed, MaintenanceAlone

\* The connection is closed when its DoEvents is over, and from then to its end
\* a maintenance keeps it closed.
LEMMA CallsStep ==
  ASSUME IInv, [Next]_vars
  PROVE  FramesInv' /\ ConnInv'
<1>. FramesInv /\ ConnInv
  BY DEF IInv
<1>. USE DEF DeniedIsClosed, MaintenanceAlone
<1>1. CASE \/ \E s \in Samples : Offer(s)
           \/ Load
           \/ \E k \in Servers : Fetch(k)
           \/ \E k \in Servers, s \in Samples : Report(k, s)
  BY <1>1, CallersStatements, StatementKeepsCalls
<1>2. CASE \E v \in Downloads : Refresh(v)
  BY <1>2, RefreshKeepsCalls
<1>3. CASE AllowConnection
  BY <1>3 DEF AllowConnection, Accepting, FramesInv, ConnInv, Frame
<1>4. CASE DenyConnection
  <2>1. /\ Accepting /\ Len(frames) < MaxFrames /\ up /\ up' = up
        /\ UNCHANGED <<file, bConnStatus>>
    BY <1>4 DEF DenyConnection, Accepting
  <2>2. CASE bConnStatus
    <3>1. FramesInv' /\ Frame' = "deny"
      BY <1>4, <2>1, <2>2, PushedCall DEF DenyConnection, FrameKinds
    <3>. QED
      BY <1>4, <2>1, <2>2, <3>1 DEF DenyConnection, ConnInv
  <2>3. CASE ~bConnStatus
    <3>1. UNCHANGED <<frames, file, bConnStatus, up>> /\ bConnPermission' = FALSE
      BY <1>4, <2>1, <2>3 DEF DenyConnection
    <3>2. Frame' = Frame
      BY <3>1 DEF Frame
    <3>. QED
      <4>1. FramesInv'
        BY <3>1 DEF FramesInv
      <4>2. ConnInv'
        BY <2>3, <3>1, <3>2 DEF ConnInv
      <4>. QED
        BY <4>1, <4>2
  <2>. QED
    BY <2>2, <2>3
<1>5. CASE Maintenance
  BY <1>5, MaintenanceKeepsCalls
<1>6. CASE DenyCloses
  <2>1. FramesInv' /\ Frame' \in {"none", "deny", "maintain"}
    BY <1>6, PoppedCall DEF DenyCloses
  <2>. QED
    BY <1>6, <2>1 DEF DenyCloses, CloseConnection, ConnInv
<1>7. CASE MaintenanceCloses
  <2>1. FramesInv' /\ Frame' = "compact"
    BY <1>7, NextStepOfCall DEF MaintenanceCloses, FrameKinds
  <2>. QED
    BY <1>7, <2>1 DEF MaintenanceCloses, CloseConnection, ConnInv
<1>8. CASE Compact
  <2>1. CASE Goto("swap") /\ UNCHANGED bConnPermission
    <3>1. FramesInv' /\ Frame' = "swap"
      BY <1>8, <2>1, NextStepOfCall DEF Compact, FrameKinds
    <3>. QED
      BY <1>8, <2>1, <3>1 DEF Compact, ConnInv
  <2>2. CASE MExit
    <3>1. FramesInv' /\ ConnInv'
      BY <1>8, <2>2, MExitKeepsCalls DEF Compact
    <3>. QED
      BY <3>1
  <2>. QED
    BY <1>8, <2>1, <2>2 DEF Compact
<1>9. CASE Swap
  <2>1. CASE Goto("clean") /\ UNCHANGED bConnPermission
    <3>1. FramesInv' /\ Frame' = "clean"
      BY <1>9, <2>1, NextStepOfCall DEF Swap, FrameKinds
    <3>. QED
      BY <1>9, <2>1, <3>1 DEF Swap, ConnInv
  <2>2. CASE MExit
    BY <1>9, <2>2, MExitKeepsCalls DEF Swap
  <2>. QED
    BY <1>9, <2>1, <2>2 DEF Swap
<1>10. CASE Clean
  BY <1>10, MExitKeepsCalls DEF Clean
<1>11. CASE \/ UNCHANGED vars
            \/ \E k \in Servers : Forget(k)
            \/ \E k \in Servers, s \in Samples : Deliver(k, s)
  <2>1. UNCHANGED dbVars
    BY <1>11 DEF vars, Forget, Deliver
  <2>. QED
    BY <2>1 DEF dbVars, FramesInv, ConnInv, Frame
<1>12. CASE Crash
  <2>1. /\ up' = FALSE /\ frames' = << >> /\ bConnStatus' = FALSE
        /\ UNCHANGED bConnPermission
    BY <1>12 DEF Crash
  <2>2. FramesInv' /\ Frame' = "none"
    BY <2>1, LeisAssumption DEF FramesInv, Frame
  <2>. QED
    BY <2>1, <2>2 DEF ConnInv
<1>13. CASE Restart
  <2>1. /\ up' = TRUE /\ frames' = << >> /\ bConnPermission' = TRUE /\ UNCHANGED file
        /\ bConnStatus' \in BOOLEAN
        /\ bConnStatus' => file # << >>
    BY <1>13 DEF Restart, FramesInv
  <2>2. FramesInv' /\ Frame' = "none"
    BY <2>1, LeisAssumption DEF FramesInv, Frame
  <2>. QED
    BY <2>1, <2>2 DEF ConnInv
<1>14. CASE WriteSISInfo
  BY <1>14, WriteKeepsCalls
<1>. QED
  BY <1>1, <1>2, <1>3, <1>4, <1>5, <1>6, <1>7, <1>8, <1>9, <1>10, <1>11, <1>12, <1>13, <1>14
  DEF Next, Operator, Continue, MaintenanceStep

-----------------------------------------------------------------------------
(* The content of the database                                             *)

LEMMA SoundForMore ==
  ASSUME NEW d, NEW S, NEW T, S \subseteq T, Sound(d, S)
  PROVE  Sound(d, T)
BY DEF Sound

\* A new sample joins the history.
LEMMA SoundInsert ==
  ASSUME NEW d, NEW S, Sound(d, S), NEW s \in Samples \ S, NEW p \in d.params
  PROVE  Sound([d EXCEPT !.hist = @ \cup {NewRow(s, p)}], S \cup {s})
<1>. DEFINE e == [d EXCEPT !.hist = @ \cup {NewRow(s, p)}]
<1>1. d \in Content /\ p \in Params
  BY DEF Sound, Content
<1>2. NewRow(s, p) \in Row /\ NewRow(s, p).id = s /\ NewRow(s, p).par = p
  BY <1>1 DEF NewRow, Row
<1>3. e.hist = d.hist \cup {NewRow(s, p)} /\ e.params = d.params /\ e \in Content
  BY <1>1, <1>2 DEF Content
<1>. QED
  BY <1>2, <1>3 DEF Sound

\* The content after SQLDone.
Marked(d, s, k) == [d EXCEPT !.hist = {IF r.id = s THEN Done(r, k) ELSE r : r \in @}]

\* Marking rows done changes neither their samples nor their parameters.
LEMMA SoundDone ==
  ASSUME NEW d, NEW S, Sound(d, S), NEW s, NEW k
  PROVE  Sound(Marked(d, s, k), S) /\ Marked(d, s, k).params = d.params
<1>. DEFINE Mark(r) == IF r.id = s THEN Done(r, k) ELSE r
            e == Marked(d, s, k)
<1>1. d \in Content
  BY DEF Sound
<1>2. \A r \in Row : Mark(r) \in Row /\ Mark(r).id = r.id /\ Mark(r).par = r.par
  BY DEF Done, Row
<1>3. e.hist = {Mark(r) : r \in d.hist} /\ e.params = d.params /\ e \in Content
  BY <1>1, <1>2 DEF Content, Marked
<1>4. \A r \in d.hist : r \in Row
  BY <1>1 DEF Content
<1>. QED
  BY <1>2, <1>3, <1>4 DEF Sound

\* Deleting what the master server has.
LEMMA SoundKill ==
  ASSUME NEW d, NEW S, Sound(d, S)
  PROVE  Sound([d EXCEPT !.hist = KillMasterSent(@)], S)
<1>. DEFINE e == [d EXCEPT !.hist = KillMasterSent(@)]
<1>1. d \in Content
  BY DEF Sound
<1>2. e.hist \subseteq d.hist /\ e.params = d.params /\ e \in Content
  BY <1>1 DEF Content, KillMasterSent
<1>. QED
  BY <1>2 DEF Sound

\* What is in the file after it has been written.
LEMMA FileUpdated ==
  ASSUME FileInv, NEW d, Update(d), bak' = bak, Frame' # "swap", accepted \subseteq accepted',
         Sound(d, accepted'), known' \subseteq d.params
  PROVE  FileInv'
<1>1. file' # << >> /\ file' = << file'[1] >> /\ file'[1] = d
  BY ContentOfFile DEF Update
<1>2. bak # << >> => bak = << bak[1] >> /\ Sound(bak[1], accepted')
  BY SoundForMore DEF FileInv
<1>. QED
  BY <1>1, <1>2 DEF FileInv

LEMMA FileStays ==
  ASSUME FileInv, UNCHANGED <<file, bak>>, Frame' = "swap" => Frame = "swap",
         accepted \subseteq accepted', known' \subseteq known
  PROVE  FileInv'
<1>1. \A f \in {file, bak} : f # << >> => f = << f[1] >> /\ Sound(f[1], accepted')
  BY SoundForMore DEF FileInv
<1>. QED
  BY <1>1 DEF FileInv

\* What WriteSISInfo writes into its transaction.
LEMMA ParametersWritten ==
  ASSUME NEW t, Started(t), NEW w \in WriteParameters(t)
  PROVE  /\ Started(w) /\ ParametersIn(w) /\ w.kept = t.kept /\ w.of = t.of
<1>1. t \in Tran /\ t.of \in [params : SUBSET Params, formulas : SUBSET Nat, operations : SUBSET Nat]
  BY LeisAssumption DEF Started, Tran
<1>2. /\ w = [t EXCEPT !.db = [t.db EXCEPT !.params = @ \cup t.of.params]]
      /\ t.db \in Content
  BY <1>1 DEF WriteParameters, Tran
<1>3. /\ w.db.params = t.db.params \cup t.of.params /\ w.db.hist = t.db.hist /\ w.db \in Content
      /\ w.of = t.of /\ w.kept = t.kept
  BY <1>1, <1>2 DEF Tran, Content
<1>4. w \in Tran
  BY <1>1, <1>2, <1>3 DEF Tran
<1>. QED
  BY <1>3, <1>4 DEF Started, ParametersIn, Sound

LEMMA FormulasWritten ==
  ASSUME NEW t, Started(t), NEW w \in WriteFormulas(t), t.kept = {}, ParametersIn(t)
  PROVE  /\ Started(w) /\ ParametersIn(w) /\ FormulasIn(w) /\ w.of = t.of
         /\ "operations" \notin w.kept
<1>1. t \in Tran /\ t.of \in [params : SUBSET Params, formulas : SUBSET Nat, operations : SUBSET Nat]
  BY LeisAssumption DEF Started, Tran
<1>2. PICK left \in Deleted(t.db.formulas) :
        w = [t EXCEPT !.db = [t.db EXCEPT !.formulas = left \cup t.of.formulas],
                      !.kept = Kept(t, "formulas", left, t.of.formulas)]
  BY <1>1 DEF WriteFormulas
<1>3. t.db \in Content /\ left \subseteq t.db.formulas
  BY <1>1 DEF Tran, Deleted
<1>4. /\ w.db.formulas = left \cup t.of.formulas /\ w.db.hist = t.db.hist
      /\ w.db.params = t.db.params /\ w.db \in Content
      /\ w.of = t.of /\ w.kept = Kept(t, "formulas", left, t.of.formulas)
  BY <1>1, <1>2, <1>3 DEF Tran, Content
<1>5. w.kept \in SUBSET Tables /\ "operations" \notin w.kept
  BY <1>4 DEF Kept, Tables
<1>6. w \in Tran
  BY <1>1, <1>2, <1>4, <1>5 DEF Tran
<1>7. FormulasIn(w)
  BY <1>4 DEF FormulasIn, Kept
<1>. QED
  BY <1>4, <1>5, <1>6, <1>7 DEF Started, ParametersIn, Sound

LEMMA OperationsWritten ==
  ASSUME NEW t, Started(t), NEW w \in WriteOperations(t), "operations" \notin t.kept,
         ParametersIn(t), FormulasIn(t)
  PROVE  /\ Started(w) /\ ParametersIn(w) /\ FormulasIn(w) /\ OperationsIn(w)
<1>1. t \in Tran /\ t.of \in [params : SUBSET Params, formulas : SUBSET Nat, operations : SUBSET Nat]
  BY LeisAssumption DEF Started, Tran
<1>2. PICK left \in Deleted(t.db.operations) :
        w = [t EXCEPT !.db = [t.db EXCEPT !.operations = left \cup t.of.operations],
                      !.kept = Kept(t, "operations", left, t.of.operations)]
  BY <1>1 DEF WriteOperations
<1>3. t.db \in Content /\ left \subseteq t.db.operations /\ t.kept \in SUBSET Tables
  BY <1>1 DEF Tran, Deleted
<1>4. /\ w.db.operations = left \cup t.of.operations /\ w.db.hist = t.db.hist
      /\ w.db.params = t.db.params /\ w.db.formulas = t.db.formulas /\ w.db \in Content
      /\ w.of = t.of /\ w.kept = Kept(t, "operations", left, t.of.operations)
  BY <1>1, <1>2, <1>3 DEF Tran, Content
<1>5. w.kept \in SUBSET Tables /\ ("formulas" \in w.kept <=> "formulas" \in t.kept)
  BY <1>3, <1>4 DEF Kept, Tables
<1>6. w \in Tran
  BY <1>1, <1>2, <1>4, <1>5 DEF Tran
<1>7. OperationsIn(w)
  BY <1>4 DEF OperationsIn, Kept
<1>. QED
  BY <1>4, <1>5, <1>6, <1>7 DEF Started, ParametersIn, FormulasIn, Sound

\* A download is written as a whole, or the database is as it was.
LEMMA WriteEffect ==
  ASSUME IInv, WriteSISInfo
  PROVE  \/ UNCHANGED <<file, last>>
         \/ /\ file # << >> /\ last' \in [of : Downloads, kept : SUBSET Tables]
            /\ \E d : /\ Update(d) /\ Sound(d, accepted) /\ Holds(d, last'.of, last'.kept)
                      /\ d.hist = file[1].hist /\ file[1].params \subseteq d.params
<1>1. CASE Commits
  <2>1. PICK t \in WriteOperations(tran[1]) : Update(t.db) /\ last' = [of |-> t.of, kept |-> t.kept]
    BY <1>1 DEF Commits
  <2>2. /\ Started(tran[1]) /\ "operations" \notin tran[1].kept /\ ParametersIn(tran[1])
        /\ FormulasIn(tran[1]) /\ file # << >>
    BY <1>1 DEF Commits, IInv, TranInv, WriteFrames
  <2>3. Started(t) /\ ParametersIn(t) /\ FormulasIn(t) /\ OperationsIn(t)
    BY <2>1, <2>2, OperationsWritten
  <2>4. last'.of = t.of /\ last'.kept = t.kept /\ last' \in [of : Downloads, kept : SUBSET Tables]
    BY <2>1, <2>3 DEF Started, Tran
  <2>5. Holds(t.db, last'.of, last'.kept)
    BY <2>3, <2>4 DEF Holds, ParametersIn, FormulasIn, OperationsIn
  <2>. QED
    BY <2>1, <2>2, <2>3, <2>4, <2>5 DEF Started
<1>. QED
  BY <1>1, WriteKeepsCalls DEF IInv

\* A maintenance deletes only what the master server has.
LEMMA MaintenanceEffect ==
  ASSUME IInv, Maintenance
  PROVE  \/ UNCHANGED file
         \/ file # << >> /\ Update([file[1] EXCEPT !.hist = KillMasterSent(@)])
<1>1. PICK answer \in Answers :
        /\ SQLExecute(answer)
        /\ IF answer = "" THEN Update([Db EXCEPT !.hist = KillMasterSent(@)]) ELSE UNCHANGED file
  BY DEF Maintenance
<1>. QED
  BY <1>1, SQLExecuteEffect DEF Db, IInv

\* A report marks the rows of a sample, if it is answered well.
LEMMA ReportEffect ==
  ASSUME IInv, NEW k \in Servers, NEW s \in Samples, Report(k, s)
  PROVE  \/ UNCHANGED <<file, acked, inFlight>>
         \/ /\ file # << >>
            /\ Update(Marked(file[1], s, k))
            /\ acked' = [acked EXCEPT ![k] = @ \cup {s}]
            /\ inFlight' = [inFlight EXCEPT ![k] = @ \ {s}] \/ UNCHANGED inFlight
<1>1. PICK answer \in Answers :
        /\ SQLDone(s, k, answer)
        /\ IF answer = ""
             THEN /\ acked' = [acked EXCEPT ![k] = @ \cup {s}]
                  /\ \/ inFlight' = [inFlight EXCEPT ![k] = @ \ {s}]
                     \/ "crash" \in Faults /\ UNCHANGED inFlight
             ELSE UNCHANGED <<acked, inFlight>>
  BY DEF Report
<1>2. SQLExecute(answer)
  BY <1>1 DEF SQLDone, Statement
<1>3. CASE answer = ""
  <2>1. file # << >>
    BY <1>2, <1>3, SQLExecuteEffect DEF IInv
  <2>2. Update(Marked(file[1], s, k))
    BY <1>1, <1>3 DEF SQLDone, Statement, Db, Marked
  <2>. QED
    BY <1>1, <1>3, <2>1, <2>2
<1>4. CASE answer # ""
  BY <1>1, <1>4 DEF SQLDone, Statement
<1>. QED
  BY <1>3, <1>4

\* An offer that is accepted adds a row for its sample.
LEMMA OfferEffect ==
  ASSUME IInv, NEW s \in Samples, Offer(s)
  PROVE  \/ UNCHANGED <<file, accepted>>
         \/ /\ file # << >>
            /\ Update([file[1] EXCEPT !.hist = @ \cup {NewRow(s, ParOf[s])}])
            /\ accepted' = accepted \cup {s}
<1>1. PICK answer \in Answers :
        /\ WriteQueue(s, ParOf[s], answer)
        /\ accepted' = IF answer = "" THEN accepted \cup {s} ELSE accepted
  BY DEF Offer
<1>2. SQLExecute(answer)
  BY <1>1 DEF WriteQueue, Statement
<1>3. CASE answer = ""
  BY <1>1, <1>2, <1>3, SQLExecuteEffect DEF IInv, WriteQueue, Statement, Db
<1>4. CASE answer # ""
  BY <1>1, <1>4 DEF WriteQueue, Statement
<1>. QED
  BY <1>3, <1>4

\* Rows are those of accepted samples, in the database as in its copy, and the
\* copy that replaces the database is its last state.
LEMMA FileStep ==
  ASSUME IInv, [Next]_vars
  PROVE  FileInv'
<1>. FramesInv /\ ConnInv /\ FileInv /\ CallerInv
  BY DEF IInv
<1>. DEFINE d == file[1]
<1>a. file # << >> => Sound(d, accepted) /\ known \subseteq d.params
  BY DEF FileInv
<1>1. ASSUME NEW s \in Samples, Offer(s)
      PROVE  FileInv'
  <2>1. /\ s \notin accepted /\ ParOf[s] \in known /\ known' = known /\ bak' = bak
        /\ Frame' = Frame /\ Frame # "swap"
    BY <1>1, CallersStatements, StatementKeepsCalls DEF Offer, WriteQueue, Statement, CallerInv
  <2>2. CASE UNCHANGED <<file, accepted>>
    BY <2>1, <2>2, FileStays
  <2>3. CASE /\ file # << >>
             /\ Update([file[1] EXCEPT !.hist = @ \cup {NewRow(s, ParOf[s])}])
             /\ accepted' = accepted \cup {s}
    <3>. DEFINE e == [d EXCEPT !.hist = @ \cup {NewRow(s, ParOf[s])}]
    <3>1. Sound(e, accepted')
      BY <1>a, <2>1, <2>3, SoundInsert
    <3>2. e.params = d.params
      BY <1>a, <2>3 DEF Sound, Content
    <3>3. Update(e)
      BY <2>3
    <3>. HIDE DEF e
    <3>. QED
      BY <1>a, <2>1, <2>3, <3>1, <3>2, <3>3, FileUpdated
  <2>. QED
    BY <1>1, <2>2, <2>3, OfferEffect
<1>2. ASSUME NEW v \in Downloads, Refresh(v)
      PROVE  FileInv'
  <2>1. Frame' # "swap"
    BY <1>2, RefreshKeepsCalls
  <2>. QED
    BY <1>2, <2>1, RefreshKeepsCalls, FileStays
<1>3. CASE Load
  <2>1. /\ Frame' = Frame /\ Frame # "swap" /\ UNCHANGED <<file, bak, accepted>>
        /\ known' = {} \/ (file # << >> /\ known' = d.params)
    BY <1>3, CallersStatements, StatementKeepsCalls, SQLExecuteEffect DEF Load, Db
  <2>2. CASE known' = {}
    BY <2>1, <2>2, FileStays
  <2>3. CASE known' = d.params
    BY <1>a, <2>1, <2>3 DEF FileInv
  <2>. QED
    BY <2>1, <2>2, <2>3
<1>4. CASE (AllowConnection \/ DenyConnection) /\ UNCHANGED callerVars
  <2>1. UNCHANGED <<file, bak, accepted, known>>
    BY <1>4 DEF AllowConnection, DenyConnection, callerVars
  <2>2. Frame' # "swap"
    <3>1. CASE DenyConnection /\ bConnStatus
      BY <3>1, PushedCall DEF DenyConnection, FrameKinds, Accepting
    <3>2. CASE UNCHANGED frames
      BY <1>4, <3>2 DEF AllowConnection, DenyConnection, Accepting, Frame
    <3>. QED
      BY <1>4, <3>1, <3>2 DEF AllowConnection, DenyConnection
  <2>. QED
    BY <2>1, <2>2, FileStays
<1>5. CASE Maintenance /\ UNCHANGED callerVars
  <2>1. bak' = bak /\ UNCHANGED <<accepted, known>> /\ Frame' # "swap"
    BY <1>5, MaintenanceKeepsCalls DEF Maintenance, callerVars
  <2>2. CASE UNCHANGED file
    BY <2>1, <2>2, FileStays
  <2>3. CASE file # << >> /\ Update([d EXCEPT !.hist = KillMasterSent(@)])
    <3>. DEFINE e == [d EXCEPT !.hist = KillMasterSent(@)]
    <3>1. Sound(e, accepted') /\ e.params = d.params
      BY <1>a, <2>1, <2>3, SoundKill DEF Sound, Content
    <3>2. Update(e)
      BY <2>3
    <3>. HIDE DEF e
    <3>. QED
      BY <1>a, <2>1, <2>3, <3>1, <3>2, FileUpdated
  <2>. QED
    BY <1>5, <2>2, <2>3, MaintenanceEffect
<1>6. CASE DenyCloses /\ UNCHANGED callerVars
  <2>1. Frame' # "swap"
    BY <1>6, PoppedCall DEF DenyCloses
  <2>. QED
    BY <1>6, <2>1, FileStays DEF DenyCloses, callerVars
<1>7. CASE MaintenanceCloses /\ UNCHANGED callerVars
  <2>1. Frame' # "swap"
    BY <1>7, NextStepOfCall DEF MaintenanceCloses, FrameKinds
  <2>. QED
    BY <1>7, <2>1, FileStays DEF MaintenanceCloses, callerVars
<1>8. CASE Compact /\ UNCHANGED callerVars
  <2>1. UNCHANGED <<file, accepted, known>>
    BY <1>8 DEF Compact, callerVars
  <2>2. CASE file # << >> /\ bak' = file
    BY <2>1, <2>2 DEF FileInv
  <2>3. CASE bak' \in {<< >>, bak} /\ MExit
    <3>1. Frame' # "swap"
      BY <1>8, <2>3, MExitKeepsCalls DEF Compact
    <3>. QED
      BY <2>1, <2>3, <3>1 DEF FileInv
  <2>. QED
    BY <1>8, <2>2, <2>3 DEF Compact
<1>9. CASE Swap /\ UNCHANGED callerVars
  <2>1. UNCHANGED <<bak, accepted, known>> /\ bak = file /\ Frame = "swap"
    BY <1>9 DEF Swap, callerVars, FileInv
  <2>2. Frame' # "swap"
    <3>1. CASE Goto("clean")
      BY <1>9, <3>1, NextStepOfCall DEF Swap, FrameKinds
    <3>2. CASE MExit
      BY <1>9, <3>2, MExitKeepsCalls DEF Swap
    <3>. QED
      BY <1>9, <3>1, <3>2 DEF Swap
  <2>3. file' \in {file, << >>}
    BY <1>9, <2>1 DEF Swap
  <2>. QED
    BY <2>1, <2>2, <2>3 DEF FileInv
<1>10. CASE Clean /\ UNCHANGED callerVars
  <2>1. Frame' # "swap"
    BY <1>10, MExitKeepsCalls DEF Clean
  <2>2. UNCHANGED <<file, accepted, known>> /\ bak' \in {bak, << >>}
    BY <1>10 DEF Clean, callerVars
  <2>. QED
    BY <2>1, <2>2 DEF FileInv
<1>11. ASSUME NEW k \in Servers, Fetch(k)
       PROVE  FileInv'
  <2>1. Frame' = Frame
    BY <1>11, CallersStatements, StatementKeepsCalls
  <2>. QED
    BY <1>11, <2>1, FileStays DEF Fetch, ReadQueue
<1>12. ASSUME NEW k \in Servers, NEW s \in Samples, Report(k, s)
       PROVE  FileInv'
  <2>1. UNCHANGED <<bak, accepted, known>> /\ Frame' = Frame /\ Frame # "swap"
    BY <1>12, CallersStatements, StatementKeepsCalls DEF Report, SQLDone, Statement
  <2>2. CASE UNCHANGED file
    BY <2>1, <2>2, FileStays
  <2>3. CASE file # << >> /\ Update(Marked(d, s, k))
    <3>1. Sound(Marked(d, s, k), accepted') /\ Marked(d, s, k).params = d.params
      BY <1>a, <2>1, <2>3, SoundDone
    <3>. QED
      BY <1>a, <2>1, <2>3, <3>1, FileUpdated
  <2>. QED
    BY <1>12, <2>2, <2>3, ReportEffect
<1>13. CASE \/ UNCHANGED vars
            \/ \E k \in Servers : Forget(k)
            \/ \E k \in Servers, s \in Samples : Deliver(k, s)
  <2>1. UNCHANGED <<dbVars, accepted, known>>
    BY <1>13 DEF vars, callerVars, Forget, Deliver
  <2>2. Frame' = Frame
    BY <2>1 DEF dbVars, Frame
  <2>. QED
    BY <2>1, <2>2, FileStays DEF dbVars
<1>14. CASE Crash /\ UNCHANGED callerVars
  <2>1. Frame' = "none" /\ UNCHANGED <<bak, accepted, known>> /\ file' \in {file, << >>}
    BY <1>14 DEF Crash, Frame, callerVars
  <2>. QED
    BY <2>1 DEF FileInv
<1>15. CASE Restart /\ UNCHANGED callerVars
  <2>1. Frame' = Frame /\ UNCHANGED <<file, bak, accepted, known>>
    BY <1>15 DEF Restart, Frame, callerVars
  <2>. QED
    BY <2>1, FileStays
<1>16. CASE WriteSISInfo /\ UNCHANGED callerVars
  <2>1. bak' = bak /\ UNCHANGED <<accepted, known>> /\ Frame' # "swap"
    BY <1>16, WriteKeepsCalls DEF Advances, callerVars
  <2>2. CASE UNCHANGED file
    BY <2>1, <2>2, FileStays
  <2>3. ASSUME file # << >>, NEW e, Update(e), Sound(e, accepted), d.params \subseteq e.params
        PROVE  FileInv'
    BY <1>a, <2>1, <2>3, FileUpdated
  <2>. QED
    BY <1>16, <2>2, <2>3, WriteEffect
<1>. QED
  BY <1>1, <1>2, <1>3, <1>4, <1>5, <1>6, <1>7, <1>8, <1>9, <1>10, <1>11, <1>12, <1>13, <1>14, <1>15, <1>16
  DEF Next, Operator, Continue, MaintenanceStep

\* While no transaction is open nothing is to be shown of one.
LEMMA NoTransaction ==
  ASSUME TranInv, UNCHANGED last, tran' = << >>, Frame' \notin WriteFrames
  PROVE  TranInv'
BY DEF TranInv, WriteFrames

LEMMA TransactionStays ==
  ASSUME TranInv, Frame \notin WriteFrames, UNCHANGED <<tran, last>>, Frame' \notin WriteFrames
  PROVE  TranInv'
BY NoTransaction DEF TranInv

\* A transaction is open just while WriteSISInfo goes on, and holds what has been
\* written so far.
LEMMA TranStep ==
  ASSUME IInv, [Next]_vars
  PROVE  TranInv'
<1>. FramesInv /\ ConnInv /\ FileInv /\ TranInv /\ CallerInv
  BY DEF IInv
<1>. USE DEF WriteFrames
<1>1. CASE \/ \E s \in Samples : Offer(s)
           \/ Load
           \/ \E k \in Servers : Fetch(k)
           \/ \E k \in Servers, s \in Samples : Report(k, s)
  BY <1>1, CallersStatements, StatementKeepsCalls, TransactionStays DEF StatementStep
<1>2. ASSUME NEW v \in Downloads, Refresh(v)
      PROVE  TranInv'
  <2>1. CASE Frame' = Frame /\ UNCHANGED tran
    BY <1>2, <2>1, RefreshKeepsCalls, TransactionStays
  <2>2. CASE /\ bConnStatus /\ Frame' = "parameters"
             /\ tran' = << [db |-> Db, of |-> v, kept |-> {}] >>
    <3>. DEFINE t == [db |-> Db, of |-> v, kept |-> {}]
    <3>1. file # << >> /\ UNCHANGED <<file, accepted, last>> /\ Db = file[1] /\ Sound(Db, accepted)
      BY <1>2, <2>2, RefreshKeepsCalls DEF ConnInv, FileInv, Db
    <3>2. /\ t \in Tran /\ Sound(t.db, accepted) /\ t.kept = {}
          /\ t.db.hist = file[1].hist /\ t.db.params = file[1].params
      BY <3>1 DEF Tran, Sound, Tables
    <3>3. tran' = << t >>
      BY <2>2
    <3>. HIDE DEF t
    <3>4. tran'[1] = t /\ tran' = << tran'[1] >>
      BY <3>3
    <3>5. /\ tran'[1] \in Tran /\ Sound(tran'[1].db, accepted') /\ tran'[1].kept = {}
          /\ tran'[1].db.hist = file'[1].hist /\ file'[1].params \subseteq tran'[1].db.params
      BY <3>1, <3>2, <3>4
    <3>. QED
      BY <2>2, <3>1, <3>4, <3>5 DEF TranInv, Started, Sound
  <2>. QED
    BY <1>2, <2>1, <2>2, RefreshKeepsCalls
<1>3. CASE AllowConnection
  <2>1. UNCHANGED <<frames, tran, last>> /\ Frame \notin WriteFrames
    BY <1>3 DEF AllowConnection, Accepting
  <2>2. Frame' = Frame
    BY <2>1 DEF Frame
  <2>. QED
    BY <2>1, <2>2, TransactionStays
<1>4. CASE DenyConnection
  <2>1. UNCHANGED <<up, tran, last>> /\ Accepting /\ Frame \notin WriteFrames /\ Len(frames) < MaxFrames
    BY <1>4 DEF DenyConnection, Accepting
  <2>2. CASE bConnStatus
    <3>1. Frame' = "deny"
      BY <1>4, <2>1, <2>2, PushedCall DEF DenyConnection, FrameKinds
    <3>. QED
      BY <2>1, <3>1, TransactionStays
  <2>3. CASE ~bConnStatus
    <3>1. Frame' = Frame
      BY <1>4, <2>3 DEF DenyConnection, Frame
    <3>. QED
      BY <2>1, <3>1, TransactionStays
  <2>. QED
    BY <2>2, <2>3
<1>5. CASE Maintenance
  <2>1. UNCHANGED <<tran, last>> /\ Frame \notin WriteFrames /\ Frame' \notin WriteFrames
    BY <1>5, MaintenanceKeepsCalls DEF Maintenance, Accepting
  <2>. QED
    BY <2>1, TransactionStays
<1>6. CASE DenyCloses
  <2>1. UNCHANGED <<tran, last>> /\ Frame \notin WriteFrames /\ Frame' \notin WriteFrames
    BY <1>6, PoppedCall DEF DenyCloses
  <2>. QED
    BY <2>1, TransactionStays
<1>7. CASE MaintenanceCloses
  <2>1. UNCHANGED <<tran, last>> /\ Frame \notin WriteFrames /\ Frame' \notin WriteFrames
    BY <1>7, NextStepOfCall DEF MaintenanceCloses, FrameKinds
  <2>. QED
    BY <2>1, TransactionStays
<1>8. CASE Compact \/ Swap \/ Clean
  <2>1. /\ UNCHANGED <<tran, last, up, bConnStatus>> /\ up
        /\ Frame \in {"compact", "swap", "clean"}
        /\ Goto("swap") \/ Goto("clean") \/ MExit
    BY <1>8 DEF Compact, Swap, Clean
  <2>2. Frame' \notin WriteFrames
    <3>1. CASE MExit
      BY <2>1, <3>1, MExitKeepsCalls
    <3>2. CASE Goto("swap") \/ Goto("clean")
      BY <2>1, <3>2, NextStepOfCall DEF FrameKinds
    <3>. QED
      BY <2>1, <3>1, <3>2
  <2>. QED
    BY <2>1, <2>2, TransactionStays
<1>9. CASE \/ UNCHANGED vars
           \/ \E k \in Servers : Forget(k)
           \/ \E k \in Servers, s \in Samples : Deliver(k, s)
  <2>1. UNCHANGED <<file, tran, last, frames, accepted>>
    BY <1>9 DEF vars, dbVars, callerVars, Forget, Deliver
  <2>2. Frame' = Frame
    BY <2>1 DEF Frame
  <2>. QED
    BY <2>1, <2>2 DEF TranInv, Started, Sound, ParametersIn, FormulasIn
<1>10. CASE Crash
  <2>1. frames' = << >> /\ tran' = << >> /\ UNCHANGED last
    BY <1>10 DEF Crash
  <2>2. Frame' = "none"
    BY <2>1 DEF Frame
  <2>. QED
    BY <2>1, <2>2, NoTransaction
<1>11. CASE Restart
  <2>1. frames' = << >> /\ frames = << >> /\ UNCHANGED <<tran, last>>
    BY <1>11 DEF Restart, FramesInv
  <2>2. Frame = "none" /\ Frame' = "none"
    BY <2>1 DEF Frame
  <2>. QED
    BY <2>1, <2>2, TransactionStays
<1>12. CASE WriteSISInfo /\ UNCHANGED callerVars
  <2>1. accepted' = accepted /\ Frame \in WriteFrames /\ tran = << tran[1] >> /\ file # << >>
        /\ Started(tran[1])
    BY <1>12, WriteKeepsCalls DEF callerVars, TranInv
  <2>2. ASSUME NEW t, tran' = << t >>, UNCHANGED file, Started(t)
        PROVE  tran' = << tran'[1] >> /\ tran'[1] = t /\ file' # << >> /\ Started(t)'
    BY <2>1, <2>2 DEF Started, Sound
  <2>3. CASE Advances /\ UNCHANGED <<file, last>>
    <3>1. CASE /\ Frame = "parameters" /\ Frame' = "formulas"
               /\ \E t \in WriteParameters(tran[1]) : tran' = << t >>
      <4>1. PICK t \in WriteParameters(tran[1]) : tran' = << t >>
        BY <3>1
      <4>2. Started(t) /\ ParametersIn(t) /\ t.kept = {}
        BY <2>1, <3>1, <4>1, ParametersWritten DEF TranInv
      <4>3. tran' = << tran'[1] >> /\ tran'[1] = t /\ file' # << >> /\ Started(t)'
        BY <2>2, <2>3, <4>1, <4>2
      <4>. QED
        BY <2>3, <3>1, <4>2, <4>3 DEF TranInv, Started, Sound, ParametersIn
    <3>2. CASE /\ Frame = "formulas" /\ Frame' = "operations"
               /\ \E t \in WriteFormulas(tran[1]) : tran' = << t >>
      <4>1. PICK t \in WriteFormulas(tran[1]) : tran' = << t >>
        BY <3>2
      <4>2. Started(t) /\ ParametersIn(t) /\ FormulasIn(t) /\ "operations" \notin t.kept
        BY <2>1, <3>2, <4>1, FormulasWritten DEF TranInv
      <4>3. tran' = << tran'[1] >> /\ tran'[1] = t /\ file' # << >> /\ Started(t)'
        BY <2>2, <2>3, <4>1, <4>2
      <4>. QED
        BY <2>3, <3>2, <4>2, <4>3 DEF TranInv, Started, Sound, ParametersIn, FormulasIn
    <3>. QED
      BY <2>3, <3>1, <3>2 DEF Advances
  <2>4. CASE Commits /\ Frame' \in {"none", "deny", "maintain"} /\ tran' = << >>
    <3>1. last' \in [of : Downloads, kept : SUBSET Tables]
      BY <1>12, WriteEffect DEF TranInv
    <3>. QED
      BY <2>4, <3>1 DEF TranInv
  <2>5. CASE UNCHANGED <<file, last>> /\ Frame' \in {"none", "deny", "maintain"} /\ tran' = << >>
    BY <2>5, NoTransaction
  <2>. QED
    BY <1>12, <2>3, <2>4, <2>5, WriteKeepsCalls
<1>. QED
  BY <1>1, <1>2, <1>3, <1>4, <1>5, <1>6, <1>7, <1>8, <1>9, <1>10, <1>11, <1>12
  DEF Next, Operator, Continue, MaintenanceStep

\* Forwarders deliver what they have read, and report what they have delivered.
LEMMA CallerStep ==
  ASSUME IInv, [Next]_vars
  PROVE  CallerInv'
<1>. ConnInv /\ FileInv /\ CallerInv
  BY DEF IInv
<1>1. ASSUME NEW s \in Samples, Offer(s)
      PROVE  CallerInv'
  <2>1. /\ accepted' = accepted \/ accepted' = accepted \cup {s}
        /\ UNCHANGED <<known, inFlight, delivered, acked>>
    BY <1>1 DEF Offer
  <2>. QED
    BY <2>1 DEF CallerInv
<1>2. ASSUME NEW v \in Downloads, Refresh(v)
      PROVE  CallerInv'
  BY <1>2 DEF Refresh, CallerInv
<1>3. CASE Load
  <2>1. known' \subseteq Params
    BY <1>3, SQLExecuteEffect DEF Load, Db, FileInv, Sound, Content
  <2>. QED
    BY <1>3, <2>1 DEF Load, CallerInv
<1>4. ASSUME NEW k \in Servers, Fetch(k)
      PROVE  CallerInv'
  <2>1. PICK rows \in SUBSET ReadableRows : inFlight' = [inFlight EXCEPT ![k] = Ids(rows)]
    BY <1>4 DEF Fetch
  <2>2. Ids(rows) \subseteq accepted
    BY <2>1 DEF ReadableRows, Ids, Db, FileInv, Sound
  <2>3. UNCHANGED <<known, accepted, delivered, acked>>
    BY <1>4 DEF Fetch
  <2>. QED
    BY <2>1, <2>2, <2>3 DEF CallerInv
<1>5. ASSUME NEW k \in Servers, Forget(k)
      PROVE  CallerInv'
  BY <1>5 DEF Forget, CallerInv
<1>6. ASSUME NEW k \in Servers, NEW s \in Samples, Deliver(k, s)
      PROVE  CallerInv'
  BY <1>6 DEF Deliver, CallerInv
<1>7. ASSUME NEW k \in Servers, NEW s \in Samples, Report(k, s)
      PROVE  CallerInv'
  <2>1. /\ s \in delivered[k] /\ UNCHANGED <<known, accepted, delivered>>
        /\ acked' = acked \/ acked' = [acked EXCEPT ![k] = @ \cup {s}]
        /\ inFlight' = inFlight \/ inFlight' = [inFlight EXCEPT ![k] = @ \ {s}]
    BY <1>7, ReportEffect DEF Report
  <2>. QED
    BY <2>1 DEF CallerInv
<1>8. CASE UNCHANGED callerVars
  BY <1>8 DEF callerVars, CallerInv
<1>. QED
  BY <1>1, <1>2, <1>3, <1>4, <1>5, <1>6, <1>7, <1>8 DEF Next, Operator, Continue, vars

LEMMA InitInv == Init => IInv
<1>. SUFFICES ASSUME Init
              PROVE  IInv
  OBVIOUS
<1>1. PICK v \in Downloads : DbInit(v)
  BY DEF Init
<1>2. /\ up = TRUE /\ file = << FirstContent(v) >> /\ bak = << >> /\ frames = << >>
      /\ bConnStatus = TRUE /\ bConnPermission = TRUE
      /\ tran = << >> /\ last = [of |-> v, kept |-> {}]
  BY <1>1 DEF DbInit
<1>3. Frame = "none" /\ FramesInv
  BY <1>2, LeisAssumption DEF Frame, FramesInv
<1>4. ConnInv
  BY <1>2, <1>3, ContentOfFile DEF ConnInv, DeniedIsClosed, MaintenanceAlone
<1>5. FileInv
  <2>1. v \in [params : SUBSET Params, formulas : SUBSET Nat, operations : SUBSET Nat]
    BY LeisAssumption
  <2>2. FirstContent(v) \in Content /\ FirstContent(v).hist = {}
    BY <2>1 DEF FirstContent, Content
  <2>3. Sound(FirstContent(v), accepted)
    BY <2>2 DEF Sound
  <2>4. known = {}
    BY DEF Init
  <2>. QED
    BY <1>2, <1>3, <2>3, <2>4, ContentOfFile DEF FileInv
<1>6. CallerInv
  BY DEF Init, CallerInv
<1>7. TranInv
  BY <1>2, <1>3 DEF TranInv, WriteFrames, Tables
<1>. QED
  BY <1>3, <1>4, <1>5, <1>6, <1>7 DEF IInv

-----------------------------------------------------------------------------
(* What holds with every fault                                             *)

\* The invariant that carries the theorems below: each call of LEIS, each step of a
\* maintenance and each crash keeps it.
THEOREM Invariance == Spec => []IInv
<1>1. IInv /\ [Next]_vars => IInv'
  BY CallsStep, FileStep, TranStep, CallerStep DEF IInv
<1>. QED
  BY <1>1, InitInv, PTL DEF Spec

\* Every variable keeps its type, and an ID names one row of the history.
THEOREM TypeCorrect == Spec => []TypeOK
<1>1. IInv => TypeOK
  <2>. SUFFICES ASSUME IInv
                PROVE  TypeOK
    OBVIOUS
  <2>1. FramesInv /\ ConnInv /\ FileInv /\ CallerInv
    BY DEF IInv
  <2>2. \A f \in {file, bak} : f # << >> => Len(f) = 1 /\ Sound(f[1], accepted)
    <3>1. ASSUME NEW f \in {file, bak}, f # << >>
          PROVE  Len(f) = 1 /\ Sound(f[1], accepted)
      <4>1. f = << f[1] >> /\ Sound(f[1], accepted)
        BY <2>1, <3>1 DEF FileInv
      <4>2. Len(<< f[1] >>) = 1
        OBVIOUS
      <4>. QED
        BY <4>1, <4>2
    <3>. QED
      BY <3>1
  <2>3. /\ Len(frames) \in 0 .. MaxFrames
        /\ \A i \in 1 .. Len(frames) : frames[i] \in FrameKinds
    BY <2>1, LeisAssumption DEF FramesInv
  <2>4. ~up => frames = << >> /\ ~bConnStatus
    BY <2>1 DEF FramesInv
  <2>5. tran = << >> \/ (Len(tran) = 1 /\ tran[1] \in Tran)
    <3>1. ASSUME NEW t, tran = << t >>
          PROVE  Len(tran) = 1 /\ tran[1] = t
      BY <3>1
    <3>2. CASE Frame \in WriteFrames
      BY <2>1, <3>1, <3>2 DEF IInv, TranInv, Started
    <3>. QED
      BY <3>2 DEF IInv, TranInv
  <2>6. last \in [of : Downloads, kept : SUBSET Tables]
    BY DEF IInv, TranInv
  <2>. QED
    BY <2>1, <2>2, <2>3, <2>4, <2>5, <2>6
    DEF TypeOK, ConnInv, CallerInv, Sound, FrameKinds, WriteFrames
<1>. QED
  BY <1>1, Invariance, PTL

\* While the connection is denied it is closed, whatever entered during the
\* DoEvents of the denial (DB.cls:36-70).
THEOREM DeniedCloses == Spec => []DeniedIsClosed
BY Invariance, PTL DEF IInv, ConnInv

\* The file is compacted and replaced with nobody on it and nobody allowed,
\* however denials and maintenances are nested (DB.cls:76-113).
THEOREM AloneInMaintenance == Spec => []MaintenanceAlone
BY Invariance, PTL DEF IInv, ConnInv

\* No row is hidden from the forwarders: each has a parameter ReadQueue finds,
\* whatever is downloaded while samples wait (LeisSer.cls:130-186, 216-226).
THEOREM NothingHidden == Spec => []Drainable
<1>1. IInv => Drainable
  BY DEF IInv, FileInv, Sound, Drainable
<1>. QED
  BY <1>1, Invariance, PTL

-----------------------------------------------------------------------------
(* The download the database holds                                         *)

\* The steps that change the history only, or nothing.
LEMMA DownloadKept ==
  ASSUME IInv, OneDownload, file # << >>, NEW e, Update(e), e.formulas = file[1].formulas,
         e.operations = file[1].operations, e.params = file[1].params, UNCHANGED last
  PROVE  OneDownload'
<1>1. file'[1] = e
  BY ContentOfFile DEF Update
<1>. QED
  BY <1>1 DEF OneDownload, Holds

\* Formulas and operations are written together or not at all.
LEMMA DownloadStep ==
  ASSUME IInv, OneDownload, [Next]_vars
  PROVE  OneDownload'
<1>. DEFINE d == file[1]
<1>1. file # << >> => d \in Content
  BY DEF IInv, FileInv, Sound
<1>2. CASE file' \in {file, << >>} /\ UNCHANGED last
  BY <1>2 DEF OneDownload
<1>3. ASSUME NEW s \in Samples, Offer(s)
      PROVE  OneDownload'
  <2>1. UNCHANGED last
    BY <1>3, CallersStatements DEF StatementStep
  <2>. QED
    BY <1>1, <1>2, <1>3, <2>1, OfferEffect, DownloadKept DEF Content
<1>4. CASE WriteSISInfo
  <2>1. ASSUME NEW e, Update(e), Holds(e, last'.of, last'.kept)
        PROVE  OneDownload'
    <3>1. file'[1] = e
      BY <2>1, ContentOfFile DEF Update
    <3>. QED
      BY <2>1, <3>1 DEF OneDownload
  <2>. QED
    BY <1>2, <1>4, <2>1, WriteEffect
<1>5. CASE Maintenance
  <2>1. UNCHANGED last
    BY <1>5 DEF Maintenance
  <2>. QED
    BY <1>1, <1>2, <1>5, <2>1, MaintenanceEffect, DownloadKept DEF Content
<1>6. ASSUME NEW k \in Servers, NEW s \in Samples, Report(k, s)
      PROVE  OneDownload'
  <2>1. file # << >> => /\ Marked(d, s, k).formulas = d.formulas
                        /\ Marked(d, s, k).operations = d.operations
                        /\ Marked(d, s, k).params = d.params
    BY <1>1 DEF Content, Marked
  <2>2. UNCHANGED last
    BY <1>6, CallersStatements DEF StatementStep
  <2>. QED
    BY <1>2, <1>6, <2>1, <2>2, ReportEffect, DownloadKept
<1>7. CASE Swap
  <2>1. bak = file
    BY <1>7 DEF Swap, IInv, FileInv
  <2>. QED
    BY <1>2, <1>7, <2>1 DEF Swap
<1>8. CASE \/ Load
           \/ \E v \in Downloads : Refresh(v)
           \/ AllowConnection
           \/ DenyConnection
           \/ DenyCloses
           \/ MaintenanceCloses
           \/ Compact
           \/ Clean
           \/ Crash
           \/ Restart
           \/ UNCHANGED vars
           \/ \E k \in Servers : Fetch(k) \/ Forget(k)
           \/ \E k \in Servers, s \in Samples : Deliver(k, s)
  BY <1>2, <1>8 DEF Load, Refresh, BeginTran, AllowConnection, DenyConnection, DenyCloses,
    MaintenanceCloses, Compact, Clean, Crash, Restart, vars, dbVars, Fetch, ReadQueue, Forget, Deliver
<1>. QED
  BY <1>3, <1>4, <1>5, <1>6, <1>7, <1>8 DEF Next, Operator, Continue, MaintenanceStep

\* The database holds the whole of the download that was committed last, whatever
\* fails or dies while one is written; only a DELETE of WriteSISInfo that fails,
\* whose answer is not looked at, leaves rows of before (LeisSer.cls:56, 93).
THEOREM WholeDownload == Spec => []OneDownload
<1>1. Init => OneDownload
  <2>. SUFFICES ASSUME Init
                PROVE  OneDownload
    OBVIOUS
  <2>1. PICK v \in Downloads : file = << FirstContent(v) >> /\ last = [of |-> v, kept |-> {}]
    BY DEF Init, DbInit
  <2>2. file[1] = FirstContent(v) /\ last.of = v /\ last.kept = {}
    BY <2>1
  <2>. QED
    BY <2>2 DEF OneDownload, Holds, FirstContent
<1>2. IInv /\ OneDownload /\ [Next]_vars => OneDownload'
  BY DownloadStep
<1>. QED
  BY <1>1, <1>2, Invariance, PTL DEF Spec

-----------------------------------------------------------------------------
(* What fails with a fault: the buffer                                     *)

\* The samples of the rows that wait in a file that is there.
LEMMA HeldInFile ==
  ASSUME file # << >>
  PROVE  \A s : s \in Held <=> \E r \in file[1].hist : r.id = s /\ ~r.MasterDone
BY DEF Held, Stored, Ids

LEMMA HeldInUpdated ==
  ASSUME NEW e, Update(e)
  PROVE  \A s : s \in Held' <=> \E r \in e.hist : r.id = s /\ ~r.MasterDone
<1>1. file' # << >> /\ file'[1] = e
  BY ContentOfFile DEF Update
<1>. QED
  BY <1>1 DEF Held, Stored, Ids

\* A step that leaves the rows that wait.
BufferStays == UNCHANGED <<Held, acked[Master], accepted>> /\ file' # << >>

LEMMA SameHistory ==
  ASSUME file # << >>, NEW e, Update(e), UNCHANGED <<acked[Master], accepted>>,
         \A s : (\E r \in e.hist : r.id = s /\ ~r.MasterDone)
                  <=> (\E r \in file[1].hist : r.id = s /\ ~r.MasterDone)
  PROVE  BufferStays
<1>1. \A s : s \in Held' <=> s \in Held
  BY HeldInFile, HeldInUpdated
<1>2. Held = {s \in Held : TRUE} /\ Held' = {s \in Held' : TRUE}
  OBVIOUS
<1>3. Held' = Held
  BY <1>1, <1>2
<1>4. file' # << >>
  BY ContentOfFile DEF Update
<1>. QED
  BY <1>3, <1>4 DEF BufferStays

\* An accepted offer is Accept.
LEMMA OfferAccepts ==
  ASSUME IInv, file # << >>, NEW s \in Samples, Offer(s)
  PROVE  \/ BufferStays
         \/ Buffer!Accept(s) /\ accepted' = accepted \cup {s} /\ file' # << >>
<1>. DEFINE d == file[1]
            e == [d EXCEPT !.hist = @ \cup {NewRow(s, ParOf[s])}]
<1>1. /\ s \notin accepted /\ acked' = acked /\ bak' = bak
      /\ Sound(d, accepted)
  BY DEF Offer, WriteQueue, Statement, IInv, CallerInv, FileInv
<1>2. CASE UNCHANGED <<file, accepted>>
  BY <1>1, <1>2 DEF BufferStays, Held, Stored
<1>3. CASE Update(e) /\ accepted' = accepted \cup {s}
  <2>1. e.hist = d.hist \cup {NewRow(s, ParOf[s])}
    BY <1>1 DEF Sound, Content
  <2>2. NewRow(s, ParOf[s]).id = s /\ ~NewRow(s, ParOf[s]).MasterDone
    BY DEF NewRow
  <2>. HIDE DEF e
  <2>3. \A t : t \in Held' <=> t \in Held \/ t = s
    BY <1>3, <2>1, <2>2, HeldInFile, HeldInUpdated
  <2>4. Held' = Held \cup {s}
    BY <2>3
  <2>5. s \notin Held /\ s \notin acked[Master]
    BY <1>1, HeldInFile, SystemAssumption DEF IInv, CallerInv, Sound
  <2>6. file' # << >>
    BY <1>3, ContentOfFile DEF Update
  <2>. QED
    BY <1>1, <1>3, <2>4, <2>5, <2>6 DEF Buffer!Accept
<1>. QED
  BY <1>2, <1>3, OfferEffect

\* The report that marks a row done for the master server is Confirm; one that
\* is repeated because its answer was lost, or that is for the other server,
\* changes nothing.
LEMMA ReportConfirms ==
  ASSUME IInv, file # << >>, AcceptedIsStored, NEW k \in Servers, NEW s \in Samples, Report(k, s)
  PROVE  \/ BufferStays
         \/ Buffer!Confirm(s) /\ accepted' = accepted /\ file' # << >>
<1>. DEFINE d == file[1]
            Mark(r) == IF r.id = s THEN Done(r, k) ELSE r
<1>1. /\ Sound(d, accepted) /\ s \in accepted /\ UNCHANGED <<accepted, bak>>
      /\ acked \in [Servers -> SUBSET Samples]
  BY DEF Report, SQLDone, Statement, IInv, CallerInv, FileInv
<1>2. CASE UNCHANGED <<file, acked>>
  BY <1>1, <1>2 DEF BufferStays, Held, Stored
<1>3. CASE Update(Marked(d, s, k)) /\ acked' = [acked EXCEPT ![k] = @ \cup {s}]
  <2>1. Marked(d, s, k).hist = {Mark(r) : r \in d.hist} /\ d.hist \subseteq Row
    BY <1>1 DEF Marked, Sound, Content
  <2>2. file' # << >>
    BY <1>3, ContentOfFile DEF Update
  <2>3. CASE k = Master
    <3>1. \A r \in d.hist : /\ Mark(r).id = r.id
                            /\ ~Mark(r).MasterDone <=> ~r.MasterDone /\ r.id # s
      BY <2>1, <2>3 DEF Done, Row, Master
    <3>. HIDE DEF Mark
    <3>2. \A t : t \in Held' <=> \E r \in d.hist : Mark(r).id = t /\ ~Mark(r).MasterDone
      BY <1>3, <2>1, HeldInUpdated
    <3>3. \A t : t \in Held' <=> t \in Held /\ t # s
      BY <3>1, <3>2, HeldInFile
    <3>4. acked'[Master] = acked[Master] \cup {s}
      BY <1>1, <1>3, <2>3
    <3>5. CASE s \in Held
      <4>1. Held' = Held \ {s}
        BY <3>3
      <4>. QED
        BY <1>1, <2>2, <3>4, <3>5, <4>1 DEF Buffer!Confirm
    <3>6. CASE s \notin Held
      <4>1. s \in acked[Master]
        BY <1>1, <3>6 DEF AcceptedIsStored
      <4>2. Held' = Held
        BY <3>3, <3>6
      <4>. QED
        BY <1>1, <2>2, <3>4, <4>1, <4>2 DEF BufferStays
    <3>. QED
      BY <3>5, <3>6
  <2>4. CASE k # Master
    <3>1. \A r \in d.hist : Mark(r).id = r.id /\ Mark(r).MasterDone = r.MasterDone
      BY <2>1, <2>4 DEF Done, Row, Master
    <3>2. acked'[Master] = acked[Master]
      BY <1>1, <1>3, <2>4, SystemAssumption
    <3>. HIDE DEF Mark
    <3>3. \A t : (\E r \in Marked(d, s, k).hist : r.id = t /\ ~r.MasterDone)
                   <=> (\E r \in d.hist : r.id = t /\ ~r.MasterDone)
      BY <2>1, <3>1
    <3>. QED
      BY <1>1, <1>3, <3>2, <3>3, SameHistory
  <2>. QED
    BY <2>3, <2>4
<1>. QED
  BY <1>2, <1>3, ReportEffect

\* Every other step leaves what waits, if the copy that replaces the database
\* file does.
LEMMA OthersStay ==
  ASSUME "swap" \notin Faults, IInv, file # << >>, Next,
         ~\E s \in Samples : Offer(s), ~\E k \in Servers, s \in Samples : Report(k, s)
  PROVE  BufferStays
<1>. DEFINE d == file[1]
<1>1. Sound(d, accepted)
  BY DEF IInv, FileInv
<1>2. UNCHANGED <<acked[Master], accepted>>
  BY DEF Next, Refresh, Load, Operator, Continue, Fetch, Forget, Deliver, callerVars
<1>3. CASE file' = file
  BY <1>2, <1>3 DEF BufferStays, Held, Stored
<1>4. CASE WriteSISInfo
  BY <1>2, <1>3, <1>4, WriteEffect, WriteKeepsCalls, SameHistory DEF IInv
<1>5. CASE Maintenance
  <2>1. CASE Update([d EXCEPT !.hist = KillMasterSent(@)])
    <3>1. [d EXCEPT !.hist = KillMasterSent(@)].hist = {r \in d.hist : ~r.MasterDone}
      BY <1>1 DEF Sound, Content, KillMasterSent
    <3>. QED
      BY <1>2, <2>1, <3>1, SameHistory
  <2>. QED
    BY <1>3, <1>5, <2>1, MaintenanceEffect
<1>6. CASE Swap
  <2>1. file' = file
    BY <1>6 DEF Swap, IInv, FileInv
  <2>. QED
    BY <1>3, <2>1
<1>7. CASE \/ Load
           \/ \E v \in Downloads : Refresh(v)
           \/ AllowConnection
           \/ DenyConnection
           \/ DenyCloses
           \/ MaintenanceCloses
           \/ Compact
           \/ Clean
           \/ Crash
           \/ Restart
           \/ \E k \in Servers : Fetch(k) \/ Forget(k)
           \/ \E k \in Servers, s \in Samples : Deliver(k, s)
  BY <1>3, <1>7 DEF Load, Refresh, BeginTran, AllowConnection, DenyConnection, DenyCloses,
    MaintenanceCloses, Compact, Clean, Crash, Restart, dbVars, Fetch, ReadQueue, Forget, Deliver
<1>. QED
  BY <1>4, <1>5, <1>6, <1>7 DEF Next, Operator, Continue, MaintenanceStep

\* Every step is one of the buffer or leaves it.
LEMMA BufferStep ==
  ASSUME "swap" \notin Faults, IInv, file # << >>, AcceptedIsStored, [Next]_vars
  PROVE  file' # << >> /\ AcceptedIsStored' /\ [Buffer!BufferNext]_(Buffer!bufferVars)
<1>1. CASE BufferStays
  BY <1>1 DEF BufferStays, AcceptedIsStored, Buffer!bufferVars
<1>2. ASSUME NEW s \in Samples, Buffer!Accept(s), accepted' = accepted \cup {s}, file' # << >>
      PROVE  file' # << >> /\ AcceptedIsStored' /\ [Buffer!BufferNext]_(Buffer!bufferVars)
  BY <1>2 DEF Buffer!Accept, Buffer!BufferNext, AcceptedIsStored
<1>3. ASSUME NEW s \in Samples, Buffer!Confirm(s), accepted' = accepted, file' # << >>
      PROVE  file' # << >> /\ AcceptedIsStored' /\ [Buffer!BufferNext]_(Buffer!bufferVars)
  BY <1>3 DEF Buffer!Confirm, Buffer!BufferNext, AcceptedIsStored
<1>4. CASE UNCHANGED vars
  <2>1. BufferStays
    BY <1>4 DEF vars, dbVars, callerVars, BufferStays, Held, Stored
  <2>. QED
    BY <1>1, <2>1
<1>5. CASE Next
  BY <1>1, <1>2, <1>3, <1>5, OfferAccepts, ReportConfirms, OthersStay
<1>. QED
  BY <1>4, <1>5

\* Unless the copy fails, or LEIS dies, between the deletion of the database
\* file and its replacement (DB.cls:102-103), LEIS is a buffer that loses nothing:
\* what it has accepted is held until the master server has it, whatever other
\* statements and processes fail.
THEOREM BufferRefinement ==
  ASSUME "swap" \notin Faults
  PROVE  Spec => ImplementsHistBuffer /\ []AcceptedIsStored
<1>. DEFINE SInv == file # << >> /\ AcceptedIsStored
<1>1. Init => SInv /\ Buffer!BufferInit
  <2>. SUFFICES ASSUME Init
                PROVE  SInv /\ Buffer!BufferInit
    OBVIOUS
  <2>1. PICK v \in Downloads : file = << FirstContent(v) >>
    BY DEF Init, DbInit
  <2>2. file # << >> /\ file[1].hist = {}
    BY <2>1, ContentOfFile DEF FirstContent
  <2>3. Held = {}
    BY <2>2 DEF Held, Stored, Ids
  <2>4. accepted = {} /\ acked[Master] = {}
    BY SystemAssumption DEF Init
  <2>. QED
    BY <2>2, <2>3, <2>4 DEF AcceptedIsStored, Buffer!BufferInit
<1>2. IInv /\ SInv /\ [Next]_vars => SInv' /\ [Buffer!BufferNext]_(Buffer!bufferVars)
  BY BufferStep
<1>3. SInv => AcceptedIsStored
  OBVIOUS
<1>. QED
  BY <1>1, <1>2, <1>3, Invariance, PTL DEF Spec, ImplementsHistBuffer, Buffer!BufferSpec
=============================================================================
