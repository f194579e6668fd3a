------------------------------- MODULE EdpsTimer -------------------------------
(***************************************************************************)
(* The timer object of EdpsUtils.dll (edpsrun/EdpsUtils/EdpsTimer.cpp).    *)
(* It is free-threaded and has no lock: each caller's call runs on a       *)
(* thread of its own, and two may be in the object at once.  A timer of    *)
(* the queue fires on the one thread of the queue, which raises OnTimer    *)
(* and waits for the client; the client may call the object from there     *)
(* while another of its calls is still running.                            *)
(*                                                                         *)
(* One step is one access to the shared members with the decision it is    *)
(* for, or one call of the operating system.  The hits are not counted.    *)
(***************************************************************************)
EXTENDS Integers, FiniteSets

CONSTANTS
  Callers,         \* the threads that call the object
  Intervals,       \* the intervals callers ask for
  TimerIds,        \* what CreateTimerQueueTimer returns
  CreateMayFail    \* CreateTimerQueueTimer may fail

NULL == 0

ASSUME TimerAssumption ==
  /\ Callers # {}
  /\ Intervals \subseteq Int
  /\ TimerIds \subseteq Nat \ {NULL} /\ TimerIds # {}
  /\ CreateMayFail \in BOOLEAN

VARIABLES
  m_bEnabled,      \* members of the object
  m_lInterval,
  m_hTimer,
  timers,          \* the timers of the queue that will fire for the object: [id, interval]
  firing,          \* the queue's thread is in the callback
  released,        \* FinalRelease has been called
  pc,              \* by caller: "idle", "read", "store", "clamp", "delete", "null", "test", "create"
  call,            \* by caller: what is put, [member, val]
  before,          \* by caller: bBeforeEnabled and lBeforeInt, [enabled, interval]
  failed,          \* the last CreateTimerQueueTimer has failed, and the call returned E_FAIL
  overlapped       \* history: two calls have been in the object at once

members == <<m_bEnabled, m_lInterval, m_hTimer>>
queueVars == <<timers, firing, released>>
callerVars == <<pc, call, before, failed, overlapped>>
vars == <<members, queueVars, callerVars>>

Puts == [member : {"Enabled"}, val : BOOLEAN] \cup [member : {"Interval"}, val : Intervals]

\* The arguments and locals of a caller that is not in a call.
NoPut == [member |-> "Enabled", val |-> FALSE]
NothingBefore == [enabled |-> FALSE, interval |-> -1]

Enabled == m_bEnabled /\ m_lInterval > 0

Init ==
  /\ m_bEnabled = FALSE /\ m_lInterval = -1 /\ m_hTimer = NULL
  /\ timers = {} /\ firing = FALSE /\ released = FALSE
  /\ pc = [c \in Callers |-> "idle"]
  /\ call = [c \in Callers |-> NoPut]
  /\ before = [c \in Callers |-> NothingBefore]
  /\ failed = FALSE /\ overlapped = FALSE

-----------------------------------------------------------------------------
At(c, here, there) == pc[c] = here /\ pc' = [pc EXCEPT ![c] = there]

\* put_Enabled or put_Interval is called.
Begin(c, put) ==
  /\ ~released
  /\ At(c, "idle", "read")
  /\ call' = [call EXCEPT ![c] = put]
  /\ overlapped' = (overlapped \/ \E d \in Callers : pc[d] # "idle")
  /\ UNCHANGED <<members, queueVars, before, failed>>

\* bPrevEn = Enabled(), and put_Interval keeps the interval.
ReadBefore(c) ==
  /\ At(c, "read", "store")
  /\ before' = [before EXCEPT ![c] = [enabled |-> Enabled, interval |-> m_lInterval]]
  /\ UNCHANGED <<members, queueVars, call, failed, overlapped>>

\* put_Enabled passes on the interval it finds after it has set m_bEnabled.
StoreEnabled(c) ==
  /\ call[c].member = "Enabled"
  /\ At(c, "store", "delete")
  /\ m_bEnabled' = call[c].val
  /\ before' = [before EXCEPT ![c].interval = m_lInterval]
  /\ UNCHANGED <<m_lInterval, m_hTimer, queueVars, call, failed, overlapped>>

StoreInterval(c) ==
  /\ call[c].member = "Interval"
  /\ At(c, "store", "clamp")
  /\ m_lInterval' = call[c].val
  /\ UNCHANGED <<m_bEnabled, m_hTimer, queueVars, call, before, failed, overlapped>>

\* Mutant of Clamped: only what is no interval is changed.
ClampedPositive(n) == IF n <= 0 THEN 10 ELSE n

\* An interval below 10 ms becomes 10 ms.
Clamped(n) == IF n < 10 THEN 10 ELSE n

ClampInterval(c) ==
  /\ At(c, "clamp", "delete")
  /\ m_lInterval' = Clamped(m_lInterval)
  /\ UNCHANGED <<m_bEnabled, m_hTimer, queueVars, call, before, failed, overlapped>>

\* A bug: the timer is only deleted when it is to stop.
MustDeleteStopped(c) == before[c].enabled /\ ~Enabled

MustDelete(c) == before[c].enabled /\ (~Enabled \/ before[c].interval # m_lInterval)

\* DeleteTimerQueueTimer does not wait for a callback that runs.
DeleteTimer(c) ==
  /\ IF MustDelete(c)
       THEN At(c, "delete", "null") /\ timers' = {t \in timers : t.id # m_hTimer}
       ELSE At(c, "delete", "test") /\ UNCHANGED timers
  /\ UNCHANGED <<members, firing, released, call, before, failed, overlapped>>

ForgetTimer(c) ==
  /\ At(c, "null", "test")
  /\ m_hTimer' = NULL
  /\ UNCHANGED <<m_bEnabled, m_lInterval, queueVars, call, before, failed, overlapped>>

\* A bug: a change of the interval does not start the timer again.
MustCreateEnabled(c) == Enabled /\ ~before[c].enabled

MustCreate(c) == Enabled /\ (~before[c].enabled \/ before[c].interval # m_lInterval)

\* The call returns, and its locals are gone.
Return(c, here) ==
  /\ At(c, here, "idle")
  /\ call' = [call EXCEPT ![c] = NoPut]
  /\ before' = [before EXCEPT ![c] = NothingBefore]
  /\ UNCHANGED <<m_bEnabled, m_lInterval, firing, released, overlapped>>

TestCreate(c) ==
  \/ /\ MustCreate(c)
     /\ At(c, "test", "create")
     /\ UNCHANGED <<members, queueVars, call, before, failed, overlapped>>
  \/ /\ ~MustCreate(c)
     /\ Return(c, "test")
     /\ UNCHANGED <<m_hTimer, timers, failed>>

\* The timer gets the interval that is there now.
CreateTimer(c) ==
  /\ Return(c, "create")
  /\ \/ /\ \E id \in TimerIds \ {t.id : t \in timers} :
             /\ m_hTimer' = id
             /\ timers' = timers \cup {[id |-> id, interval |-> m_lInterval]}
        /\ failed' = FALSE
     \/ /\ CreateMayFail
        /\ failed' = TRUE
        /\ UNCHANGED <<m_hTimer, timers>>

PutStep(c) ==
  \/ ReadBefore(c) \/ StoreEnabled(c) \/ StoreInterval(c) \/ ClampInterval(c)
  \/ DeleteTimer(c) \/ ForgetTimer(c) \/ TestCreate(c) \/ CreateTimer(c)

\* A timer of the queue is due: WaitOrTimerCallback begins, and ends when the
\* client has handled OnTimer.
CallbackBegins ==
  /\ timers # {} /\ ~firing
  /\ firing' = TRUE
  /\ UNCHANGED <<members, timers, released, callerVars>>

CallbackEnds ==
  /\ firing
  /\ firing' = FALSE
  /\ UNCHANGED <<members, timers, released, callerVars>>

TimersLeft == {t \in timers : t.id # m_hTimer}

\* The last reference is released, so no call runs.
FinalRelease ==
  /\ ~released
  /\ \A c \in Callers : pc[c] = "idle"
  /\ released' = TRUE
  /\ timers' = TimersLeft
  /\ m_hTimer' = NULL
  /\ UNCHANGED <<m_bEnabled, m_lInterval, firing, callerVars>>

Next ==
  \/ \E c \in Callers : PutStep(c) \/ \E put \in Puts : Begin(c, put)
  \/ CallbackBegins \/ CallbackEnds
  \/ FinalRelease

Spec == Init /\ [][Next]_vars

\* The threads of the calls run, timers fire, and the client handles OnTimer.
\* That it calls the object is not assumed.
Fairness ==
  /\ \A c \in Callers : WF_vars(PutStep(c))
  /\ WF_vars(CallbackBegins) /\ WF_vars(CallbackEnds)

LiveSpec == Spec /\ Fairness

-----------------------------------------------------------------------------
Quiet == \A c \in Callers : pc[c] = "idle"

\* Every variable has its type, and no timer has less than 10 ms unless one call
\* has read the interval another had not raised yet.
TypeOK ==
  /\ m_bEnabled \in BOOLEAN /\ m_lInterval \in Intervals \cup {-1, 10}
  /\ m_hTimer \in TimerIds \cup {NULL}
  /\ timers \subseteq [id : TimerIds, interval : Intervals \cup {-1, 10}]
  /\ ~overlapped => \A t \in timers : t.interval >= 10
  /\ firing \in BOOLEAN /\ released \in BOOLEAN
  /\ pc \in [Callers -> {"idle", "read", "store", "clamp", "delete", "null", "test", "create"}]
  /\ call \in [Callers -> Puts]
  /\ before \in [Callers -> [enabled : BOOLEAN, interval : Intervals \cup {-1, 10}]]
  /\ failed \in BOOLEAN /\ overlapped \in BOOLEAN

\* Between calls the queue has the object's timer and no other, with the object's
\* interval, and only if the object is enabled: what EdpsTimer.cpp:35 says of the
\* first condition of RestartTimer, "Need to Delete Previos Timer".  An enabled
\* object without a timer is one whose CreateTimerQueueTimer has failed.  The
\* calls may come from any threads, and nothing is said once two have overlapped.
TimerMatches ==
  Quiet /\ ~overlapped =>
    /\ timers = IF m_hTimer = NULL THEN {} ELSE {[id |-> m_hTimer, interval |-> m_lInterval]}
    /\ m_hTimer # NULL => Enabled
    /\ ~released /\ Enabled /\ m_hTimer = NULL => failed

\* An enabled object fires again and again, however often it is enabled again or
\* given the interval it has: such a call may not start its timer anew.  The
\* exceptions are a timer that could not be created, overlapping calls, the release.
TimerFires ==
  \A n \in Intervals \cup {10} :
    <>[](Enabled /\ m_lInterval = n /\ ~failed /\ ~overlapped /\ ~released) => []<>firing
=============================================================================
