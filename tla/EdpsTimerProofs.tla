---------------------------- MODULE EdpsTimerProofs ----------------------------
(***************************************************************************)
(* Proofs about the timer object, for any threads that call it, any        *)
(* intervals and any handles of the queue.  They say what holds as long as *)
(* no two calls have been in the object at once: after that one call may   *)
(* have started a timer with the interval another had not raised yet.      *)
(***************************************************************************)
EXTENDS EdpsTimer, TLAPS

\* The queue has the object's timer, if it has one, with that interval.
Sound(interval) ==
  timers = IF m_hTimer = NULL THEN {} ELSE {[id |-> m_hTimer, interval |-> interval]}

\* What holds while caller c is between two of its steps and no other is in a call.
\* Until the new value is stored the timer is that of the members; until it is
\* deleted, that of what the call has read before; from then on it is gone, unless
\* nothing has changed.
CallInv(c) ==
  /\ pc[c] # "clamp" => m_lInterval = -1 \/ m_lInterval >= 10
  /\ released => pc[c] = "idle"
  /\ pc[c] \in {"idle", "read", "store"} =>
       /\ Sound(m_lInterval)
       /\ m_hTimer # NULL => Enabled
       /\ ~released /\ Enabled /\ m_hTimer = NULL => failed
  /\ pc[c] = "store" => before[c].interval = m_lInterval /\ (before[c].enabled <=> Enabled)
  /\ pc[c] \in {"clamp", "delete"} =>
       /\ Sound(before[c].interval)
       /\ m_hTimer # NULL => before[c].enabled
       /\ before[c].enabled /\ m_hTimer = NULL => failed
  /\ pc[c] = "null" => timers = {} /\ MustDelete(c)
  /\ pc[c] = "test" =>
       \/ timers = {} /\ m_hTimer = NULL /\ (MustDelete(c) \/ ~before[c].enabled)
       \/ /\ before[c].enabled /\ ~MustDelete(c)
          /\ Sound(before[c].interval)
          /\ m_hTimer = NULL => failed
  /\ pc[c] = "create" => Enabled /\ timers = {} /\ m_hTimer = NULL

\* No other call than c's runs.
Alone(c) == \A d \in Callers \ {c} : pc[d] = "idle"

OneAtATime == \E c \in Callers : Alone(c)

IInv ==
  /\ TypeOK
  /\ ~overlapped => OneAtATime /\ \A c \in Callers : Alone(c) => CallInv(c)

-----------------------------------------------------------------------------
LEMMA Types ==
  ASSUME NEW c \in Callers, TypeOK
  PROVE  /\ m_bEnabled \in BOOLEAN /\ m_lInterval \in Int /\ m_lInterval \in Intervals \cup {-1, 10}
         /\ m_hTimer \in TimerIds \cup {NULL} /\ NULL \notin TimerIds
         /\ before[c].enabled \in BOOLEAN /\ before[c].interval \in Int
         /\ released \in BOOLEAN /\ failed \in BOOLEAN
         /\ call[c] \in Puts
         /\ call[c].member = "Interval" => call[c].val \in Intervals
         /\ call[c].member = "Enabled" => call[c].val \in BOOLEAN
<1>1. before[c] \in [enabled : BOOLEAN, interval : Intervals \cup {-1, 10}] /\ call[c] \in Puts
  BY DEF TypeOK
<1>2. /\ call[c].member = "Interval" => call[c].val \in Intervals
      /\ call[c].member = "Enabled" => call[c].val \in BOOLEAN
  BY <1>1 DEF Puts
<1>3. Intervals \cup {-1, 10} \subseteq Int
  BY TimerAssumption
<1>4. NULL \notin TimerIds
  BY TimerAssumption
<1>. QED
  BY <1>1, <1>2, <1>3, <1>4 DEF TypeOK

\* Nobody calls, or only one: who takes a step in a call is alone in the object.
LEMMA WhoStepsIsAlone ==
  ASSUME NEW c \in Callers, TypeOK, OneAtATime, pc[c] # "idle"
  PROVE  Alone(c)
<1>1. PICK d \in Callers : Alone(d)
  BY DEF OneAtATime
<1>. QED
  BY <1>1 DEF Alone

\* The queue of the object has no timer but its own.
LEMMA OwnTimer ==
  ASSUME NEW interval, Sound(interval)
  PROVE  {t \in timers : t.id # m_hTimer} = {}
BY DEF Sound

\* A step of a call leaves every variable its type.
LEMMA TypeOKPut ==
  ASSUME NEW c \in Callers, IInv, PutStep(c)
  PROVE  TypeOK'
<1>. DEFINE States == {"idle", "read", "store", "clamp", "delete", "null", "test", "create"}
            Befores == [enabled : BOOLEAN, interval : Intervals \cup {-1, 10}]
            TimerSet == [id : TimerIds, interval : Intervals \cup {-1, 10}]
            Tall == ~overlapped => \A t \in timers : t.interval >= 10
<1>0. /\ m_bEnabled \in BOOLEAN /\ m_lInterval \in Intervals \cup {-1, 10}
      /\ m_hTimer \in TimerIds \cup {NULL} /\ timers \subseteq TimerSet /\ Tall
      /\ firing \in BOOLEAN /\ released \in BOOLEAN
      /\ pc \in [Callers -> States] /\ call \in [Callers -> Puts]
      /\ before \in [Callers -> Befores] /\ failed \in BOOLEAN /\ overlapped \in BOOLEAN
  BY DEF IInv, TypeOK
<1>b. CASE ReadBefore(c)
  <2>1. Enabled \in BOOLEAN
    BY DEF Enabled
  <2>2. [enabled |-> Enabled, interval |-> m_lInterval] \in Befores
    BY <1>0, <2>1
  <2>3. before' \in [Callers -> Befores]
    BY <1>0, <1>b, <2>2 DEF ReadBefore
  <2>. QED
    BY <1>0, <1>b, <2>3 DEF ReadBefore, At, TypeOK, members, queueVars
<1>c. CASE StoreEnabled(c)
  <2>1. before' \in [Callers -> Befores]
    <3>1. before' = [before EXCEPT ![c] = [@ EXCEPT !.interval = m_lInterval]]
      BY <1>c DEF StoreEnabled
    <3>2. [before[c] EXCEPT !.interval = m_lInterval] \in Befores
      BY <1>0
    <3>. QED
      BY <1>0, <3>1, <3>2
  <2>2. m_bEnabled' \in BOOLEAN
    BY <1>c, Types DEF StoreEnabled, IInv
  <2>. QED
    BY <1>0, <1>c, <2>1, <2>2 DEF StoreEnabled, At, TypeOK, queueVars
<1>d. CASE StoreInterval(c)
  <2>1. m_lInterval' \in Intervals
    BY <1>d, Types DEF StoreInterval, IInv
  <2>. QED
    BY <1>0, <1>d, <2>1 DEF StoreInterval, At, TypeOK, queueVars
<1>e. CASE ClampInterval(c)
  <2>1. m_lInterval' \in Intervals \cup {-1, 10}
    BY <1>0, <1>e DEF ClampInterval, Clamped
  <2>. QED
    BY <1>0, <1>e, <2>1 DEF ClampInterval, At, TypeOK, queueVars
<1>f. CASE DeleteTimer(c)
  <2>1. timers' \subseteq timers
    BY <1>f DEF DeleteTimer
  <2>2. pc' \in [Callers -> States]
    BY <1>0, <1>f DEF DeleteTimer, At
  <2>3. UNCHANGED <<members, firing, released, call, before, failed, overlapped>>
    BY <1>f DEF DeleteTimer
  <2>. QED
    BY <1>0, <2>1, <2>2, <2>3 DEF TypeOK, members
<1>g. CASE ForgetTimer(c)
  BY <1>0, <1>g DEF ForgetTimer, At, TypeOK, queueVars
<1>r. ASSUME NEW here, Return(c, here)
      PROVE  /\ pc' \in [Callers -> States] /\ call' \in [Callers -> Puts]
             /\ before' \in [Callers -> Befores]
             /\ UNCHANGED <<m_bEnabled, m_lInterval, firing, released, overlapped>>
  <2>1. NoPut \in Puts
    BY DEF NoPut, Puts
  <2>2. NothingBefore \in Befores
    BY DEF NothingBefore
  <2>. QED
    BY <1>0, <1>r, <2>1, <2>2 DEF Return, At
<1>t. CASE TestCreate(c)
  <2>1. CASE At(c, "test", "create") /\ UNCHANGED <<members, queueVars, call, before, failed, overlapped>>
    BY <1>0, <2>1 DEF At, TypeOK, members, queueVars
  <2>2. CASE Return(c, "test") /\ UNCHANGED <<m_hTimer, timers, failed>>
    BY <1>0, <1>r, <2>2 DEF TypeOK
  <2>. QED
    BY <1>t, <2>1, <2>2 DEF TestCreate
<1>h. CASE CreateTimer(c)
  <2>1. Return(c, "create")
    BY <1>h DEF CreateTimer
  <2>2. ~overlapped => m_lInterval >= 10
    <3>1. SUFFICES ASSUME ~overlapped
                   PROVE  m_lInterval >= 10
      OBVIOUS
    <3>2. pc[c] = "create"
      BY <2>1 DEF Return, At
    <3>3. CallInv(c)
      BY <3>1, <3>2, WhoStepsIsAlone DEF IInv
    <3>. QED
      BY <3>2, <3>3 DEF CallInv, Enabled
  <2>3. /\ m_hTimer' \in TimerIds \cup {NULL} /\ timers' \subseteq TimerSet
        /\ ~overlapped => \A t \in timers' : t.interval >= 10
        /\ failed' \in BOOLEAN
    <3>1. CASE failed' = TRUE /\ UNCHANGED <<m_hTimer, timers>>
      BY <1>0, <3>1
    <3>2. ASSUME NEW id \in TimerIds, m_hTimer' = id, failed' = FALSE,
                 timers' = timers \cup {[id |-> id, interval |-> m_lInterval]}
          PROVE  /\ m_hTimer' \in TimerIds \cup {NULL} /\ timers' \subseteq TimerSet
                 /\ ~overlapped => \A t \in timers' : t.interval >= 10
                 /\ failed' \in BOOLEAN
      <4>. DEFINE New == [id |-> id, interval |-> m_lInterval]
      <4>1. New \in TimerSet /\ New.interval = m_lInterval
        BY <1>0
      <4>2. timers' \subseteq TimerSet
        BY <1>0, <3>2, <4>1
      <4>3. \A t \in timers' : t \in timers \/ t.interval = m_lInterval
        BY <3>2, <4>1
      <4>. QED
        BY <1>0, <2>2, <3>2, <4>2, <4>3
    <3>. QED
      BY <1>h, <3>1, <3>2 DEF CreateTimer
  <2>. QED
    BY <1>0, <1>r, <2>1, <2>3 DEF TypeOK
<1>. QED
  BY <1>b, <1>c, <1>d, <1>e, <1>f, <1>g, <1>t, <1>h DEF PutStep

\* So does every other step.
LEMMA TypeOKStep ==
  ASSUME IInv, [Next]_vars
  PROVE  TypeOK'
<1>0. TypeOK
  BY DEF IInv
<1>a. ASSUME NEW c \in Callers, NEW put \in Puts, Begin(c, put)
      PROVE  TypeOK'
  <2>1. overlapped' \in BOOLEAN /\ (~overlapped' => ~overlapped)
    BY <1>0, <1>a DEF Begin, TypeOK
  <2>2. pc' \in [Callers -> {"idle", "read", "store", "clamp", "delete", "null", "test", "create"}]
        /\ call' \in [Callers -> Puts]
    BY <1>0, <1>a DEF Begin, At, TypeOK
  <2>3. UNCHANGED <<members, queueVars, before, failed>>
    BY <1>a DEF Begin
  <2>. QED
    BY <1>0, <2>1, <2>2, <2>3 DEF TypeOK, members, queueVars
<1>i. CASE CallbackBegins \/ CallbackEnds
  BY <1>0, <1>i DEF CallbackBegins, CallbackEnds, TypeOK, members, callerVars
<1>j. CASE FinalRelease
  <2>1. timers' \subseteq timers /\ m_hTimer' = NULL /\ released' = TRUE
        /\ UNCHANGED <<m_bEnabled, m_lInterval, firing, callerVars>>
    BY <1>j DEF FinalRelease, TimersLeft
  <2>. QED
    BY <1>0, <2>1 DEF TypeOK, callerVars
<1>k. CASE UNCHANGED vars
  BY <1>0, <1>k DEF TypeOK, vars, members, queueVars, callerVars
<1>. QED
  BY <1>a, <1>i, <1>j, <1>k, TypeOKPut DEF Next

-----------------------------------------------------------------------------
\* The steps of a call that is alone.
LEMMA CallPut ==
  ASSUME NEW c \in Callers, TypeOK, CallInv(c), PutStep(c)
  PROVE  CallInv(c)'
<1>. DEFINE Gone == timers = {} /\ m_hTimer = NULL
            Old == before[c].interval
            WasEnabled == before[c].enabled
<1>0. /\ m_bEnabled \in BOOLEAN /\ m_lInterval \in Int /\ Old \in Int
      /\ m_hTimer \in TimerIds \cup {NULL} /\ NULL \notin TimerIds
      /\ released \in BOOLEAN /\ failed \in BOOLEAN
  BY Types
<1>1. pc \in [Callers -> {"idle", "read", "store", "clamp", "delete", "null", "test", "create"}]
      /\ before \in [Callers -> [enabled : BOOLEAN, interval : Intervals \cup {-1, 10}]]
  BY DEF TypeOK
<1>b. CASE ReadBefore(c)
  <2>1. pc[c] = "read" /\ pc'[c] = "store" /\ UNCHANGED <<members, timers, released, failed>>
    BY <1>0, <1>1, <1>b DEF ReadBefore, At, queueVars
  <2>2. before'[c] = [enabled |-> Enabled, interval |-> m_lInterval]
    BY <1>0, <1>1, <1>b DEF ReadBefore
  <2>3. before'[c].interval = m_lInterval' /\ (before'[c].enabled <=> Enabled')
    <3>1. before'[c].interval = m_lInterval /\ before'[c].enabled = Enabled
      BY <2>2
    <3>2. m_lInterval' = m_lInterval /\ Enabled' = Enabled
      BY <2>1 DEF Enabled, members
    <3>. QED
      BY <3>1, <3>2
  <2>4. /\ Sound(m_lInterval) /\ ~released
        /\ m_hTimer # NULL => Enabled
        /\ Enabled /\ m_hTimer = NULL => failed
        /\ m_lInterval = -1 \/ m_lInterval >= 10
    BY <1>0, <2>1 DEF CallInv
  <2>. QED
    BY <1>0, <2>1, <2>3, <2>4 DEF CallInv, Sound, Enabled, members
<1>c. CASE StoreEnabled(c)
  <2>1. pc[c] = "store" /\ pc'[c] = "delete"
        /\ UNCHANGED <<m_lInterval, m_hTimer, timers, released, failed>>
    BY <1>0, <1>1, <1>c DEF StoreEnabled, At, queueVars
  <2>2. before'[c].interval = m_lInterval /\ before'[c].enabled = before[c].enabled
    BY <1>0, <1>1, <1>c DEF StoreEnabled
  <2>3. /\ Sound(m_lInterval) /\ ~released
        /\ m_hTimer # NULL => before[c].enabled
        /\ before[c].enabled /\ m_hTimer = NULL => failed
        /\ m_lInterval = -1 \/ m_lInterval >= 10
    BY <1>0, <2>1 DEF CallInv
  <2>. QED
    BY <1>0, <2>1, <2>2, <2>3 DEF CallInv, Sound
<1>d. CASE StoreInterval(c)
  <2>1. pc[c] = "store" /\ pc'[c] = "clamp"
        /\ UNCHANGED <<m_bEnabled, m_hTimer, timers, released, failed, before>>
    BY <1>0, <1>1, <1>d DEF StoreInterval, At, queueVars
  <2>2. /\ Sound(m_lInterval) /\ ~released /\ before[c].interval = m_lInterval
        /\ m_hTimer # NULL => before[c].enabled
        /\ before[c].enabled /\ m_hTimer = NULL => failed
    BY <1>0, <2>1 DEF CallInv
  <2>. QED
    BY <1>0, <2>1, <2>2 DEF CallInv, Sound
<1>e. CASE ClampInterval(c)
  <2>1. pc[c] = "clamp" /\ pc'[c] = "delete"
        /\ UNCHANGED <<m_bEnabled, m_hTimer, timers, released, failed, before>>
    BY <1>0, <1>1, <1>e DEF ClampInterval, At, queueVars
  <2>2. m_lInterval' >= 10
    BY <1>0, <1>e DEF ClampInterval, Clamped
  <2>3. /\ Sound(before[c].interval) /\ ~released
        /\ m_hTimer # NULL => before[c].enabled
        /\ before[c].enabled /\ m_hTimer = NULL => failed
    BY <1>0, <2>1 DEF CallInv
  <2>. QED
    BY <1>0, <2>1, <2>2, <2>3 DEF CallInv, Sound
<1>f. CASE DeleteTimer(c)
  <2>1. pc[c] = "delete" /\ UNCHANGED <<members, released, failed, before>>
    BY <1>f DEF DeleteTimer, At
  <2>2. /\ Sound(before[c].interval) /\ ~released
        /\ m_hTimer # NULL => before[c].enabled
        /\ before[c].enabled /\ m_hTimer = NULL => failed
        /\ m_lInterval = -1 \/ m_lInterval >= 10
    BY <1>0, <2>1 DEF CallInv
  <2>3. MustDelete(c)' <=> MustDelete(c)
    BY <2>1 DEF MustDelete, Enabled, members
  <2>4. CASE MustDelete(c)
    <3>1. pc'[c] = "null" /\ timers' = {t \in timers : t.id # m_hTimer}
      BY <1>0, <1>1, <1>f, <2>4 DEF DeleteTimer, At
    <3>2. timers' = {}
      BY <2>2, <3>1, OwnTimer
    <3>. QED
      BY <1>0, <2>1, <2>2, <2>3, <2>4, <3>1, <3>2 DEF CallInv, members
  <2>5. CASE ~MustDelete(c)
    <3>1. pc'[c] = "test" /\ timers' = timers
      BY <1>0, <1>1, <1>f, <2>5 DEF DeleteTimer, At
    <3>2. CASE WasEnabled
      <4>1. before'[c].enabled /\ ~MustDelete(c)' /\ Sound(before[c].interval)'
            /\ (m_hTimer' = NULL => failed')
        BY <2>1, <2>2, <2>3, <2>5, <3>1, <3>2 DEF Sound, members
      <4>. QED
        BY <1>0, <2>1, <2>2, <3>1, <4>1 DEF CallInv, members
    <3>3. CASE ~WasEnabled
      <4>1. timers' = {} /\ m_hTimer' = NULL /\ ~before'[c].enabled
        BY <2>1, <2>2, <3>1, <3>3 DEF Sound, members
      <4>. QED
        BY <1>0, <2>1, <2>2, <3>1, <4>1 DEF CallInv, members
    <3>. QED
      BY <3>2, <3>3
  <2>. QED
    BY <2>4, <2>5
<1>g. CASE ForgetTimer(c)
  <2>1. pc[c] = "null" /\ pc'[c] = "test" /\ m_hTimer' = NULL
        /\ UNCHANGED <<m_bEnabled, m_lInterval, timers, released, failed, before>>
    BY <1>0, <1>1, <1>g DEF ForgetTimer, At, queueVars
  <2>2. timers = {} /\ MustDelete(c) /\ ~released /\ (m_lInterval = -1 \/ m_lInterval >= 10)
    BY <1>0, <2>1 DEF CallInv
  <2>3. MustDelete(c)'
    BY <2>1, <2>2 DEF MustDelete, Enabled
  <2>. QED
    BY <1>0, <2>1, <2>2, <2>3 DEF CallInv
<1>t. CASE TestCreate(c)
  <2>1. pc[c] = "test" /\ UNCHANGED <<m_bEnabled, m_lInterval, m_hTimer, timers, released, failed>>
    BY <1>t DEF TestCreate, Return, At, members, queueVars
  <2>2. ~released /\ (m_lInterval = -1 \/ m_lInterval >= 10)
    BY <2>1 DEF CallInv
  <2>3. \/ timers = {} /\ m_hTimer = NULL /\ (MustDelete(c) \/ ~WasEnabled)
        \/ /\ WasEnabled /\ ~MustDelete(c)
           /\ Sound(Old)
           /\ m_hTimer = NULL => failed
    BY <2>1 DEF CallInv
  <2>4. CASE MustCreate(c) /\ At(c, "test", "create")
    <3>1. Enabled /\ timers = {} /\ m_hTimer = NULL
      BY <2>3, <2>4 DEF MustCreate, MustDelete
    <3>2. pc'[c] = "create"
      BY <1>1, <2>4 DEF At
    <3>. QED
      BY <2>1, <2>2, <3>1, <3>2 DEF CallInv, Enabled
  <2>5. CASE ~MustCreate(c) /\ Return(c, "test")
    <3>1. pc'[c] = "idle"
      BY <1>1, <2>5 DEF Return, At
    <3>2. /\ Sound(m_lInterval)
          /\ m_hTimer # NULL => Enabled
          /\ Enabled /\ m_hTimer = NULL => failed
      <4>1. CASE timers = {} /\ m_hTimer = NULL /\ (MustDelete(c) \/ ~WasEnabled)
        <5>1. ~Enabled
          BY <2>5, <4>1 DEF MustDelete, MustCreate
        <5>. QED
          BY <4>1, <5>1 DEF Sound
      <4>2. CASE WasEnabled /\ ~MustDelete(c) /\ Sound(Old) /\ (m_hTimer = NULL => failed)
        <5>1. Enabled /\ Old = m_lInterval
          BY <4>2 DEF MustDelete
        <5>. QED
          BY <4>2, <5>1 DEF Sound
      <4>. QED
        BY <2>3, <4>1, <4>2
    <3>3. (Sound(m_lInterval) <=> Sound(m_lInterval)') /\ (Enabled <=> Enabled')
      BY <2>1 DEF Sound, Enabled
    <3>. QED
      BY <2>1, <2>2, <3>1, <3>2, <3>3 DEF CallInv
  <2>. QED
    BY <1>t, <2>4, <2>5 DEF TestCreate
<1>h. CASE CreateTimer(c)
  <2>1. pc[c] = "create" /\ pc'[c] = "idle"
        /\ UNCHANGED <<m_bEnabled, m_lInterval, released>>
    BY <1>0, <1>1, <1>h DEF CreateTimer, Return, At
  <2>2. /\ ~released /\ (m_lInterval = -1 \/ m_lInterval >= 10) /\ (Enabled' <=> Enabled)
        /\ Enabled /\ timers = {} /\ m_hTimer = NULL
    BY <2>1 DEF CallInv, Enabled
  <2>3. SUFFICES /\ Sound(m_lInterval)'
                 /\ m_hTimer' # NULL => Enabled
                 /\ Enabled /\ m_hTimer' = NULL => failed'
    BY <1>0, <2>1, <2>2 DEF CallInv
  <2>4. ASSUME NEW id \in TimerIds, m_hTimer' = id,
               timers' = timers \cup {[id |-> id, interval |-> m_lInterval]}
        PROVE  /\ Sound(m_lInterval)'
               /\ m_hTimer' # NULL => Enabled
               /\ Enabled /\ m_hTimer' = NULL => failed'
    BY <1>0, <2>1, <2>2, <2>4 DEF Sound
  <2>5. CASE failed' = TRUE /\ UNCHANGED <<m_hTimer, timers>>
    BY <2>1, <2>2, <2>5 DEF Sound
  <2>. QED
    BY <1>h, <2>4, <2>5 DEF CreateTimer
<1>. QED
  BY <1>b, <1>c, <1>d, <1>e, <1>f, <1>g, <1>t, <1>h DEF PutStep

\* A call begins in an object nobody is in.
LEMMA CallBegin ==
  ASSUME NEW c \in Callers, NEW put \in Puts, TypeOK, CallInv(c), Begin(c, put)
  PROVE  CallInv(c)'
<1>1. pc[c] = "idle" /\ pc'[c] = "read" /\ ~released /\ released' = released
      /\ UNCHANGED <<members, timers, failed, before>>
  BY DEF Begin, At, queueVars, TypeOK
<1>2. /\ Sound(m_lInterval) /\ (m_hTimer # NULL => Enabled) /\ (Enabled /\ m_hTimer = NULL => failed)
      /\ m_lInterval = -1 \/ m_lInterval >= 10
  BY <1>1 DEF CallInv
<1>. QED
  BY <1>1, <1>2 DEF CallInv, Sound, Enabled, members

\* The steps of nobody's call.
LEMMA CallOther ==
  ASSUME NEW c \in Callers, TypeOK, CallInv(c),
         CallbackBegins \/ CallbackEnds \/ FinalRelease \/ UNCHANGED vars
  PROVE  CallInv(c)'
<1>i. CASE CallbackBegins \/ CallbackEnds \/ UNCHANGED vars
  <2>1. UNCHANGED <<members, timers, released, pc, before, failed>>
    BY <1>i DEF CallbackBegins, CallbackEnds, vars, members, queueVars, callerVars
  <2>2. /\ UNCHANGED <<m_bEnabled, m_lInterval, m_hTimer, timers, released, failed>>
        /\ pc'[c] = pc[c] /\ before'[c] = before[c]
    BY <2>1 DEF members
  <2>3. /\ Enabled' <=> Enabled
        /\ MustDelete(c)' <=> MustDelete(c)
        /\ Sound(m_lInterval)' <=> Sound(m_lInterval)
        /\ Sound(before[c].interval)' <=> Sound(before[c].interval)
    BY <2>2 DEF Enabled, MustDelete, Sound
  <2>. QED
    BY <2>2, <2>3 DEF CallInv
<1>j. CASE FinalRelease
  <2>1. pc[c] = "idle" /\ pc'[c] = "idle" /\ released' /\ m_hTimer' = NULL
        /\ m_lInterval' = m_lInterval
    BY <1>j DEF FinalRelease, callerVars
  <2>2. Sound(m_lInterval) /\ (m_lInterval = -1 \/ m_lInterval >= 10)
    BY <2>1 DEF CallInv
  <2>3. timers' = {}
    BY <1>j, <2>2, OwnTimer DEF FinalRelease, TimersLeft
  <2>. QED
    BY <2>1, <2>2, <2>3 DEF CallInv, Sound
<1>. QED
  BY <1>i, <1>j

\* A call or the end of one leaves at most one call in the object, or two have overlapped.
LEMMA CallStep ==
  ASSUME IInv, [Next]_vars, ~overlapped'
  PROVE  OneAtATime' /\ \A c \in Callers : Alone(c)' => CallInv(c)'
<1>0. TypeOK /\ overlapped \in BOOLEAN
  BY DEF IInv, TypeOK
<1>a. ASSUME NEW d \in Callers, PutStep(d) \/ \E put \in Puts : Begin(d, put)
      PROVE  OneAtATime' /\ \A c \in Callers : Alone(c)' => CallInv(c)'
  <2>1. /\ \A e \in Callers \ {d} : pc'[e] = pc[e]
        /\ ~overlapped
        /\ (\E put \in Puts : Begin(d, put)) => Alone(d) /\ pc'[d] = "read"
        /\ PutStep(d) => pc[d] # "idle"
    <3>1. CASE PutStep(d)
      <4>1. pc[d] # "idle" /\ overlapped' = overlapped
        BY <3>1 DEF PutStep, ReadBefore, StoreEnabled, StoreInterval, ClampInterval, DeleteTimer,
                    ForgetTimer, TestCreate, CreateTimer, Return, At
      <4>2. \E there : pc' = [pc EXCEPT ![d] = there]
        BY <3>1 DEF PutStep, ReadBefore, StoreEnabled, StoreInterval, ClampInterval, DeleteTimer,
                    ForgetTimer, TestCreate, CreateTimer, Return, At
      <4>3. \A put \in Puts : ~Begin(d, put)
        BY <4>1 DEF Begin, At
      <4>. QED
        BY <1>0, <4>1, <4>2, <4>3 DEF TypeOK
    <3>2. CASE \E put \in Puts : Begin(d, put)
      <4>1. PICK put \in Puts : Begin(d, put)
        BY <3>2
      <4>2. pc[d] = "idle" /\ pc' = [pc EXCEPT ![d] = "read"] /\ ~overlapped /\ Alone(d)
        BY <4>1 DEF Begin, At, Alone
      <4>3. ~PutStep(d)
        BY <4>2 DEF PutStep, ReadBefore, StoreEnabled, StoreInterval, ClampInterval, DeleteTimer,
                    ForgetTimer, TestCreate, CreateTimer, Return, At
      <4>. QED
        BY <1>0, <4>2, <4>3 DEF TypeOK
    <3>. QED
      BY <1>a, <3>1, <3>2
  <2>2. OneAtATime /\ Alone(d) /\ CallInv(d)
    <3>1. OneAtATime /\ (Alone(d) => CallInv(d))
      BY <2>1 DEF IInv
    <3>2. Alone(d)
      BY <1>0, <1>a, <2>1, <3>1, WhoStepsIsAlone
    <3>. QED
      BY <3>1, <3>2
  <2>3. CallInv(d)'
    BY <1>0, <1>a, <2>2, CallPut, CallBegin
  <2>4. Alone(d)' /\ OneAtATime'
    BY <2>1, <2>2 DEF Alone, OneAtATime
  <2>5. ASSUME NEW c \in Callers, Alone(c)'
        PROVE  CallInv(c)'
    <3>1. CASE c = d
      BY <2>3, <3>1
    <3>2. CASE c # d
      <4>1. pc'[c] = "idle" /\ pc'[d] = "idle"
        BY <2>4, <2>5, <3>2 DEF Alone
      <4>. QED
        BY <2>3, <4>1 DEF CallInv
    <3>. QED
      BY <3>1, <3>2
  <2>. QED
    BY <2>4, <2>5
<1>b. CASE CallbackBegins \/ CallbackEnds \/ FinalRelease \/ UNCHANGED vars
  <2>1. pc' = pc /\ overlapped' = overlapped
    BY <1>b DEF CallbackBegins, CallbackEnds, FinalRelease, vars, callerVars
  <2>2. OneAtATime /\ \A c \in Callers : Alone(c) => CallInv(c)
    BY <2>1 DEF IInv
  <2>. QED
    BY <1>0, <1>b, <2>1, <2>2, CallOther DEF OneAtATime, Alone
<1>. QED
  BY <1>a, <1>b DEF Next

-----------------------------------------------------------------------------
\* The invariant above holds in every state, whichever threads call the object.
THEOREM Invariance == Spec => []IInv
<1>1. ASSUME Init
      PROVE  IInv
  <2>1. /\ m_bEnabled = FALSE /\ m_lInterval = -1 /\ m_hTimer = NULL
        /\ timers = {} /\ released = FALSE /\ firing = FALSE /\ failed = FALSE /\ overlapped = FALSE
        /\ pc = [x \in Callers |-> "idle"]
    BY <1>1 DEF Init
  <2>2. call \in [Callers -> Puts]
    BY <1>1 DEF Init, Puts, NoPut
  <2>3. before \in [Callers -> [enabled : BOOLEAN, interval : Intervals \cup {-1, 10}]]
    BY <1>1 DEF Init, NothingBefore
  <2>4. TypeOK
    BY <2>1, <2>2, <2>3 DEF TypeOK
  <2>5. \A c \in Callers : CallInv(c)
    BY <2>1 DEF CallInv, Sound, Enabled
  <2>6. OneAtATime
    BY <2>1, TimerAssumption DEF OneAtATime, Alone
  <2>. QED
    BY <2>4, <2>5, <2>6 DEF IInv
<1>2. IInv /\ [Next]_vars => IInv'
  BY TypeOKStep, CallStep DEF IInv
<1>. QED
  BY <1>1, <1>2, PTL DEF Spec

\* Every variable has its type, and no timer of the queue has less than 10 ms unless
\* two calls have overlapped: the interval is raised before the call's RestartTimer
\* looks at it (EdpsTimer.cpp).
THEOREM TypeCorrect == Spec => []TypeOK
<1>1. IInv => TypeOK
  BY DEF IInv
<1>. QED
  BY <1>1, Invariance, PTL

\* Between calls the queue has the timer of the object and no other, with its
\* interval, and none for an object that is disabled or gone, unless two calls have
\* overlapped: what RestartTimer and FinalRelease are for.
THEOREM Matches == Spec => []TimerMatches
<1>1. IInv => TimerMatches
  <2>. SUFFICES ASSUME IInv, Quiet, ~overlapped
                PROVE  /\ Sound(m_lInterval)
                       /\ m_hTimer # NULL => Enabled
                       /\ ~released /\ Enabled /\ m_hTimer = NULL => failed
    BY DEF TimerMatches, Sound
  <2>1. PICK c \in Callers : Alone(c)
    BY DEF IInv, OneAtATime
  <2>2. CallInv(c) /\ pc[c] = "idle"
    BY <2>1 DEF IInv, Quiet
  <2>. QED
    BY <2>2 DEF CallInv
<1>. QED
  BY <1>1, Invariance, PTL
=============================================================================
