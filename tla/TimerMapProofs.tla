---------------------------- MODULE TimerMapProofs ----------------------------
(***************************************************************************)
(* Theorems about TimerMap, for any ids, any number of timers and any      *)
(* choice of the ids that are reused early.                                *)
(***************************************************************************)
EXTENDS TimerMap, TLAPS

(* An id that is not reused early has at most one coroutine. *)
OneAlivePerFreshId ==
  \A t, u \in Timers :
    Alive(t) /\ Alive(u) /\ handle[t] = handle[u] /\ handle[t] \notin ReusedIds => t = u

(* Inductive. *)
TimerInv ==
  /\ TypeOK
  /\ EntriesAreAlive
  /\ OneAlivePerFreshId
  /\ RunningIsRegistered

(* A coroutine goes on. *)
LEMMA GotoInv ==
  ASSUME TimerInv, NEW t \in Timers, phase[t] \in Phases \ {"new", "gone"},
         NEW p \in Phases \ {"new", "gone", "aborted"}, Goto(t, p)
  PROVE  TimerInv'
<1>1. TypeOK' /\ UNCHANGED <<map, handle, canceled>>
  BY DEF TimerInv, TypeOK, Goto
<1>2. \A u \in Timers : (Alive(u)' <=> Alive(u)) /\ (Running(u)' <=> Running(u))
  BY DEF Goto, TimerInv, TypeOK, Alive, Running
<1>3. \A i \in Ids : map[i] # NoTimer => map[i] \in Timers
  BY DEF TimerInv, TypeOK
<1>4. EntriesAreAlive'
  BY <1>1, <1>2, <1>3 DEF TimerInv, EntriesAreAlive
<1> QED
  BY <1>1, <1>2, <1>4 DEF TimerInv, OneAlivePerFreshId, RunningIsRegistered

(* A coroutine ends; the entry it erases is its own or nobody's whose id is  *)
(* not reused early.                                                         *)
LEMMA ExitInv ==
  ASSUME TimerInv, NEW t \in Timers, Alive(t), Exit(t)
  PROVE  TimerInv'
<1>1. TypeOK' /\ UNCHANGED <<handle, canceled>>
  BY DEF TimerInv, TypeOK, Exit, Phases
<1>2. /\ ~Alive(t)'
      /\ \A u \in Timers \ {t} : (Alive(u)' <=> Alive(u)) /\ (Running(u)' <=> Running(u))
  BY DEF Exit, TimerInv, TypeOK, Alive, Running
<1>3. /\ handle[t] \in Ids /\ map'[handle[t]] = NoTimer
      /\ \A i \in Ids : i # handle[t] => map'[i] = map[i]
  BY DEF Exit, TimerInv, TypeOK
<1>4. EntriesAreAlive'
  <2> SUFFICES ASSUME NEW i \in Ids, map'[i] # NoTimer
               PROVE  Alive(map[i])' /\ handle[map[i]]' = i /\ map'[i] = map[i]
    BY DEF EntriesAreAlive, Alive
  <2>1. i # handle[t] /\ map'[i] = map[i] /\ map[i] \in Timers
    BY <1>3, <1>1 DEF TimerInv, TypeOK
  <2>2. Alive(map[i]) /\ handle[map[i]] = i
    BY <2>1 DEF TimerInv, EntriesAreAlive
  <2>3. map'[i] \in Timers \ {t} /\ handle'[map'[i]] = i
    BY <2>1, <2>2, <1>1
  <2> QED
    BY <2>1, <2>2, <2>3, <1>2 DEF Alive
<1>5. OneAlivePerFreshId'
  BY <1>1, <1>2 DEF TimerInv, OneAlivePerFreshId
<1>6. RunningIsRegistered'
  <2> SUFFICES ASSUME NEW u \in Timers, Running(u)', handle[u] \notin ReusedIds
               PROVE  map'[handle[u]] = u
    BY <1>1 DEF RunningIsRegistered
  <2>1. u # t /\ Running(u) /\ handle[u] \in Ids
    BY <1>2 DEF Running, TimerInv, TypeOK
  <2>2. handle[u] # handle[t]
    BY <2>1 DEF TimerInv, OneAlivePerFreshId, Running
  <2> QED
    BY <2>1, <2>2, <1>3 DEF TimerInv, RunningIsRegistered
<1> QED
  BY <1>1, <1>4, <1>5, <1>6 DEF TimerInv

(* Cancelling the timers of a set keeps every coroutine, and stops those. *)
LEMMA Cancelling ==
  ASSUME TypeOK, NEW T \in SUBSET Timers,
         phase' = CancelPhase(T), canceled' = CancelFlags(T), UNCHANGED handle
  PROVE  /\ phase' \in [Timers -> Phases] /\ canceled' \in [Timers -> BOOLEAN]
         /\ \A t \in Timers : phase'[t] = "aborted" => canceled'[t]
         /\ \A t \in Timers : Alive(t)' <=> Alive(t)
         /\ \A t \in Timers : Running(t)' <=> Running(t) /\ t \notin T
BY DEF TypeOK, CancelPhase, CancelFlags, Phases, Alive, Running

LEMMA DiscardInv ==
  ASSUME TimerInv, NEW I \in SUBSET Ids, Discard(I)
  PROVE  TimerInv'
<1>1. InMap(I) \in SUBSET Timers
  BY DEF InMap, TimerInv, TypeOK
<1>2. /\ phase' = CancelPhase(InMap(I)) /\ canceled' = CancelFlags(InMap(I))
      /\ UNCHANGED handle /\ TypeOK
  BY DEF Discard, TimerInv
<1>3. /\ phase' \in [Timers -> Phases] /\ canceled' \in [Timers -> BOOLEAN]
      /\ \A t \in Timers : phase'[t] = "aborted" => canceled'[t]
      /\ \A t \in Timers : Alive(t)' <=> Alive(t)
      /\ \A t \in Timers : Running(t)' <=> Running(t) /\ t \notin InMap(I)
  BY <1>1, <1>2, Cancelling
<1>4. /\ \A i \in I : map'[i] = NoTimer
      /\ \A i \in Ids \ I : map'[i] = map[i]
      /\ map' \in [Ids -> Timers \cup {NoTimer}]
  BY DEF Discard, TimerInv, TypeOK
<1>5. TypeOK'
  BY <1>2, <1>3, <1>4 DEF TypeOK
<1>6. EntriesAreAlive'
  <2> SUFFICES ASSUME NEW i \in Ids, map'[i] # NoTimer
               PROVE  Alive(map[i])' /\ handle'[map'[i]] = i
    BY DEF EntriesAreAlive, Alive
  <2>1. map'[i] = map[i] /\ map'[i] \in Timers
    BY <1>4, TimersAssumption
  <2>2. Alive(map[i]) /\ handle[map[i]] = i
    BY <2>1 DEF TimerInv, EntriesAreAlive
  <2>3. phase'[map[i]] \notin {"new", "gone"}
    BY <2>1, <2>2, <1>3 DEF Alive
  <2> QED
    BY <2>1, <2>2, <2>3, <1>2 DEF Alive
<1>7. OneAlivePerFreshId'
  BY <1>2, <1>3 DEF TimerInv, OneAlivePerFreshId
<1>8. RunningIsRegistered'
  <2> SUFFICES ASSUME NEW t \in Timers, Running(t)', handle[t] \notin ReusedIds
               PROVE  map'[handle[t]] = t
    BY <1>2 DEF RunningIsRegistered
  <2>1. Running(t) /\ t \notin InMap(I) /\ handle[t] \in Ids
    BY <1>3 DEF TimerInv, TypeOK
  <2>2. map[handle[t]] = t
    BY <2>1 DEF TimerInv, RunningIsRegistered
  <2>3. handle[t] \notin I
    BY <2>1, <2>2, TimersAssumption DEF InMap
  <2> QED
    BY <2>1, <2>2, <2>3, <1>4
<1> QED
  BY <1>5, <1>6, <1>7, <1>8 DEF TimerInv

(* A found timer is cancelled; its entry stays until its coroutine ends. *)
LEMMA CancelFoundInv ==
  ASSUME TimerInv, NEW i \in Ids, cancel_found(i)
  PROVE  TimerInv'
<1>1. {map[i]} \in SUBSET Timers
  BY DEF cancel_found, TimerInv, TypeOK
<1>2. /\ phase' = CancelPhase({map[i]}) /\ canceled' = CancelFlags({map[i]})
      /\ UNCHANGED <<map, handle>> /\ TypeOK
  BY DEF cancel_found, TimerInv
<1>3. /\ phase' \in [Timers -> Phases] /\ canceled' \in [Timers -> BOOLEAN]
      /\ \A t \in Timers : phase'[t] = "aborted" => canceled'[t]
      /\ \A t \in Timers : Alive(t)' <=> Alive(t)
      /\ \A t \in Timers : Running(t)' => Running(t)
  BY <1>1, <1>2, Cancelling
<1>4. TypeOK'
  BY <1>2, <1>3 DEF TypeOK
<1>5. EntriesAreAlive'
  <2>1. \A j \in Ids : map[j] # NoTimer => map[j] \in Timers
    BY <1>2 DEF TypeOK
  <2> QED
    BY <1>2, <1>3, <2>1 DEF TimerInv, EntriesAreAlive
<1> QED
  BY <1>2, <1>3, <1>4, <1>5 DEF TimerInv, OneAlivePerFreshId, RunningIsRegistered

(* The new timer takes its id's entry; a timer found there is cancelled.     *)
LEMMA AddInv ==
  ASSUME TimerInv, NEW t \in Timers, NEW p \in {"delaying", "waiting"}, async_add(t, p)
  PROVE  TimerInv'
<1> DEFINE i == handle[t]
           old == InMap({i})
<1>1. /\ old \in SUBSET Timers /\ i \in Ids /\ t # NoTimer
      /\ phase[t] = "new" /\ ~Alive(t) /\ TypeOK
  BY TimersAssumption DEF async_add, InMap, TimerInv, TypeOK, Alive
<1>2. /\ phase' = [CancelPhase(old) EXCEPT ![t] = p]
      /\ canceled' = CancelFlags(old) /\ UNCHANGED handle
      /\ map' = [map EXCEPT ![i] = t]
  BY DEF async_add
<1>3. TypeOK' /\ map'[i] = t /\ \A j \in Ids \ {i} : map'[j] = map[j]
  BY <1>1, <1>2 DEF TypeOK, CancelPhase, CancelFlags, Phases
<1>4. Alive(t)' /\ \A u \in Timers \ {t} : Alive(u)' <=> Alive(u)
  BY <1>1, <1>2 DEF TypeOK, CancelPhase, Alive
<1>5. \A u \in Timers \ {t} : Running(u)' => Running(u)
  BY <1>1, <1>2, <1>4 DEF TypeOK, CancelFlags, Running
<1>6. EntriesAreAlive'
  <2> SUFFICES ASSUME NEW j \in Ids, map'[j] # NoTimer
               PROVE  phase'[map'[j]] \notin {"new", "gone"} /\ handle'[map'[j]] = j
    BY DEF EntriesAreAlive, Alive
  <2>1. CASE j = i
    BY <2>1, <1>2, <1>3, <1>4 DEF Alive
  <2>2. CASE j # i
    <3>1. map'[j] = map[j] /\ map[j] \in Timers
      BY <2>2, <1>3 DEF TypeOK
    <3>2. Alive(map[j]) /\ handle[map[j]] = j
      BY <3>1 DEF TimerInv, EntriesAreAlive
    <3>3. map[j] # t
      BY <3>2, <1>1
    <3> QED
      BY <3>1, <3>2, <3>3, <1>2, <1>4 DEF Alive
  <2> QED
    BY <2>1, <2>2
<1>7. i \notin ReusedIds => \A u \in Timers : handle[u] = i => ~Alive(u)
  BY DEF async_add
<1>8. OneAlivePerFreshId'
  BY <1>2, <1>4, <1>7 DEF TimerInv, OneAlivePerFreshId
<1>9. RunningIsRegistered'
  <2> SUFFICES ASSUME NEW u \in Timers, Running(u)', handle[u] \notin ReusedIds
               PROVE  map'[handle[u]] = u
    BY <1>2 DEF RunningIsRegistered
  <2>1. CASE u = t
    BY <2>1, <1>3
  <2>2. CASE u # t
    <3>1. Running(u) /\ map[handle[u]] = u /\ handle[u] \in Ids
      BY <2>2, <1>1, <1>5 DEF TimerInv, RunningIsRegistered, TypeOK
    <3>2. handle[u] # i
      BY <3>1, <1>7 DEF Running
    <3> QED
      BY <3>1, <3>2, <1>3
  <2> QED
    BY <2>1, <2>2
<1> QED
  BY <1>3, <1>6, <1>8, <1>9 DEF TimerInv

LEMMA CoroutineInv ==
  ASSUME TimerInv, NEW t \in Timers, CoroutineStep(t)
  PROVE  TimerInv'
<1>1. phase[t] \in Phases \ {"new", "gone"} /\ Alive(t)
  BY DEF CoroutineStep, first_delay_over, expire, resume_wait, callback_returns, Phases, Alive
<1>2. Exit(t) \/ \E p \in Phases \ {"new", "gone", "aborted"} : Goto(t, p)
  BY DEF CoroutineStep, first_delay_over, expire, resume_wait, callback_returns, Phases
<1> QED
  BY <1>1, <1>2, ExitInv, GotoInv

THEOREM TimerInvariant == Spec => []TimerInv
<1>1. Init => TimerInv
  <2>1. Init => TypeOK
    BY DEF Init, TypeOK, Phases
  <2>2. Init => \A t \in Timers : ~Alive(t)
    BY DEF Init, Alive
  <2>3. Init => \A i \in Ids : map[i] = NoTimer
    BY DEF Init
  <2> QED
    BY <2>1, <2>2, <2>3
    DEF TimerInv, EntriesAreAlive, OneAlivePerFreshId, RunningIsRegistered, Running
<1>2. TimerInv /\ [Next]_vars => TimerInv'
  <2> SUFFICES ASSUME TimerInv, [Next]_vars PROVE TimerInv'
    OBVIOUS
  <2>1. CASE \E t \in Timers, p \in {"delaying", "waiting"} : async_add(t, p)
    BY <2>1, AddInv
  <2>2. CASE \E i \in Ids : async_remove(i) \/ cancel_found(i)
    BY <2>2, DiscardInv, CancelFoundInv DEF async_remove
  <2>3. CASE async_clear
    BY <2>3, DiscardInv DEF async_clear
  <2>4. CASE \E t \in Timers : CoroutineStep(t)
    BY <2>4, CoroutineInv
  <2>5. CASE UNCHANGED vars
    BY <2>5 DEF vars, TimerInv, TypeOK, EntriesAreAlive, OneAlivePerFreshId,
                RunningIsRegistered, Running, Alive
  <2> QED
    BY <2>1, <2>2, <2>3, <2>4, <2>5 DEF Next
<1> QED
  BY <1>1, <1>2, PTL DEF Spec

(* Type correctness of the timer map: a wait that was ended early is that of *)
(* a timer whose canceled_ flag is set.                                      *)
THEOREM TimerTypeCorrect == Spec => []TypeOK
BY TimerInvariant, PTL DEF TimerInv

(* No entry of the map outlives its timer's coroutine (exit_notify).         *)
THEOREM NoEntryOutlivesItsTimer == Spec => []EntriesAreAlive
BY TimerInvariant, PTL DEF TimerInv

(* A running timer whose id is added again only after it has ended can be    *)
(* found and stopped by that id (async_find, async_remove).                  *)
THEOREM RunningTimersAreFound == Spec => []RunningIsRegistered
BY TimerInvariant, PTL DEF TimerInv

(* No callback starts after cancel, even if its wait had completed before    *)
(* (the canceled_ flag of basic_timer).                                      *)
THEOREM CancelStopsCallbacks == Spec => NoCallbackAfterCancel
<1> DEFINE Stops == \A t \in Timers : canceled[t] /\ phase'[t] = "calling" => phase[t] = "calling"
<1>1. TimerInv /\ [Next]_vars => [Stops]_vars
  <2> SUFFICES ASSUME TimerInv, Next, NEW t \in Timers, canceled[t],
                      phase'[t] = "calling", phase[t] # "calling"
               PROVE  FALSE
    OBVIOUS
  <2>1. phase \in [Timers -> Phases]
    BY DEF TimerInv, TypeOK
  <2>2. \A T \in SUBSET Timers : phase' # CancelPhase(T)
    BY <2>1 DEF CancelPhase
  <2>3. ASSUME NEW I \in SUBSET Ids PROVE InMap(I) \in SUBSET Timers
    BY DEF InMap, TimerInv, TypeOK
  <2>4. CASE \E u \in Timers, p \in {"delaying", "waiting"} : async_add(u, p)
    BY <2>4, <2>1 DEF async_add, CancelPhase
  <2>5. CASE (\E i \in Ids : async_remove(i) \/ cancel_found(i)) \/ async_clear
    <3>1. ASSUME NEW i \in Ids, cancel_found(i) PROVE {map[i]} \in SUBSET Timers
      BY <3>1 DEF cancel_found, TimerInv, TypeOK
    <3> QED
      BY <2>5, <2>2, <2>3, <3>1 DEF async_remove, async_clear, cancel_found, Discard
  <2>6. CASE \E u \in Timers : CoroutineStep(u)
    BY <2>6, <2>1 DEF CoroutineStep, first_delay_over, expire, resume_wait, callback_returns,
                      Goto, Exit
  <2> QED
    BY <2>4, <2>5, <2>6 DEF Next
<1> QED
  BY <1>1, TimerInvariant, PTL DEF Spec, NoCallbackAfterCancel
=============================================================================
