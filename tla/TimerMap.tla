------------------------------- MODULE TimerMap ------------------------------
(***************************************************************************)
(* The timer map (core/timer_map.hpp, core/impl/timer_map.ipp) and the     *)
(* coroutine create_timer spawns for each of its timers (core/timer.hpp).  *)
(*                                                                         *)
(* The map's operations and the coroutines run on one executor.  An        *)
(* operation of the map does not suspend between taking the map's lock and *)
(* releasing it, so it is one step here.  A coroutine suspends in          *)
(* asio::delay, in async_wait and in the callback; a wait that has         *)
(* completed is resumed later, and the others run in between.              *)
(***************************************************************************)
EXTENDS Naturals

CONSTANTS
  Ids,      (* the ids given to async_add                                     *)
  Timers,   (* the timer objects, each created by one async_add               *)
  NoTimer,  (* no entry under an id                                           *)
  ReusedIds (* the ids that may be added while an earlier timer's coroutine   *)
            (* under them has not ended                                       *)

ASSUME TimersAssumption == NoTimer \notin Timers /\ ReusedIds \subseteq Ids

VARIABLES
  map,      (* id -> timer, or NoTimer                                        *)
  phase,    (* where each timer's coroutine is                                *)
  handle,   (* the id each timer's exit_notify has captured                   *)
  canceled  (* basic_timer::canceled_                                         *)

vars == <<map, phase, handle, canceled>>

(* delaying  in asio::delay(first_delay)   waiting  in async_wait             *)
(* expired   the wait is over, not resumed aborted  the wait was cancelled    *)
(* calling   in the callback               gone     the coroutine has ended   *)
Phases == {"new", "delaying", "waiting", "expired", "aborted", "calling", "gone"}

Alive(t) == phase[t] \notin {"new", "gone"}
Running(t) == Alive(t) /\ ~canceled[t]
------------------------------------------------------------------------------
Init ==
  /\ map = [i \in Ids |-> NoTimer]
  /\ phase = [t \in Timers |-> "new"]
  /\ handle \in [Timers -> Ids]
  /\ canceled = [t \in Timers |-> FALSE]

(* Mutant: only the base class's cancel is called. *)
M_CancelFlags_unset(T) == canceled

(* basic_timer::cancel on the timers of T: the flag is set, a pending wait   *)
(* ends with operation_aborted; a completed one is past recall.              *)
CancelPhase(T) ==
  [t \in Timers |-> IF t \in T /\ phase[t] = "waiting" THEN "aborted" ELSE phase[t]]
CancelFlags(T) == [t \in Timers |-> canceled[t] \/ t \in T]

InMap(I) == {map[i] : i \in I} \ {NoTimer}

(* A timer of that id is cancelled, the new one's coroutine starts and stops *)
(* at its first suspension, and the entry is overwritten.                    *)
async_add(t, p) ==
  /\ phase[t] = "new"
  /\ handle[t] \in ReusedIds \/ \A u \in Timers : handle[u] = handle[t] => ~Alive(u)
  /\ LET old == InMap({handle[t]}) IN
       /\ phase' = [CancelPhase(old) EXCEPT ![t] = p]
       /\ canceled' = CancelFlags(old)
  /\ map' = [map EXCEPT ![handle[t]] = t]
  /\ UNCHANGED handle

(* Mutant: the entries are erased, their timers run on. *)
M_DiscardOnlyErases(I) ==
  /\ map' = [i \in Ids |-> IF i \in I THEN NoTimer ELSE map[i]]
  /\ UNCHANGED <<phase, handle, canceled>>

(* async_remove (one id) and async_clear (all of them). *)
Discard(I) ==
  /\ phase' = CancelPhase(InMap(I))
  /\ canceled' = CancelFlags(InMap(I))
  /\ map' = [i \in Ids |-> IF i \in I THEN NoTimer ELSE map[i]]
  /\ UNCHANGED handle

async_remove(i) == Discard({i})
async_clear == Discard(Ids)

(* The application cancels a timer that async_find returned. *)
cancel_found(i) ==
  /\ map[i] # NoTimer
  /\ phase' = CancelPhase({map[i]})
  /\ canceled' = CancelFlags({map[i]})
  /\ UNCHANGED <<map, handle>>
------------------------------------------------------------------------------
(* Mutant: the entry of an ended timer stays in the map. *)
M_ExitKeepsEntry(t) ==
  /\ phase' = [phase EXCEPT ![t] = "gone"]
  /\ UNCHANGED <<map, handle, canceled>>

(* The coroutine ends and exit_notify erases the entry under its handle.     *)
Exit(t) ==
  /\ phase' = [phase EXCEPT ![t] = "gone"]
  /\ map' = [map EXCEPT ![handle[t]] = NoTimer]
  /\ UNCHANGED <<handle, canceled>>

Goto(t, p) ==
  /\ phase' = [phase EXCEPT ![t] = p]
  /\ UNCHANGED <<map, handle, canceled>>

(* asio::delay is not the timer's own wait: cancelling does not end it. *)
first_delay_over(t) == phase[t] = "delaying" /\ Goto(t, "waiting")

expire(t) == phase[t] = "waiting" /\ Goto(t, "expired")

(* Mutant: only the error code of the wait is looked at. *)
M_resume_wait_ec_only(t) ==
  \/ phase[t] = "aborted" /\ Exit(t)
  \/ phase[t] = "expired" /\ Goto(t, "calling")

(* Mutant: a cancelled timer waits again. *)
M_resume_wait_again(t) ==
  \/ phase[t] = "aborted" /\ Exit(t)
  \/ phase[t] = "expired" /\ Goto(t, IF canceled[t] THEN "waiting" ELSE "calling")

resume_wait(t) ==
  \/ phase[t] = "aborted" /\ Exit(t)
  \/ phase[t] = "expired" /\ canceled[t] /\ Exit(t)
  \/ phase[t] = "expired" /\ ~canceled[t] /\ Goto(t, "calling")

(* The callback returns false, or it was the last repetition: the coroutine  *)
(* ends.  Else the timer is set again and waited for, canceled or not.       *)
callback_returns(t) ==
  /\ phase[t] = "calling"
  /\ Exit(t) \/ Goto(t, "waiting")
------------------------------------------------------------------------------
CoroutineStep(t) ==
  first_delay_over(t) \/ expire(t) \/ resume_wait(t) \/ callback_returns(t)

Next ==
  \/ \E t \in Timers, p \in {"delaying", "waiting"} : async_add(t, p)
  \/ \E i \in Ids : async_remove(i) \/ cancel_found(i)
  \/ async_clear
  \/ \E t \in Timers : CoroutineStep(t)

Spec == Init /\ [][Next]_vars

(* Timers expire, the executor resumes what is ready, callbacks return. *)
FairSpec == Spec /\ \A t \in Timers : WF_vars(CoroutineStep(t))
------------------------------------------------------------------------------
(* A wait that was ended early is that of a timer whose flag is set, so that *)
(* the two ways of seeing a cancel, the error code and canceled_, agree.     *)
TypeOK ==
  /\ map \in [Ids -> Timers \cup {NoTimer}]
  /\ phase \in [Timers -> Phases]
  /\ handle \in [Timers -> Ids]
  /\ canceled \in [Timers -> BOOLEAN]
  /\ \A t \in Timers : phase[t] = "aborted" => canceled[t]

(* An id has at most one timer that runs and is not cancelled                *)
(* ("If a timer with this id already exists, that timer will be forced to    *)
(* canceled").                                                               *)
OneTimerPerId ==
  \A t, u \in Timers : Running(t) /\ Running(u) /\ handle[t] = handle[u] => t = u

(* A timer that runs can be found and stopped by its id, if the id is added  *)
(* again only after its earlier timer has ended.                             *)
RunningIsRegistered ==
  \A t \in Timers : Running(t) /\ handle[t] \notin ReusedIds => map[handle[t]] = t

(* No entry outlives its timer's coroutine, and an entry is under its id.    *)
EntriesAreAlive ==
  \A i \in Ids : map[i] # NoTimer => Alive(map[i]) /\ handle[map[i]] = i

(* After cancel no callback starts, even when the wait had completed before  *)
(* the cancel (the reason for canceled_, core/timer.hpp:116-117).            *)
NoCallbackAfterCancel ==
  [][\A t \in Timers : canceled[t] /\ phase'[t] = "calling" => phase[t] = "calling"]_vars

(* The coroutine of a cancelled timer ends. *)
CanceledTimerEnds == \A t \in Timers : canceled[t] ~> phase[t] = "gone"
=============================================================================
