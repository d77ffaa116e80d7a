----------------------------- MODULE LockChannel -----------------------------
(***************************************************************************)
(* The lock of core/with_lock.hpp: an asio channel<void()> of capacity one *)
(* used as a mutex.  Taking the lock sends into the channel, releasing it  *)
(* receives from it.  The channel is an asio channel without a mutex of    *)
(* its own, so each operator below is one step of the executor's thread.   *)
(*                                                                         *)
(* A channel is a record:                                                  *)
(*   full     the buffer holds its one element (send_state_ is "block",    *)
(*            receive_state_ is "buffer")                                  *)
(*   waiters  the send operations queued behind it, oldest first           *)
(* The module has no state: the modules that own a lock keep the record.   *)
(***************************************************************************)
EXTENDS Naturals, Sequences

Channel(Op) == [full : BOOLEAN, waiters : Seq(Op)]

NewChannel == [full |-> FALSE, waiters |-> <<>>]

(* channel_service::try_send succeeds: the buffer has room. *)
CanSend(ch) == ~ch.full

(* try_send that succeeds fills the buffer. *)
TrySend(ch) == [ch EXCEPT !.full = TRUE]

(* Mutant: a newcomer is pushed in front of the queue. *)
M_AsyncSendFront(ch, op) == [ch EXCEPT !.waiters = <<op>> \o @]

(* start_send_op in state "block": the send operation queues. *)
AsyncSend(ch, op) == [ch EXCEPT !.waiters = Append(@, op)]

(* Mutant: the hand-off also empties the buffer. *)
M_TryReceiveEmpties(ch) ==
  [ch EXCEPT !.full = FALSE, !.waiters = IF @ = <<>> THEN @ ELSE Tail(@)]

(* try_receive: nothing when the buffer is empty; with a queued sender its  *)
(* element replaces the one received, so the buffer stays full and the lock *)
(* passes on without ever being free; else the buffer empties.              *)
TryReceive(ch) ==
  CASE ~ch.full                      -> ch
    [] ch.full /\ ch.waiters = <<>>  -> [ch EXCEPT !.full = FALSE]
    [] ch.full /\ ch.waiters # <<>>  -> [ch EXCEPT !.waiters = Tail(@)]

(* The queued operation try_receive completes (send_op->post()), if any. *)
Handed(ch) == IF ch.full /\ ch.waiters # <<>> THEN {Head(ch.waiters)} ELSE {}

(* cancel_by_key: the k-th queued operation leaves, the others keep order. *)
CancelAt(ch, k) ==
  [ch EXCEPT !.waiters = [i \in 1 .. Len(@) - 1 |-> IF i < k THEN @[i] ELSE @[i + 1]]]

(* What cancellation and hand-off rely on: nobody queues behind a free lock. *)
NoWaiterOnFreeLock(ch) == ch.waiters # <<>> => ch.full
=============================================================================
