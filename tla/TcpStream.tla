------------------------------ MODULE TcpStream ------------------------------
(***************************************************************************)
(* One connected tcp socket of asio3 and the operations running on it:     *)
(* async_send (tcp/write.hpp) and async_disconnect (tcp/disconnect.hpp).   *)
(* Both serialise on the socket's lock (LockChannel).  They are coroutines *)
(* of one io_context thread: an action is what one of them does between    *)
(* two suspensions, and the actions interleave at the suspensions.         *)
(*                                                                         *)
(* A completed write and the handler it resumes are one step; a completed  *)
(* lock acquisition and the resumption it posts are two, because others    *)
(* run between the hand-off and the resumption.                            *)
(***************************************************************************)
EXTENDS Naturals, Sequences, LockChannel

CONSTANTS
  Senders,      (* the async_send operations, each started at most once      *)
  Disconnects,  (* the async_disconnect operations                           *)
  Chunks,       (* the pieces the kernel takes a message in                  *)
  CancelPoints, (* where a sender's terminal cancellation may find it        *)
  AppCloses,    (* whether the application calls close() directly            *)
  PeerStates    (* what the peer may turn to: "stalled" reads nothing more,  *)
                (* "gone" has closed the connection                          *)

Ops == Senders \cup Disconnects

ASSUME OpsAssumption ==
  /\ Senders \cap Disconnects = {}
  /\ Chunks \in Nat \ {0}
  /\ CancelPoints \subseteq {"waiting", "granted", "writing"}
  /\ AppCloses \in BOOLEAN
  /\ PeerStates \subseteq {"stalled", "gone"}

VARIABLES
  ch,     (* the lock of the socket's executor                               *)
  pc,     (* where each operation is                                         *)
  left,   (* chunks of each message not yet taken by the kernel              *)
  wire,   (* whose chunk each one the kernel took was, in order              *)
  sock,   (* "open", "shut" (send side shut down) or "closed"                *)
  peer,   (* "reading", "stalled" or "gone"                                  *)
  timer   (* each disconnect's call_func_when_timeout                        *)

vars == <<ch, pc, left, wire, sock, peer, timer>>

(* idle      not called yet                                                  *)
(* waiting   queued on the lock           granted  handed it, not yet resumed*)
(* refused   its wait was cancelled       aborting cancelled holding the lock*)
(* writing   inside async_write           lingering inside async_wait(error) *)
PcStates == {"idle", "waiting", "granted", "refused", "aborting",
             "writing", "lingering", "ok", "failed"}

Finished(op) == pc[op] \in {"ok", "failed"}

(* The operations the lock was given to and that have not released it. *)
Holders == {op \in Ops : pc[op] \in {"granted", "aborting", "writing"}}
------------------------------------------------------------------------------
Init ==
  /\ ch = NewChannel
  /\ pc = [op \in Ops |-> "idle"]
  /\ left = [s \in Senders |-> Chunks]
  /\ wire = <<>>
  /\ sock = "open"
  /\ peer = "reading"
  /\ timer = [d \in Disconnects |-> "off"]

(* op goes to state q and defer_unlock's destructor releases the channel,    *)
(* whoever holds it; the operation it hands the lock to resumes later.       *)
UnlockAndGo(op, q) ==
  /\ ch' = TryReceive(ch)
  /\ pc' = [o \in Ops |-> IF o = op THEN q
                          ELSE IF o \in Handed(ch) THEN "granted" ELSE pc[o]]

(* Mutant: the message is written without waiting for the lock. *)
M_send_unlocked(s) ==
  /\ pc[s] = "idle"
  /\ pc' = [pc EXCEPT ![s] = "writing"]
  /\ ch' = TrySend(ch)
  /\ UNCHANGED <<left, wire, sock, peer, timer>>

(* async_send: dispatch, then async_lock, then straight into async_write     *)
(* when the lock is free.                                                    *)
async_send(s) ==
  /\ pc[s] = "idle"
  /\ \/ /\ CanSend(ch)
        /\ ch' = TrySend(ch)
        /\ pc' = [pc EXCEPT ![s] = "writing"]
     \/ /\ ~CanSend(ch)
        /\ ch' = AsyncSend(ch, s)
        /\ pc' = [pc EXCEPT ![s] = "waiting"]
  /\ UNCHANGED <<left, wire, sock, peer, timer>>

resume_send(s) ==
  /\ pc[s] = "granted"
  /\ pc' = [pc EXCEPT ![s] = "writing"]
  /\ UNCHANGED <<ch, left, wire, sock, peer, timer>>

(* Mutant: the loop runs once too often. *)
M_write_past_end(s) ==
  /\ pc[s] = "writing" /\ sock = "open" /\ peer = "reading"
  /\ wire' = Append(wire, s) /\ left' = [left EXCEPT ![s] = @ - 1]
  /\ \/ left[s] > 0 /\ UNCHANGED <<ch, pc>>
     \/ left[s] = 0 /\ UnlockAndGo(s, "ok")
  /\ UNCHANGED <<sock, peer, timer>>

(* async_write's loop: the kernel takes a chunk; after the last one the      *)
(* operation returns and releases the lock.                                  *)
write_some(s) ==
  /\ pc[s] = "writing"
  /\ sock = "open" /\ peer = "reading"
  /\ wire' = Append(wire, s)
  /\ left' = [left EXCEPT ![s] = @ - 1]
  /\ \/ left[s] > 1 /\ UNCHANGED <<ch, pc>>
     \/ left[s] = 1 /\ UnlockAndGo(s, "ok")
  /\ UNCHANGED <<sock, peer, timer>>

(* The socket is closed or shut down, or the peer is gone. *)
write_fail(s) ==
  /\ pc[s] = "writing"
  /\ sock # "open" \/ peer = "gone"
  /\ UnlockAndGo(s, "failed")
  /\ UNCHANGED <<left, wire, sock, peer, timer>>

(* A terminal cancellation reaches a sender, e.g. because the other branch   *)
(* of `do_recv(...) || watchdog(...)` finished.  A queued sender leaves the  *)
(* channel; a granted one cannot be called back; a write stops.  The sender  *)
(* itself runs later, in abandon_send.                                       *)
cancel_send(s) ==
  /\ pc[s] \in CancelPoints
  /\ \/ /\ pc[s] = "waiting"
        /\ \E k \in 1 .. Len(ch.waiters) :
             ch.waiters[k] = s /\ ch' = CancelAt(ch, k)
        /\ pc' = [pc EXCEPT ![s] = "refused"]
     \/ /\ pc[s] \in {"granted", "writing"}
        /\ pc' = [pc EXCEPT ![s] = "aborting"]
        /\ UNCHANGED ch
  /\ UNCHANGED <<left, wire, sock, peer, timer>>

(* The cancelled sender resumes.  The error async_lock returned is not       *)
(* looked at: defer_unlock is built and destroyed in either case.            *)
abandon_send(s) ==
  /\ pc[s] \in {"refused", "aborting"}
  /\ UnlockAndGo(s, "failed")
  /\ UNCHANGED <<left, wire, sock, peer, timer>>
------------------------------------------------------------------------------
(* After the lock: linger is read and the socket shut down.  With a timeout  *)
(* and no zero linger the send side is shut and the operation waits for the  *)
(* peer's close under a timer; otherwise the socket is closed at once.  A    *)
(* failed get_option (closed) or shutdown (peer gone) closes it as well.     *)
Linger(d) ==
  /\ sock # "closed" /\ peer # "gone"
  /\ sock' = "shut"
  /\ timer' = [timer EXCEPT ![d] = "armed"]

CloseNow == sock' = "closed" /\ UNCHANGED timer

(* Mutant: the socket is shut down without the lock. *)
M_disconnect_unlocked(d) ==
  /\ pc[d] = "idle" /\ sock # "closed"
  /\ Linger(d) /\ pc' = [pc EXCEPT ![d] = "lingering"]
  /\ UNCHANGED <<ch, left, wire, peer>>

(* async_disconnect on a free lock takes it, releases it and goes on without *)
(* a suspension; a closed socket is refused.                                 *)
async_disconnect(d) ==
  /\ pc[d] = "idle"
  /\ \/ /\ sock = "closed"
        /\ pc' = [pc EXCEPT ![d] = "failed"]
        /\ UNCHANGED <<ch, sock, timer>>
     \/ /\ sock # "closed" /\ CanSend(ch)
        /\ UNCHANGED ch
        /\ \/ Linger(d)  /\ pc' = [pc EXCEPT ![d] = "lingering"]
           \/ CloseNow   /\ pc' = [pc EXCEPT ![d] = "ok"]
     \/ /\ sock # "closed" /\ ~CanSend(ch)
        /\ ch' = AsyncSend(ch, d)
        /\ pc' = [pc EXCEPT ![d] = "waiting"]
        /\ UNCHANGED <<sock, timer>>
  /\ UNCHANGED <<left, wire, peer>>

(* Mutant: the lock is kept while the disconnect lingers. *)
M_resume_disconnect_locked(d) ==
  /\ pc[d] = "granted"
  /\ \/ Linger(d)  /\ pc' = [pc EXCEPT ![d] = "lingering"] /\ UNCHANGED ch
     \/ CloseNow   /\ UnlockAndGo(d, "ok")
  /\ UNCHANGED <<left, wire, peer>>

(* The lock is released as soon as it is acquired. *)
resume_disconnect(d) ==
  /\ pc[d] = "granted"
  /\ \/ Linger(d)  /\ UnlockAndGo(d, "lingering")
     \/ CloseNow   /\ UnlockAndGo(d, "ok")
  /\ UNCHANGED <<left, wire, peer>>

(* Mutant: the callback forgets to close the socket. *)
M_timeout_no_close(d) ==
  /\ timer[d] = "armed"
  /\ timer' = [timer EXCEPT ![d] = "fired"]
  /\ UNCHANGED <<ch, pc, left, wire, sock, peer>>

(* call_func_when_timeout's callback, unless its timer was cancelled. *)
disconnect_timeout(d) ==
  /\ timer[d] = "armed"
  /\ timer' = [timer EXCEPT ![d] = "fired"]
  /\ sock' = "closed"
  /\ UNCHANGED <<ch, pc, left, wire, peer>>

(* wait_error completes: the socket was closed here or by the peer. *)
wait_error(d) ==
  /\ pc[d] = "lingering"
  /\ sock = "closed" \/ peer = "gone"
  /\ sock' = "closed"
  /\ timer' = [timer EXCEPT ![d] = IF @ = "armed" THEN "cancelled" ELSE @]
  /\ pc' = [pc EXCEPT ![d] = "ok"]
  /\ UNCHANGED <<ch, left, wire, peer>>

(* tcp_session::close and tcp_client::close: shut down and closed at once,   *)
(* without the lock.                                                         *)
close ==
  /\ AppCloses /\ sock # "closed"
  /\ sock' = "closed"
  /\ UNCHANGED <<ch, pc, left, wire, peer, timer>>

(* The peer's side of the connection. *)
peer_turns(p) ==
  /\ peer # "gone" /\ peer # p
  /\ peer' = p
  /\ UNCHANGED <<ch, pc, left, wire, sock, timer>>
------------------------------------------------------------------------------
SenderStep(s) ==
  \/ resume_send(s) \/ write_some(s) \/ write_fail(s) \/ abandon_send(s)

DisconnectStep(d) == resume_disconnect(d) \/ wait_error(d)

Next ==
  \/ \E s \in Senders : async_send(s) \/ SenderStep(s) \/ cancel_send(s)
  \/ \E d \in Disconnects :
       async_disconnect(d) \/ DisconnectStep(d) \/ disconnect_timeout(d)
  \/ close
  \/ \E p \in PeerStates : peer_turns(p)

Spec == Init /\ [][Next]_vars

(* The executor runs what is ready; nobody is bound to call or to cancel,    *)
(* and no timer and no close by the peer is counted on.                      *)
ExecutorFairness ==
  /\ \A s \in Senders : WF_vars(SenderStep(s))
  /\ \A d \in Disconnects : WF_vars(DisconnectStep(d))

FairSpec == Spec /\ ExecutorFairness
------------------------------------------------------------------------------
TypeOK ==
  /\ ch \in Channel(Ops)
  /\ pc \in [Ops -> PcStates]
  /\ left \in [Senders -> 0 .. Chunks]
  /\ wire \in Seq(Senders)
  /\ sock \in {"open", "shut", "closed"}
  /\ peer \in {"reading"} \cup PeerStates
  /\ timer \in [Disconnects -> {"off", "armed", "fired", "cancelled"}]

(* At most one operation is between its lock and its unlock.                 *)
(* (async_send: "Safety start an asynchronous operation to write".)          *)
MutualExclusion == \A a, b \in Holders : a = b

(* The lock is taken exactly while somebody holds it, and nobody queues on a *)
(* free one: a release is never lost, a waiter never forgotten.              *)
LockMatchesHolder ==
  /\ ch.full <=> Holders # {}
  /\ NoWaiterOnFreeLock(ch)

(* Nobody is queued twice, and the queue is exactly the waiting operations:  *)
(* a hand-off resumes a coroutine that is there to be resumed.               *)
QueueMatchesWaiting ==
  /\ \A i, j \in 1 .. Len(ch.waiters) : ch.waiters[i] = ch.waiters[j] => i = j
  /\ \A op \in Ops : pc[op] = "waiting" <=> \E i \in 1 .. Len(ch.waiters) : ch.waiters[i] = op

(* The bytes of two messages never mix on the wire: between two chunks of a  *)
(* message there are only chunks of the same message.                        *)
FramesContiguous ==
  \A i, j, k \in 1 .. Len(wire) :
    i < j /\ j < k /\ wire[i] = wire[k] => wire[j] = wire[i]

(* A send that reported success put its whole message on the wire.           *)
SuccessMeansWhole == \A s \in Senders : pc[s] = "ok" => left[s] = 0

(* The timer of a disconnect is armed only while the disconnect lingers: a   *)
(* late timeout never closes a socket its operation is done with.            *)
TimerOnlyWhileLingering ==
  \A d \in Disconnects : timer[d] = "armed" => pc[d] = "lingering"

(* How far a message is, by where its send is. *)
ProgressMatchesPc ==
  \A s \in Senders :
    /\ pc[s] \in {"idle", "waiting", "granted"} => left[s] = Chunks
    /\ pc[s] = "writing" => left[s] > 0
    /\ pc[s] = "ok" => left[s] = 0

(* Inductive: the lock's three parts, the progress of each message, and that *)
(* no wait was ever cancelled.                                               *)
LockInv ==
  /\ TypeOK
  /\ MutualExclusion
  /\ LockMatchesHolder
  /\ QueueMatchesWaiting
  /\ ProgressMatchesPc
  /\ \A op \in Ops : pc[op] # "refused"

(* The peer may leave, but it never stays without taking what is sent.       *)
PeerKeepsReading == [](peer # "stalled")

(* Every send that was called ends, without counting on a disconnect's       *)
(* timeout: a lingering disconnect does not keep the lock                    *)
(* (the comment at tcp/disconnect.hpp:38-44).                                *)
EverySendEnds == PeerKeepsReading => \A s \in Senders : pc[s] # "idle" ~> Finished(s)

(* Every disconnect ends and leaves the socket closed.                       *)
EveryDisconnectEnds ==
  \A d \in Disconnects : pc[d] # "idle" ~> Finished(d) /\ sock = "closed"

(* When timers expire a disconnect ends even if the peer never closes its    *)
(* side (the timeout of tcp/disconnect.hpp:61-70).                           *)
TimedDisconnectsEnd ==
  PeerKeepsReading /\ (\A d \in Disconnects : WF_vars(disconnect_timeout(d)))
    => EveryDisconnectEnds

(* A disconnect shuts an open socket only when no message is being written:  *)
(* the sends called before it are not cut short.                             *)
DisconnectCutsNoFrame ==
  [][sock = "open" /\ sock' # "open" /\ pc' # pc =>
       \A s \in Senders : pc[s] # "writing"]_vars
------------------------------------------------------------------------------
(* The abstract writer this stream implements.  Its line is the operation    *)
(* that holds the lock, then the queued ones; a disconnect takes its turn    *)
(* among the sends.                                                          *)
InLine ==
  LET owner == IF Holders = {} THEN <<>> ELSE <<CHOOSE op \in Holders : TRUE>>
  IN owner \o ch.waiters

Writer == INSTANCE SerialWriter WITH
            Messages <- Senders, Turns <- Disconnects, line <- InLine

(* Messages reach the wire whole and in the order of the async_send calls,   *)
(* and a disconnect that found the lock taken gets it in that order too.     *)
ImplementsSerialWriter == Writer!Spec
=============================================================================
