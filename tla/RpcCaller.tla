------------------------------ MODULE RpcCaller ------------------------------
(***************************************************************************)
(* Remote procedure calls over one connection: async_call and async_notify *)
(* (rpc/caller.hpp), the invoker (rpc/invoker.hpp) and the do_recv loops   *)
(* of the two sides (example/rpc).  Each side is a single-threaded set of  *)
(* coroutines; either side may call.                                       *)
(*                                                                         *)
(* The lock of async_send is a queue here: its messages are written one    *)
(* after the other in the order of the calls (module TcpStream).  A        *)
(* completed write and the coroutine it resumes are one step.  The frames   *)
(* of a wire include those that have arrived in the reader's strbuf.         *)
(* Requests are taken to be of one length: a view whose string was replaced *)
(* shows the whole of the new request.                                       *)
(***************************************************************************)
EXTENDS Naturals, Sequences

CONSTANTS
  Calls,     (* the calls, each made at most once; a call is its request id   *)
  NoCall,    (* none of them                                                  *)
  Nestings,  (* who may call: the side that makes each call (from) and the    *)
             (* call whose remote function makes it, or NoCall (inside)       *)
  OneWay,    (* the calls with requires_response = false                      *)
  Overlap,   (* whether calls are made while a request of that side is unsent *)
  Faults,    (* whether functions may throw or be unbound                     *)
  Breaks     (* whether a side may close the connection by itself             *)

Sides == {"client", "server"}
Peer(e) == CHOOSE f \in Sides : f # e

ASSUME CallsAssumption ==
  /\ NoCall \notin Calls
  /\ Nestings \subseteq [from : [Calls -> Sides], inside : [Calls -> Calls \cup {NoCall}]]
  /\ OneWay \subseteq Calls
  /\ Overlap \in BOOLEAN /\ Faults \in BOOLEAN /\ Breaks \in BOOLEAN

(* A response carries the function's value ("answer") or an error code.      *)
Replies == {"answer", "error"}
Message == [kind : {"request"} \cup Replies, call : Calls]
Request(c) == [kind |-> "request", call |-> c]
Response(c, k) == [kind |-> k, call |-> c]
Blank == [kind |-> "blank", call |-> NoCall]

VARIABLES
  nesting,   (* one of Nestings, the same throughout                          *)
  call,      (* where each async_call is                                      *)
  notified,  (* what its callback read, or "none"                             *)
  result,    (* what it returned                                              *)
  pending,   (* pending_requests of each side                                 *)
  buffer,    (* the string inside each side's serializer                      *)
  sendq,     (* messages in async_send on each side, the first being written  *)
  wire,      (* frames on the way from each side                              *)
  recv,      (* where each side's do_recv is                                  *)
  serving,   (* the call whose function that do_recv awaits or answers        *)
  open,      (* whether each side's socket is open                            *)
  runs       (* how often the remote function of each call was started        *)

callVars == <<call, notified, result, pending>>
recvVars == <<recv, serving, runs>>
stepVars == <<callVars, buffer, sendq, wire, recvVars, open>>
vars == <<nesting, stepVars>>

From == nesting.from
Inside == nesting.inside

(* sending  in async_send          waiting  in timer.async_wait              *)
(* wakeup   the wait has ended (expired or cancelled), not yet resumed       *)
CallStates == {"idle", "sending", "waiting", "wakeup", "done"}
InFlight(c) == call[c] \in {"sending", "waiting", "wakeup"}
------------------------------------------------------------------------------
Init ==
  /\ nesting \in Nestings
  /\ call = [c \in Calls |-> "idle"]
  /\ notified = [c \in Calls |-> "none"]
  /\ result = [c \in Calls |-> "none"]
  /\ pending = [e \in Sides |-> {}]
  /\ buffer = [e \in Sides |-> Blank]
  /\ sendq = [e \in Sides |-> <<>>]
  /\ wire = [e \in Sides |-> <<>>]
  /\ recv = [e \in Sides |-> "reading"]
  /\ serving = [e \in Sides |-> NoCall]
  /\ open = [e \in Sides |-> TRUE]
  /\ runs = [c \in Calls |-> 0]

(* Who may call: the application, or the function that is being served. *)
MayCall(c) ==
  LET e == From[c] IN
  /\ Inside[c] # NoCall => recv[e] = "invoking" /\ serving[e] = Inside[c]
  /\ Overlap \/ \A i \in 1 .. Len(sendq[e]) : sendq[e][i].kind # "request"

(* async_call: the callback is registered under a new id unless the call is  *)
(* one-way (those all have the id zero, which is never pending), it is       *)
(* serialized into the side's one buffer, and async_send is given a view of  *)
(* that buffer, not a copy.                                                  *)
async_call(c) ==
  LET e == From[c] IN
  /\ call[c] = "idle" /\ MayCall(c)
  /\ call' = [call EXCEPT ![c] = "sending"]
  /\ pending' = [pending EXCEPT ![e] = @ \cup ({c} \ OneWay)]
  /\ buffer' = [buffer EXCEPT ![e] = Request(c)]
  /\ sendq' = [sendq EXCEPT ![e] = Append(@, Request(c))]
  /\ UNCHANGED <<notified, result, wire, recvVars, open>>

(* Mutant: the callback of a call that ends stays registered. *)
M_ReturnKeepsPending(c, r) ==
  /\ call' = [call EXCEPT ![c] = "done"]
  /\ result' = [result EXCEPT ![c] = r]
  /\ UNCHANGED <<notified, pending>>

(* async_call returns r; its defer erases the callback. *)
Return(c, r) ==
  /\ call' = [call EXCEPT ![c] = "done"]
  /\ result' = [result EXCEPT ![c] = r]
  /\ pending' = [pending EXCEPT ![From[c]] = @ \ {c}]
  /\ UNCHANGED notified

(* do_recv is done with a message: it reads on, or leaves its loop and the   *)
(* socket is closed; what was on the way to this side is lost.               *)
ReadOn(e) ==
  /\ recv' = [recv EXCEPT ![e] = "reading"]
  /\ serving' = [serving EXCEPT ![e] = NoCall]
  /\ UNCHANGED <<runs, open>>

Leave(e) ==
  /\ recv' = [recv EXCEPT ![e] = "left"]
  /\ serving' = [serving EXCEPT ![e] = NoCall]
  /\ open' = [open EXCEPT ![e] = FALSE]
  /\ UNCHANGED runs

(* The response was written, or its send failed: nobody looks.  After an     *)
(* error do_recv ends.                                                       *)
Replied(m, e) == IF m.kind = "error" THEN Leave(e) ELSE ReadOn(e)

(* Mutant: the view is of a buffer that has been emptied. *)
M_Written(m, e) == Blank

(* The first message is written, when the peer takes it: for a request       *)
(* whatever its view shows now.  Only now is the request's timer started; a  *)
(* one-way call returns, the response's do_recv goes on.                     *)
Written(m, e) == IF m.kind = "request" THEN buffer[e] ELSE m

write(e) ==
  /\ sendq[e] # <<>> /\ open[e]
  /\ LET m == Head(sendq[e]) IN
       /\ wire' = [wire EXCEPT ![e] = IF open[Peer(e)] THEN Append(@, Written(m, e)) ELSE @]
       /\ \/ /\ m.kind = "request"
             /\ IF m.call \in OneWay
                THEN Return(m.call, "sent")
                ELSE /\ call' = [call EXCEPT ![m.call] = "waiting"]
                     /\ UNCHANGED <<notified, result, pending>>
             /\ UNCHANGED <<recvVars, open>>
          \/ m.kind \in Replies /\ Replied(m, e) /\ UNCHANGED callVars
  /\ sendq' = [sendq EXCEPT ![e] = Tail(@)]
  /\ UNCHANGED buffer

send_fail(e) ==
  /\ sendq[e] # <<>> /\ (~open[e] \/ ~open[Peer(e)])
  /\ LET m == Head(sendq[e]) IN
       \/ m.kind = "request" /\ Return(m.call, "send_error") /\ UNCHANGED <<recvVars, open>>
       \/ m.kind \in Replies /\ Replied(m, e) /\ UNCHANGED callVars
  /\ sendq' = [sendq EXCEPT ![e] = Tail(@)]
  /\ UNCHANGED <<buffer, wire>>
------------------------------------------------------------------------------
(* Mutant: the timer is not cancelled. *)
M_notify_no_cancel(e, c, k) ==
  /\ notified' = [notified EXCEPT ![c] = IF c \in pending[e] THEN k ELSE @]
  /\ UNCHANGED <<call, result, pending, recvVars>>

(* async_notify: the callback cancels the timer, which ends a wait that has  *)
(* not expired, and reads the response.  A response nobody waits for is      *)
(* answered with invalid_request, which do_recv ignores.                     *)
async_notify(e, c, k) ==
  /\ IF c \in pending[e]
     THEN /\ notified' = [notified EXCEPT ![c] = k]
          /\ call' = [call EXCEPT ![c] = IF @ = "waiting" THEN "wakeup" ELSE @]
     ELSE UNCHANGED <<notified, call>>
  /\ UNCHANGED <<result, pending, recvVars>>

(* invoke: the function is started; do_recv awaits it. *)
Invoke(e, c) ==
  /\ recv' = [recv EXCEPT ![e] = "invoking"]
  /\ serving' = [serving EXCEPT ![e] = c]
  /\ runs' = [runs EXCEPT ![c] = @ + 1]
  /\ UNCHANGED <<buffer, sendq>>

(* The response is serialized into the shared buffer, copied out and sent.   *)
Reply(e, m) ==
  /\ buffer' = [buffer EXCEPT ![e] = m]
  /\ sendq' = [sendq EXCEPT ![e] = Append(@, m)]
  /\ recv' = [recv EXCEPT ![e] = "replying"]

(* invoke finds no function of that name. *)
Refuse(e, c) ==
  /\ Faults /\ Reply(e, Response(c, "error"))
  /\ serving' = [serving EXCEPT ![e] = c]
  /\ UNCHANGED runs

(* Mutant: the frame stays in strbuf. *)
M_read_keeps_frame(e) ==
  LET m == Head(wire[Peer(e)]) IN
  /\ recv[e] = "reading" /\ wire[Peer(e)] # <<>> /\ m.kind = "request"
  /\ Invoke(e, m.call)
  /\ UNCHANGED <<callVars, wire, open>>

(* do_recv takes the next frame. *)
read(e) ==
  LET in == wire[Peer(e)]
      m == Head(in)
  IN
  /\ recv[e] = "reading" /\ in # <<>>
  /\ wire' = [wire EXCEPT ![Peer(e)] = Tail(@)]
  /\ \/ /\ m.kind = "request"
        /\ Invoke(e, m.call) \/ Refuse(e, m.call)
        /\ UNCHANGED callVars
     \/ m.kind \in Replies /\ async_notify(e, m.call, m.kind) /\ UNCHANGED <<buffer, sendq>>
  /\ UNCHANGED open

(* The function ends, after the calls it makes, with a value or by throwing. *)
invoke_returns(e, k) ==
  /\ recv[e] = "invoking" /\ (k = "error" => Faults)
  /\ \A c \in Calls : Inside[c] = serving[e] => ~InFlight(c)
  /\ Reply(e, Response(serving[e], k))
  /\ UNCHANGED <<callVars, wire, serving, open, runs>>

(* The timer expires; its completion is queued behind what is ready.         *)
timeout(c) ==
  /\ call[c] = "waiting"
  /\ call' = [call EXCEPT ![c] = "wakeup"]
  /\ UNCHANGED <<notified, result, pending, buffer, sendq, wire, recvVars, open>>

(* Mutant: the outcome follows the timer, not the callback. *)
M_resume_call_timed_out(c) ==
  /\ call[c] = "wakeup"
  /\ \E r \in {"timed_out", notified[c]} \ {"none"} : Return(c, r)
  /\ UNCHANGED <<buffer, sendq, wire, recvVars, open>>

(* Mutant: a wait that ended without a response is repeated. *)
M_resume_call_waits_again(c) ==
  /\ call[c] = "wakeup"
  /\ IF notified[c] # "none" THEN Return(c, notified[c])
     ELSE /\ call' = [call EXCEPT ![c] = "waiting"]
          /\ UNCHANGED <<notified, result, pending>>
  /\ UNCHANGED <<buffer, sendq, wire, recvVars, open>>

(* The wait has ended; its error code is not looked at, only notified is.    *)
resume_call(c) ==
  /\ call[c] = "wakeup"
  /\ Return(c, IF notified[c] = "none" THEN "timed_out" ELSE notified[c])
  /\ UNCHANGED <<buffer, sendq, wire, recvVars, open>>

(* A read fails: the peer has closed and everything it sent was read, or     *)
(* this side was closed (watchdog, stop).                                    *)
read_fails(e) ==
  /\ recv[e] = "reading"
  /\ ~open[e] \/ (~open[Peer(e)] /\ wire[Peer(e)] = <<>>)
  /\ Leave(e)
  /\ wire' = [wire EXCEPT ![Peer(e)] = <<>>]
  /\ UNCHANGED <<callVars, buffer, sendq>>

(* A side closes the connection by itself.  A watchdog that ends do_recv     *)
(* while it invokes or replies is one of these: TcpServer has its details.   *)
close(e) ==
  /\ Breaks /\ open[e]
  /\ open' = [open EXCEPT ![e] = FALSE]
  /\ UNCHANGED <<callVars, buffer, sendq, wire, recvVars>>
------------------------------------------------------------------------------
SideStep(e) ==
  \/ write(e) \/ send_fail(e) \/ read(e) \/ read_fails(e)
  \/ \E k \in Replies : invoke_returns(e, k)

Next ==
  /\ \/ \E c \in Calls : async_call(c) \/ timeout(c) \/ resume_call(c)
     \/ \E e \in Sides : SideStep(e) \/ close(e)
  /\ UNCHANGED nesting

Spec == Init /\ [][Next]_vars

(* Each side's executor runs what is ready: what has arrived is read, remote *)
(* functions end, and a send fails once the connection is closed.  Nothing   *)
(* is said of timers, nor of sends: the peer may have stopped reading.       *)
FairSpec ==
  /\ Spec
  /\ \A e \in Sides : WF_stepVars(send_fail(e)) /\ WF_stepVars(read(e) \/ read_fails(e))
  /\ \A e \in Sides : WF_stepVars(\E k \in Replies : invoke_returns(e, k))
  /\ \A c \in Calls : WF_stepVars(resume_call(c))

(* What timers that expire add to it. *)
TimersExpire == \A c \in Calls : WF_stepVars(timeout(c))

(* What peers add to it whose TCP accepts all that is sent to them.          *)
PeersAccept == \A e \in Sides : WF_stepVars(write(e))
------------------------------------------------------------------------------
TypeOK ==
  /\ nesting \in Nestings
  /\ call \in [Calls -> CallStates]
  /\ notified \in [Calls -> {"none"} \cup Replies]
  /\ result \in [Calls -> {"none", "timed_out", "send_error", "sent"} \cup Replies]
  /\ pending \in [Sides -> SUBSET Calls]
  /\ buffer \in [Sides -> Message \cup {Blank}]
  /\ sendq \in [Sides -> Seq(Message)]
  /\ wire \in [Sides -> Seq(Message)]
  /\ recv \in [Sides -> {"reading", "invoking", "replying", "left"}]
  /\ serving \in [Sides -> Calls \cup {NoCall}]
  /\ open \in [Sides -> BOOLEAN]
  /\ runs \in [Calls -> Nat]

(* A callback is registered exactly as long as the coroutine whose locals it *)
(* refers to is in flight: a late or repeated response finds nothing.        *)
PendingMatchesCalls ==
  \A c \in Calls : c \in pending[From[c]] <=> InFlight(c) /\ c \notin OneWay

(* A call whose response was read returns what it says, even when its timer  *)
(* had expired before; a call that returns a response had it read.           *)
ResponseBeatsTimeout ==
  \A c \in Calls : call[c] = "done" =>
    IF notified[c] # "none" THEN result[c] = notified[c] ELSE result[c] \notin Replies

CallsEnd == \A c \in Calls : call[c] # "idle" ~> call[c] = "done"

(* If timers expire every call returns, through faults and a connection that *)
(* breaks, also a call made by a function that keeps its own do_recv from    *)
(* reading; provided that the peers accept what is sent or that somebody     *)
(* closes the connection in the end.  Without that a call may never return:  *)
(* its timer is armed only after its request was sent.                       *)
EveryCallEnds ==
  TimersExpire /\ (PeersAccept \/ <>(\E e \in Sides : ~open[e])) => CallsEnd

(* On a connection that stays up, whose sides accept what is sent, calls     *)
(* that no function makes return without waiting for a timer.                *)
UntimedCallsEnd ==
  /\ \A c \in Calls : Inside[c] = NoCall
  /\ [](\A e \in Sides : open[e])
  /\ PeersAccept
  => CallsEnd

(* The abstract remote call these coroutines implement. *)
Abstract == INSTANCE RemoteCall WITH
  status <- [c \in Calls |->
               IF call[c] = "idle" THEN "idle"
               ELSE IF call[c] # "done" THEN "called"
               ELSE IF result[c] = "answer" THEN "ok" ELSE "unknown"]

(* A remote function runs at most once per call, and a call that returns an  *)
(* answer had its function run.                                              *)
ImplementsRemoteCall == Abstract!Spec
=============================================================================
