------------------------------ MODULE TcpClient ------------------------------
(***************************************************************************)
(* A TCP client and the reconnect loop its examples run                    *)
(* (tcp/tcp_client.hpp, tcp/connect.hpp, example/tcp/client): resolve, try *)
(* the endpoints one after the other, send, echo what is received, close   *)
(* and start again, until async_stop.                                      *)
(*                                                                         *)
(* async_connectex connects the client's own socket if it is open, and     *)
(* otherwise a temporary one it moves in; its timeout closes the client's   *)
(* socket in both cases.  All coroutines share one thread.  Of the socket's  *)
(* lock only its use by the loop's one send and the stop is left            *)
(* (module TcpStream has the lock).                                         *)
(***************************************************************************)
EXTENDS Naturals

CONSTANTS
  MaxEndpoints,  (* most endpoints a name resolves to                      *)
  MayStall       (* whether the peer may stop reading                      *)

ASSUME ClientAssumption ==
  /\ MaxEndpoints \in Nat \ {0}
  /\ MayStall \in BOOLEAN

VARIABLES
  pc,       (* where the loop is                                             *)
  left,     (* endpoints not tried yet                                       *)
  way,      (* whether "own" or a "temporary" socket is being connected      *)
  outcome,  (* how the connect that completed last ended                     *)
  sock,     (* the client's socket: "fresh" is open and not connected        *)
  peer,     (* the other end of its connection; "gone": closed, and what it  *)
            (* sent was read                                                 *)
  timer,    (* the connect timeout; "ready": expired, its handler is queued  *)
  stop,     (* where async_stop is                                           *)
  aborted

vars == <<pc, left, way, outcome, sock, peer, timer, stop, aborted>>

Connecting == {"resolving", "trying", "tried"}
Sending == {"sending", "echoing"}
Connected == Sending \cup {"reading"}

TypeOK ==
  /\ pc \in {"looping", "sleeping", "ended"} \cup Connecting \cup Connected
  /\ left \in 0 .. MaxEndpoints
  /\ way \in {"own", "temporary"}
  /\ outcome \in {"ok", "failed"}
  /\ sock \in {"closed", "fresh", "up", "shut"}
  /\ peer \in {"none", "there", "stalled", "gone"}
  /\ timer \in {"off", "armed", "ready"}
  /\ stop \in {"idle", "waiting", "granted", "lingering", "done"}
  /\ aborted \in BOOLEAN

(* The application may have opened the socket, to bind it for example. *)
Init ==
  /\ pc = "looping" /\ left = 0
  /\ way = "temporary" /\ outcome = "failed"
  /\ sock \in {"closed", "fresh"} /\ peer = "none"
  /\ timer = "off"
  /\ stop = "idle" /\ aborted = FALSE
------------------------------------------------------------------------------
(* while (!client.is_aborted()): the connect's timeout starts with it. *)
loop ==
  /\ pc = "looping"
  /\ \/ aborted /\ pc' = "ended" /\ UNCHANGED timer
     \/ ~aborted /\ pc' = "resolving" /\ timer' = "armed"
  /\ UNCHANGED <<left, way, outcome, sock, peer, stop, aborted>>

(* Mutant: the timeout outlives its connect. *)
M_ReturnTimerLeft(where) == pc' = where /\ UNCHANGED timer

(* The connect returns, and its timeout with it: a handler that is queued    *)
(* finds canceled() and does nothing.                                        *)
Return(where) == pc' = where /\ timer' = "off"

(* Mutant: the same endpoint is tried again. *)
M_TryAgain ==
  /\ pc' = "trying"
  /\ sock' = IF way = "own" /\ sock = "closed" THEN "fresh" ELSE sock
  /\ UNCHANGED <<left, timer>>

(* async_connect opens a socket that was closed in the meantime. *)
Try ==
  /\ pc' = "trying"
  /\ left' = left - 1
  /\ sock' = IF way = "own" /\ sock = "closed" THEN "fresh" ELSE sock
  /\ UNCHANGED timer

resolved ==
  /\ pc = "resolving"
  /\ \/ Return("sleeping") /\ UNCHANGED <<left, way>>
     \/ /\ pc' = "trying" /\ UNCHANGED timer
        /\ \E n \in 1 .. MaxEndpoints : left' = n - 1
        /\ way' = IF sock = "closed" THEN "temporary" ELSE "own"
  /\ UNCHANGED <<outcome, sock, peer, stop, aborted>>

(* The kernel has connected the socket that is tried, or given up; its       *)
(* completion is queued.  A socket closed by the timeout or by a stop fails. *)
attempt_ends ==
  /\ pc = "trying"
  /\ pc' = "tried"
  /\ outcome' \in IF way = "own" /\ sock # "fresh" THEN {"failed"} ELSE {"ok", "failed"}
  /\ IF way = "own" /\ outcome' = "ok"
     THEN sock' = "up" /\ peer' = "there"
     ELSE UNCHANGED <<sock, peer>>
  /\ UNCHANGED <<left, way, timer, stop, aborted>>

(* async_connectex goes on: a temporary socket is moved in. *)
connect_succeeds ==
  /\ pc = "tried" /\ outcome = "ok"
  /\ Return("sending")
  /\ IF way = "temporary"
     THEN sock' = "up" /\ peer' = "there"
     ELSE UNCHANGED <<sock, peer>>
  /\ UNCHANGED <<left, way, outcome, stop, aborted>>

(* Mutant: one endpoint too many. *)
M_connect_fails_past_end ==
  /\ pc = "tried" /\ outcome = "failed"
  /\ Try \/ (left = 0 /\ Return("sleeping") /\ UNCHANGED <<left, sock>>)
  /\ UNCHANGED <<way, outcome, peer, stop, aborted>>

connect_fails ==
  /\ pc = "tried" /\ outcome = "failed"
  /\ \/ left > 0 /\ Try
     \/ left = 0 /\ Return("sleeping") /\ UNCHANGED <<left, sock>>
  /\ UNCHANGED <<way, outcome, peer, stop, aborted>>

(* basic_tcp_client::close *)
Close == sock' = "closed" /\ peer' = "none"

(* Mutant: the loop retries without looking at the flag. *)
M_wakeup_retries ==
  /\ pc = "sleeping"
  /\ pc' = "resolving" /\ timer' = "armed"
  /\ Close
  /\ UNCHANGED <<left, way, outcome, stop, aborted>>

(* After a failure the loop sleeps, closes the socket and goes round. *)
wakeup ==
  /\ pc = "sleeping"
  /\ pc' = "looping"
  /\ Close
  /\ UNCHANGED <<left, way, outcome, timer, stop, aborted>>
------------------------------------------------------------------------------
(* The end of a send passes the lock to the stop that waits for it. *)
Unlock == stop' = IF stop = "waiting" THEN "granted" ELSE stop

(* The loop ignores the result of its first send; do_recv closes after an    *)
(* echo that failed.                                                         *)
sent ==
  /\ pc \in Sending /\ stop # "granted"
  /\ sock = "up" /\ peer \in {"there", "gone"}
  /\ pc' = "reading"
  /\ Unlock
  /\ UNCHANGED <<left, way, outcome, sock, peer, timer, aborted>>

send_fails ==
  /\ pc \in Sending /\ stop # "granted"
  /\ sock # "up" \/ peer = "gone"
  /\ \/ pc = "sending" /\ pc' = "reading" /\ UNCHANGED <<sock, peer>>
     \/ pc = "echoing" /\ pc' = "looping" /\ Close
  /\ Unlock
  /\ UNCHANGED <<left, way, outcome, timer, aborted>>

(* A line has come. *)
read ==
  /\ pc = "reading"
  /\ sock \in {"up", "shut"} /\ peer \in {"there", "stalled"}
  /\ pc' = "echoing"
  /\ UNCHANGED <<left, way, outcome, sock, peer, timer, stop, aborted>>

(* The peer has closed and all it sent was read, or this side was closed:    *)
(* do_recv closes and returns.                                               *)
read_fails ==
  /\ pc = "reading"
  /\ sock = "closed" \/ peer = "gone"
  /\ pc' = "looping"
  /\ Close
  /\ UNCHANGED <<left, way, outcome, timer, stop, aborted>>
------------------------------------------------------------------------------
timer_expires ==
  /\ timer = "armed"
  /\ timer' = "ready"
  /\ UNCHANGED <<pc, left, way, outcome, sock, peer, stop, aborted>>

(* The handler of the connect timeout closes the client's socket. *)
connect_timeout ==
  /\ timer = "ready"
  /\ timer' = "off"
  /\ Close
  /\ UNCHANGED <<pc, left, way, outcome, stop, aborted>>

(* What async_disconnect does once it has the lock: an unconnected socket    *)
(* cannot be shut and is closed.                                             *)
Disconnect ==
  \/ sock = "up" /\ stop' = "lingering" /\ sock' = "shut" /\ UNCHANGED peer
  \/ (sock # "up" \/ peer = "gone") /\ stop' = "done" /\ Close

async_stop ==
  /\ stop = "idle"
  /\ aborted' = TRUE
  /\ \/ sock = "closed" /\ stop' = "done" /\ UNCHANGED <<sock, peer>>
     \/ sock # "closed" /\ pc \in Sending /\ stop' = "waiting" /\ UNCHANGED <<sock, peer>>
     \/ sock # "closed" /\ pc \notin Sending /\ Disconnect
  /\ UNCHANGED <<pc, left, way, outcome, timer>>

resume_stop ==
  /\ stop = "granted"
  /\ Disconnect
  /\ UNCHANGED <<pc, left, way, outcome, timer, aborted>>

disconnect_timeout ==
  /\ stop = "lingering" /\ sock # "closed"
  /\ Close
  /\ UNCHANGED <<pc, left, way, outcome, timer, stop, aborted>>

(* wait_error completes: the peer has gone, or the socket was closed. *)
stop_ends ==
  /\ stop = "lingering" /\ (sock = "closed" \/ peer = "gone")
  /\ stop' = "done"
  /\ Close
  /\ UNCHANGED <<pc, left, way, outcome, timer, aborted>>

(* The application starts a client again whose loop and stop have ended. *)
restart ==
  /\ pc = "ended" /\ stop = "done"
  /\ aborted' = FALSE
  /\ pc' = "looping" /\ stop' = "idle"
  /\ UNCHANGED <<left, way, outcome, sock, peer, timer>>

peer_turns ==
  /\ \/ peer \in {"there", "stalled"} /\ peer' = "gone"
     \/ MayStall /\ peer = "there" /\ peer' = "stalled"
  /\ UNCHANGED <<pc, left, way, outcome, sock, timer, stop, aborted>>
------------------------------------------------------------------------------
LoopStep ==
  \/ loop \/ resolved \/ attempt_ends \/ connect_succeeds \/ connect_fails \/ wakeup
  \/ sent \/ send_fails \/ read_fails

StopStep == resume_stop \/ stop_ends

Next ==
  \/ LoopStep \/ StopStep \/ read
  \/ timer_expires \/ connect_timeout \/ disconnect_timeout
  \/ async_stop \/ restart \/ peer_turns

Spec == Init /\ [][Next]_vars

(* Coroutines that are ready run, the kernel ends every resolve and connect  *)
(* and sleeps end.  Neither timeout is counted on.                           *)
FairSpec == Spec /\ WF_vars(LoopStep) /\ WF_vars(StopStep) /\ WF_vars(connect_timeout)
------------------------------------------------------------------------------
(* The connect timeout, however late it expires or its handler is queued,    *)
(* closes no connection of a connect that has returned: with either socket   *)
(* only do_recv's end or a stop does.  A temporary socket is up when connect *)
(* returns.  The client's own socket need not be: the handler may run        *)
(* between the attempt's success and the return of connect, which reports    *)
(* success all the same.                                                     *)
TimeoutSparesConnection ==
  [][/\ pc \in Connected /\ pc' \in Connected /\ stop' \in {"idle", "waiting"} /\ sock = "up"
        => sock' = "up"
     /\ pc \in Connecting /\ pc' \in Connected /\ way = "temporary" => sock' = "up"]_vars

(* Every connect returns, whether its timeout expires or not. *)
ConnectsEnd == pc \in Connecting ~> pc \notin Connecting

(* A connection made after the stop has ended: on a temporary socket, which  *)
(* the stop did not see, or on the own socket, which it closed and the       *)
(* connect opened again for the next endpoint.                               *)
LateConnection == stop = "done" /\ sock = "up"

(* After async_stop the loop ends with the socket closed, if the disconnect's *)
(* timer expires and the peer does not stall a send.  A stop that comes while *)
(* the connection is being made may leave the client connected: then it ends  *)
(* when that connection does, which the peer may never do, and is not made    *)
(* again.                                                                     *)
StopEndsLoop ==
  WF_vars(disconnect_timeout) /\ [](peer # "stalled") /\ (LateConnection ~> ~LateConnection)
    => (aborted ~> pc = "ended" /\ sock = "closed")
=============================================================================
