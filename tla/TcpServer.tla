------------------------------ MODULE TcpServer ------------------------------
(***************************************************************************)
(* A TCP server: the accept loop and client_join of the examples, the      *)
(* session map (core/impl/session_map.ipp) and async_stop                  *)
(* (tcp/tcp_server.hpp).  Sessions live on threads of their own; the       *)
(* operations of the map are coroutines of the listen context, which       *)
(* serialise on the map's lock (LockChannel).  async_add and async_remove  *)
(* do not suspend while they hold it; async_send_all waits for each        *)
(* session's send and async_disconnect_all for every disconnect.           *)
(***************************************************************************)
EXTENDS Naturals, FiniteSets, LockChannel

CONSTANTS
  Sessions,  (* the sessions, each one accepted connection                     *)
  Casts,     (* the calls of async_send, which sends to all sessions           *)
  NoSession, (* no session                                                     *)
  MayStall,  (* whether a peer may stop reading                                *)
  RunsOut    (* whether listen_ctx.run() returns when the context has no work  *)

ASSUME ServerAssumption ==
  /\ IsFiniteSet(Sessions) /\ NoSession \notin Sessions
  /\ MayStall \in BOOLEAN /\ RunsOut \in BOOLEAN

Add(s) == <<"add", s>>
Remove(s) == <<"remove", s>>
Cast(b) == <<"cast", b>>
Stop == <<"stop", NoSession>>
Ops == ({"add", "remove"} \X Sessions) \cup ({"cast"} \X Casts) \cup {Stop}

VARIABLES
  acceptor,  (* whether the acceptor is open                                   *)
  running,   (* whether listen_ctx.run() has not returned                      *)
  client,    (* where each session's client_join is                            *)
  open,      (* whether each session's socket is open                          *)
  stalled,   (* whether each session's peer has stopped reading                *)
  map,       (* the sessions in the map                                        *)
  ch,        (* the map's lock                                                 *)
  at,        (* where each operation is                                        *)
  todo,      (* the sessions each async_send_all has not reached               *)
  target,    (* the session it is sending to                                   *)
  closing,   (* the sessions async_disconnect_all is disconnecting             *)
  told,      (* how many of their callbacks are in its channel                 *)
  awaited    (* how many it has not received                                   *)

castVars == <<todo, target>>
stopVars == <<closing, told, awaited>>
sessionVars == <<client, open, stalled>>
vars == <<acceptor, running, sessionVars, map, ch, at, castVars, stopVars>>

(* new       not connected            accepted  accepted, coroutine not run    *)
(* adding    in async_add             serving   in do_recv || watchdog         *)
(* removing  in async_remove          gone      client_join has returned       *)
ClientStates == {"new", "accepted", "adding", "serving", "removing", "gone"}

(* posted    dispatched to the listen context                                  *)
(* waiting   queued on the lock       granted   handed it, not yet resumed     *)
(* running   suspended with the lock  done      completed                      *)
OpStates == {"idle", "posted", "waiting", "granted", "running", "done"}
------------------------------------------------------------------------------
Init ==
  /\ acceptor = TRUE /\ running = TRUE
  /\ client = [s \in Sessions |-> "new"]
  /\ open = [s \in Sessions |-> FALSE]
  /\ stalled = [s \in Sessions |-> FALSE]
  /\ map = {} /\ ch = NewChannel
  /\ at = [p \in Ops |-> "idle"]
  /\ todo = [b \in Casts |-> {}]
  /\ target = [b \in Casts |-> NoSession]
  /\ closing = {} /\ told = 0 /\ awaited = 0

(* async_accept completes; start_server spawns client_join.                  *)
accept(s) ==
  /\ client[s] = "new" /\ acceptor
  /\ client' = [client EXCEPT ![s] = "accepted"]
  /\ open' = [open EXCEPT ![s] = TRUE]
  /\ UNCHANGED <<acceptor, running, stalled, map, ch, at, castVars, stopVars>>

Post(p) == at' = [at EXCEPT ![p] = "posted"]

(* client_join starts on its session's thread. *)
client_join(s) ==
  /\ client[s] = "accepted"
  /\ client' = [client EXCEPT ![s] = "adding"]
  /\ Post(Add(s))
  /\ UNCHANGED <<acceptor, running, open, stalled, map, ch, castVars, stopVars>>

(* do_recv ends: the peer has closed, the socket was closed, or the watchdog *)
(* has cancelled its read.  It closes the session and client_join goes on.   *)
leave(s) ==
  /\ client[s] = "serving"
  /\ client' = [client EXCEPT ![s] = "removing"]
  /\ open' = [open EXCEPT ![s] = FALSE]
  /\ Post(Remove(s))
  /\ UNCHANGED <<acceptor, running, stalled, map, ch, castVars, stopVars>>

(* The watchdog cancels a do_recv that is sending its response: it does not  *)
(* look at the error, and its next co_await throws past session->close().    *)
cancel_response(s) ==
  /\ client[s] = "serving" /\ open[s]
  /\ client' = [client EXCEPT ![s] = "removing"]
  /\ Post(Remove(s))
  /\ UNCHANGED <<acceptor, running, open, stalled, map, ch, castVars, stopVars>>

stall(s) ==
  /\ MayStall /\ open[s] /\ ~stalled[s]
  /\ stalled' = [stalled EXCEPT ![s] = TRUE]
  /\ UNCHANGED <<acceptor, running, client, open, map, ch, at, castVars, stopVars>>

async_send(b) ==
  /\ at[Cast(b)] = "idle" /\ running /\ Post(Cast(b))
  /\ UNCHANGED <<acceptor, running, sessionVars, map, ch, castVars, stopVars>>

(* async_stop closes the acceptor and calls async_disconnect_all.            *)
async_stop ==
  /\ at[Stop] = "idle" /\ running /\ Post(Stop)
  /\ acceptor' = FALSE
  /\ UNCHANGED <<running, sessionVars, map, ch, castVars, stopVars>>
------------------------------------------------------------------------------
(* p ends and releases the lock, whose state is c. *)
Release(p, c) ==
  /\ ch' = TryReceive(c)
  /\ at' = [q \in Ops |-> IF q = p THEN "done"
                          ELSE IF q \in Handed(c) THEN "granted" ELSE at[q]]

(* p is suspended and keeps the lock. *)
Keep(p, c) ==
  /\ ch' = c
  /\ at' = [at EXCEPT ![p] = "running"]

(* Mutant: the session is not stored. *)
M_DoAdd_forgets(s, c) ==
  /\ Release(Add(s), c)
  /\ client' = [client EXCEPT ![s] = "serving"]
  /\ UNCHANGED <<open, map, castVars, stopVars>>

(* async_add, then the session is served. *)
DoAdd(s, c) ==
  /\ map' = map \cup {s}
  /\ Release(Add(s), c)
  /\ client' = [client EXCEPT ![s] = "serving"]
  /\ UNCHANGED <<open, castVars, stopVars>>

(* async_remove, the end of client_join: the session is destroyed and with   *)
(* it its socket closed, unless a disconnect still refers to it.             *)
DoRemove(s, c) ==
  /\ map' = map \ {s}
  /\ Release(Remove(s), c)
  /\ client' = [client EXCEPT ![s] = "gone"]
  /\ open' = [open EXCEPT ![s] = @ /\ s \in closing]
  /\ UNCHANGED <<castVars, stopVars>>

(* async_send_all's loop goes on with the sessions of S, in any order.       *)
SendNext(b, S, c) ==
  \/ /\ S = {} /\ Release(Cast(b), c)
     /\ todo' = [todo EXCEPT ![b] = {}] /\ target' = [target EXCEPT ![b] = NoSession]
  \/ \E s \in S : /\ Keep(Cast(b), c)
                  /\ todo' = [todo EXCEPT ![b] = S \ {s}]
                  /\ target' = [target EXCEPT ![b] = s]

DoCast(b, c) ==
  /\ SendNext(b, map, c)
  /\ UNCHANGED <<client, open, map, stopVars>>

(* Mutant: the last callback is not waited for. *)
M_DoStop_off_by_one(c) ==
  /\ closing' = map /\ map' = {}
  /\ awaited' = Cardinality(map) - 1
  /\ IF Cardinality(map) < 2 THEN Release(Stop, c) ELSE Keep(Stop, c)
  /\ UNCHANGED <<client, open, told, castVars>>

(* async_disconnect_all starts the disconnects, empties the map and waits    *)
(* for as many callbacks.                                                    *)
DoStop(c) ==
  /\ closing' = map /\ map' = {}
  /\ awaited' = Cardinality(map)
  /\ IF map = {} THEN Release(Stop, c) ELSE Keep(Stop, c)
  /\ UNCHANGED <<client, open, told, castVars>>

(* p has the lock, whose state is c. *)
Run(p, c) ==
  \/ \E s \in Sessions : p = Add(s) /\ DoAdd(s, c)
  \/ \E s \in Sessions : p = Remove(s) /\ DoRemove(s, c)
  \/ \E b \in Casts : p = Cast(b) /\ DoCast(b, c)
  \/ p = Stop /\ DoStop(c)

(* Mutant: the lock is not asked for. *)
M_start_unlocked(p) ==
  /\ at[p] = "posted" /\ running /\ Run(p, ch)
  /\ UNCHANGED <<acceptor, running, stalled>>

(* The dispatched operation runs on the listen context and takes the lock or *)
(* queues for it.                                                            *)
start(p) ==
  /\ at[p] = "posted" /\ running
  /\ \/ CanSend(ch) /\ Run(p, TrySend(ch))
     \/ /\ ~CanSend(ch)
        /\ ch' = AsyncSend(ch, p)
        /\ at' = [at EXCEPT ![p] = "waiting"]
        /\ UNCHANGED <<client, open, map, castVars, stopVars>>
  /\ UNCHANGED <<acceptor, running, stalled>>

resume(p) ==
  /\ at[p] = "granted" /\ Run(p, ch)
  /\ UNCHANGED <<acceptor, running, stalled>>

(* Mutant: the loop does not go on after a failed send. *)
M_sent_never_fails(b) ==
  /\ at[Cast(b)] = "running"
  /\ ~stalled[target[b]] /\ SendNext(b, todo[b], ch)
  /\ UNCHANGED <<acceptor, running, sessionVars, map, stopVars>>

(* The send to the target is done, or has failed; a stalled peer's is not    *)
(* done while the socket is open.                                            *)
sent(b) ==
  /\ at[Cast(b)] = "running"
  /\ ~stalled[target[b]] \/ ~open[target[b]]
  /\ SendNext(b, todo[b], ch)
  /\ UNCHANGED <<acceptor, running, sessionVars, map, stopVars>>

(* Mutant: the callback sends twice. *)
M_disconnected_twice(s) ==
  /\ s \in closing
  /\ closing' = closing \ {s}
  /\ told' = told + 2
  /\ open' = [open EXCEPT ![s] = FALSE]
  /\ UNCHANGED <<acceptor, running, client, stalled, map, ch, at, castVars, awaited>>

(* A disconnect ends with the socket closed (TcpStream); its callback sends  *)
(* into the channel.                                                         *)
disconnected(s) ==
  /\ s \in closing
  /\ closing' = closing \ {s}
  /\ told' = told + 1
  /\ open' = [open EXCEPT ![s] = FALSE]
  /\ UNCHANGED <<acceptor, running, client, stalled, map, ch, at, castVars, awaited>>

receive ==
  /\ at[Stop] = "running" /\ told > 0
  /\ told' = told - 1
  /\ awaited' = awaited - 1
  /\ IF awaited = 1 THEN Release(Stop, ch) ELSE UNCHANGED <<ch, at>>
  /\ UNCHANGED <<acceptor, running, sessionVars, map, castVars, closing>>

(* listen_ctx.run() returns: the acceptor is closed and no operation is in   *)
(* the context; main goes on to join the session threads.                    *)
run_returns ==
  /\ RunsOut /\ running /\ ~acceptor
  /\ \A p \in Ops : at[p] \in {"idle", "done"}
  /\ running' = FALSE
  /\ UNCHANGED <<acceptor, sessionVars, map, ch, at, castVars, stopVars>>
------------------------------------------------------------------------------
SessionStep(s) ==
  \/ accept(s) \/ client_join(s) \/ leave(s) \/ cancel_response(s)
  \/ stall(s) \/ disconnected(s)
OpStep(p) == start(p) \/ resume(p)

Next ==
  \/ \E s \in Sessions : SessionStep(s)
  \/ \E p \in Ops : OpStep(p)
  \/ \E b \in Casts : async_send(b) \/ sent(b)
  \/ async_stop \/ receive \/ run_returns

Spec == Init /\ [][Next]_vars

(* The contexts run what is ready.  A disconnect ends by its timeout, but    *)
(* waits for the socket's lock first, which do_recv may hold for a response  *)
(* its peer does not read.                                                   *)
FairSpec ==
  /\ Spec
  /\ \A p \in Ops : WF_vars(OpStep(p))
  /\ \A b \in Casts : WF_vars(sent(b))
  /\ \A s \in Sessions : WF_vars(client_join(s))
  /\ \A s \in Sessions : WF_vars(disconnected(s) /\ (stalled[s] => client[s] # "serving"))
  /\ \A s \in Sessions : WF_vars(leave(s) /\ ~open[s])
  /\ WF_vars(receive) /\ WF_vars(run_returns)
------------------------------------------------------------------------------
TypeOK ==
  /\ acceptor \in BOOLEAN /\ running \in BOOLEAN
  /\ client \in [Sessions -> ClientStates]
  /\ open \in [Sessions -> BOOLEAN] /\ stalled \in [Sessions -> BOOLEAN]
  /\ map \subseteq Sessions
  /\ ch \in Channel(Ops)
  /\ at \in [Ops -> OpStates]
  /\ todo \in [Casts -> SUBSET Sessions]
  /\ target \in [Casts -> Sessions \cup {NoSession}]
  /\ closing \subseteq Sessions
  /\ told \in 0 .. Cardinality(Sessions) /\ awaited \in 0 .. Cardinality(Sessions)

(* While async_send_all is suspended in the middle of its loop over the map, *)
(* nobody inserts or erases: its iterator stays valid.                       *)
MapStableWhileSending ==
  [][\A b \in Casts : at[Cast(b)] = "running" /\ at'[Cast(b)] = "running" => map' = map]_vars

(* Every session that is served is in the map, where send_all finds it,      *)
(* before and after a stop; but those the stop is disconnecting or has       *)
(* closed.  It holds of a session accepted before the stop and added after   *)
(* it too, which the stop does not disconnect.                               *)
ServedIsRegistered ==
  \A s \in Sessions :
    client[s] = "serving" => s \in map \/ s \in closing \/ ~open[s]

(* async_disconnect_all completes when all its callbacks have been received: *)
(* none of them is left to refer to the channel on its frame.                *)
StopOutlivesCallbacks ==
  at[Stop] = "done" => closing = {} /\ told = 0 /\ awaited = 0

(* Every operation of the map ends while the listen context runs.            *)
EveryOpEnds ==
  []running => \A p \in Ops : at[p] = "posted" ~> at[p] = "done"

(* With peers that do not read: their watchdogs end them, which ends the     *)
(* send the map waits for, if do_recv closes each session it leaves.         *)
OpsEndWithWatchdogs ==
  /\ \A s \in Sessions : WF_vars(leave(s))
  /\ [](\A s \in Sessions : client[s] = "removing" => ~open[s])
  => EveryOpEnds

(* A stop ends when the watchdogs of silent sessions do their work.          *)
StopEndsWithWatchdogs ==
  (\A s \in Sessions : WF_vars(leave(s))) => (at[Stop] = "posted" ~> at[Stop] = "done")
=============================================================================
