------------------------------ MODULE UdpServer ------------------------------
(***************************************************************************)
(* A UDP server: the receive loop and client_join of the example, the      *)
(* session map (core/impl/session_map.ipp) and async_stop                  *)
(* (udp/udp_server.hpp).  A session is nothing but an entry of the map     *)
(* under its endpoint and a coroutine whose watchdog removes it.           *)
(*                                                                         *)
(* All coroutines share the thread of one io_context.  An operation that   *)
(* finds the map's lock free runs to its next suspension within the step   *)
(* of its caller; otherwise it queues (LockChannel).  A send of a datagram *)
(* waits for nobody: the socket's lock is left out.                        *)
(***************************************************************************)
EXTENDS Naturals, Sequences, FiniteSets, LockChannel

CONSTANTS
  Clients,     (* the remote endpoints                                     *)
  Casts,       (* the calls of async_send, which sends to all sessions     *)
  Kicks,       (* the calls of async_disconnect_selected                   *)
  MaxSessions  (* bound: datagrams are received until so many sessions     *)

ASSUME UdpAssumption ==
  /\ IsFiniteSet(Clients) /\ Clients # {}
  /\ IsFiniteSet(Casts) /\ IsFiniteSet(Kicks) /\ Casts \cap Kicks = {}
  /\ MaxSessions \in Nat \ {0}

Stop == <<"stop">>
Calls == Casts \cup Kicks \cup {Stop}
Find == <<"find", 0>>
Add == <<"add", 0>>
Remove(s) == <<"remove", s>>
Call(k) == <<"call", k>>
Ops == {Find, Add} \cup ({"remove"} \X (1 .. MaxSessions)) \cup ({"call"} \X Calls)

VARIABLES
  open,     (* whether the server's socket is open                         *)
  loop,     (* where start_server is                                       *)
  from,     (* remote_endpoint: who sent the datagram it holds             *)
  key,      (* the endpoint of every session made, oldest first            *)
  join,     (* where each session's client_join is                         *)
  fresh,    (* the sessions whose alive_time is later than when their      *)
            (* watchdog began its wait                                     *)
  kicked,   (* the sessions whose timer async_disconnect_all has cancelled *)
  map,      (* the session of each endpoint in the map, or 0               *)
  ch,       (* the map's lock                                              *)
  granted,  (* the operation handed the lock and not yet resumed, if any   *)
  at,       (* where each call of the application is                       *)
  todo      (* the sessions each async_send_all has not sent to            *)

sessionVars == <<key, join, fresh, kicked, map>>
lockVars == <<ch, granted>>
vars == <<open, loop, from, sessionVars, lockVars, at, todo>>

Sessions == 1 .. Len(key)

(* expired: the wait has completed without error, its handler is queued.    *)
(* aborted: it was cancelled, its handler is queued.                        *)
JoinStates == {"none", "waiting", "expired", "aborted", "removing", "gone"}
Watched == {"waiting", "expired", "aborted", "removing"}
Live == {"waiting", "expired"}
LoopStates == {"receiving", "received", "finding", "adding", "sending", "ended"}

TypeOK ==
  /\ open \in BOOLEAN
  /\ loop \in LoopStates /\ from \in Clients
  /\ key \in Seq(Clients) /\ Len(key) <= MaxSessions
  /\ join \in [1 .. MaxSessions -> JoinStates]
  /\ fresh \subseteq Sessions /\ kicked \subseteq Sessions
  /\ map \in [Clients -> 0 .. Len(key)]
  /\ ch \in Channel(Ops)
  /\ granted \subseteq Ops /\ Cardinality(granted) <= 1
  /\ at \in [Calls -> {"idle", "waiting", "running", "done"}]
  /\ todo \in [Casts -> SUBSET Sessions]

Init ==
  /\ open = TRUE /\ loop = "receiving" /\ from \in Clients
  /\ key = <<>> /\ join = [s \in 1 .. MaxSessions |-> "none"]
  /\ fresh = {} /\ kicked = {}
  /\ map = [c \in Clients |-> 0]
  /\ ch = NewChannel /\ granted = {}
  /\ at = [k \in Calls |-> "idle"] /\ todo = [b \in Casts |-> {}]
------------------------------------------------------------------------------
(* p ends and releases the lock, whose state is c. *)
Release(p, c) ==
  /\ ch' = TryReceive(c)
  /\ granted' = (granted \ {p}) \cup Handed(c)

(* p is suspended and keeps the lock. *)
Keep(p, c) == ch' = c /\ granted' = granted \ {p}

Queue(p) == ch' = AsyncSend(ch, p) /\ UNCHANGED granted

(* Mutant: the entry is stored, but the session was not made. *)
M_DoAdd_no_session(p, c) ==
  /\ map' = [map EXCEPT ![from] = Len(key) + 1]
  /\ loop' = "sending" /\ Release(p, c)
  /\ UNCHANGED <<key, join, fresh, kicked>>

(* p ends with async_add: emplace keeps an entry there is.  client_join is    *)
(* spawned and runs to its first wait; the loop updates alive_time.           *)
DoAdd(p, c) ==
  LET s == Len(key) + 1 IN
  /\ key' = Append(key, from)
  /\ map' = [map EXCEPT ![from] = IF @ = 0 THEN s ELSE @]
  /\ join' = [join EXCEPT ![s] = "waiting"]
  /\ fresh' = fresh \cup {s}
  /\ loop' = "sending" /\ Release(p, c)
  /\ UNCHANGED kicked

(* async_find releases the lock and the loop goes on: the session there is   *)
(* is alive, or a new one is added, behind those that wait for the lock.     *)
DoFind(c) ==
  \/ /\ map[from] # 0
     /\ fresh' = fresh \cup {map[from]}
     /\ loop' = "sending" /\ Release(Find, c)
     /\ UNCHANGED <<key, join, kicked, map>>
  \/ map[from] = 0 /\ c.waiters = <<>> /\ DoAdd(Find, c)
  \/ /\ map[from] = 0 /\ c.waiters # <<>>
     /\ loop' = "adding"
     /\ ch' = AsyncSend(TryReceive(c), Add)
     /\ granted' = (granted \ {Find}) \cup Handed(c)
     /\ UNCHANGED sessionVars

(* Mutant: the entry stays. *)
M_DoRemove_keeps(s, c) ==
  /\ join' = [join EXCEPT ![s] = "gone"] /\ Release(Remove(s), c)
  /\ UNCHANGED <<key, fresh, kicked, map>>

(* async_remove erases what is under the session's endpoint, the session or  *)
(* not; client_join ends and drops the session.                              *)
DoRemove(s, c) ==
  /\ map' = [map EXCEPT ![key[s]] = 0]
  /\ join' = [join EXCEPT ![s] = "gone"] /\ Release(Remove(s), c)
  /\ fresh' = fresh \ {s}
  /\ UNCHANGED <<key, kicked>>

(* async_send_all suspends for each session's send. *)
DoCast(b, c) ==
  /\ todo' = [todo EXCEPT ![b] = {map[d] : d \in Clients} \ {0}]
  /\ IF todo'[b] = {}
     THEN at' = [at EXCEPT ![b] = "done"] /\ Release(Call(b), c)
     ELSE at' = [at EXCEPT ![b] = "running"] /\ Keep(Call(b), c)
  /\ UNCHANGED sessionVars

(* Mutant: all entries are erased, whatever the predicate says. *)
M_Disconnect_clears(S) ==
  /\ kicked' = kicked \cup {map[d] : d \in S}
  /\ join' = [s \in DOMAIN join |->
                IF s \in {map[d] : d \in S} /\ join[s] = "waiting" THEN "aborted" ELSE join[s]]
  /\ map' = [d \in Clients |-> 0]

(* The disconnects of the sessions at S: each cancels the watchdog's wait if *)
(* there is one, and is seen by canceled() if its handler is queued.         *)
Disconnect(S) ==
  /\ kicked' = kicked \cup {map[d] : d \in S}
  /\ join' = [s \in DOMAIN join |->
                IF s \in {map[d] : d \in S} /\ join[s] = "waiting" THEN "aborted" ELSE join[s]]
  /\ map' = [d \in Clients |-> IF d \in S THEN 0 ELSE map[d]]

(* async_disconnect_all: the disconnects complete at once, but it suspends   *)
(* for their messages.                                                       *)
DoDisconnects(k, S, c) ==
  /\ Disconnect(S)
  /\ IF S = {}
     THEN at' = [at EXCEPT ![k] = "done"] /\ Release(Call(k), c)
     ELSE at' = [at EXCEPT ![k] = "running"] /\ Keep(Call(k), c)
  /\ UNCHANGED <<key, fresh, todo>>

Entries == {d \in Clients : map[d] # 0}

(* Call k has the lock, whose state is c. *)
DoCall(k, c) ==
  \/ k \in Casts /\ DoCast(k, c)
  \/ k \in Kicks /\ \E S \in SUBSET Entries : DoDisconnects(k, S, c)
  \/ k = Stop /\ DoDisconnects(k, Entries, c)
------------------------------------------------------------------------------
(* A datagram of c arrives and completes async_receive_from. *)
receive(c) ==
  /\ loop = "receiving" /\ open /\ Len(key) < MaxSessions
  /\ loop' = "received" /\ from' = c
  /\ UNCHANGED <<open, sessionVars, lockVars, at, todo>>

(* The close has completed it with an error. *)
receive_fails ==
  /\ loop = "receiving" /\ ~open
  /\ loop' = "ended"
  /\ UNCHANGED <<open, from, sessionVars, lockVars, at, todo>>

find ==
  /\ loop = "received"
  /\ \/ CanSend(ch) /\ DoFind(TrySend(ch))
     \/ ~CanSend(ch) /\ Queue(Find) /\ loop' = "finding" /\ UNCHANGED sessionVars
  /\ UNCHANGED <<open, from, at, todo>>

resume_find ==
  /\ loop = "finding" /\ Find \in granted /\ DoFind(ch)
  /\ UNCHANGED <<open, from, at, todo>>

resume_add ==
  /\ loop = "adding" /\ Add \in granted /\ DoAdd(Add, ch)
  /\ UNCHANGED <<open, from, at, todo>>

(* The loop's async_send has ended, well or not. *)
sent ==
  /\ loop = "sending"
  /\ loop' = IF open THEN "receiving" ELSE "ended"
  /\ UNCHANGED <<open, from, sessionVars, lockVars, at, todo>>

expire(s) ==
  /\ join[s] = "waiting"
  /\ join' = [join EXCEPT ![s] = "expired"]
  /\ UNCHANGED <<open, loop, from, key, fresh, kicked, map, lockVars, at, todo>>

(* The watchdog wakes up and waits for the rest of a client's time. *)
wait_again(s) ==
  /\ join[s] = "expired" /\ s \notin kicked /\ s \in fresh
  /\ join' = [join EXCEPT ![s] = "waiting"]
  /\ fresh' = fresh \ {s}
  /\ UNCHANGED <<open, loop, from, key, kicked, map, lockVars, at, todo>>

(* The watchdog ends and client_join calls async_remove. *)
leave(s) ==
  /\ join[s] = "aborted" \/ (join[s] = "expired" /\ (s \in kicked \/ s \notin fresh))
  /\ \/ CanSend(ch) /\ DoRemove(s, TrySend(ch))
     \/ /\ ~CanSend(ch) /\ Queue(Remove(s))
        /\ join' = [join EXCEPT ![s] = "removing"]
        /\ UNCHANGED <<key, fresh, kicked, map>>
  /\ UNCHANGED <<open, loop, from, at, todo>>

resume_remove(s) ==
  /\ join[s] = "removing" /\ Remove(s) \in granted /\ DoRemove(s, ch)
  /\ UNCHANGED <<open, loop, from, at, todo>>

(* async_stop closes the socket and calls async_disconnect_all. *)
call(k) ==
  /\ at[k] = "idle"
  /\ open' = (open /\ k # Stop)
  /\ \/ CanSend(ch) /\ DoCall(k, TrySend(ch))
     \/ /\ ~CanSend(ch) /\ Queue(Call(k))
        /\ at' = [at EXCEPT ![k] = "waiting"]
        /\ UNCHANGED <<sessionVars, todo>>
  /\ UNCHANGED <<loop, from>>

resume_call(k) ==
  /\ at[k] = "waiting" /\ Call(k) \in granted /\ DoCall(k, ch)
  /\ UNCHANGED <<open, loop, from>>

(* Mutant: the loop leaves its last send out. *)
M_cast_sent_skips(b) ==
  /\ at[b] = "running" /\ Cardinality(todo[b]) > 1
  /\ \E s \in todo[b] : todo' = [todo EXCEPT ![b] = @ \ {s}]
  /\ UNCHANGED <<at, lockVars, open, loop, from, sessionVars>>

(* A send of async_send_all has ended, the others follow. *)
cast_sent(b) ==
  /\ at[b] = "running"
  /\ \E s \in todo[b] : todo' = [todo EXCEPT ![b] = @ \ {s}]
  /\ IF todo'[b] = {}
     THEN at' = [at EXCEPT ![b] = "done"] /\ Release(Call(b), ch)
     ELSE UNCHANGED <<at, lockVars>>
  /\ UNCHANGED <<open, loop, from, sessionVars>>

(* async_disconnect_all has received its last message. *)
disconnected(k) ==
  /\ at[k] = "running"
  /\ at' = [at EXCEPT ![k] = "done"] /\ Release(Call(k), ch)
  /\ UNCHANGED <<open, loop, from, sessionVars, todo>>
------------------------------------------------------------------------------
LoopStep == receive_fails \/ find \/ resume_find \/ resume_add \/ sent
JoinStep(s) == expire(s) \/ wait_again(s) \/ leave(s) \/ resume_remove(s)
CallStep(k) ==
  \/ resume_call(k)
  \/ k \in Casts /\ cast_sent(k)
  \/ k \notin Casts /\ disconnected(k)

Next ==
  \/ \E c \in Clients : receive(c)
  \/ LoopStep
  \/ \E s \in Sessions : JoinStep(s)
  \/ \E k \in Calls : call(k) \/ CallStep(k)

Spec == Init /\ [][Next]_vars

(* The context runs what is ready and timers expire; datagrams may not come  *)
(* and the application need not call.                                        *)
FairSpec ==
  /\ Spec
  /\ WF_vars(LoopStep)
  /\ \A s \in 1 .. MaxSessions : WF_vars(s \in Sessions /\ JoinStep(s))
  /\ \A k \in Calls : WF_vars(CallStep(k))
------------------------------------------------------------------------------
(* Every entry of the map is a session of that endpoint whose client_join    *)
(* has yet to remove it, also an entry made after a stop: none is left over. *)
RegisteredIsWatched ==
  \A c \in Clients :
    map[c] # 0 => /\ key[map[c]] = c
                  /\ join[map[c]] \in Watched

(* A session whose watchdog goes on is the one the loop finds for its        *)
(* endpoint, so no endpoint has two, except after a session of that endpoint *)
(* was disconnected by the application: its client_join removes whatever     *)
(* session it finds under the endpoint by then.                              *)
LiveIsRegistered ==
  \A s \in Sessions :
    join[s] \in Live =>
      \/ map[key[s]] = s
      \/ \E t \in kicked : t <= s /\ key[t] = key[s]

(* Nothing is left for the context to do. *)
Quiet ==
  /\ loop = "ended" /\ ~ch.full
  /\ \A s \in Sessions : join[s] = "gone"
  /\ \A k \in Calls : at[k] \in {"idle", "done"}

(* After a stop the loop, all watchdogs and all calls end and the map is     *)
(* empty, also when a datagram that had arrived makes a session after the    *)
(* stop has emptied the map: ctx.join() returns.                             *)
StopEndsAll == ~open ~> (Quiet /\ \A c \in Clients : map[c] = 0)
=============================================================================
