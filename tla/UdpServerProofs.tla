--------------------------- MODULE UdpServerProofs ---------------------------
(***************************************************************************)
(* For any endpoints, sessions and calls: every entry of the UDP server's  *)
(* map is watched, and an endpoint has a second session only after one of  *)
(* its sessions was disconnected by the application.  The map's lock is    *)
(* not needed for it: find and add are one step unless the add queues, and *)
(* only the loop adds.  Then, on top of it: the lock is never lost nor     *)
(* held twice, and is handed on to an operation suspended on it.           *)
(***************************************************************************)
EXTENDS UdpServer, SequenceTheorems, FiniteSetTheorems, TLAPS

Types ==
  /\ from \in Clients
  /\ key \in Seq(Clients) /\ Len(key) <= MaxSessions
  /\ join \in [1 .. MaxSessions -> JoinStates]
  /\ kicked \subseteq Sessions
  /\ map \in [Clients -> 0 .. Len(key)]

(* The loop has room for a session, and nobody else adds while it waits.     *)
LoopAlone ==
  /\ loop \in {"received", "finding", "adding"} => Len(key) < MaxSessions
  /\ loop = "adding" => map[from] = 0

(* The entry of an endpoint is its newest session.                           *)
EntryIsNewest ==
  \A c \in Clients : map[c] # 0 =>
    /\ key[map[c]] = c
    /\ join[map[c]] \in Watched
    /\ \A t \in Sessions : key[t] = c => t <= map[c]

(* LiveIsRegistered, carried on to the sessions about to be removed.         *)
WatchedIsRegistered ==
  \A s \in Sessions : join[s] \in Watched =>
    \/ map[key[s]] = s
    \/ \E t \in kicked : t <= s /\ key[t] = key[s]

Inv == Types /\ LoopAlone /\ EntryIsNewest /\ WatchedIsRegistered

(* The operations that have the lock. *)
Running == {Call(k) : k \in {k \in Calls : at[k] = "running"}}
Holders == granted \cup Running

(* The operations suspended until they get it, or until they resume with it. *)
LoopPends == IF loop = "finding" THEN {Find} ELSE IF loop = "adding" THEN {Add} ELSE {}
JoinPends == {Remove(s) : s \in {s \in Sessions : join[s] = "removing"}}
CallPends == {Call(k) : k \in {k \in Calls : at[k] = "waiting"}}
Pending == LoopPends \cup JoinPends \cup CallPends

Elems(w) == {w[i] : i \in 1 .. Len(w)}
Distinct(w) == \A i, j \in 1 .. Len(w) : w[i] = w[j] => i = j
Queued == Elems(ch.waiters)

(* One operation has the lock, which is full while one does; the suspended   *)
(* ones are in its queue, each once, except the one it was handed to.        *)
LockPart ==
  /\ ch \in Channel(Ops)
  /\ \A p, q \in Holders : p = q
  /\ ch.full <=> Holders # {}
  /\ NoWaiterOnFreeLock(ch)
  /\ Distinct(ch.waiters)
  /\ granted \cap Queued = {} /\ granted \cup Queued = Pending

(* The rest of the types. *)
DataPart ==
  /\ open \in BOOLEAN /\ loop \in LoopStates
  /\ fresh \subseteq Sessions
  /\ at \in [Calls -> {"idle", "waiting", "running", "done"}]
  /\ todo \in [Casts -> SUBSET Sessions]

USE UdpAssumption

(* The session the loop makes is the newest of its endpoint, which had no    *)
(* entry.                                                                    *)
LEMMA AddKeepsInv ==
  ASSUME Inv, NEW p, NEW c, DoAdd(p, c), UNCHANGED from,
         map[from] = 0, Len(key) < MaxSessions
  PROVE  Inv'
<1> DEFINE s == Len(key) + 1
<1>1. /\ key' = Append(key, from) /\ loop' = "sending" /\ kicked' = kicked
      /\ map' = [map EXCEPT ![from] = s]
      /\ join' = [join EXCEPT ![s] = "waiting"]
  BY DEF DoAdd, Inv, Types
<1>2. /\ Len(key) \in Nat /\ Len(key') = s /\ key' \in Seq(Clients)
      /\ \A i \in 1 .. Len(key) : key'[i] = key[i]
      /\ key'[s] = from
      /\ \A i \in 1 .. Len(key) : key[i] \in Clients
  BY <1>1 DEF Inv, Types
<1>3. s \in 1 .. MaxSessions
  BY <1>2
<1>4. Types'
  BY <1>1, <1>2, <1>3 DEF Inv, Types, JoinStates, Sessions
<1>5. LoopAlone'
  BY <1>1 DEF LoopAlone
<1>6. EntryIsNewest'
  <2> SUFFICES ASSUME NEW d \in Clients, map'[d] # 0
      PROVE  /\ key'[map'[d]] = d
             /\ join'[map'[d]] \in Watched
             /\ \A t \in 1 .. s : key'[t] = d => t <= map'[d]
    BY <1>2 DEF EntryIsNewest, Sessions
  <2>1. CASE d = from
    <3>1. map'[d] = s
      BY <2>1, <1>1 DEF Inv, Types
    <3> QED
      BY <3>1, <2>1, <1>1, <1>2, <1>3 DEF Inv, Types, Watched
  <2>2. CASE d # from
    <3>1. map'[d] = map[d] /\ map[d] \in 1 .. Len(key)
      BY <2>2, <1>1 DEF Inv, Types
    <3>2. /\ key[map[d]] = d /\ join[map[d]] \in Watched
          /\ \A t \in 1 .. Len(key) : key[t] = d => t <= map[d]
      BY <3>1 DEF Inv, EntryIsNewest, Sessions
    <3>3. join'[map[d]] = join[map[d]]
      BY <3>1, <1>1, <1>2, <1>3 DEF Inv, Types
    <3>4. \A t \in 1 .. s : key'[t] = d => t <= map[d]
      BY <3>2, <1>2, <2>2
    <3> QED
      BY <3>1, <3>2, <3>3, <3>4, <1>2
  <2> QED
    BY <2>1, <2>2
<1>7. WatchedIsRegistered'
  <2> SUFFICES ASSUME NEW u \in 1 .. s, join'[u] \in Watched
      PROVE  \/ map'[key'[u]] = u
             \/ \E t \in kicked : t <= u /\ key'[t] = key'[u]
    BY <1>1, <1>2 DEF WatchedIsRegistered, Sessions
  <2>1. CASE u = s
    BY <2>1, <1>1, <1>2 DEF Inv, Types
  <2>2. CASE u # s
    <3>1. u \in 1 .. Len(key) /\ key'[u] = key[u] /\ key[u] \in Clients
      BY <2>2, <1>2
    <3>2. join[u] \in Watched
      BY <3>1, <2>2, <1>1, <1>2, <1>3 DEF Inv, Types
    <3>3. CASE map[key[u]] = u
      <4>1. key[u] # from
        BY <3>1, <3>3
      <4> QED
        BY <4>1, <3>1, <3>3, <1>1 DEF Inv, Types
    <3>4. CASE \E t \in kicked : t <= u /\ key[t] = key[u]
      <4>1. PICK t \in kicked : t <= u /\ key[t] = key[u]
        BY <3>4
      <4>2. t \in 1 .. Len(key)
        BY DEF Inv, Types, Sessions
      <4> QED
        BY <4>1, <4>2, <3>1, <1>2
    <3> QED
      BY <3>1, <3>2, <3>3, <3>4 DEF Inv, WatchedIsRegistered, Sessions
  <2> QED
    BY <2>1, <2>2
<1> QED
  BY <1>4, <1>5, <1>6, <1>7 DEF Inv

(* A session that erases another one's entry had lost its own to a           *)
(* disconnect, before the other was made.                                    *)
LEMMA RemoveKeepsInv ==
  ASSUME Inv, NEW s \in Sessions, NEW c, DoRemove(s, c), UNCHANGED <<loop, from>>,
         join[s] \in Watched
  PROVE  Inv'
<1>1. /\ key' = key /\ kicked' = kicked
      /\ map' = [map EXCEPT ![key[s]] = 0]
      /\ join' = [join EXCEPT ![s] = "gone"]
  BY DEF DoRemove
<1>2. /\ Len(key) \in Nat /\ \A i \in Sessions : key[i] \in Clients
      /\ Sessions \subseteq 1 .. MaxSessions
  BY DEF Inv, Types, Sessions
<1>3. Types'
  BY <1>1, <1>2 DEF Inv, Types, JoinStates, Sessions
<1>4. LoopAlone'
  BY <1>1, <1>2 DEF Inv, Types, LoopAlone
<1>5. EntryIsNewest'
  <2> SUFFICES ASSUME NEW d \in Clients, map'[d] # 0
      PROVE  /\ key[map'[d]] = d
             /\ join'[map'[d]] \in Watched
             /\ \A t \in Sessions : key[t] = d => t <= map'[d]
    BY <1>1 DEF EntryIsNewest, Sessions
  <2>1. d # key[s] /\ map'[d] = map[d]
    BY <1>1, <1>2 DEF Inv, Types
  <2>2. /\ key[map[d]] = d /\ join[map[d]] \in Watched
        /\ \A t \in Sessions : key[t] = d => t <= map[d]
    BY <2>1 DEF Inv, EntryIsNewest
  <2>3. map[d] # s
    BY <2>1, <2>2
  <2> QED
    BY <2>1, <2>2, <2>3, <1>1 DEF Inv, Types
<1>6. WatchedIsRegistered'
  <2> SUFFICES ASSUME NEW u \in Sessions, join'[u] \in Watched
      PROVE  \/ map'[key[u]] = u
             \/ \E t \in kicked : t <= u /\ key[t] = key[u]
    BY <1>1 DEF WatchedIsRegistered, Sessions
  <2>1. u # s /\ join[u] \in Watched
    BY <1>1, <1>2 DEF Inv, Types, Watched
  <2>2. CASE key[u] # key[s]
    BY <2>1, <2>2, <1>1, <1>2 DEF Inv, Types, WatchedIsRegistered
  <2>3. CASE key[u] = key[s] /\ map[key[u]] = u
    <3>1. s <= u
      BY <2>3, <1>2 DEF Inv, EntryIsNewest, Sessions
    <3>2. PICK t \in kicked : t <= s /\ key[t] = key[s]
      BY <2>1, <2>3 DEF Inv, WatchedIsRegistered
    <3>3. t \in Nat /\ s \in Nat /\ u \in Nat
      BY <1>2 DEF Inv, Types, Sessions
    <3> QED
      BY <3>1, <3>2, <3>3, <2>3
  <2> QED
    BY <2>1, <2>2, <2>3 DEF Inv, WatchedIsRegistered
<1> QED
  BY <1>3, <1>4, <1>5, <1>6 DEF Inv

(* A session that loses its entry to a disconnect is kicked.                 *)
LEMMA DisconnectKeepsInv ==
  ASSUME Inv, NEW S \in SUBSET Entries, Disconnect(S), UNCHANGED <<loop, from, key>>
  PROVE  Inv'
<1> DEFINE K == {map[d] : d \in S}
<1>1. /\ kicked' = kicked \cup K
      /\ join' = [s \in DOMAIN join |-> IF s \in K /\ join[s] = "waiting" THEN "aborted" ELSE join[s]]
      /\ map' = [d \in Clients |-> IF d \in S THEN 0 ELSE map[d]]
  BY DEF Disconnect
<1>2. /\ Len(key) \in Nat /\ \A i \in Sessions : key[i] \in Clients
      /\ Sessions \subseteq 1 .. MaxSessions
      /\ S \subseteq Clients /\ K \subseteq Sessions
  BY DEF Inv, Types, Sessions, Entries
<1>3. \A s \in 1 .. MaxSessions :
        /\ join'[s] \in JoinStates
        /\ join'[s] \in Watched <=> join[s] \in Watched
  BY <1>1 DEF Inv, Types, Watched, JoinStates
<1>4. Types'
  BY <1>1, <1>2, <1>3 DEF Inv, Types, Sessions
<1>5. LoopAlone'
  BY <1>1, <1>2 DEF Inv, Types, LoopAlone
<1>6. EntryIsNewest'
  <2> SUFFICES ASSUME NEW d \in Clients, map'[d] # 0
      PROVE  /\ key[map'[d]] = d
             /\ join'[map'[d]] \in Watched
             /\ \A t \in Sessions : key[t] = d => t <= map'[d]
    BY DEF EntryIsNewest, Sessions
  <2>1. map'[d] = map[d] /\ map[d] \in Sessions
    BY <1>1 DEF Inv, Types, Sessions
  <2> QED
    BY <2>1, <1>2, <1>3 DEF Inv, EntryIsNewest
<1>7. WatchedIsRegistered'
  <2> SUFFICES ASSUME NEW u \in Sessions, join'[u] \in Watched
      PROVE  \/ map'[key[u]] = u
             \/ \E t \in kicked' : t <= u /\ key[t] = key[u]
    BY DEF WatchedIsRegistered, Sessions
  <2>1. join[u] \in Watched
    BY <1>2, <1>3
  <2>2. CASE map[key[u]] = u /\ key[u] \in S
    BY <2>2, <1>1, <1>2
  <2>3. CASE map[key[u]] = u /\ key[u] \notin S
    BY <2>3, <1>1, <1>2
  <2> QED
    BY <2>1, <2>2, <2>3, <1>1 DEF Inv, WatchedIsRegistered
<1> QED
  BY <1>4, <1>5, <1>6, <1>7 DEF Inv

(* A step that makes no session, keeps the map and moves sessions only       *)
(* between watched states.                                                   *)
LEMMA FrameKeepsInv ==
  ASSUME Inv, UNCHANGED <<key, kicked, map>>,
         from' \in Clients,
         join' \in [1 .. MaxSessions -> JoinStates],
         \A s \in Sessions : join'[s] \in Watched <=> join[s] \in Watched,
         LoopAlone'
  PROVE  Inv'
<1>1. Types'
  BY DEF Inv, Types, Sessions
<1>2. EntryIsNewest'
  BY DEF Inv, Types, EntryIsNewest, Sessions
<1>3. WatchedIsRegistered'
  BY DEF Inv, Types, WatchedIsRegistered, Sessions
<1> QED
  BY <1>1, <1>2, <1>3 DEF Inv

LEMMA FindKeepsInv ==
  ASSUME Inv, NEW c, DoFind(c), UNCHANGED from, Len(key) < MaxSessions
  PROVE  Inv'
<1>1. CASE map[from] # 0 /\ UNCHANGED <<key, join, kicked, map>> /\ loop' = "sending"
  BY <1>1, FrameKeepsInv DEF Inv, Types, LoopAlone
<1>2. CASE map[from] = 0 /\ DoAdd(Find, c)
  BY <1>2, AddKeepsInv
<1>3. CASE map[from] = 0 /\ UNCHANGED sessionVars /\ loop' = "adding"
  BY <1>3, FrameKeepsInv DEF Inv, Types, LoopAlone, sessionVars
<1> QED
  BY <1>1, <1>2, <1>3 DEF DoFind

LEMMA CallKeepsInv ==
  ASSUME Inv, NEW k, NEW c, DoCall(k, c), UNCHANGED <<loop, from>>
  PROVE  Inv'
<1>1. CASE DoCast(k, c)
  BY <1>1, FrameKeepsInv DEF Inv, Types, LoopAlone, DoCast, sessionVars
<1>2. CASE \E S \in SUBSET Entries : DoDisconnects(k, S, c)
  BY <1>2, DisconnectKeepsInv DEF DoDisconnects
<1> QED
  BY <1>1, <1>2 DEF DoCall

LEMMA InitInv == Init => Inv
<1> SUFFICES ASSUME Init PROVE Inv
  OBVIOUS
<1>1. Types
  BY DEF Init, Types, JoinStates, Sessions
<1>2. LoopAlone /\ EntryIsNewest /\ WatchedIsRegistered
  BY DEF Init, LoopAlone, EntryIsNewest, WatchedIsRegistered, Sessions
<1> QED
  BY <1>1, <1>2 DEF Inv

LEMMA NextInv == Inv /\ [Next]_vars => Inv'
<1> SUFFICES ASSUME Inv, [Next]_vars PROVE Inv'
  OBVIOUS
<1> USE DEF Inv, Types, LoopAlone, sessionVars
<1>1. ASSUME NEW c \in Clients, receive(c) PROVE Inv'
  BY <1>1, FrameKeepsInv DEF receive
<1>2. CASE receive_fails
  BY <1>2, FrameKeepsInv DEF receive_fails
<1>3. CASE find
  <2>1. CASE DoFind(TrySend(ch))
    BY <2>1, <1>3, FindKeepsInv DEF find
  <2>2. CASE loop' = "finding" /\ UNCHANGED sessionVars
    BY <2>2, <1>3, FrameKeepsInv DEF find
  <2> QED
    BY <2>1, <2>2, <1>3 DEF find
<1>4. CASE resume_find
  BY <1>4, FindKeepsInv DEF resume_find
<1>5. CASE resume_add
  BY <1>5, AddKeepsInv DEF resume_add
<1>6. CASE sent
  BY <1>6, FrameKeepsInv DEF sent
<1>7. ASSUME NEW s \in Sessions, expire(s) PROVE Inv'
  BY <1>7, FrameKeepsInv DEF expire, JoinStates, Watched, Sessions
<1>8. ASSUME NEW s \in Sessions, wait_again(s) PROVE Inv'
  BY <1>8, FrameKeepsInv DEF wait_again, JoinStates, Watched, Sessions
<1>9. ASSUME NEW s \in Sessions, leave(s) PROVE Inv'
  <2>1. join[s] \in Watched
    BY <1>9 DEF leave, Watched
  <2>2. CASE DoRemove(s, TrySend(ch))
    BY <2>1, <2>2, <1>9, RemoveKeepsInv DEF leave
  <2>3. CASE join' = [join EXCEPT ![s] = "removing"] /\ UNCHANGED <<key, kicked, map>>
    BY <2>1, <2>3, <1>9, FrameKeepsInv DEF leave, JoinStates, Watched, Sessions
  <2> QED
    BY <2>2, <2>3, <1>9 DEF leave
<1>10. ASSUME NEW s \in Sessions, resume_remove(s) PROVE Inv'
  BY <1>10, RemoveKeepsInv DEF resume_remove, Watched
<1>11. ASSUME NEW k \in Calls, call(k) PROVE Inv'
  <2>1. CASE DoCall(k, TrySend(ch))
    BY <2>1, <1>11, CallKeepsInv DEF call
  <2>2. CASE UNCHANGED sessionVars
    BY <2>2, <1>11, FrameKeepsInv DEF call
  <2> QED
    BY <2>1, <2>2, <1>11 DEF call
<1>12. ASSUME NEW k \in Calls, CallStep(k) PROVE Inv'
  <2>1. CASE resume_call(k)
    BY <2>1, CallKeepsInv DEF resume_call
  <2>2. CASE cast_sent(k) \/ disconnected(k)
    BY <2>2, FrameKeepsInv DEF cast_sent, disconnected
  <2> QED
    BY <2>1, <2>2, <1>12 DEF CallStep
<1>13. CASE UNCHANGED vars
  BY <1>13, FrameKeepsInv DEF vars
<1> QED
  BY <1>1, <1>2, <1>3, <1>4, <1>5, <1>6, <1>7, <1>8, <1>9, <1>10, <1>11, <1>12, <1>13
     DEF Next, LoopStep, JoinStep

(* The inductive invariant of the server's map and sessions.                 *)
THEOREM UdpInvariant == Spec => []Inv
  BY InitInv, NextInv, PTL DEF Spec

(* However finds, adds, removals and disconnects interleave, an entry of the *)
(* map is a session of its endpoint that will still remove it.               *)
THEOREM NoEntryIsLeftOver == Spec => []RegisteredIsWatched
<1>1. Inv => RegisteredIsWatched
  BY DEF Inv, EntryIsNewest, RegisteredIsWatched
<1> QED
  BY <1>1, UdpInvariant, PTL

(* A session whose watchdog goes on is the one found for its endpoint,       *)
(* unless the application has disconnected a session of that endpoint.       *)
THEOREM OneSessionPerEndpoint == Spec => []LiveIsRegistered
<1>1. Inv => LiveIsRegistered
  BY DEF Inv, WatchedIsRegistered, LiveIsRegistered, Live, Watched
<1> QED
  BY <1>1, UdpInvariant, PTL
------------------------------------------------------------------------------
(* The lock of the map.  What is queued after a push and after a pop.        *)
LEMMA PushElems ==
  ASSUME NEW w \in Seq(Ops), NEW p \in Ops
  PROVE  /\ Append(w, p) \in Seq(Ops) /\ Append(w, p) # <<>>
         /\ Elems(Append(w, p)) = Elems(w) \cup {p}
         /\ Distinct(w) /\ p \notin Elems(w) => Distinct(Append(w, p))
<1> DEFINE v == Append(w, p)
<1>1. /\ v \in Seq(Ops) /\ v # <<>> /\ Len(w) \in Nat /\ Len(v) = Len(w) + 1
      /\ \A i \in 1 .. Len(w) : v[i] = w[i]
      /\ v[Len(w) + 1] = p
  OBVIOUS
<1> HIDE DEF v
<1>2. Elems(v) = Elems(w) \cup {p}
  <2>1. 1 .. Len(v) = 1 .. Len(w) \cup {Len(w) + 1}
    BY <1>1
  <2> QED
    BY <1>1, <2>1 DEF Elems
<1>3. ASSUME Distinct(w), p \notin Elems(w), NEW i \in 1 .. Len(v), NEW j \in 1 .. Len(v), v[i] = v[j]
      PROVE  i = j
  <2>1. CASE i \in 1 .. Len(w) /\ j \in 1 .. Len(w)
    BY <1>1, <1>3, <2>1 DEF Distinct
  <2>2. CASE i = Len(w) + 1 /\ j \in 1 .. Len(w)
    BY <1>1, <1>3, <2>2 DEF Elems
  <2>3. CASE j = Len(w) + 1 /\ i \in 1 .. Len(w)
    BY <1>1, <1>3, <2>3 DEF Elems
  <2>4. CASE i = Len(w) + 1 /\ j = Len(w) + 1
    BY <2>4
  <2> QED
    BY <1>1, <2>1, <2>2, <2>3, <2>4
<1> QED
  BY <1>1, <1>2, <1>3 DEF v, Distinct

LEMMA PopElems ==
  ASSUME NEW w \in Seq(Ops), w # <<>>
  PROVE  /\ Head(w) \in Ops /\ Tail(w) \in Seq(Ops)
         /\ Elems(w) = Elems(Tail(w)) \cup {Head(w)}
         /\ Distinct(w) => Distinct(Tail(w)) /\ Head(w) \notin Elems(Tail(w))
<1> DEFINE v == Tail(w)
           h == Head(w)
<1>1. /\ h \in Ops /\ v \in Seq(Ops) /\ h = w[1] /\ Len(w) \in Nat /\ Len(w) > 0
      /\ Len(v) = Len(w) - 1
      /\ \A i \in 1 .. Len(v) : v[i] = w[i + 1]
  OBVIOUS
<1> HIDE DEF v, h
<1>2. Elems(w) = Elems(v) \cup {h}
  <2>1. ASSUME NEW x \in Elems(w)
        PROVE  x \in Elems(v) \cup {h}
    <3>1. PICK i \in 1 .. Len(w) : x = w[i]
      BY DEF Elems
    <3>2. CASE i = 1
      BY <1>1, <3>1, <3>2
    <3>3. CASE i # 1
      <4>1. i - 1 \in 1 .. Len(v) /\ v[i - 1] = x
        BY <1>1, <3>1, <3>3
      <4> QED
        BY <4>1 DEF Elems
    <3> QED
      BY <3>2, <3>3
  <2>2. ASSUME NEW i \in 1 .. Len(v)
        PROVE  v[i] \in Elems(w)
    <3>1. i + 1 \in 1 .. Len(w) /\ v[i] = w[i + 1]
      BY <1>1
    <3> QED
      BY <3>1 DEF Elems
  <2>3. h \in Elems(w)
    BY <1>1 DEF Elems
  <2> QED
    BY <2>1, <2>2, <2>3 DEF Elems
<1>3. ASSUME Distinct(w)
      PROVE  Distinct(v) /\ h \notin Elems(v)
  <2>1. ASSUME NEW i \in 1 .. Len(v), NEW j \in 1 .. Len(v), v[i] = v[j]
        PROVE  i = j
    <3>1. i + 1 \in 1 .. Len(w) /\ j + 1 \in 1 .. Len(w) /\ w[i + 1] = w[j + 1]
      BY <1>1, <2>1
    <3>2. i + 1 = j + 1
      BY <1>3, <3>1 DEF Distinct
    <3> QED
      BY <3>2, <1>1
  <2>2. ASSUME NEW i \in 1 .. Len(v)
        PROVE  v[i] # h
    <3>1. i + 1 \in 1 .. Len(w) /\ 1 \in 1 .. Len(w) /\ i + 1 # 1
      BY <1>1
    <3> QED
      BY <1>1, <1>3, <3>1 DEF Distinct
  <2> QED
    BY <2>1, <2>2 DEF Distinct, Elems
<1> QED
  BY <1>1, <1>2, <1>3 DEF v, h

(* p has the lock, whose state is c: it has just taken it, or holds it.      *)
Has(p, c) ==
  \/ p \notin Pending /\ CanSend(ch) /\ c = TrySend(ch)
  \/ p \in Holders /\ (p \in granted \/ p \notin Pending) /\ c = ch

LEMMA HasLock ==
  ASSUME LockPart, NEW p \in Ops, NEW c, Has(p, c)
  PROVE  /\ c = [full |-> TRUE, waiters |-> ch.waiters] /\ ch.waiters \in Seq(Ops)
         /\ granted \subseteq {p} /\ Running \subseteq {p}
         /\ p \notin Queued
<1>1. ch = [full |-> ch.full, waiters |-> ch.waiters] /\ ch.full \in BOOLEAN /\ ch.waiters \in Seq(Ops)
  BY DEF LockPart, Channel
<1>2. CASE p \notin Pending /\ CanSend(ch) /\ c = TrySend(ch)
  <2>1. ~ch.full /\ Holders = {}
    BY <1>2 DEF CanSend, LockPart
  <2>2. c = [full |-> TRUE, waiters |-> ch.waiters]
    BY <1>1, <1>2 DEF TrySend
  <2> QED
    BY <1>1, <1>2, <2>1, <2>2 DEF Holders, LockPart
<1>3. CASE p \in Holders /\ (p \in granted \/ p \notin Pending) /\ c = ch
  <2>1. ch.full /\ \A q \in Holders : q = p
    BY <1>3 DEF LockPart
  <2> QED
    BY <1>1, <1>3, <2>1 DEF Holders, LockPart
<1> QED
  BY <1>2, <1>3 DEF Has

(* p releases the lock: it becomes free or is handed to the first in queue.  *)
LEMMA ReleaseLock ==
  ASSUME LockPart, NEW p \in Ops, NEW c, Has(p, c), Release(p, c),
         Pending' = Pending \ {p}, Running' \subseteq Running \ {p}
  PROVE  LockPart'
<1> DEFINE w == ch.waiters
<1>1. /\ c = [full |-> TRUE, waiters |-> w] /\ w \in Seq(Ops)
      /\ granted \subseteq {p} /\ Running' = {} /\ p \notin Elems(w)
  BY HasLock DEF Queued
<1>2. Pending' = Elems(w)
  BY <1>1 DEF LockPart, Queued
<1>3. CASE w = <<>>
  <2>1. ch' = [full |-> FALSE, waiters |-> <<>>] /\ granted' = {}
    BY <1>1, <1>3 DEF Release, TryReceive, Handed
  <2>2. ch' \in Channel(Ops) /\ ~ch'.full /\ ch'.waiters = <<>>
    BY <2>1, <1>1, <1>3 DEF Channel
  <2>3. Elems(<<>>) = {} /\ Distinct(<<>>)
    BY DEF Elems, Distinct
  <2> QED
    BY <1>1, <1>2, <1>3, <2>1, <2>2, <2>3 DEF LockPart, Holders, Queued, NoWaiterOnFreeLock
<1>4. CASE w # <<>>
  <2>1. ch' = [full |-> TRUE, waiters |-> Tail(w)] /\ granted' = {Head(w)}
    BY <1>1, <1>4 DEF Release, TryReceive, Handed
  <2>2. /\ Tail(w) \in Seq(Ops) /\ Elems(w) = Elems(Tail(w)) \cup {Head(w)}
        /\ Distinct(Tail(w)) /\ Head(w) \notin Elems(Tail(w))
    BY <1>1, <1>4, PopElems DEF LockPart
  <2>3. ch' \in Channel(Ops) /\ ch'.full /\ ch'.waiters = Tail(w)
    BY <2>1, <2>2 DEF Channel
  <2> QED
    BY <1>1, <1>2, <2>1, <2>2, <2>3 DEF LockPart, Holders, Queued, NoWaiterOnFreeLock
<1> QED
  BY <1>3, <1>4

LEMMA KeepLock ==
  ASSUME LockPart, NEW p \in Ops, NEW c, Has(p, c), Keep(p, c),
         Pending' = Pending \ {p}, Running' = Running \cup {p}
  PROVE  LockPart'
<1>1. /\ ch' = [full |-> TRUE, waiters |-> ch.waiters] /\ ch.waiters \in Seq(Ops)
      /\ granted' = {} /\ Running' = {p} /\ p \notin Queued /\ granted \subseteq {p}
  BY HasLock DEF Keep
<1>2. ch' \in Channel(Ops) /\ ch'.full /\ ch'.waiters = ch.waiters /\ Queued' = Queued
  BY <1>1 DEF Channel, Queued
<1>3. Pending' = Queued
  BY <1>1 DEF LockPart
<1> QED
  BY <1>1, <1>2, <1>3 DEF LockPart, Holders, NoWaiterOnFreeLock

LEMMA QueueLock ==
  ASSUME LockPart, NEW p \in Ops, p \notin Pending, ~CanSend(ch), Queue(p),
         Pending' = Pending \cup {p}, Running' = Running
  PROVE  LockPart'
<1> DEFINE w == ch.waiters
<1>1. /\ w \in Seq(Ops) /\ ch.full \in BOOLEAN /\ ch = [full |-> ch.full, waiters |-> w]
  BY DEF LockPart, Channel
<1>2. ch' = [full |-> TRUE, waiters |-> Append(w, p)] /\ ch.full /\ granted' = granted
  BY <1>1 DEF Queue, AsyncSend, CanSend
<1>3. p \notin Elems(w) /\ p \notin granted
  BY DEF LockPart, Queued
<1>4. /\ Append(w, p) \in Seq(Ops) /\ Elems(Append(w, p)) = Elems(w) \cup {p}
      /\ Distinct(Append(w, p))
  BY <1>1, <1>3, PushElems DEF LockPart
<1>5. ch' \in Channel(Ops) /\ ch'.full /\ ch'.waiters = Append(w, p)
  BY <1>2, <1>4 DEF Channel
<1>6. Holders' = Holders
  BY <1>2 DEF Holders
<1> QED
  BY <1>2, <1>3, <1>4, <1>5, <1>6 DEF LockPart, Queued, NoWaiterOnFreeLock

(* find releases the lock and queues for it again, to add.                   *)
LEMMA RequeueLock ==
  ASSUME LockPart, NEW p \in Ops, NEW q \in Ops, NEW c, Has(p, c), c.waiters # <<>>,
         ch' = AsyncSend(TryReceive(c), q), granted' = (granted \ {p}) \cup Handed(c),
         q \notin Pending, q # p,
         Pending' = (Pending \ {p}) \cup {q}, Running' = Running \ {p}
  PROVE  LockPart'
<1> DEFINE w == ch.waiters
<1>1. /\ c = [full |-> TRUE, waiters |-> w] /\ w \in Seq(Ops) /\ w # <<>>
      /\ granted \subseteq {p} /\ Running' = {} /\ p \notin Elems(w) /\ q \notin Elems(w)
  <2>1. q \notin Elems(w)
    BY DEF LockPart, Queued
  <2> QED
    BY <2>1, HasLock DEF Queued
<1>2. ch' = [full |-> TRUE, waiters |-> Append(Tail(w), q)] /\ granted' = {Head(w)}
  BY <1>1 DEF TryReceive, AsyncSend, Handed
<1>3. /\ Head(w) \in Ops /\ Tail(w) \in Seq(Ops) /\ Elems(w) = Elems(Tail(w)) \cup {Head(w)}
      /\ Distinct(Tail(w)) /\ Head(w) \notin Elems(Tail(w))
  BY <1>1, PopElems DEF LockPart
<1>4. /\ Append(Tail(w), q) \in Seq(Ops)
      /\ Elems(Append(Tail(w), q)) = Elems(Tail(w)) \cup {q}
      /\ Distinct(Append(Tail(w), q))
  BY <1>1, <1>3, PushElems
<1>5. ch' \in Channel(Ops) /\ ch'.full /\ ch'.waiters = Append(Tail(w), q)
  BY <1>2, <1>4 DEF Channel
<1>6. Pending' = Elems(w) \cup {q}
  BY <1>1 DEF LockPart, Queued
<1>7. Holders' = {Head(w)}
  BY <1>1, <1>2 DEF Holders
<1>8. granted' \cap Queued' = {} /\ granted' \cup Queued' = Pending'
  <2>1. Queued' = Elems(Tail(w)) \cup {q}
    BY <1>4, <1>5 DEF Queued
  <2>2. Head(w) # q /\ Head(w) \notin Elems(Tail(w))
    BY <1>1, <1>3
  <2> QED
    BY <1>2, <1>3, <1>6, <2>1, <2>2
<1> QED
  BY <1>4, <1>5, <1>7, <1>8 DEF LockPart, NoWaiterOnFreeLock

LEMMA SameLock ==
  ASSUME LockPart, UNCHANGED lockVars, Pending' = Pending, Running' = Running
  PROVE  LockPart'
BY DEF LockPart, lockVars, Holders, Queued

(* The operations differ, and each kind of step changes one part of Pending. *)
LEMMA OpFacts ==
  /\ Find \in Ops /\ Add \in Ops /\ Find # Add
  /\ \A s \in 1 .. MaxSessions :
       /\ Remove(s) \in Ops /\ Remove(s) # Find /\ Remove(s) # Add
       /\ \A t \in 1 .. MaxSessions : Remove(s) = Remove(t) => s = t
  /\ \A k \in Calls :
       /\ Call(k) \in Ops /\ Call(k) # Find /\ Call(k) # Add
       /\ \A s \in 1 .. MaxSessions : Call(k) # Remove(s)
       /\ \A l \in Calls : Call(k) = Call(l) => k = l
BY DEF Find, Add, Remove, Call, Ops

LEMMA PendingFacts ==
  ASSUME Types, DataPart
  PROVE  /\ Sessions \subseteq 1 .. MaxSessions
         /\ Find \in Pending <=> loop = "finding"
         /\ Add \in Pending <=> loop = "adding"
         /\ \A s \in Sessions : Remove(s) \in Pending <=> join[s] = "removing"
         /\ \A k \in Calls : Call(k) \in Pending <=> at[k] = "waiting"
         /\ \A k \in Calls : Call(k) \in Running <=> at[k] = "running"
         /\ Find \notin Running /\ Add \notin Running
         /\ \A s \in Sessions : Remove(s) \notin Running
<1>1. Sessions \subseteq 1 .. MaxSessions
  BY DEF Types, Sessions
<1> QED
  BY <1>1, OpFacts DEF Pending, LoopPends, JoinPends, CallPends, Running

(* No client_join queues or ceases to.                                       *)
JoinLeft == \A s \in 1 .. MaxSessions :
              (s \in Sessions' /\ join'[s] = "removing") <=> (s \in Sessions /\ join[s] = "removing")

LEMMA JoinPendsLeft ==
  ASSUME Types, Types', JoinLeft
  PROVE  JoinPends' = JoinPends
<1>1. Sessions \subseteq 1 .. MaxSessions /\ Sessions' \subseteq 1 .. MaxSessions
  BY DEF Types, Sessions
<1> QED
  BY <1>1 DEF JoinPends, JoinLeft, Remove

(* The loop releases the lock it found free or was handed.                   *)
LEMMA LoopReleases ==
  ASSUME Types, Types', DataPart, LockPart, NEW p \in {Find, Add}, NEW c,
         LoopPends \subseteq {p}, LoopPends' = {}, JoinLeft, UNCHANGED at,
         Has(p, c), Release(p, c)
  PROVE  LockPart'
<1>1. JoinPends' = JoinPends /\ CallPends' = CallPends /\ Running' = Running
  BY JoinPendsLeft DEF CallPends, Running
<1>2. p \notin JoinPends /\ p \notin CallPends /\ p \notin Running /\ p \in Ops
  BY PendingFacts, OpFacts DEF JoinPends, CallPends
<1>3. Pending' = Pending \ {p}
  BY <1>1, <1>2 DEF Pending
<1> QED
  BY <1>1, <1>2, <1>3, ReleaseLock

LEMMA AddLock ==
  ASSUME Inv, Inv', LockPart, DataPart, NEW p \in {Find, Add}, NEW c, Has(p, c), DoAdd(p, c),
         LoopPends \subseteq {p}, UNCHANGED <<open, from, at, todo>>, Len(key) < MaxSessions
  PROVE  LockPart' /\ DataPart'
<1>1. /\ Len(key) \in Nat /\ Sessions' = 1 .. Len(key) + 1 /\ Sessions = 1 .. Len(key)
      /\ Sessions \subseteq 1 .. MaxSessions
  BY DEF Inv, Types, Sessions, DoAdd
<1>2. JoinLeft
  BY <1>1 DEF JoinLeft, DoAdd, Inv, Types
<1>3. LoopPends' = {} /\ loop' \in LoopStates
  BY DEF DoAdd, LoopPends, LoopStates
<1>4. LockPart'
  BY <1>2, <1>3, LoopReleases DEF Inv, DoAdd
<1>5. DataPart'
  <2>1. fresh' \subseteq Sessions'
    <3>1. fresh' = fresh \cup {Len(key) + 1} /\ fresh \subseteq 1 .. Len(key)
      BY <1>1 DEF DataPart, DoAdd
    <3>2. 1 .. Len(key) \subseteq Sessions' /\ Len(key) + 1 \in Sessions'
      BY <1>1
    <3> QED
      BY <3>1, <3>2
  <2>2. todo' \in [Casts -> SUBSET Sessions']
    <3>1. todo' = todo /\ todo \in [Casts -> SUBSET Sessions]
      BY DEF DataPart
    <3>2. \A b \in Casts : todo[b] \subseteq Sessions'
      BY <3>1, <1>1
    <3> QED
      BY <3>1, <3>2
  <2> QED
    BY <1>3, <2>1, <2>2 DEF DataPart
<1> QED
  BY <1>4, <1>5

LEMMA FindLock ==
  ASSUME Inv, Inv', LockPart, DataPart, NEW c, Has(Find, c), DoFind(c),
         loop \in {"received", "finding"}, UNCHANGED <<open, from, at, todo>>
  PROVE  LockPart' /\ DataPart'
<1>a. LoopPends \subseteq {Find} /\ Add \notin Pending /\ Len(key) < MaxSessions
  BY PendingFacts DEF LoopPends, Inv, LoopAlone
<1>b. Types /\ Types'
  BY DEF Inv
<1>1. CASE /\ map[from] # 0 /\ fresh' = fresh \cup {map[from]}
           /\ loop' = "sending" /\ Release(Find, c) /\ UNCHANGED <<key, join, kicked, map>>
  <2>1. JoinLeft /\ LoopPends' = {} /\ Sessions' = Sessions
    BY <1>1 DEF JoinLeft, LoopPends, Sessions
  <2>2. LockPart'
    BY <1>a, <1>b, <1>1, <2>1, LoopReleases
  <2>3. map[from] \in Sessions
    BY <1>1, <1>b DEF Types, Sessions
  <2>4. DataPart'
    BY <1>1, <2>1, <2>3 DEF DataPart, LoopStates
  <2> QED
    BY <2>2, <2>4
<1>2. CASE DoAdd(Find, c)
  BY <1>2, <1>a, AddLock
<1>3. CASE /\ c.waiters # <<>> /\ loop' = "adding" /\ ch' = AsyncSend(TryReceive(c), Add)
           /\ granted' = (granted \ {Find}) \cup Handed(c) /\ UNCHANGED sessionVars
  <2>1. JoinPends' = JoinPends /\ CallPends' = CallPends /\ Running' = Running /\ Sessions' = Sessions
    BY <1>3 DEF JoinPends, CallPends, Running, Sessions, sessionVars
  <2>2. LoopPends' = {Add}
    BY <1>3 DEF LoopPends
  <2>3. Find \notin JoinPends /\ Find \notin CallPends /\ Find \notin Running
    BY <1>b, PendingFacts, OpFacts DEF JoinPends, CallPends
  <2>4. Pending' = (Pending \ {Find}) \cup {Add}
    BY <1>a, <2>1, <2>2, <2>3 DEF Pending
  <2>5. LockPart'
    BY <1>3, <1>a, <2>1, <2>3, <2>4, OpFacts, RequeueLock
  <2>6. DataPart'
    BY <1>3, <2>1 DEF DataPart, LoopStates, sessionVars
  <2> QED
    BY <2>5, <2>6
<1> QED
  BY <1>1, <1>2, <1>3 DEF DoFind

LEMMA RemoveLock ==
  ASSUME Inv, Inv', LockPart, DataPart, NEW s \in Sessions, NEW c, Has(Remove(s), c),
         DoRemove(s, c), UNCHANGED <<open, loop, from, at, todo>>
  PROVE  LockPart' /\ DataPart'
<1>1. Types /\ s \in 1 .. MaxSessions /\ Sessions \subseteq 1 .. MaxSessions /\ Sessions' = Sessions
  <2>1. Types
    BY DEF Inv
  <2> QED
    BY <2>1 DEF Types, Sessions, DoRemove
<1>2. /\ LoopPends' = LoopPends /\ CallPends' = CallPends /\ Running' = Running
  BY DEF LoopPends, CallPends, Running
<1>3. JoinPends' = JoinPends \ {Remove(s)}
  <2>1. \A t \in Sessions : join'[t] = IF t = s THEN "gone" ELSE join[t]
    BY <1>1 DEF DoRemove, Types
  <2>2. \A t \in Sessions : Remove(t) = Remove(s) => t = s
    BY <1>1, OpFacts
  <2>3. \A t \in Sessions : Remove(t)' = Remove(t)
    BY DEF Remove
  <2> QED
    BY <1>1, <2>1, <2>2, <2>3 DEF JoinPends
<1>4. Remove(s) \notin LoopPends /\ Remove(s) \notin CallPends /\ Remove(s) \notin Running /\ Remove(s) \in Ops
  BY <1>1, OpFacts, PendingFacts DEF LoopPends, CallPends
<1>5. Pending' = Pending \ {Remove(s)}
  BY <1>2, <1>3, <1>4 DEF Pending
<1>6. LockPart'
  BY <1>2, <1>4, <1>5, ReleaseLock DEF DoRemove
<1>7. DataPart'
  BY <1>1 DEF DataPart, DoRemove
<1> QED
  BY <1>6, <1>7

LEMMA LeaveLock ==
  ASSUME Inv, Inv', LockPart, DataPart, NEW s \in Sessions, leave(s)
  PROVE  LockPart' /\ DataPart'
<1>1. Types /\ s \in 1 .. MaxSessions /\ Sessions \subseteq 1 .. MaxSessions
  <2>1. Types
    BY DEF Inv
  <2> QED
    BY <2>1 DEF Types, Sessions
<1>2. Remove(s) \notin Pending /\ Remove(s) \in Ops
  BY <1>1, OpFacts, PendingFacts DEF leave
<1>3. CASE CanSend(ch) /\ DoRemove(s, TrySend(ch))
  BY <1>2, <1>3, RemoveLock DEF leave, Has
<1>4. CASE ~CanSend(ch) /\ Queue(Remove(s)) /\ join' = [join EXCEPT ![s] = "removing"]
           /\ UNCHANGED <<key, fresh, kicked, map>>
  <2>1. LoopPends' = LoopPends /\ CallPends' = CallPends /\ Running' = Running /\ Sessions' = Sessions
    BY <1>4 DEF leave, LoopPends, CallPends, Running, Sessions
  <2>2. JoinPends' = JoinPends \cup {Remove(s)}
    <3>1. \A t \in Sessions : join'[t] = IF t = s THEN "removing" ELSE join[t]
      BY <1>1, <1>4 DEF Types
    <3>2. \A t \in Sessions : Remove(t)' = Remove(t)
      BY DEF Remove
    <3> QED
      BY <2>1, <3>1, <3>2 DEF JoinPends
  <2>3. LockPart'
    BY <1>2, <1>4, <2>1, <2>2, QueueLock DEF Pending
  <2>4. DataPart'
    BY <1>4, <2>1 DEF DataPart, leave
  <2> QED
    BY <2>3, <2>4
<1> QED
  BY <1>3, <1>4 DEF leave

(* Call k of the application gets the lock and keeps or releases it.         *)
LEMMA CallMoves ==
  ASSUME Types, Types', LockPart, DataPart, NEW k \in Calls, NEW c, Has(Call(k), c),
         UNCHANGED <<loop, key>>, JoinLeft,
         \/ at' = [at EXCEPT ![k] = "done"] /\ Release(Call(k), c)
         \/ at' = [at EXCEPT ![k] = "running"] /\ Keep(Call(k), c)
  PROVE  LockPart' /\ at' \in [Calls -> {"idle", "waiting", "running", "done"}]
<1>1. LoopPends' = LoopPends /\ JoinPends' = JoinPends
  BY JoinPendsLeft DEF LoopPends
<1>2. Call(k) \in Ops /\ Call(k) \notin LoopPends /\ Call(k) \notin JoinPends
  <2>1. Sessions \subseteq 1 .. MaxSessions
    BY DEF Types, Sessions
  <2> QED
    BY <2>1, OpFacts DEF LoopPends, JoinPends
<1>3. \A l \in Calls : Call(l) = Call(k) => l = k
  BY OpFacts
<1>4. CASE at' = [at EXCEPT ![k] = "done"] /\ Release(Call(k), c)
  <2>1. /\ at' \in [Calls -> {"idle", "waiting", "running", "done"}]
        /\ \A l \in Calls : at'[l] = IF l = k THEN "done" ELSE at[l]
    BY <1>4 DEF DataPart
  <2>2. CallPends' = CallPends \ {Call(k)} /\ Running' = Running \ {Call(k)}
    BY <1>3, <2>1 DEF CallPends, Running, Call
  <2>3. Pending' = Pending \ {Call(k)}
    BY <1>1, <1>2, <2>2 DEF Pending
  <2> QED
    BY <1>2, <1>4, <2>1, <2>2, <2>3, ReleaseLock
<1>5. CASE at' = [at EXCEPT ![k] = "running"] /\ Keep(Call(k), c)
  <2>1. /\ at' \in [Calls -> {"idle", "waiting", "running", "done"}]
        /\ \A l \in Calls : at'[l] = IF l = k THEN "running" ELSE at[l]
    BY <1>5 DEF DataPart
  <2>2. CallPends' = CallPends \ {Call(k)} /\ Running' = Running \cup {Call(k)}
    BY <1>3, <2>1 DEF CallPends, Running, Call
  <2>3. Pending' = Pending \ {Call(k)}
    BY <1>1, <1>2, <2>2 DEF Pending
  <2> QED
    BY <1>2, <1>5, <2>1, <2>2, <2>3, KeepLock
<1> QED
  BY <1>4, <1>5

LEMMA DoCallLock ==
  ASSUME Inv, Inv', LockPart, DataPart, NEW k \in Calls, NEW c, Has(Call(k), c), DoCall(k, c),
         open' \in BOOLEAN, UNCHANGED <<loop, from>>
  PROVE  LockPart' /\ DataPart'
<1>1. Types /\ Types' /\ Sessions \subseteq 1 .. MaxSessions
  <2>1. Types /\ Types'
    BY DEF Inv
  <2> QED
    BY <2>1 DEF Types, Sessions
<1>2. CASE k \in Casts /\ DoCast(k, c)
  <2>1. JoinLeft /\ UNCHANGED <<key, fresh>> /\ Sessions' = Sessions
    BY <1>2 DEF DoCast, sessionVars, JoinLeft, Sessions
  <2>2. /\ LockPart' /\ at' \in [Calls -> {"idle", "waiting", "running", "done"}]
    BY <1>1, <1>2, <2>1, CallMoves DEF DoCast
  <2>3. {map[d] : d \in Clients} \ {0} \subseteq Sessions
    BY <1>1 DEF Types, Sessions
  <2>4. todo' \in [Casts -> SUBSET Sessions]
    BY <1>2, <2>3 DEF DoCast, DataPart
  <2> QED
    BY <2>1, <2>2, <2>4 DEF DataPart
<1>3. CASE \E S \in SUBSET Entries : DoDisconnects(k, S, c)
  <2>1. PICK S \in SUBSET Entries : DoDisconnects(k, S, c)
    BY <1>3
  <2>2. UNCHANGED <<key, fresh, todo>> /\ Disconnect(S) /\ Sessions' = Sessions
    BY <2>1 DEF DoDisconnects, Sessions
  <2>3. JoinLeft
    BY <1>1, <2>2 DEF JoinLeft, Disconnect, Types
  <2>4. /\ LockPart' /\ at' \in [Calls -> {"idle", "waiting", "running", "done"}]
    BY <1>1, <2>1, <2>2, <2>3, CallMoves DEF DoDisconnects
  <2> QED
    BY <2>2, <2>4 DEF DataPart
<1> QED
  BY <1>2, <1>3 DEF DoCall

LEMMA CallLock ==
  ASSUME Inv, Inv', LockPart, DataPart, NEW k \in Calls, call(k) \/ CallStep(k)
  PROVE  LockPart' /\ DataPart'
<1>1. Types /\ Types'
  BY DEF Inv
<1>2. CASE call(k)
  <2>1. Call(k) \notin Pending /\ Call(k) \notin Running /\ open' \in BOOLEAN
    BY <1>1, <1>2, PendingFacts DEF call, DataPart
  <2>2. CASE CanSend(ch) /\ DoCall(k, TrySend(ch))
    BY <1>2, <2>1, <2>2, DoCallLock DEF call, Has
  <2>3. CASE ~CanSend(ch) /\ Queue(Call(k)) /\ at' = [at EXCEPT ![k] = "waiting"]
             /\ UNCHANGED <<sessionVars, todo>>
    <3>1. UNCHANGED <<key, fresh, todo, loop, join>> /\ Sessions' = Sessions
      BY <1>2, <2>3 DEF call, sessionVars, Sessions
    <3>2. LoopPends' = LoopPends /\ JoinPends' = JoinPends
      BY <3>1 DEF LoopPends, JoinPends, Remove
    <3>3. /\ at' \in [Calls -> {"idle", "waiting", "running", "done"}]
          /\ \A l \in Calls : at'[l] = IF l = k THEN "waiting" ELSE at[l]
      BY <2>3 DEF DataPart
    <3>4. CallPends' = CallPends \cup {Call(k)}
      BY <3>3, OpFacts DEF CallPends, Call
    <3>5. Running' = Running
      BY <3>3, <1>2 DEF Running, Call, call
    <3>6. LockPart'
      BY <2>1, <2>3, <3>2, <3>4, <3>5, OpFacts, QueueLock DEF Pending
    <3> QED
      BY <2>1, <3>1, <3>3, <3>6 DEF DataPart
  <2> QED
    BY <1>2, <2>2, <2>3 DEF call
<1>3. CASE resume_call(k)
  <2>1. Has(Call(k), ch)
    BY <1>3 DEF resume_call, Has, Holders
  <2> QED
    BY <1>3, <2>1, DoCallLock DEF resume_call, DataPart
<1>4. ASSUME at[k] = "running", Release(Call(k), ch), at' = [at EXCEPT ![k] = "done"],
             UNCHANGED <<open, loop, from, sessionVars>>, todo' \in [Casts -> SUBSET Sessions]
      PROVE  LockPart' /\ DataPart'
  <2>1. Has(Call(k), ch)
    BY <1>1, <1>4, PendingFacts DEF Has, Holders
  <2>2. JoinLeft /\ UNCHANGED <<key, fresh>> /\ Sessions' = Sessions
    BY <1>4 DEF sessionVars, JoinLeft, Sessions
  <2>3. LockPart' /\ at' \in [Calls -> {"idle", "waiting", "running", "done"}]
    BY <1>1, <1>4, <2>1, <2>2, CallMoves
  <2> QED
    BY <1>4, <2>2, <2>3 DEF DataPart
<1>5. CASE k \in Casts /\ cast_sent(k)
  <2>1. todo' \in [Casts -> SUBSET Sessions]
    BY <1>5 DEF cast_sent, DataPart
  <2>2. CASE todo'[k] = {}
    BY <1>4, <1>5, <2>1, <2>2 DEF cast_sent
  <2>3. CASE todo'[k] # {}
    <3>1. UNCHANGED <<at, lockVars, open, loop, from, sessionVars>>
      BY <1>5, <2>3 DEF cast_sent
    <3>2. Pending' = Pending /\ Running' = Running /\ Sessions' = Sessions
      BY <3>1 DEF sessionVars, Pending, LoopPends, JoinPends, CallPends, Running, Sessions,
                  Remove, Call
    <3>3. LockPart'
      BY <3>1, <3>2, SameLock
    <3> QED
      BY <2>1, <3>1, <3>2, <3>3 DEF DataPart, sessionVars
  <2> QED
    BY <2>2, <2>3
<1>6. CASE disconnected(k)
  BY <1>4, <1>6 DEF disconnected, DataPart
<1> QED
  BY <1>2, <1>3, <1>5, <1>6 DEF CallStep

(* A step that neither takes the lock nor releases it.                       *)
LEMMA FrameLock ==
  ASSUME Inv, Inv', LockPart, DataPart, UNCHANGED <<lockVars, key, at, todo, open>>, JoinLeft,
         loop \in {"finding", "adding"} => loop' = loop,
         loop' \in {"finding", "adding"} => loop' = loop,
         loop' \in LoopStates, fresh' \subseteq Sessions
  PROVE  LockPart' /\ DataPart'
<1>1. LoopPends' = LoopPends /\ CallPends' = CallPends /\ Running' = Running /\ Sessions' = Sessions
  BY DEF LoopPends, CallPends, Running, Sessions, Call
<1>2. JoinPends' = JoinPends
  BY JoinPendsLeft DEF Inv
<1>3. LockPart'
  BY <1>1, <1>2, SameLock DEF Pending
<1>4. DataPart'
  BY <1>1 DEF DataPart
<1> QED
  BY <1>3, <1>4

LEMMA NextLock ==
  ASSUME Inv, Inv', LockPart, DataPart, [Next]_vars
  PROVE  LockPart' /\ DataPart'
<1>a. /\ Types /\ Types' /\ Sessions \subseteq 1 .. MaxSessions
      /\ fresh \subseteq Sessions /\ open \in BOOLEAN /\ loop \in LoopStates
  <2>1. Types /\ Types'
    BY DEF Inv
  <2>2. Sessions \subseteq 1 .. MaxSessions
    BY <2>1 DEF Types, Sessions
  <2> QED
    BY <2>1, <2>2 DEF DataPart
<1>1. CASE (\E c \in Clients : receive(c)) \/ receive_fails \/ sent \/ UNCHANGED vars
  <2>1. UNCHANGED <<lockVars, key, join, at, todo, open, fresh>>
    BY <1>1 DEF receive, receive_fails, sent, vars, sessionVars
  <2>2. JoinLeft
    BY <2>1 DEF JoinLeft, Sessions
  <2>3. /\ loop \in {"finding", "adding"} => loop' = loop
        /\ loop' \in {"finding", "adding"} => loop' = loop
        /\ loop' \in LoopStates
    BY <1>a, <1>1 DEF receive, receive_fails, sent, vars, LoopStates
  <2> QED
    BY <1>a, <2>1, <2>2, <2>3, FrameLock
<1>2. CASE find
  <2>1. Find \notin Pending
    BY <1>a, <1>2, PendingFacts DEF find
  <2>2. CASE CanSend(ch) /\ DoFind(TrySend(ch))
    BY <1>2, <2>1, <2>2, FindLock DEF find, Has
  <2>3. CASE ~CanSend(ch) /\ Queue(Find) /\ loop' = "finding" /\ UNCHANGED sessionVars
    <3>1. /\ UNCHANGED <<key, join, fresh, open, at, todo>> /\ Sessions' = Sessions
          /\ loop = "received"
      BY <1>2, <2>3 DEF find, sessionVars, Sessions
    <3>2. /\ LoopPends = {} /\ LoopPends' = {Find}
          /\ JoinPends' = JoinPends /\ CallPends' = CallPends /\ Running' = Running
      BY <2>3, <3>1 DEF LoopPends, JoinPends, CallPends, Running, Remove, Call
    <3>3. LockPart'
      BY <2>1, <2>3, <3>2, OpFacts, QueueLock DEF Pending
    <3>4. DataPart'
      BY <2>3, <3>1 DEF DataPart, LoopStates
    <3> QED
      BY <3>3, <3>4
  <2> QED
    BY <1>2, <2>2, <2>3 DEF find
<1>3. CASE resume_find
  BY <1>3, FindLock DEF resume_find, Has, Holders
<1>4. CASE resume_add
  <2>1. Has(Add, ch) /\ LoopPends \subseteq {Add} /\ Len(key) < MaxSessions
    BY <1>4 DEF resume_add, Has, Holders, LoopPends, Inv, LoopAlone
  <2> QED
    BY <1>4, <2>1, AddLock DEF resume_add
<1>5. ASSUME NEW s \in Sessions, expire(s) \/ wait_again(s)
      PROVE  LockPart' /\ DataPart'
  <2>1. /\ UNCHANGED <<lockVars, key, at, todo, open, loop>> /\ fresh' \subseteq Sessions
        /\ Sessions' = Sessions
    BY <1>a, <1>5 DEF expire, wait_again, Sessions
  <2>2. JoinLeft
    BY <1>a, <1>5, <2>1 DEF expire, wait_again, JoinLeft, Types
  <2> QED
    BY <1>a, <2>1, <2>2, FrameLock
<1>6. ASSUME NEW s \in Sessions, resume_remove(s)
      PROVE  LockPart' /\ DataPart'
  BY <1>6, RemoveLock DEF resume_remove, Has, Holders
<1> QED
  BY <1>1, <1>2, <1>3, <1>4, <1>5, <1>6, LeaveLock, CallLock DEF Next, LoopStep, JoinStep

(* The map's lock excludes, is never lost, and is handed to an operation     *)
(* that is suspended on it (with_lock.hpp, session_map.ipp).                 *)
THEOREM UdpLockInvariant == Spec => [](LockPart /\ DataPart)
<1>1. Init => LockPart /\ DataPart
  <2> SUFFICES ASSUME Init PROVE LockPart /\ DataPart
    OBVIOUS
  <2>1. ch = [full |-> FALSE, waiters |-> <<>>] /\ <<>> \in Seq(Ops)
    BY DEF Init, NewChannel
  <2>2. /\ ch \in Channel(Ops) /\ ~ch.full /\ NoWaiterOnFreeLock(ch)
        /\ Distinct(ch.waiters) /\ Queued = {}
    BY <2>1 DEF Channel, NoWaiterOnFreeLock, Distinct, Queued, Elems
  <2>3. Holders = {} /\ granted = {} /\ Pending = {}
    BY DEF Init, Holders, Running, Pending, LoopPends, JoinPends, CallPends, Sessions
  <2> QED
    BY <2>2, <2>3 DEF Init, LockPart, DataPart, LoopStates
<1>2. Inv /\ Inv' /\ LockPart /\ DataPart /\ [Next]_vars => (LockPart /\ DataPart)'
  BY NextLock
<1> QED
  BY <1>1, <1>2, UdpInvariant, PTL DEF Spec

(* Every state of the server has its type; in particular the lock is handed  *)
(* to one operation at a time and only sessions of the map are sent to.      *)
THEOREM UdpTypeCorrect == Spec => []TypeOK
<1>1. Inv /\ LockPart /\ DataPart => TypeOK
  <2> SUFFICES ASSUME Inv, LockPart, DataPart PROVE TypeOK
    OBVIOUS
  <2>1. granted \subseteq Ops
    <3>1. Pending \subseteq Ops
      <4>1. Sessions \subseteq 1 .. MaxSessions
        BY DEF Inv, Types, Sessions
      <4> QED
        BY <4>1, OpFacts DEF Pending, LoopPends, JoinPends, CallPends
    <3> QED
      BY <3>1 DEF LockPart
  <2>2. Cardinality(granted) <= 1
    <3>1. CASE granted = {}
      BY <3>1, FS_EmptySet
    <3>2. CASE granted # {}
      <4>1. PICK p \in granted : TRUE
        BY <3>2
      <4>2. granted = {p}
        BY <4>1 DEF LockPart, Holders
      <4>3. Cardinality({p}) = 1
        BY FS_Singleton
      <4> QED
        BY <4>2, <4>3
    <3> QED
      BY <3>1, <3>2
  <2> QED
    BY <2>1, <2>2 DEF TypeOK, Inv, Types, LockPart, DataPart
<1> QED
  BY <1>1, UdpInvariant, UdpLockInvariant, PTL
=============================================================================
