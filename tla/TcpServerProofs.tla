--------------------------- MODULE TcpServerProofs ---------------------------
(***************************************************************************)
(* For any sessions and broadcasts of a TCP server: the map's lock admits  *)
(* one operation, so that a broadcast walks a map nobody touches; a stop   *)
(* waits for all its disconnects; every session that is served is in the   *)
(* map, but those the stop has taken out.                                  *)
(***************************************************************************)
EXTENDS TcpServer, SequenceTheorems, FiniteSetTheorems, TLAPS

Held == {"granted", "running"}
Holders == {p \in Ops : at[p] \in Held}

(* The lock: at most one operation holds it, it is full while one does, and  *)
(* its queue is the operations that wait, each once.                         *)
LockPart ==
  /\ ch \in Channel(Ops) /\ at \in [Ops -> OpStates]
  /\ \A p, q \in Holders : p = q
  /\ ch.full <=> Holders # {}
  /\ NoWaiterOnFreeLock(ch)
  /\ \A i, j \in 1 .. Len(ch.waiters) : ch.waiters[i] = ch.waiters[j] => i = j
  /\ \A p \in Ops : at[p] = "waiting" <=> \E i \in 1 .. Len(ch.waiters) : ch.waiters[i] = p

(* A session is added, served and removed in this order.                     *)
Pending == {"posted", "waiting", "granted"}
ClientPart ==
  \A s \in Sessions :
    /\ client[s] \in {"new", "accepted"} => at[Add(s)] = "idle"
    /\ at[Add(s)] \in Pending => client[s] = "adding"
    /\ client[s] \in {"new", "accepted", "adding", "serving"} => at[Remove(s)] = "idle"

(* While the stop is suspended, each callback it waits for is to come or in  *)
(* its channel; otherwise there is none.                                     *)
StopPart ==
  /\ closing \subseteq Sessions
  /\ told \in Nat /\ awaited \in 0 .. Cardinality(Sessions)
  /\ awaited = Cardinality(closing) + told
  /\ at[Stop] = "running" <=> awaited # 0

(* The rest of the types. *)
DataPart ==
  /\ acceptor \in BOOLEAN /\ running \in BOOLEAN
  /\ client \in [Sessions -> ClientStates]
  /\ open \in [Sessions -> BOOLEAN] /\ stalled \in [Sessions -> BOOLEAN]
  /\ map \subseteq Sessions
  /\ todo \in [Casts -> SUBSET Sessions]
  /\ target \in [Casts -> Sessions \cup {NoSession}]

Inv == LockPart /\ ClientPart /\ StopPart /\ DataPart /\ ServedIsRegistered

USE ServerAssumption

LEMMA OpFacts ==
  /\ Stop \in Ops
  /\ \A s \in Sessions : /\ Add(s) \in Ops /\ Remove(s) \in Ops
                         /\ Add(s) # Stop /\ Remove(s) # Stop
  /\ \A s, t \in Sessions : /\ Add(s) # Remove(t)
                            /\ Add(s) = Add(t) => s = t
                            /\ Remove(s) = Remove(t) => s = t
  /\ \A b \in Casts : Cast(b) \in Ops /\ Cast(b) # Stop
  /\ \A b \in Casts : \A s \in Sessions : Cast(b) # Add(s) /\ Cast(b) # Remove(s)
  BY DEF Ops, Stop, Add, Remove, Cast
------------------------------------------------------------------------------
(* What a step of p does to the others: at most the lock is handed on. *)
Moved(p) ==
  \A q \in Ops : q # p => at'[q] = at[q] \/ (at[q] = "waiting" /\ at'[q] = "granted")

(* p has the lock, whose state is c: it has just taken it, or holds it. *)
Has(p, c) ==
  \/ at[p] = "posted" /\ CanSend(ch) /\ c = TrySend(ch)
  \/ at[p] \in Held /\ c = ch

LEMMA PostLock ==
  ASSUME LockPart, NEW p \in Ops, at[p] = "idle", Post(p), UNCHANGED ch
  PROVE  LockPart' /\ Moved(p) /\ at'[p] = "posted"
<1>1. /\ at' = [at EXCEPT ![p] = "posted"] /\ at' \in [Ops -> OpStates]
      /\ at'[p] = "posted" /\ \A q \in Ops : q # p => at'[q] = at[q]
  BY DEF Post, LockPart, OpStates
<1>2. Holders' = Holders
  BY <1>1 DEF Holders, Held
<1>3. \A q \in Ops : at'[q] = "waiting" <=> at[q] = "waiting"
  BY <1>1
<1> QED
  BY <1>1, <1>2, <1>3 DEF LockPart, Moved

(* With the lock in hand the record is full and its holder alone. *)
LEMMA HasLock ==
  ASSUME LockPart, NEW p \in Ops, NEW c, Has(p, c)
  PROVE  /\ c = [full |-> TRUE, waiters |-> ch.waiters]
         /\ ch.waiters \in Seq(Ops)
         /\ Holders \subseteq {p}
         /\ at[p] # "waiting"
<1>1. ch = [full |-> ch.full, waiters |-> ch.waiters] /\ ch.full \in BOOLEAN /\ ch.waiters \in Seq(Ops)
  BY DEF LockPart, Channel
<1>2. CASE at[p] = "posted" /\ CanSend(ch) /\ c = TrySend(ch)
  <2>1. ~ch.full /\ Holders = {}
    BY <1>2 DEF CanSend, LockPart
  <2>2. c = [full |-> TRUE, waiters |-> ch.waiters]
    BY <1>1, <1>2 DEF TrySend
  <2> QED
    BY <1>1, <1>2, <2>1, <2>2
<1>3. CASE at[p] \in Held /\ c = ch
  <2>1. p \in Holders /\ \A q \in Holders : q = p
    BY <1>3 DEF LockPart, Holders
  <2>2. ch.full
    BY <2>1 DEF LockPart
  <2> QED
    BY <1>1, <1>3, <2>1, <2>2 DEF Held
<1> QED
  BY <1>2, <1>3 DEF Has

LEMMA KeepLock ==
  ASSUME LockPart, NEW p \in Ops, NEW c, Has(p, c), Keep(p, c)
  PROVE  LockPart' /\ Moved(p) /\ at'[p] = "running"
<1>1. /\ ch' = [full |-> TRUE, waiters |-> ch.waiters] /\ ch.waiters \in Seq(Ops)
      /\ Holders \subseteq {p} /\ at[p] # "waiting"
  BY HasLock DEF Keep
<1>2. /\ at' \in [Ops -> OpStates] /\ at'[p] = "running"
      /\ \A q \in Ops : q # p => at'[q] = at[q]
  BY DEF Keep, LockPart, OpStates
<1>3. Holders' = {p}
  BY <1>1, <1>2 DEF Holders, Held
<1>4. ch' \in Channel(Ops) /\ ch'.waiters = ch.waiters /\ ch'.full
  BY <1>1 DEF Channel
<1>5. \A q \in Ops : at'[q] = "waiting" <=> at[q] = "waiting"
  BY <1>1, <1>2
<1> QED
  BY <1>2, <1>3, <1>4, <1>5 DEF LockPart, Moved, NoWaiterOnFreeLock

LEMMA QueueLock ==
  ASSUME LockPart, NEW p \in Ops, at[p] = "posted", ~CanSend(ch),
         ch' = AsyncSend(ch, p), at' = [at EXCEPT ![p] = "waiting"]
  PROVE  LockPart' /\ Moved(p) /\ at'[p] = "waiting"
<1> DEFINE w == ch.waiters
<1>1. /\ w \in Seq(Ops) /\ ch.full \in BOOLEAN /\ ch = [full |-> ch.full, waiters |-> w]
      /\ at \in [Ops -> OpStates]
  BY DEF LockPart, Channel
<1>2. /\ ch' = [full |-> ch.full, waiters |-> Append(w, p)] /\ ch.full
  BY <1>1 DEF AsyncSend, CanSend
<1>3. /\ Len(w) \in Nat /\ Append(w, p) \in Seq(Ops) /\ Len(Append(w, p)) = Len(w) + 1
      /\ \A i \in 1 .. Len(w) : Append(w, p)[i] = w[i] /\ w[i] # p
      /\ Append(w, p)[Len(w) + 1] = p
  BY <1>1 DEF LockPart
<1>4. /\ at' \in [Ops -> OpStates] /\ at'[p] = "waiting"
      /\ \A q \in Ops : q # p => at'[q] = at[q]
  BY <1>1 DEF OpStates
<1>5. Holders' = Holders
  BY <1>4 DEF Holders, Held
<1>6. ch' \in Channel(Ops) /\ ch'.full /\ ch'.waiters = Append(w, p)
  BY <1>2, <1>3 DEF Channel
<1>7. \A i, j \in 1 .. Len(w) + 1 : Append(w, p)[i] = Append(w, p)[j] => i = j
  <2> SUFFICES ASSUME NEW i \in 1 .. Len(w) + 1, NEW j \in 1 .. Len(w) + 1,
                      Append(w, p)[i] = Append(w, p)[j]
               PROVE  i = j
    OBVIOUS
  <2>1. CASE i \in 1 .. Len(w) /\ j \in 1 .. Len(w)
    BY <2>1, <1>3 DEF LockPart
  <2>2. CASE i = Len(w) + 1 \/ j = Len(w) + 1
    BY <2>2, <1>3
  <2> QED
    BY <2>1, <2>2, <1>3
<1>8. \A q \in Ops : at'[q] = "waiting" <=> \E i \in 1 .. Len(w) + 1 : Append(w, p)[i] = q
  <2> SUFFICES ASSUME NEW q \in Ops
               PROVE  at'[q] = "waiting" <=> \E i \in 1 .. Len(w) + 1 : Append(w, p)[i] = q
    OBVIOUS
  <2>1. CASE q = p
    BY <2>1, <1>3, <1>4
  <2>2. CASE q # p
    <3>1. (\E i \in 1 .. Len(w) + 1 : Append(w, p)[i] = q) <=> \E i \in 1 .. Len(w) : w[i] = q
      <4>1. ASSUME NEW i \in 1 .. Len(w) + 1, Append(w, p)[i] = q
            PROVE  \E k \in 1 .. Len(w) : w[k] = q
        <5>1. i \in 1 .. Len(w)
          BY <4>1, <2>2, <1>3
        <5> QED
          BY <5>1, <4>1, <1>3
      <4>2. ASSUME NEW i \in 1 .. Len(w), w[i] = q
            PROVE  \E k \in 1 .. Len(w) + 1 : Append(w, p)[k] = q
        BY <4>2, <1>3
      <4> QED
        BY <4>1, <4>2
    <3> QED
      BY <3>1, <2>2, <1>4 DEF LockPart
  <2> QED
    BY <2>1, <2>2
<1> QED
  BY <1>2, <1>3, <1>4, <1>5, <1>6, <1>7, <1>8, SMTT(30) DEF LockPart, Moved, NoWaiterOnFreeLock

(* The lock becomes free, or passes to the operation that waited longest.    *)
LEMMA ReleaseLock ==
  ASSUME LockPart, NEW p \in Ops, NEW c, Has(p, c), Release(p, c)
  PROVE  LockPart' /\ Moved(p) /\ at'[p] = "done"
<1> DEFINE w == ch.waiters
<1>1. /\ c = [full |-> TRUE, waiters |-> w] /\ w \in Seq(Ops)
      /\ Holders \subseteq {p} /\ at[p] # "waiting" /\ at \in [Ops -> OpStates]
  BY HasLock DEF LockPart
<1>2. at' \in [Ops -> OpStates] /\ at'[p] = "done"
  BY <1>1 DEF Release, OpStates
<1>3. CASE w = <<>>
  <2>1. ch'.full = FALSE /\ ch'.waiters = <<>> /\ ch' \in Channel(Ops)
    BY <1>1, <1>3 DEF Release, TryReceive, Channel
  <2>2. \A q \in Ops : q # p => at'[q] = at[q]
    BY <1>1, <1>3 DEF Release, Handed
  <2>3. Holders' = {}
    BY <1>1, <1>2, <2>2 DEF Holders, Held
  <2>4. \A q \in Ops : at'[q] # "waiting"
    BY <1>2, <1>3, <2>2 DEF LockPart
  <2> QED
    BY <1>2, <2>1, <2>2, <2>3, <2>4 DEF LockPart, Moved, NoWaiterOnFreeLock
<1>4. CASE w # <<>>
  <2> DEFINE h == Head(w)
  <2>1. /\ Tail(w) \in Seq(Ops) /\ Len(Tail(w)) = Len(w) - 1 /\ Len(w) \in Nat /\ Len(w) > 0
        /\ \A i \in 1 .. Len(w) - 1 : Tail(w)[i] = w[i + 1]
        /\ h = w[1] /\ h \in Ops
    BY <1>1, <1>4
  <2>2. ch'.full = TRUE /\ ch'.waiters = Tail(w) /\ ch' \in Channel(Ops)
    BY <1>1, <1>4, <2>1 DEF Release, TryReceive, Channel
  <2>3. Handed(c) = {h}
    BY <1>1, <1>4 DEF Handed
  <2>4. at[h] = "waiting" /\ h # p
    BY <1>1, <2>1 DEF LockPart
  <2>5. /\ at'[h] = "granted"
        /\ \A q \in Ops : q # h /\ q # p => at'[q] = at[q]
    BY <2>1, <2>3, <2>4 DEF Release
  <2>6. Holders' = {h}
    BY <1>1, <1>2, <2>1, <2>5 DEF Holders, Held
  <2>7. \A i, j \in 1 .. Len(Tail(w)) : Tail(w)[i] = Tail(w)[j] => i = j
    <3> SUFFICES ASSUME NEW i \in 1 .. Len(Tail(w)), NEW j \in 1 .. Len(Tail(w)),
                        Tail(w)[i] = Tail(w)[j]
                 PROVE  i = j
      OBVIOUS
    <3>1. i + 1 \in 1 .. Len(w) /\ j + 1 \in 1 .. Len(w) /\ w[i + 1] = w[j + 1]
      BY <2>1
    <3>2. i + 1 = j + 1
      BY <3>1 DEF LockPart
    <3> QED
      BY <3>2, <2>1
  <2>8. \A q \in Ops : at'[q] = "waiting" <=> \E i \in 1 .. Len(Tail(w)) : Tail(w)[i] = q
    <3> SUFFICES ASSUME NEW q \in Ops
                 PROVE  at'[q] = "waiting" <=> \E i \in 1 .. Len(Tail(w)) : Tail(w)[i] = q
      OBVIOUS
    <3>1. \A i \in 1 .. Len(Tail(w)) : Tail(w)[i] # h /\ at[Tail(w)[i]] = "waiting"
      BY <1>1, <2>1 DEF LockPart
    <3>2. CASE q = h
      BY <3>1, <3>2, <2>5
    <3>3. CASE q = p
      BY <3>1, <3>3, <1>1, <1>2
    <3>4. CASE q # h /\ q # p
      <4>1. (\E i \in 1 .. Len(w) : w[i] = q) <=> \E i \in 1 .. Len(Tail(w)) : Tail(w)[i] = q
        <5>1. ASSUME NEW i \in 1 .. Len(w), w[i] = q
              PROVE  \E j \in 1 .. Len(Tail(w)) : Tail(w)[j] = q
          <6>1. i # 1
            BY <5>1, <3>4, <2>1
          <6>2. i - 1 \in 1 .. Len(Tail(w)) /\ Tail(w)[i - 1] = w[i]
            BY <6>1, <2>1
          <6> QED
            BY <6>2, <5>1
        <5>2. ASSUME NEW i \in 1 .. Len(Tail(w)), Tail(w)[i] = q
              PROVE  \E j \in 1 .. Len(w) : w[j] = q
          BY <5>2, <2>1
        <5> QED
          BY <5>1, <5>2
      <4> QED
        BY <3>4, <4>1, <2>5 DEF LockPart
    <3> QED
      BY <3>2, <3>3, <3>4
  <2>9. Moved(p)
    BY <2>4, <2>5 DEF Moved
  <2> QED
    BY <1>2, <2>2, <2>6, <2>7, <2>8, <2>9 DEF LockPart, NoWaiterOnFreeLock
<1> QED
  BY <1>3, <1>4
------------------------------------------------------------------------------
(* A step of an operation that is under way changes no client. *)
LEMMA ClientsKept ==
  ASSUME LockPart, ClientPart, NEW p \in Ops, Moved(p), UNCHANGED client,
         at[p] \in Pending \cup {"running"},
         at'[p] \in {"running", "done"} \/ (at'[p] = "waiting" /\ at[p] = "posted")
  PROVE  ClientPart'
<1>1. \A q \in Ops : /\ at[q] = "idle" => at'[q] = "idle"
                     /\ at'[q] \in Pending => at[q] \in Pending
  BY DEF Moved, Pending
<1> QED
  BY <1>1, OpFacts DEF ClientPart

(* So does it to the stop's callbacks, if it is not the stop.                *)
LEMMA StopKept ==
  ASSUME StopPart, NEW p \in Ops, Moved(p),
         UNCHANGED stopVars,
         p = Stop => at[p] # "running" /\ at'[p] # "running"
  PROVE  StopPart'
<1>1. at'[Stop] = "running" <=> at[Stop] = "running"
  BY OpFacts DEF Moved
<1> QED
  BY <1>1 DEF StopPart, stopVars

LEMMA AddInv ==
  ASSUME Inv, NEW s \in Sessions, NEW c, Has(Add(s), c), at[Add(s)] # "running",
         DoAdd(s, c), UNCHANGED <<acceptor, running, stalled>>
  PROVE  Inv'
<1> DEFINE p == Add(s)
<1>1. /\ LockPart' /\ Moved(p) /\ at'[p] = "done" /\ p \in Ops
      /\ at[p] \in Pending
  BY ReleaseLock, OpFacts DEF Inv, DoAdd, Has, Held, Pending
<1>2. client[s] = "adding" /\ client' = [client EXCEPT ![s] = "serving"]
      /\ client \in [Sessions -> ClientStates]
  BY <1>1 DEF Inv, ClientPart, DataPart, DoAdd
<1>3. ClientPart'
  <2>1. \A q \in Ops : /\ at[q] = "idle" => at'[q] = "idle"
                       /\ at'[q] \in Pending => at[q] \in Pending
    BY <1>1 DEF Moved, Pending
  <2>2. at'[p] \notin Pending /\ at[Remove(s)] = "idle"
    BY <1>1, <1>2 DEF Inv, ClientPart, Pending
  <2> QED
    BY <2>1, <2>2, <1>2, OpFacts DEF Inv, ClientPart
<1>4. StopPart'
  BY <1>1, StopKept, OpFacts DEF Inv, DoAdd, stopVars
<1>5. DataPart'
  BY <1>2 DEF Inv, DataPart, DoAdd, castVars, ClientStates
<1>6. ServedIsRegistered'
  BY <1>2 DEF Inv, ServedIsRegistered, DoAdd, stopVars
<1> QED
  BY <1>1, <1>3, <1>4, <1>5, <1>6 DEF Inv

LEMMA RemoveInv ==
  ASSUME Inv, NEW s \in Sessions, NEW c, Has(Remove(s), c), at[Remove(s)] # "running",
         DoRemove(s, c), UNCHANGED <<acceptor, running, stalled>>
  PROVE  Inv'
<1> DEFINE p == Remove(s)
<1>1. /\ LockPart' /\ Moved(p) /\ at'[p] = "done" /\ p \in Ops
      /\ at[p] \in Pending
  BY ReleaseLock, OpFacts DEF Inv, DoRemove, Has, Held, Pending
<1>2. client[s] # "adding" /\ client' = [client EXCEPT ![s] = "gone"]
      /\ client \in [Sessions -> ClientStates]
  BY <1>1 DEF Inv, ClientPart, DataPart, DoRemove, Pending
<1>3. ClientPart'
  <2>1. \A q \in Ops : /\ at[q] = "idle" => at'[q] = "idle"
                       /\ at'[q] \in Pending => at[q] \in Pending
    BY <1>1 DEF Moved, Pending
  <2>2. at'[Add(s)] \notin Pending
    BY <2>1, <1>2, OpFacts DEF Inv, ClientPart
  <2> QED
    BY <2>1, <2>2, <1>2, OpFacts DEF Inv, ClientPart
<1>4. StopPart'
  BY <1>1, StopKept, OpFacts DEF Inv, DoRemove, stopVars
<1>5. DataPart'
  BY <1>2 DEF Inv, DataPart, DoRemove, castVars, ClientStates
<1>6. ServedIsRegistered'
  BY <1>2 DEF Inv, DataPart, ServedIsRegistered, DoRemove, stopVars
<1> QED
  BY <1>1, <1>3, <1>4, <1>5, <1>6 DEF Inv

(* A broadcast begins, goes on or ends. *)
LEMMA SendNextInv ==
  ASSUME Inv, NEW b \in Casts, NEW c, Has(Cast(b), c), NEW S \in SUBSET Sessions,
         SendNext(b, S, c), UNCHANGED <<acceptor, running, sessionVars, map, stopVars>>
  PROVE  Inv'
<1> DEFINE p == Cast(b)
<1>a. p \in Ops /\ p # Stop /\ at[p] \in Pending \cup {"running"}
  BY OpFacts DEF Has, Held, Pending
<1>1. /\ LockPart' /\ Moved(p) /\ at'[p] \in {"running", "done"}
      /\ todo' \in [Casts -> SUBSET Sessions]
      /\ target' \in [Casts -> Sessions \cup {NoSession}]
  <2>2. CASE S = {} /\ Release(p, c)
             /\ todo' = [todo EXCEPT ![b] = {}] /\ target' = [target EXCEPT ![b] = NoSession]
    <3>1. LockPart' /\ Moved(p) /\ at'[p] = "done"
      BY <1>a, <2>2, ReleaseLock DEF Inv
    <3> QED
      BY <2>2, <3>1 DEF Inv, DataPart
  <2>3. ASSUME NEW s \in S, Keep(p, c),
               todo' = [todo EXCEPT ![b] = S \ {s}], target' = [target EXCEPT ![b] = s]
        PROVE  /\ LockPart' /\ Moved(p) /\ at'[p] \in {"running", "done"}
               /\ todo' \in [Casts -> SUBSET Sessions]
               /\ target' \in [Casts -> Sessions \cup {NoSession}]
    <3>1. LockPart' /\ Moved(p) /\ at'[p] = "running"
      BY <1>a, <2>3, KeepLock DEF Inv
    <3> QED
      BY <2>3, <3>1 DEF Inv, DataPart
  <2> QED
    BY <2>2, <2>3 DEF SendNext
<1>2. ClientPart'
  BY <1>a, <1>1, ClientsKept DEF Inv, sessionVars
<1>3. StopPart'
  BY <1>a, <1>1, StopKept DEF Inv
<1>4. DataPart'
  BY <1>1 DEF Inv, DataPart, sessionVars
<1>5. ServedIsRegistered'
  BY DEF Inv, ServedIsRegistered, sessionVars, stopVars
<1> QED
  BY <1>1, <1>2, <1>3, <1>4, <1>5 DEF Inv

(* A stop has one callback to wait for per session it disconnects.           *)
LEMMA StopInv ==
  ASSUME Inv, NEW c, Has(Stop, c), at[Stop] # "running",
         DoStop(c), UNCHANGED <<acceptor, running, stalled>>
  PROVE  Inv'
<1>1. /\ IsFiniteSet(map) /\ Cardinality(map) \in 0 .. Cardinality(Sessions)
      /\ Cardinality(map) = 0 <=> map = {}
  BY FS_Subset, FS_CardinalityType, FS_EmptySet DEF Inv, DataPart
<1>2. /\ LockPart' /\ Moved(Stop) /\ Stop \in Ops
      /\ at'[Stop] = IF map = {} THEN "done" ELSE "running"
      /\ at[Stop] \in Pending
  <2>1. Stop \in Ops /\ at[Stop] \in Pending
    BY OpFacts DEF Has, Held, Pending
  <2> QED
    BY <2>1, ReleaseLock, KeepLock DEF Inv, DoStop
<1>3. ClientPart'
  BY <1>2, ClientsKept DEF Inv, DoStop
<1>4. told = 0 /\ closing = {}
  <2>1. awaited = 0
    BY DEF Inv, StopPart
  <2>2. IsFiniteSet(closing) /\ Cardinality(closing) \in Nat
    BY FS_Subset, FS_CardinalityType DEF Inv, StopPart
  <2>3. told = 0 /\ Cardinality(closing) = 0
    BY <2>1, <2>2 DEF Inv, StopPart
  <2> QED
    BY <2>2, <2>3, FS_EmptySet
<1>5. StopPart'
  BY <1>1, <1>2, <1>4 DEF Inv, DoStop, StopPart, DataPart
<1>6. DataPart'
  BY DEF Inv, DataPart, DoStop, castVars
<1>7. ServedIsRegistered'
  BY <1>4 DEF Inv, ServedIsRegistered, DoStop
<1> QED
  BY <1>2, <1>3, <1>5, <1>6, <1>7 DEF Inv

LEMMA RunInv ==
  ASSUME Inv, NEW p \in Ops, NEW c, Has(p, c), at[p] # "running",
         Run(p, c), UNCHANGED <<acceptor, running, stalled>>
  PROVE  Inv'
<1>1. ASSUME NEW b \in Casts, p = Cast(b), DoCast(b, c) PROVE Inv'
  BY <1>1, SendNextInv DEF DoCast, Inv, DataPart, sessionVars
<1> QED
  BY <1>1, AddInv, RemoveInv, StopInv DEF Run

(* client_join posts an operation, its own next one.                         *)
LEMMA PostKeeps ==
  ASSUME Inv, NEW p \in Ops, at[p] = "idle", Post(p), UNCHANGED <<ch, stopVars>>
  PROVE  /\ LockPart' /\ StopPart' /\ at'[p] = "posted"
         /\ \A q \in Ops : q # p => at'[q] = at[q]
<1>1. LockPart' /\ Moved(p) /\ at'[p] = "posted"
  BY PostLock DEF Inv
<1>2. StopPart'
  BY <1>1, StopKept DEF Inv
<1>3. \A q \in Ops : q # p => at'[q] = at[q]
  BY DEF Post, Inv, LockPart
<1> QED
  BY <1>1, <1>2, <1>3, OpFacts
------------------------------------------------------------------------------
LEMMA SessionInv ==
  ASSUME Inv, NEW s \in Sessions, SessionStep(s)
  PROVE  Inv'
<1> USE DEF Inv, DataPart, castVars, stopVars, ClientStates
<1>1. CASE accept(s)
  <2>1. LockPart' /\ StopPart'
    BY <1>1 DEF accept, LockPart, StopPart, Holders
  <2>2. ClientPart'
    BY <1>1 DEF accept, ClientPart, Pending
  <2> QED
    BY <1>1, <2>1, <2>2 DEF accept, ServedIsRegistered
<1>2. CASE client_join(s)
  <2>1. at[Add(s)] = "idle" /\ Add(s) \in Ops
    BY <1>2, OpFacts DEF client_join, ClientPart
  <2>2. /\ LockPart' /\ StopPart' /\ at'[Add(s)] = "posted"
        /\ \A q \in Ops : q # Add(s) => at'[q] = at[q]
    BY <1>2, <2>1, PostKeeps DEF client_join
  <2>3. ClientPart'
    BY <1>2, <2>2, OpFacts DEF client_join, ClientPart
  <2> QED
    BY <1>2, <2>2, <2>3 DEF client_join, ServedIsRegistered
<1>3. CASE leave(s) \/ cancel_response(s)
  <2>1. /\ client[s] = "serving" /\ client' = [client EXCEPT ![s] = "removing"]
        /\ Post(Remove(s)) /\ UNCHANGED <<ch, stopVars, map>>
        /\ at[Remove(s)] = "idle" /\ Remove(s) \in Ops /\ at[Add(s)] \notin Pending
    BY <1>3, OpFacts DEF leave, cancel_response, ClientPart
  <2>2. /\ LockPart' /\ StopPart' /\ at'[Remove(s)] = "posted"
        /\ \A q \in Ops : q # Remove(s) => at'[q] = at[q]
    BY <2>1, PostKeeps
  <2>3. ClientPart'
    BY <2>1, <2>2, OpFacts DEF ClientPart
  <2>4. DataPart'
    BY <1>3, <2>1 DEF leave, cancel_response
  <2> QED
    BY <1>3, <2>1, <2>2, <2>3, <2>4 DEF leave, cancel_response, ServedIsRegistered
<1>4. CASE stall(s)
  <2>1. LockPart' /\ StopPart' /\ ClientPart'
    BY <1>4 DEF stall, LockPart, StopPart, ClientPart, Holders
  <2> QED
    BY <1>4, <2>1 DEF stall, ServedIsRegistered
<1>5. CASE disconnected(s)
  <2>1. /\ IsFiniteSet(closing) /\ Cardinality(closing) \in Nat
        /\ Cardinality(closing') = Cardinality(closing) - 1
    BY <1>5, FS_Subset, FS_CardinalityType, FS_RemoveElement DEF disconnected, StopPart
  <2>2. StopPart'
    BY <1>5, <2>1 DEF disconnected, StopPart
  <2>3. LockPart' /\ ClientPart'
    BY <1>5 DEF disconnected, LockPart, ClientPart, Holders
  <2> QED
    BY <1>5, <2>2, <2>3 DEF disconnected, ServedIsRegistered
<1> QED
  BY <1>1, <1>2, <1>3, <1>4, <1>5 DEF SessionStep

LEMMA OpInv ==
  ASSUME Inv, NEW p \in Ops, OpStep(p)
  PROVE  Inv'
<1>1. CASE start(p) /\ CanSend(ch)
  BY <1>1, RunInv DEF start, Has
<1>2. CASE start(p) /\ ~CanSend(ch)
  <2>1. LockPart' /\ Moved(p) /\ at'[p] = "waiting" /\ at[p] = "posted"
    BY <1>2, QueueLock DEF start, Inv
  <2>2. ClientPart'
    BY <1>2, <2>1, ClientsKept DEF start, Inv, Pending
  <2>3. StopPart'
    BY <1>2, <2>1, StopKept DEF start, Inv
  <2> QED
    BY <1>2, <2>1, <2>2, <2>3
    DEF start, Inv, DataPart, ServedIsRegistered, castVars, stopVars
<1>3. CASE resume(p)
  BY <1>3, RunInv DEF resume, Has, Held
<1> QED
  BY <1>1, <1>2, <1>3 DEF OpStep

LEMMA CastInv ==
  ASSUME Inv, NEW b \in Casts, async_send(b) \/ sent(b)
  PROVE  Inv'
<1>1. CASE async_send(b)
  <2>1. Cast(b) \in Ops /\ UNCHANGED <<ch, stopVars, castVars, map, client>>
    BY <1>1, OpFacts DEF async_send, sessionVars
  <2>2. /\ LockPart' /\ StopPart'
        /\ \A q \in Ops : q # Cast(b) => at'[q] = at[q]
    BY <1>1, <2>1, PostKeeps DEF async_send
  <2>3. ClientPart'
    BY <2>1, <2>2, OpFacts DEF Inv, ClientPart
  <2> QED
    BY <1>1, <2>1, <2>2, <2>3
    DEF async_send, Inv, DataPart, ServedIsRegistered, castVars, sessionVars, stopVars
<1>2. CASE sent(b)
  BY <1>2, SendNextInv DEF sent, Has, Held, Inv, DataPart
<1> QED
  BY <1>1, <1>2

LEMMA StopStepInv ==
  ASSUME Inv, async_stop \/ receive \/ run_returns
  PROVE  Inv'
<1>1. CASE async_stop
  <2>1. UNCHANGED <<ch, stopVars, castVars, map, client>> /\ Stop \in Ops
    BY <1>1, OpFacts DEF async_stop, sessionVars
  <2>2. /\ LockPart' /\ StopPart'
        /\ \A q \in Ops : q # Stop => at'[q] = at[q]
    BY <1>1, <2>1, PostKeeps DEF async_stop
  <2>3. ClientPart'
    BY <2>1, <2>2, OpFacts DEF Inv, ClientPart
  <2> QED
    BY <1>1, <2>1, <2>2, <2>3
    DEF async_stop, Inv, DataPart, ServedIsRegistered, castVars, sessionVars, stopVars
<1>2. CASE receive
  <2>1. /\ IsFiniteSet(closing) /\ Cardinality(closing) \in Nat
        /\ told \in Nat /\ told > 0 /\ awaited = Cardinality(closing) + told
        /\ told' = told - 1 /\ awaited' = awaited - 1 /\ closing' = closing
        /\ Cardinality(Sessions) \in Nat /\ awaited \in 0 .. Cardinality(Sessions)
        /\ closing \subseteq Sessions
    BY <1>2, FS_Subset, FS_CardinalityType DEF receive, Inv, StopPart
  <2>2. CASE awaited = 1
    <3>1. Release(Stop, ch) /\ Has(Stop, ch) /\ Stop \in Ops /\ at[Stop] = "running"
      BY <1>2, <2>2, OpFacts DEF receive, Has, Held
    <3>2. LockPart' /\ Moved(Stop) /\ at'[Stop] = "done"
      BY <3>1, ReleaseLock DEF Inv
    <3>3. ClientPart'
      BY <1>2, <3>1, <3>2, ClientsKept DEF receive, Inv, sessionVars
    <3>4. StopPart'
      <4>1. awaited' = 0 /\ told' = 0 /\ Cardinality(closing) = 0
        BY <2>1, <2>2
      <4>2. at'[Stop] # "running"
        BY <3>2
      <4> QED
        BY <2>1, <4>1, <4>2 DEF StopPart
    <3> QED
      BY <1>2, <3>2, <3>3, <3>4
      DEF receive, Inv, DataPart, ServedIsRegistered, castVars, sessionVars
  <2>3. CASE awaited # 1
    <3>1. UNCHANGED <<ch, at, map, client, castVars>>
      BY <1>2, <2>3 DEF receive, sessionVars
    <3>2. LockPart' /\ ClientPart'
      BY <3>1 DEF Inv, LockPart, ClientPart, Holders
    <3>3. StopPart'
      BY <1>2, <2>1, <2>3, <3>1 DEF receive, StopPart
    <3> QED
      BY <1>2, <3>1, <3>2, <3>3
      DEF receive, Inv, DataPart, ServedIsRegistered, castVars, sessionVars
  <2> QED
    BY <2>2, <2>3
<1>3. CASE run_returns
  <2>1. UNCHANGED <<acceptor, client, open, stalled, map, ch, at, todo, target>>
        /\ UNCHANGED <<closing, told, awaited>> /\ running' \in BOOLEAN
    BY <1>3 DEF run_returns, sessionVars, castVars, stopVars
  <2>2. LockPart' /\ ClientPart' /\ StopPart'
    BY <2>1 DEF Inv, LockPart, ClientPart, StopPart, Holders
  <2> QED
    BY <2>1, <2>2 DEF Inv, DataPart, ServedIsRegistered
<1> QED
  BY <1>1, <1>2, <1>3

LEMMA InitInv == Init => Inv
<1> SUFFICES ASSUME Init PROVE Inv
  OBVIOUS
<1>1. LockPart
  BY DEF Init, LockPart, Channel, NewChannel, NoWaiterOnFreeLock, OpStates, Holders, Held
<1>2. ClientPart /\ DataPart /\ ServedIsRegistered
  BY OpFacts DEF Init, ClientPart, DataPart, ServedIsRegistered, ClientStates, Pending
<1>3. StopPart
  <2>1. at[Stop] = "idle" /\ Cardinality({}) = 0 /\ Cardinality(Sessions) \in Nat
    BY OpFacts, FS_EmptySet, FS_CardinalityType DEF Init
  <2> QED
    BY <2>1 DEF Init, StopPart
<1> QED
  BY <1>1, <1>2, <1>3 DEF Inv

(* The inductive invariant of the map, its lock and the stop.                *)
THEOREM ServerInvariant == Spec => []Inv
<1>1. Inv /\ [Next]_vars => Inv'
  <2> SUFFICES ASSUME Inv, [Next]_vars PROVE Inv'
    OBVIOUS
  <2>1. CASE Next
    BY <2>1, SessionInv, OpInv, CastInv, StopStepInv DEF Next
  <2>2. CASE UNCHANGED vars
    BY <2>2 DEF vars, Inv, LockPart, ClientPart, StopPart, DataPart, ServedIsRegistered,
                Holders, sessionVars, castVars, stopVars
  <2> QED
    BY <2>1, <2>2
<1> QED
  BY <1>1, InitInv, PTL DEF Spec

(* Type correctness of the server: no counter runs over.                     *)
THEOREM ServerTypeCorrect == Spec => []TypeOK
<1>1. Inv => TypeOK
  <2> SUFFICES ASSUME Inv PROVE TypeOK
    OBVIOUS
  <2>1. Cardinality(closing) \in Nat /\ Cardinality(Sessions) \in Nat
    BY FS_Subset, FS_CardinalityType DEF Inv, StopPart
  <2>2. told \in 0 .. Cardinality(Sessions)
    BY <2>1 DEF Inv, StopPart
  <2> QED
    BY <2>2 DEF Inv, LockPart, StopPart, DataPart, TypeOK
<1> QED
  BY <1>1, ServerInvariant, PTL

(* Every session that is served is in the map, where send_all finds it, but  *)
(* those a stop is disconnecting or has closed (core/impl/session_map.ipp).  *)
THEOREM ServedCanBeReached == Spec => []ServedIsRegistered
<1>1. Inv => ServedIsRegistered
  BY DEF Inv
<1> QED
  BY <1>1, ServerInvariant, PTL

(* When async_disconnect_all completes, no callback that refers to the       *)
(* channel on its frame is left.                                             *)
THEOREM StopWaitsForAll == Spec => []StopOutlivesCallbacks
<1>1. Inv => StopOutlivesCallbacks
  <2> SUFFICES ASSUME Inv, at[Stop] = "done"
               PROVE  closing = {} /\ told = 0 /\ awaited = 0
    BY DEF StopOutlivesCallbacks
  <2>1. awaited = 0
    BY DEF Inv, StopPart
  <2>2. IsFiniteSet(closing) /\ Cardinality(closing) \in Nat
    BY FS_Subset, FS_CardinalityType DEF Inv, StopPart
  <2>3. told = 0 /\ Cardinality(closing) = 0
    BY <2>1, <2>2 DEF Inv, StopPart
  <2> QED
    BY <2>1, <2>2, <2>3, FS_EmptySet
<1> QED
  BY <1>1, ServerInvariant, PTL

(* While async_send_all is suspended in its loop over the map nobody inserts *)
(* or erases.                                                                *)
THEOREM LoopSeesOneMap == Spec => MapStableWhileSending
<1> DEFINE Stable == \A b \in Casts :
                       at[Cast(b)] = "running" /\ at'[Cast(b)] = "running" => map' = map
<1>1. Inv /\ [Next]_vars => [Stable]_vars
  <2> SUFFICES ASSUME Inv, Next, NEW b \in Casts, at[Cast(b)] = "running" PROVE map' = map
    OBVIOUS
  <2>1. /\ Cast(b) \in Ops /\ ~CanSend(ch)
        /\ \A p \in Ops : at[p] = "granted" => FALSE
    BY OpFacts DEF Inv, LockPart, Holders, Held, CanSend
  <2>2. ASSUME NEW p \in Ops, OpStep(p) PROVE map' = map
    BY <2>1, <2>2 DEF OpStep, start, resume
  <2>3. ASSUME NEW s \in Sessions, SessionStep(s) PROVE map' = map
    BY <2>3 DEF SessionStep, accept, client_join, leave, cancel_response, stall, disconnected
  <2>4. CASE \/ \E a \in Casts : async_send(a) \/ sent(a)
             \/ async_stop \/ receive \/ run_returns
    BY <2>4 DEF async_send, sent, async_stop, receive, run_returns
  <2> QED
    BY <2>2, <2>3, <2>4 DEF Next
<1>2. Inv /\ [Next]_vars => [Stable]_vars
  BY <1>1
<1> QED
  BY <1>2, ServerInvariant, PTL DEF Spec, MapStableWhileSending
=============================================================================
