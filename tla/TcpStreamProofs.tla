--------------------------- MODULE TcpStreamProofs ---------------------------
(***************************************************************************)
(* Theorems about TcpStream, for any number of sends and disconnects and   *)
(* any message size.  They hold as long as no send is cancelled while it   *)
(* waits for the lock; the run cancelled_waiter_breaks_lock shows that the *)
(* assumption is needed.                                                   *)
(***************************************************************************)
EXTENDS TcpStream, SequenceTheorems, FiniteSetTheorems, TLAPS

(* The part of the state the lock is about. *)
LockPart ==
  /\ ch \in Channel(Ops)
  /\ pc \in [Ops -> PcStates]
  /\ MutualExclusion
  /\ LockMatchesHolder
  /\ QueueMatchesWaiting
  /\ \A op \in Ops : pc[op] # "refused"

HolderStates == {"granted", "aborting", "writing"}

(* Taking a free lock. *)
LEMMA TakeLock ==
  ASSUME LockPart, NEW op \in Ops, pc[op] = "idle", CanSend(ch),
         ch' = TrySend(ch), pc' = [pc EXCEPT ![op] = "writing"]
  PROVE  LockPart'
<1>1. ch' \in Channel(Ops) /\ pc' \in [Ops -> PcStates]
  BY DEF LockPart, Channel, TrySend, PcStates
<1>2. ch'.waiters = <<>> /\ ch.waiters = <<>> /\ ch'.full
  BY DEF LockPart, LockMatchesHolder, NoWaiterOnFreeLock, CanSend, TrySend, Channel
<1>3. Holders = {}
  BY DEF LockPart, LockMatchesHolder, CanSend, Channel
<1>4. Holders' = {op}
  BY <1>3 DEF LockPart, Holders
<1>5. QueueMatchesWaiting'
  BY <1>2 DEF LockPart, QueueMatchesWaiting
<1> QED
  BY <1>1, <1>2, <1>4, <1>5 DEF LockPart, MutualExclusion, LockMatchesHolder, NoWaiterOnFreeLock

(* Queueing on a taken one. *)
LEMMA QueueOnLock ==
  ASSUME LockPart, NEW op \in Ops, pc[op] = "idle", ~CanSend(ch),
         ch' = AsyncSend(ch, op), pc' = [pc EXCEPT ![op] = "waiting"]
  PROVE  LockPart'
<1> DEFINE w == ch.waiters
<1>1. w \in Seq(Ops) /\ ch.full \in BOOLEAN /\ pc \in [Ops -> PcStates]
  BY DEF LockPart, Channel
<1>2. /\ ch'.waiters = Append(w, op) /\ ch'.full = ch.full
      /\ ch' \in Channel(Ops) /\ pc' \in [Ops -> PcStates]
  <2>1. ch = [full |-> ch.full, waiters |-> w]
    BY DEF LockPart, Channel
  <2>2. ch' = [full |-> ch.full, waiters |-> Append(w, op)]
    BY <2>1 DEF AsyncSend
  <2>3. Append(w, op) \in Seq(Ops)
    BY <1>1
  <2>4. ch' \in Channel(Ops)
    BY <1>1, <2>2, <2>3 DEF Channel
  <2>5. pc' \in [Ops -> PcStates]
    BY <1>1 DEF PcStates
  <2> QED
    BY <2>2, <2>4, <2>5
<1>3. /\ Len(ch'.waiters) = Len(w) + 1
      /\ \A i \in 1 .. Len(w) : ch'.waiters[i] = w[i]
      /\ ch'.waiters[Len(w) + 1] = op
  BY <1>1, <1>2
<1>4. Len(w) \in Nat /\ \A i \in 1 .. Len(w) : w[i] # op
  BY <1>1 DEF LockPart, QueueMatchesWaiting
<1>5. \A i, j \in 1 .. Len(ch'.waiters) : ch'.waiters[i] = ch'.waiters[j] => i = j
  <2>1. \A i, j \in 1 .. Len(w) : w[i] = w[j] => i = j
    BY DEF LockPart, QueueMatchesWaiting
  <2> SUFFICES ASSUME NEW i \in 1 .. Len(w) + 1, NEW j \in 1 .. Len(w) + 1,
                      ch'.waiters[i] = ch'.waiters[j]
               PROVE  i = j
    BY <1>3
  <2>2. CASE i \in 1 .. Len(w) /\ j \in 1 .. Len(w)
    BY <2>1, <2>2, <1>3
  <2>3. CASE i = Len(w) + 1 \/ j = Len(w) + 1
    BY <2>3, <1>3, <1>4, SMTT(30)
  <2> QED
    BY <2>2, <2>3, <1>4
<1>6. \A o \in Ops : pc'[o] = "waiting" <=> \E i \in 1 .. Len(ch'.waiters) : ch'.waiters[i] = o
  <2> SUFFICES ASSUME NEW o \in Ops
               PROVE  pc'[o] = "waiting" <=> \E i \in 1 .. Len(ch'.waiters) : ch'.waiters[i] = o
    OBVIOUS
  <2>1. CASE o = op
    BY <2>1, <1>1, <1>3, <1>4
  <2>2. CASE o # op
    <3>1. pc'[o] = pc[o]
      BY <2>2, <1>1
    <3>2. (\E i \in 1 .. Len(ch'.waiters) : ch'.waiters[i] = o) <=> \E i \in 1 .. Len(w) : w[i] = o
      <4>1. ASSUME NEW i \in 1 .. Len(ch'.waiters), ch'.waiters[i] = o
            PROVE  \E k \in 1 .. Len(w) : w[k] = o
        <5>1. i \in 1 .. Len(w)
          BY <4>1, <2>2, <1>3, <1>4
        <5> QED
          BY <5>1, <4>1, <1>3
      <4>2. ASSUME NEW i \in 1 .. Len(w), w[i] = o
            PROVE  \E k \in 1 .. Len(ch'.waiters) : ch'.waiters[k] = o
        BY <4>2, <1>3, <1>4
      <4> QED
        BY <4>1, <4>2
    <3> QED
      BY <3>1, <3>2 DEF LockPart, QueueMatchesWaiting
  <2> QED
    BY <2>1, <2>2
<1>7. Holders' = Holders
  BY <1>1 DEF Holders
<1>8. ch'.full
  BY <1>1, <1>2 DEF CanSend
<1> QED
  BY <1>1, <1>2, <1>5, <1>6, <1>7, <1>8
  DEF LockPart, MutualExclusion, LockMatchesHolder, NoWaiterOnFreeLock, QueueMatchesWaiting, CanSend

(* A holder moves on without releasing: resumed, or cancelled. *)
LEMMA KeepLock ==
  ASSUME LockPart, NEW op \in Ops, pc[op] \in HolderStates, NEW q \in HolderStates,
         UNCHANGED ch, pc' = [pc EXCEPT ![op] = q]
  PROVE  LockPart'
<1>1. pc \in [Ops -> PcStates] /\ pc' \in [Ops -> PcStates]
  BY DEF LockPart, HolderStates, PcStates
<1>2. Holders' = Holders
  BY <1>1 DEF Holders, HolderStates
<1>3. \A o \in Ops : pc'[o] = "waiting" <=> pc[o] = "waiting"
  BY <1>1 DEF HolderStates
<1> QED
  BY <1>1, <1>2, <1>3
  DEF LockPart, MutualExclusion, LockMatchesHolder, QueueMatchesWaiting, HolderStates

(* Steps of operations that neither hold the lock nor wait for it. *)
LEMMA OutsideLock ==
  ASSUME LockPart, UNCHANGED ch, NEW op \in Ops, pc[op] \in {"idle", "lingering"},
         NEW q \in {"lingering", "ok", "failed"}, pc' = [pc EXCEPT ![op] = q]
  PROVE  LockPart'
<1>1. pc \in [Ops -> PcStates] /\ pc' \in [Ops -> PcStates]
  BY DEF LockPart, PcStates
<1>2. Holders' = Holders
  BY <1>1 DEF Holders
<1>3. \A o \in Ops : pc'[o] = "waiting" <=> pc[o] = "waiting"
  BY <1>1
<1> QED
  BY <1>1, <1>2, <1>3
  DEF LockPart, MutualExclusion, LockMatchesHolder, QueueMatchesWaiting

(* Releasing the lock: it becomes free, or passes to the first waiter. *)
LEMMA ReleaseLock ==
  ASSUME LockPart, NEW op \in Ops, pc[op] \in HolderStates,
         NEW q \in {"lingering", "ok", "failed"}, UnlockAndGo(op, q)
  PROVE  LockPart'
<1> DEFINE w == ch.waiters
<1>1. /\ w \in Seq(Ops) /\ ch.full \in BOOLEAN /\ pc \in [Ops -> PcStates]
      /\ ch = [full |-> ch.full, waiters |-> w]
  BY DEF LockPart, Channel
<1>2. op \in Holders /\ \A o \in Holders : o = op
  BY DEF LockPart, Holders, HolderStates, MutualExclusion
<1>3. ch.full
  BY <1>2 DEF LockPart, LockMatchesHolder
<1>4. pc' \in [Ops -> PcStates]
  BY <1>1 DEF UnlockAndGo, PcStates
<1>5. CASE w = <<>>
  <2>1. ch'.full = FALSE /\ ch'.waiters = <<>> /\ ch' \in Channel(Ops)
    BY <1>1, <1>3, <1>5 DEF UnlockAndGo, TryReceive, Channel
  <2>2. Handed(ch) = {}
    BY <1>5 DEF Handed
  <2>3. pc' = [pc EXCEPT ![op] = q]
    BY <1>1, <2>2 DEF UnlockAndGo
  <2>4. Holders' = {}
    BY <1>1, <1>2, <2>3 DEF Holders
  <2>5. \A o \in Ops : pc'[o] # "waiting" /\ pc'[o] # "refused"
    BY <1>1, <1>5, <2>3 DEF LockPart, QueueMatchesWaiting
  <2> QED
    BY <1>4, <2>1, <2>4, <2>5
    DEF LockPart, MutualExclusion, LockMatchesHolder, NoWaiterOnFreeLock, QueueMatchesWaiting
<1>6. CASE w # <<>>
  <2> DEFINE h == Head(w)
  <2>1. /\ Tail(w) \in Seq(Ops) /\ Len(Tail(w)) = Len(w) - 1 /\ Len(w) \in Nat /\ Len(w) > 0
        /\ \A i \in 1 .. Len(w) - 1 : Tail(w)[i] = w[i + 1]
        /\ h = w[1] /\ h \in Ops
    BY <1>1, <1>6
  <2>2. ch'.full = TRUE /\ ch'.waiters = Tail(w) /\ ch' \in Channel(Ops)
    BY <1>1, <1>3, <1>6, <2>1 DEF UnlockAndGo, TryReceive, Channel
  <2>3. Handed(ch) = {h}
    BY <1>3, <1>6 DEF Handed
  <2>4. pc[h] = "waiting"
    BY <2>1 DEF LockPart, QueueMatchesWaiting
  <2>5. h # op
    BY <2>4 DEF HolderStates
  <2>6. /\ pc'[h] = "granted" /\ pc'[op] = q
        /\ \A o \in Ops : o # h /\ o # op => pc'[o] = pc[o]
    BY <2>1, <2>3, <2>5 DEF UnlockAndGo
  <2>7. Holders' = {h}
    BY <1>2, <2>1, <2>6 DEF Holders
  <2>8. \A i, j \in 1 .. Len(Tail(w)) : Tail(w)[i] = Tail(w)[j] => i = j
    <3> SUFFICES ASSUME NEW i \in 1 .. Len(Tail(w)), NEW j \in 1 .. Len(Tail(w)),
                        Tail(w)[i] = Tail(w)[j]
                 PROVE  i = j
      OBVIOUS
    <3>1. i + 1 \in 1 .. Len(w) /\ j + 1 \in 1 .. Len(w) /\ w[i + 1] = w[j + 1]
      BY <2>1
    <3>2. i + 1 = j + 1
      BY <3>1 DEF LockPart, QueueMatchesWaiting
    <3> QED
      BY <3>2, <2>1
  <2>9. \A o \in Ops : pc'[o] = "waiting" <=> \E i \in 1 .. Len(Tail(w)) : Tail(w)[i] = o
    <3> SUFFICES ASSUME NEW o \in Ops
                 PROVE  pc'[o] = "waiting" <=> \E i \in 1 .. Len(Tail(w)) : Tail(w)[i] = o
      OBVIOUS
    <3>1. \A i \in 1 .. Len(Tail(w)) : Tail(w)[i] # h
      BY <2>1 DEF LockPart, QueueMatchesWaiting
    <3>2. \A i \in 1 .. Len(Tail(w)) : pc[Tail(w)[i]] = "waiting"
      BY <2>1, <1>1 DEF LockPart, QueueMatchesWaiting
    <3>3. CASE o = h
      BY <3>1, <3>3, <2>6
    <3>4. CASE o = op
      BY <3>2, <3>4, <2>6 DEF HolderStates
    <3>5. CASE o # h /\ o # op
      <4>1. pc'[o] = pc[o]
        BY <3>5, <2>6
      <4>2. (\E i \in 1 .. Len(w) : w[i] = o) <=> \E i \in 1 .. Len(Tail(w)) : Tail(w)[i] = o
        <5>1. ASSUME NEW i \in 1 .. Len(w), w[i] = o
              PROVE  \E j \in 1 .. Len(Tail(w)) : Tail(w)[j] = o
          <6>1. i # 1
            BY <5>1, <3>5, <2>1
          <6>2. i - 1 \in 1 .. Len(Tail(w)) /\ Tail(w)[i - 1] = w[i]
            BY <6>1, <2>1
          <6> QED
            BY <6>2, <5>1
        <5>2. ASSUME NEW i \in 1 .. Len(Tail(w)), Tail(w)[i] = o
              PROVE  \E j \in 1 .. Len(w) : w[j] = o
          BY <5>2, <2>1
        <5> QED
          BY <5>1, <5>2
      <4> QED
        BY <4>1, <4>2 DEF LockPart, QueueMatchesWaiting
    <3> QED
      BY <3>3, <3>4, <3>5
  <2>10. \A o \in Ops : pc'[o] # "refused"
    BY <2>6 DEF LockPart
  <2> QED
    BY <1>4, <2>2, <2>7, <2>8, <2>9, <2>10
    DEF LockPart, MutualExclusion, LockMatchesHolder, NoWaiterOnFreeLock, QueueMatchesWaiting
<1> QED
  BY <1>5, <1>6
(* Passing the lock on changes the releaser's state and turns at most one    *)
(* waiting operation into a granted one.                                     *)
LEMMA ReleaseProgress ==
  ASSUME LockPart, NEW op \in Ops, pc[op] \in HolderStates, NEW q, UnlockAndGo(op, q)
  PROVE  /\ pc'[op] = q
         /\ \A o \in Ops : o # op =>
              pc'[o] = pc[o] \/ (pc[o] = "waiting" /\ pc'[o] = "granted")
<1>1. ch.waiters \in Seq(Ops)
  BY DEF LockPart, Channel
<1>2. pc'[op] = q
  BY DEF UnlockAndGo
<1>3. ASSUME NEW o \in Ops, o # op, o \in Handed(ch)
      PROVE  pc[o] = "waiting" /\ pc'[o] = "granted"
  <2>1. ch.waiters # <<>> /\ o = ch.waiters[1] /\ 1 \in 1 .. Len(ch.waiters)
    BY <1>1, <1>3 DEF Handed
  <2> QED
    BY <1>3, <2>1 DEF UnlockAndGo, LockPart, QueueMatchesWaiting
<1>4. ASSUME NEW o \in Ops, o # op, o \notin Handed(ch)
      PROVE  pc'[o] = pc[o]
  BY <1>4 DEF UnlockAndGo
<1> QED
  BY <1>2, <1>3, <1>4
------------------------------------------------------------------------------
(* The whole inductive invariant, one lemma per kind of step. *)
LEMMA LockInvParts == LockInv => TypeOK /\ LockPart /\ ProgressMatchesPc
  BY DEF LockInv, LockPart, TypeOK

(* The rest of the state is untouched or moves within its type. *)
LEMMA SenderStepInv ==
  ASSUME "waiting" \notin CancelPoints, LockInv, NEW s \in Senders,
         async_send(s) \/ SenderStep(s) \/ cancel_send(s)
  PROVE  LockInv'
<1> USE LockInvParts, OpsAssumption
<1>a. s \in Ops /\ \A t \in Senders : t \in Ops
  BY DEF Ops
<1>b. /\ pc \in [Ops -> PcStates] /\ left \in [Senders -> 0 .. Chunks]
      /\ wire \in Seq(Senders) /\ LockPart /\ ProgressMatchesPc
  BY DEF TypeOK
<1>1. CASE async_send(s)
  <2>1. LockPart'
    BY <1>1, <1>a, <1>b, TakeLock, QueueOnLock DEF async_send
  <2>2. ProgressMatchesPc'
    BY <1>1, <1>a, <1>b DEF async_send, ProgressMatchesPc
  <2>3. TypeOK'
    BY <1>1, <2>1 DEF async_send, LockPart, TypeOK
  <2> QED
    BY <2>1, <2>2, <2>3 DEF LockInv, LockPart
<1>2. CASE resume_send(s)
  <2>1. LockPart'
    BY <1>2, <1>a, <1>b, KeepLock DEF resume_send, HolderStates
  <2>2. ProgressMatchesPc'
    BY <1>2, <1>a, <1>b DEF resume_send, ProgressMatchesPc
  <2>3. TypeOK'
    BY <1>2, <2>1 DEF resume_send, LockPart, TypeOK
  <2> QED
    BY <2>1, <2>2, <2>3 DEF LockInv, LockPart
<1>3. CASE write_some(s)
  <2>1. wire' \in Seq(Senders)
    BY <1>3, <1>b DEF write_some
  <2>2. left[s] \in 1 .. Chunks /\ left' = [left EXCEPT ![s] = left[s] - 1]
    BY <1>3, <1>b DEF write_some, ProgressMatchesPc
  <2>3. left' \in [Senders -> 0 .. Chunks]
    BY <2>2, <1>b
  <2>4. CASE left[s] > 1 /\ UNCHANGED <<ch, pc>>
    <3>1. LockPart'
      BY <2>4, <1>b DEF LockPart, MutualExclusion, LockMatchesHolder, QueueMatchesWaiting, Holders
    <3>2. ProgressMatchesPc'
      BY <2>2, <2>4, <1>3, <1>a, <1>b DEF write_some, ProgressMatchesPc
    <3>3. TypeOK'
      BY <1>3, <2>1, <2>3, <3>1 DEF write_some, LockPart, TypeOK
    <3> QED
      BY <3>1, <3>2, <3>3 DEF LockInv, LockPart
  <2>5. CASE left[s] = 1 /\ UnlockAndGo(s, "ok")
    <3>1. LockPart'
      BY <2>5, <1>3, <1>a, <1>b, ReleaseLock DEF write_some, HolderStates
    <3>2. ProgressMatchesPc'
      BY <2>2, <2>5, <1>3, <1>a, <1>b, ReleaseProgress
      DEF write_some, ProgressMatchesPc, HolderStates
    <3>3. TypeOK'
      BY <1>3, <2>1, <2>3, <3>1 DEF write_some, LockPart, TypeOK
    <3> QED
      BY <3>1, <3>2, <3>3 DEF LockInv, LockPart
  <2> QED
    BY <1>3, <2>4, <2>5 DEF write_some
<1>4. CASE write_fail(s) \/ abandon_send(s)
  <2>1. /\ pc[s] \in HolderStates /\ UnlockAndGo(s, "failed")
        /\ UNCHANGED <<left, wire, sock, peer, timer>>
    BY <1>4, <1>a, <1>b DEF write_fail, abandon_send, HolderStates, LockPart
  <2>2. LockPart'
    BY <2>1, <1>a, <1>b, ReleaseLock
  <2>3. ProgressMatchesPc'
    BY <2>1, <1>a, <1>b, ReleaseProgress DEF ProgressMatchesPc
  <2>4. TypeOK'
    BY <2>1, <2>2 DEF LockPart, TypeOK
  <2> QED
    BY <2>2, <2>3, <2>4 DEF LockInv, LockPart
<1>5. CASE cancel_send(s)
  <2>1. pc[s] \in {"granted", "writing"}
    BY <1>5 DEF cancel_send
  <2>2. pc' = [pc EXCEPT ![s] = "aborting"] /\ UNCHANGED <<ch, left, wire, sock, peer, timer>>
    BY <1>5, <2>1 DEF cancel_send
  <2>3. LockPart'
    BY <2>1, <2>2, <1>a, <1>b, KeepLock DEF HolderStates
  <2>4. ProgressMatchesPc'
    BY <2>2, <1>a, <1>b DEF ProgressMatchesPc
  <2>5. TypeOK'
    BY <2>2, <2>3 DEF LockPart, TypeOK
  <2> QED
    BY <2>3, <2>4, <2>5 DEF LockInv, LockPart
<1> QED
  BY <1>1, <1>2, <1>3, <1>4, <1>5 DEF SenderStep

LEMMA DisconnectStepInv ==
  ASSUME LockInv, NEW d \in Disconnects,
         async_disconnect(d) \/ DisconnectStep(d) \/ disconnect_timeout(d)
  PROVE  LockInv'
<1> USE LockInvParts, OpsAssumption
<1>a. d \in Ops /\ d \notin Senders /\ \A t \in Senders : t \in Ops
  BY DEF Ops
<1>b. /\ pc \in [Ops -> PcStates] /\ timer \in [Disconnects -> {"off", "armed", "fired", "cancelled"}]
      /\ LockPart /\ ProgressMatchesPc /\ TypeOK
  BY DEF TypeOK
<1>1. CASE async_disconnect(d)
  <2>1. LockPart'
    BY <1>1, <1>a, <1>b, QueueOnLock, OutsideLock DEF async_disconnect
  <2>2. ProgressMatchesPc'
    BY <1>1, <1>a, <1>b DEF async_disconnect, ProgressMatchesPc
  <2>3. timer' \in [Disconnects -> {"off", "armed", "fired", "cancelled"}]
        /\ sock' \in {"open", "shut", "closed"}
    BY <1>1, <1>b DEF async_disconnect, Linger, CloseNow, TypeOK
  <2>4. TypeOK'
    BY <1>1, <1>b, <2>1, <2>3 DEF async_disconnect, LockPart, TypeOK
  <2> QED
    BY <2>1, <2>2, <2>4 DEF LockInv, LockPart
<1>2. CASE resume_disconnect(d)
  <2>1. PICK q \in {"lingering", "ok"} : UnlockAndGo(d, q)
    BY <1>2 DEF resume_disconnect
  <2>2. LockPart'
    BY <1>2, <2>1, <1>a, <1>b, ReleaseLock DEF resume_disconnect, HolderStates
  <2>3. ProgressMatchesPc'
    <3>1. pc[d] \in HolderStates /\ UNCHANGED left
      BY <1>2 DEF resume_disconnect, HolderStates
    <3>2. \A t \in Senders : pc'[t] = pc[t] \/ (pc[t] = "waiting" /\ pc'[t] = "granted")
      BY <3>1, <2>1, <1>a, <1>b, ReleaseProgress
    <3> QED
      BY <3>1, <3>2, <1>b DEF ProgressMatchesPc
  <2>4. timer' \in [Disconnects -> {"off", "armed", "fired", "cancelled"}]
        /\ sock' \in {"open", "shut", "closed"}
    BY <1>2, <1>b DEF resume_disconnect, Linger, CloseNow, TypeOK
  <2>5. TypeOK'
    BY <1>2, <1>b, <2>2, <2>4 DEF resume_disconnect, LockPart, TypeOK
  <2> QED
    BY <2>2, <2>3, <2>5 DEF LockInv, LockPart
<1>3. CASE wait_error(d)
  <2>1. LockPart'
    BY <1>3, <1>a, <1>b, OutsideLock DEF wait_error
  <2>2. ProgressMatchesPc'
    BY <1>3, <1>a, <1>b DEF wait_error, ProgressMatchesPc
  <2>3. TypeOK'
    BY <1>3, <1>b, <2>1 DEF wait_error, LockPart, TypeOK
  <2> QED
    BY <2>1, <2>2, <2>3 DEF LockInv, LockPart
<1>4. CASE disconnect_timeout(d)
  <2>1. LockPart'
    BY <1>4, <1>b
    DEF disconnect_timeout, LockPart, MutualExclusion, LockMatchesHolder, QueueMatchesWaiting, Holders
  <2>2. ProgressMatchesPc'
    BY <1>4, <1>b DEF disconnect_timeout, ProgressMatchesPc
  <2>3. TypeOK'
    BY <1>4, <1>b, <2>1 DEF disconnect_timeout, LockPart, TypeOK
  <2> QED
    BY <2>1, <2>2, <2>3 DEF LockInv, LockPart
<1> QED
  BY <1>1, <1>2, <1>3, <1>4 DEF DisconnectStep

(* The lock part alone survives every step of the socket and of the peer. *)
LEMMA EnvironmentInv ==
  ASSUME LockInv, close \/ (\E p \in PeerStates : peer_turns(p)) \/ UNCHANGED vars
  PROVE  LockInv'
<1>1. UNCHANGED <<ch, pc, left, wire, timer>>
  BY DEF close, peer_turns, vars
<1>2. sock' \in {"open", "shut", "closed"} /\ peer' \in {"reading"} \cup PeerStates
  BY DEF close, peer_turns, vars, LockInv, TypeOK
<1> QED
  BY <1>1, <1>2
  DEF LockInv, TypeOK, MutualExclusion, LockMatchesHolder, QueueMatchesWaiting,
      ProgressMatchesPc, Holders

(* The inductive invariant, as long as no send is cancelled while it waits   *)
(* for the lock.                                                             *)
THEOREM LockInvariant ==
  ASSUME "waiting" \notin CancelPoints
  PROVE  Spec => []LockInv
<1>1. Init => LockInv
  <2> SUFFICES ASSUME Init PROVE LockInv
    OBVIOUS
  <2>1. ch = [full |-> FALSE, waiters |-> <<>>] /\ <<>> \in Seq(Ops) /\ <<>> \in Seq(Senders)
    BY DEF Init, NewChannel
  <2>2. TypeOK
    BY <2>1, OpsAssumption DEF Init, TypeOK, Channel, PcStates
  <2>3. Holders = {} /\ \A op \in Ops : pc[op] = "idle"
    BY DEF Init, Holders
  <2>4. ProgressMatchesPc
    BY <2>3 DEF Init, ProgressMatchesPc, Ops
  <2> QED
    BY <2>1, <2>2, <2>3, <2>4
    DEF LockInv, MutualExclusion, LockMatchesHolder, NoWaiterOnFreeLock, QueueMatchesWaiting
<1>2. LockInv /\ [Next]_vars => LockInv'
  BY SenderStepInv, DisconnectStepInv, EnvironmentInv DEF Next
<1> QED
  BY <1>1, <1>2, PTL DEF Spec

(* At most one operation is between its lock and its unlock. *)
THEOREM LockExcludes ==
  ASSUME "waiting" \notin CancelPoints
  PROVE  Spec => []MutualExclusion
BY LockInvariant, PTL DEF LockInv

(* No release is lost and nobody queues on a free lock. *)
THEOREM LockIsNotLost ==
  ASSUME "waiting" \notin CancelPoints
  PROVE  Spec => []LockMatchesHolder
BY LockInvariant, PTL DEF LockInv

(* Every state has its type, and a send that returned success wrote its      *)
(* whole message.                                                            *)
THEOREM TypeCorrect ==
  ASSUME "waiting" \notin CancelPoints
  PROVE  Spec => []TypeOK
BY LockInvariant, PTL DEF LockInv

THEOREM SendsWriteWhole ==
  ASSUME "waiting" \notin CancelPoints
  PROVE  Spec => []SuccessMeansWhole
<1>1. LockInv => SuccessMeansWhole
  BY DEF LockInv, ProgressMatchesPc, SuccessMeansWhole
<1> QED
  BY <1>1, LockInvariant, PTL
------------------------------------------------------------------------------
(* What the lock is for: the chunks of messages do not mix on the wire, a    *)
(* disconnect does not cut a message, and a timeout does not outlive its     *)
(* disconnect.                                                               *)

(* The states of a send that has not begun to write. *)
Unbegun == {"idle", "waiting", "granted"}

OnWire(s) == \E i \in 1 .. Len(wire) : wire[i] = s

(* Inductive with LockInv: only a send that has begun is on the wire, and    *)
(* the one that is writing wrote last.                                       *)
WireInv ==
  /\ FramesContiguous
  /\ \A s \in Senders : OnWire(s) => pc[s] \notin Unbegun
  /\ \A s \in Senders : OnWire(s) /\ pc[s] = "writing" => wire[Len(wire)] = s

(* Every step that writes nothing: a send that has begun does not begin      *)
(* again, and one that has stopped writing does not go on.                   *)
LEMMA NothingWritten ==
  ASSUME WireInv, UNCHANGED wire,
         \A t \in Senders : \/ pc'[t] = pc[t]
                            \/ pc[t] \in Unbegun
                            \/ pc'[t] \notin Unbegun \cup {"writing"}
  PROVE  WireInv'
BY DEF WireInv, FramesContiguous, OnWire

(* async_write's step: the writing send holds the lock, so no other writes.  *)
LEMMA ChunkWritten ==
  ASSUME LockInv, WireInv, NEW s \in Senders, write_some(s)
  PROVE  WireInv'
<1> USE LockInvParts
<1>a. \A t \in Senders : t \in Ops
  BY DEF Ops
<1>b. wire \in Seq(Senders) /\ LockPart /\ left[s] \in 0 .. Chunks
  BY DEF TypeOK
<1> DEFINE n == Len(wire)
<1>1. /\ pc[s] = "writing" /\ wire' = Append(wire, s)
      /\ n \in Nat /\ Len(wire') = n + 1 /\ wire'[n + 1] = s
      /\ \A i \in 1 .. n : wire'[i] = wire[i]
  BY <1>b DEF write_some
<1>2. /\ pc'[s] \in {"writing", "ok"}
      /\ \A t \in Senders \ {s} : pc'[t] = pc[t] \/ (pc[t] = "waiting" /\ pc'[t] = "granted")
  BY <1>1, <1>a, <1>b, ReleaseProgress DEF write_some, HolderStates
<1>3. \A t \in Senders \ {s} : pc[t] # "writing" /\ pc'[t] # "writing"
  BY <1>1, <1>2, <1>a, <1>b DEF LockPart, MutualExclusion, Holders
<1>4. FramesContiguous'
  <2> SUFFICES ASSUME NEW i \in 1 .. n + 1, NEW j \in 1 .. n + 1, NEW k \in 1 .. n + 1,
                      i < j, j < k, wire'[i] = wire'[k]
               PROVE  wire'[j] = wire'[i]
    BY <1>1 DEF FramesContiguous
  <2>1. i \in 1 .. n /\ j \in 1 .. n /\ wire'[i] = wire[i] /\ wire'[j] = wire[j]
    BY <1>1
  <2>2. CASE k \in 1 .. n
    BY <2>1, <2>2, <1>1 DEF WireInv, FramesContiguous
  <2>3. CASE k = n + 1
    <3>1. wire[i] = s
      BY <2>1, <2>3, <1>1
    <3>2. wire[n] = s
      BY <2>1, <3>1, <1>1 DEF WireInv, OnWire
    <3>3. wire[j] = s
      BY <2>1, <3>1, <3>2, <1>1 DEF WireInv, FramesContiguous
    <3> QED
      BY <2>1, <3>1, <3>3
  <2> QED
    BY <2>2, <2>3, <1>1
<1>5. \A t \in Senders : OnWire(t)' => t = s \/ OnWire(t)
  BY <1>1 DEF OnWire
<1>6. \A t \in Senders : OnWire(t)' => pc'[t] \notin Unbegun
  BY <1>2, <1>5 DEF WireInv, Unbegun
<1>7. \A t \in Senders : OnWire(t)' /\ pc'[t] = "writing" => wire'[Len(wire')] = t
  BY <1>1, <1>3
<1> QED
  BY <1>4, <1>6, <1>7 DEF WireInv

(* Every other step of an operation, or of the socket and the peer. *)
LEMMA OtherStepsWriteNothing ==
  ASSUME "waiting" \notin CancelPoints, LockInv, WireInv, [Next]_vars,
         \A s \in Senders : ~write_some(s)
  PROVE  WireInv'
<1> USE LockInvParts, OpsAssumption
<1>a. LockPart /\ pc \in [Ops -> PcStates] /\ \A t \in Senders : t \in Ops
  BY DEF TypeOK, Ops
<1>1. ASSUME NEW s \in Senders, async_send(s) \/ resume_send(s) \/ cancel_send(s)
      PROVE  WireInv'
  <2>1. /\ UNCHANGED wire /\ \A t \in Senders \ {s} : pc'[t] = pc[t]
        /\ pc[s] \in Unbegun \/ pc'[s] = "aborting"
    BY <1>1, <1>a DEF async_send, resume_send, cancel_send, Unbegun
  <2>2. pc'[s] = "aborting" => pc'[s] \notin Unbegun \cup {"writing"}
    BY DEF Unbegun
  <2> QED
    BY <2>1, <2>2, NothingWritten
<1>2. ASSUME NEW op \in Ops, pc[op] \in HolderStates, UNCHANGED wire,
             NEW q \in {"lingering", "ok", "failed"}, UnlockAndGo(op, q)
      PROVE  WireInv'
  <2>1. pc'[op] = q /\ \A o \in Ops : o # op =>
          pc'[o] = pc[o] \/ (pc[o] = "waiting" /\ pc'[o] = "granted")
    BY <1>2, <1>a, ReleaseProgress
  <2>2. q \notin Unbegun \cup {"writing"} /\ "waiting" \in Unbegun
    BY DEF Unbegun
  <2> QED
    BY <1>2, <2>1, <2>2, <1>a, NothingWritten
<1>3. ASSUME NEW s \in Senders, write_fail(s) \/ abandon_send(s)
      PROVE  WireInv'
  <2>1. pc[s] \in HolderStates /\ UnlockAndGo(s, "failed") /\ UNCHANGED wire
    BY <1>3, <1>a DEF write_fail, abandon_send, LockPart, HolderStates
  <2> QED
    BY <2>1, <1>2, <1>a
<1>4. ASSUME NEW d \in Disconnects, resume_disconnect(d)
      PROVE  WireInv'
  <2>1. d \in Ops /\ pc[d] \in HolderStates /\ UNCHANGED wire
        /\ \E q \in {"lingering", "ok", "failed"} : UnlockAndGo(d, q)
    BY <1>4 DEF resume_disconnect, HolderStates, Ops
  <2> QED
    BY <2>1, <1>2
<1>5. ASSUME NEW d \in Disconnects, async_disconnect(d) \/ wait_error(d) \/ disconnect_timeout(d)
      PROVE  WireInv'
  <2>1. UNCHANGED wire /\ \A t \in Senders : pc'[t] = pc[t]
    BY <1>5, <1>a DEF async_disconnect, wait_error, disconnect_timeout
  <2> QED
    BY <2>1, NothingWritten
<1>6. CASE close \/ (\E p \in PeerStates : peer_turns(p)) \/ UNCHANGED vars
  <2>1. UNCHANGED <<wire, pc>>
    BY <1>6 DEF close, peer_turns, vars
  <2> QED
    BY <2>1, NothingWritten
<1> QED
  BY <1>1, <1>3, <1>4, <1>5, <1>6 DEF Next, SenderStep, DisconnectStep

LEMMA WireInvariant ==
  ASSUME "waiting" \notin CancelPoints
  PROVE  Spec => []WireInv
<1>1. Init => WireInv
  BY DEF Init, WireInv, FramesContiguous, OnWire
<1>2. LockInv /\ WireInv /\ [Next]_vars => WireInv'
  BY ChunkWritten, OtherStepsWriteNothing
<1> QED
  BY <1>1, <1>2, LockInvariant, PTL DEF Spec

(* The chunks of a message are next to each other on the wire (async_send,   *)
(* tcp/write.hpp).                                                           *)
THEOREM MessagesNeverMix ==
  ASSUME "waiting" \notin CancelPoints
  PROVE  Spec => []FramesContiguous
<1>1. WireInv => FramesContiguous
  BY DEF WireInv
<1> QED
  BY <1>1, WireInvariant, PTL
------------------------------------------------------------------------------
(* Inductive with LockInv: an armed timer belongs to a lingering disconnect, *)
(* and while one lingers the socket is not open.                             *)
SocketInv ==
  /\ TimerOnlyWhileLingering
  /\ \A d \in Disconnects : pc[d] = "lingering" => sock # "open"

(* What keeps it: nobody stops or starts lingering, no timer is armed, and   *)
(* the socket does not open again.                                           *)
LEMMA SocketUntouched ==
  ASSUME SocketInv,
         UNCHANGED timer, sock # "open" => sock' # "open",
         \A d \in Disconnects : pc'[d] = "lingering" <=> pc[d] = "lingering"
  PROVE  SocketInv'
BY DEF SocketInv, TimerOnlyWhileLingering

(* The steps of sends, of the application and of the peer. *)
LEMMA SenderStepsSpareSocket ==
  ASSUME LockInv, SocketInv, NEW s \in Senders,
         async_send(s) \/ SenderStep(s) \/ cancel_send(s)
  PROVE  SocketInv' /\ UNCHANGED sock
<1> USE LockInvParts, OpsAssumption
<1>a. LockPart /\ pc \in [Ops -> PcStates] /\ s \in Ops
      /\ \A d \in Disconnects : d \in Ops /\ d # s
  BY DEF TypeOK, Ops
<1>1. UNCHANGED <<timer, sock>>
  BY DEF async_send, SenderStep, resume_send, write_some, write_fail, abandon_send, cancel_send
<1>2. \/ \A d \in Disconnects : pc'[d] = pc[d]
      \/ pc[s] \in HolderStates /\ \E q : UnlockAndGo(s, q)
  BY <1>a DEF async_send, SenderStep, resume_send, write_some, write_fail, abandon_send,
              cancel_send, HolderStates, LockPart
<1>3. \A d \in Disconnects : pc'[d] = "lingering" <=> pc[d] = "lingering"
  BY <1>2, <1>a, ReleaseProgress
<1> QED
  BY <1>1, <1>3, SocketUntouched

(* The steps of a disconnect: it lingers with the socket shut and its timer  *)
(* armed, or it ends with the socket closed.                                 *)
LEMMA DisconnectStepsSocket ==
  ASSUME LockInv, SocketInv, NEW d \in Disconnects,
         async_disconnect(d) \/ DisconnectStep(d) \/ disconnect_timeout(d)
  PROVE  SocketInv'
<1> USE LockInvParts, OpsAssumption
<1>a. /\ LockPart /\ pc \in [Ops -> PcStates] /\ d \in Ops
      /\ timer \in [Disconnects -> {"off", "armed", "fired", "cancelled"}]
      /\ \A e \in Disconnects : e \in Ops
  BY DEF TypeOK, Ops
<1>1. sock # "open" => sock' # "open"
  BY DEF async_disconnect, DisconnectStep, resume_disconnect, wait_error, disconnect_timeout,
         Linger, CloseNow
<1>2. \A e \in Disconnects \ {d} :
         timer'[e] = timer[e] /\ (pc'[e] = "lingering" <=> pc[e] = "lingering")
  <2>1. \A e \in Disconnects \ {d} : timer'[e] = timer[e]
    BY <1>a DEF async_disconnect, DisconnectStep, resume_disconnect, wait_error,
                disconnect_timeout, Linger, CloseNow
  <2>2. CASE resume_disconnect(d)
    <3>1. pc[d] \in HolderStates /\ \E q : UnlockAndGo(d, q)
      BY <2>2 DEF resume_disconnect, HolderStates
    <3> QED
      BY <2>1, <3>1, <1>a, ReleaseProgress
  <2>3. CASE ~resume_disconnect(d)
    BY <2>1, <2>3, <1>a
    DEF async_disconnect, DisconnectStep, wait_error, disconnect_timeout
  <2> QED
    BY <2>2, <2>3
<1>3. /\ timer'[d] = "armed" => pc'[d] = "lingering"
      /\ pc'[d] = "lingering" => sock' # "open"
  <2>1. CASE async_disconnect(d)
    BY <2>1, <1>a DEF async_disconnect, Linger, CloseNow, SocketInv, TimerOnlyWhileLingering
  <2>2. CASE resume_disconnect(d)
    <3>1. timer[d] # "armed"
      BY <2>2 DEF resume_disconnect, SocketInv, TimerOnlyWhileLingering
    <3> QED
      BY <2>2, <3>1, <1>a DEF resume_disconnect, UnlockAndGo, Linger, CloseNow
  <2>3. CASE wait_error(d) \/ disconnect_timeout(d)
    BY <2>3, <1>a DEF wait_error, disconnect_timeout, SocketInv, TimerOnlyWhileLingering
  <2> QED
    BY <2>1, <2>2, <2>3 DEF DisconnectStep
<1> QED
  BY <1>1, <1>2, <1>3 DEF SocketInv, TimerOnlyWhileLingering

LEMMA SocketInvariant ==
  ASSUME "waiting" \notin CancelPoints
  PROVE  Spec => []SocketInv
<1>1. Init => SocketInv
  <2>1. Init => \A d \in Disconnects : timer[d] = "off" /\ pc[d] = "idle"
    BY DEF Init, Ops
  <2> QED
    BY <2>1 DEF SocketInv, TimerOnlyWhileLingering
<1>2. LockInv /\ SocketInv /\ [Next]_vars => SocketInv'
  <2> SUFFICES ASSUME LockInv, SocketInv, [Next]_vars PROVE SocketInv'
    OBVIOUS
  <2>1. CASE close \/ (\E p \in PeerStates : peer_turns(p)) \/ UNCHANGED vars
    <3>1. UNCHANGED <<timer, pc>> /\ (sock # "open" => sock' # "open")
      BY <2>1 DEF close, peer_turns, vars
    <3> QED
      BY <3>1, SocketUntouched
  <2> QED
    BY <2>1, SenderStepsSpareSocket, DisconnectStepsSocket DEF Next
<1> QED
  BY <1>1, <1>2, LockInvariant, PTL DEF Spec

(* The timer of a disconnect never expires after the disconnect has ended    *)
(* (call_func_when_timeout, tcp/disconnect.hpp).                             *)
THEOREM TimersDoNotOutlive ==
  ASSUME "waiting" \notin CancelPoints
  PROVE  Spec => []TimerOnlyWhileLingering
<1>1. SocketInv => TimerOnlyWhileLingering
  BY DEF SocketInv
<1> QED
  BY <1>1, SocketInvariant, PTL

(* A disconnect shuts the open socket only while no message is being         *)
(* written: it got the lock, or found it free.                               *)
THEOREM DisconnectsCutNothing ==
  ASSUME "waiting" \notin CancelPoints
  PROVE  Spec => DisconnectCutsNoFrame
<1> DEFINE Cut == sock = "open" /\ sock' # "open" /\ pc' # pc
           Spared == \A s \in Senders : pc[s] # "writing"
<1>1. LockInv /\ SocketInv /\ [Next]_vars => [Cut => Spared]_vars
  <2> SUFFICES ASSUME LockInv, SocketInv, Next, Cut, NEW s \in Senders
               PROVE  pc[s] # "writing"
    OBVIOUS
  <2> USE LockInvParts, OpsAssumption
  <2>1. LockPart /\ s \in Ops /\ \A d \in Disconnects : d \in Ops /\ d # s
    BY DEF Ops
  <2>2. PICK d \in Disconnects : async_disconnect(d) \/ DisconnectStep(d) \/ disconnect_timeout(d)
    BY SenderStepsSpareSocket DEF Next, close, peer_turns
  <2>3. CASE async_disconnect(d)
    <3>1. CanSend(ch)
      BY <2>3 DEF async_disconnect
    <3> QED
      BY <3>1, <2>1 DEF CanSend, LockPart, LockMatchesHolder, Holders
  <2>4. CASE resume_disconnect(d)
    BY <2>4, <2>1 DEF resume_disconnect, LockPart, MutualExclusion, Holders
  <2>5. CASE wait_error(d) \/ disconnect_timeout(d)
    BY <2>5 DEF wait_error, disconnect_timeout, SocketInv
  <2> QED
    BY <2>2, <2>3, <2>4, <2>5 DEF DisconnectStep
<1> QED
  BY <1>1, LockInvariant, SocketInvariant, PTL DEF Spec, DisconnectCutsNoFrame
------------------------------------------------------------------------------
(* The refinement of SerialWriter.  The abstract line is the holder of the   *)
(* lock followed by the lock's queue.                                        *)
LEMMA LineOfHolder ==
  ASSUME LockPart, NEW op \in Ops, pc[op] \in HolderStates
  PROVE  InLine = <<op>> \o ch.waiters
<1>1. op \in Holders /\ \A o \in Holders : o = op
  BY DEF LockPart, Holders, HolderStates, MutualExclusion
<1>2. (CHOOSE o \in Holders : TRUE) = op
  BY <1>1
<1> QED
  BY <1>1, <1>2 DEF InLine

HolderLeadsLine ==
  \A op \in Ops : LockPart /\ pc[op] \in HolderStates => InLine = <<op>> \o ch.waiters

LEMMA HoldersLeadLine == HolderLeadsLine
BY LineOfHolder DEF HolderLeadsLine

LEMMA LineOfNobody ==
  ASSUME LockPart, ~ch.full
  PROVE  InLine = <<>>
<1>1. Holders = {} /\ ch.waiters = <<>>
  BY DEF LockPart, LockMatchesHolder, NoWaiterOnFreeLock
<1> QED
  BY <1>1 DEF InLine

LEMMA LineShape ==
  ASSUME LockPart
  PROVE  /\ ch.waiters \in Seq(Ops) /\ InLine \in Seq(Ops)
         /\ \A i \in 1 .. Len(InLine) : pc[InLine[i]] \in HolderStates \cup {"waiting"}
<1>1. ch.waiters \in Seq(Ops)
  BY DEF LockPart, Channel
<1>2. \A i \in 1 .. Len(ch.waiters) : pc[ch.waiters[i]] = "waiting"
  BY <1>1 DEF LockPart, QueueMatchesWaiting
<1>3. CASE ~ch.full
  <2>1. InLine = <<>> /\ <<>> \in Seq(Ops) /\ Len(<<>>) = 0
    BY <1>3, LineOfNobody
  <2>2. \A i \in 1 .. Len(InLine) : FALSE
    BY <2>1
  <2> QED
    BY <1>1, <2>1, <2>2
<1>4. CASE ch.full
  <2>1. PICK op \in Ops : pc[op] \in HolderStates
    BY <1>4 DEF LockPart, LockMatchesHolder, Holders, HolderStates
  <2>2. InLine = <<op>> \o ch.waiters
    BY <2>1, LineOfHolder
  <2>3. <<op>> \in Seq(Ops) /\ Len(<<op>>) = 1 /\ <<op>>[1] = op
    OBVIOUS
  <2>4. /\ InLine \in Seq(Ops) /\ Len(InLine) = 1 + Len(ch.waiters)
        /\ \A i \in 1 .. Len(InLine) : InLine[i] = IF i <= 1 THEN op ELSE ch.waiters[i - 1]
    BY <1>1, <2>2, <2>3, ConcatProperties
  <2>5. ASSUME NEW i \in 1 .. Len(InLine)
        PROVE  pc[InLine[i]] \in HolderStates \cup {"waiting"}
    <3>1. CASE i = 1
      BY <2>1, <2>4, <3>1
    <3>2. CASE i # 1
      <4>1. i - 1 \in 1 .. Len(ch.waiters) /\ InLine[i] = ch.waiters[i - 1]
        BY <1>1, <2>4, <3>2
      <4> QED
        BY <4>1, <1>2
    <3> QED
      BY <3>1, <3>2
  <2> QED
    BY <1>1, <2>4, <2>5
<1> QED
  BY <1>3, <1>4 DEF LockPart, Channel

(* A release takes the first one out of the line, whoever is next.           *)
LEMMA ReleaseAdvancesLine ==
  ASSUME LockPart, NEW op \in Ops, pc[op] \in HolderStates,
         NEW q \in {"lingering", "ok", "failed"}, UnlockAndGo(op, q)
  PROVE  InLine' = ch.waiters
<1>1. LockPart'
  BY ReleaseLock
<1>2. /\ ch.waiters \in Seq(Ops) /\ ch.full
      /\ ch = [full |-> ch.full, waiters |-> ch.waiters]
  BY DEF LockPart, Channel, LockMatchesHolder, Holders, HolderStates
<1>3. CASE ch.waiters = <<>>
  <2>1. ~ch'.full
    BY <1>2, <1>3 DEF UnlockAndGo, TryReceive
  <2>2. (LockPart /\ ~ch.full => InLine = <<>>)'
    BY LineOfNobody, PTL
  <2> QED
    BY <1>1, <1>3, <2>1, <2>2
<1>4. CASE ch.waiters # <<>>
  <2> DEFINE h == Head(ch.waiters)
  <2>1. h \in Ops /\ ch.waiters = <<h>> \o Tail(ch.waiters)
    BY <1>2, <1>4
  <2>2. ch'.waiters = Tail(ch.waiters)
    BY <1>2, <1>4 DEF UnlockAndGo, TryReceive
  <2>3. pc[h] = "waiting" /\ h \in Handed(ch)
    BY <1>2, <1>4, <2>1 DEF Handed, LockPart, QueueMatchesWaiting
  <2>4. pc'[h] = "granted"
    BY <2>1, <2>3 DEF UnlockAndGo, HolderStates
  <2>5. HolderLeadsLine'
    BY HoldersLeadLine, PTL
  <2>6. InLine' = <<h>> \o ch'.waiters
    BY <1>1, <2>1, <2>4, <2>5 DEF HolderLeadsLine, HolderStates
  <2> QED
    BY <2>1, <2>2, <2>6
<1> QED
  BY <1>3, <1>4

(* Inductive with LockInv: what is left of a message is what is not on the   *)
(* wire yet.                                                                 *)
CountInv == \A s \in Senders : left[s] + Cardinality(Writer!OnWire(s)) = Chunks

LEMMA ChunkCounted ==
  ASSUME LockInv, CountInv, NEW s \in Senders, write_some(s)
  PROVE  CountInv'
<1> DEFINE n == Len(wire)
<1>1. /\ wire \in Seq(Senders) /\ left \in [Senders -> 0 .. Chunks] /\ Chunks \in Nat
      /\ wire' = Append(wire, s) /\ left' = [left EXCEPT ![s] = left[s] - 1]
  BY OpsAssumption DEF LockInv, TypeOK, write_some
<1>2. /\ n \in Nat /\ Len(wire') = n + 1 /\ wire'[n + 1] = s
      /\ \A i \in 1 .. n : wire'[i] = wire[i]
  BY <1>1
<1> SUFFICES ASSUME NEW t \in Senders
             PROVE  left'[t] + Cardinality(Writer!OnWire(t)') = Chunks
  BY DEF CountInv
<1>3. IsFiniteSet(Writer!OnWire(t)) /\ Cardinality(Writer!OnWire(t)) \in Nat
  <2>1. IsFiniteSet(1 .. n) /\ Writer!OnWire(t) \in SUBSET (1 .. n)
    BY <1>2, FS_Interval DEF Writer!OnWire
  <2> QED
    BY <2>1, FS_Subset, FS_CardinalityType
<1>4. left[t] + Cardinality(Writer!OnWire(t)) = Chunks
  BY DEF CountInv
<1>5. CASE t = s
  <2>1. Writer!OnWire(t)' = Writer!OnWire(t) \cup {n + 1}
    BY <1>2, <1>5 DEF Writer!OnWire
  <2>2. n + 1 \notin Writer!OnWire(t)
    BY <1>2 DEF Writer!OnWire
  <2>3. Cardinality(Writer!OnWire(t)') = Cardinality(Writer!OnWire(t)) + 1
    BY <1>3, <2>1, <2>2, FS_AddElement
  <2> QED
    BY <1>1, <1>3, <1>4, <1>5, <2>3
<1>6. CASE t # s
  <2>1. Writer!OnWire(t)' = Writer!OnWire(t)
    BY <1>2, <1>6 DEF Writer!OnWire
  <2> QED
    BY <1>1, <1>4, <1>6, <2>1
<1> QED
  BY <1>5, <1>6

LEMMA CountInvariant ==
  ASSUME "waiting" \notin CancelPoints
  PROVE  Spec => []CountInv
<1>1. Init => CountInv
  <2> SUFFICES ASSUME Init, NEW s \in Senders
               PROVE  left[s] + Cardinality(Writer!OnWire(s)) = Chunks
    BY DEF CountInv
  <2>1. Writer!OnWire(s) = {} /\ left[s] = Chunks /\ Chunks \in Nat
    BY OpsAssumption DEF Init, Writer!OnWire
  <2> QED
    BY <2>1, FS_EmptySet
<1>2. LockInv /\ CountInv /\ [Next]_vars => CountInv'
  <2> SUFFICES ASSUME LockInv, CountInv, [Next]_vars PROVE CountInv'
    OBVIOUS
  <2>1. CASE \E s \in Senders : write_some(s)
    BY <2>1, ChunkCounted
  <2>2. CASE ~\E s \in Senders : write_some(s)
    <3>1. UNCHANGED <<left, wire>>
      BY <2>2 DEF Next, SenderStep, DisconnectStep, async_send, resume_send, write_fail,
                  abandon_send, cancel_send, async_disconnect, resume_disconnect, wait_error,
                  disconnect_timeout, close, peer_turns, vars
    <3> QED
      BY <3>1 DEF CountInv, Writer!OnWire
  <2> QED
    BY <2>1, <2>2
<1> QED
  BY <1>1, <1>2, LockInvariant, PTL DEF Spec

(* A call gets in line: at its head when the lock is free, else at its end.  *)
LEMMA JoiningSubmits ==
  ASSUME LockPart, NEW op \in Ops, pc[op] = "idle", Writer!OnWire(op) = {}, UNCHANGED wire,
         \/ CanSend(ch) /\ ch' = TrySend(ch) /\ pc' = [pc EXCEPT ![op] = "writing"]
         \/ ~CanSend(ch) /\ ch' = AsyncSend(ch, op) /\ pc' = [pc EXCEPT ![op] = "waiting"]
  PROVE  Writer!Submit(op)
<1>0. /\ ch.waiters \in Seq(Ops) /\ pc \in [Ops -> PcStates]
      /\ ch = [full |-> ch.full, waiters |-> ch.waiters]
  BY DEF LockPart, Channel
<1>1. ~Writer!InLineAlready(op)
  BY LineShape DEF Writer!InLineAlready, HolderStates
<1>2. InLine' = Append(InLine, op)
  <2>1. CASE CanSend(ch)
    <3>1. InLine = <<>> /\ ch.waiters = <<>>
      BY <2>1, LineOfNobody DEF CanSend, LockPart, LockMatchesHolder, NoWaiterOnFreeLock
    <3>2. ch'.waiters = <<>> /\ pc'[op] = "writing" /\ LockPart'
      BY <2>1, <1>0, <3>1, TakeLock DEF TrySend
    <3>3. HolderLeadsLine'
      BY HoldersLeadLine, PTL
    <3>4. InLine' = <<op>> \o <<>>
      BY <3>2, <3>3 DEF HolderLeadsLine, HolderStates
    <3> QED
      BY <3>1, <3>4
  <2>2. CASE ~CanSend(ch)
    <3>1. PICK o \in Ops : pc[o] \in HolderStates
      BY <2>2 DEF CanSend, LockPart, LockMatchesHolder, Holders, HolderStates
    <3>2. InLine = <<o>> \o ch.waiters
      BY <3>1, LineOfHolder
    <3>3. ch'.waiters = Append(ch.waiters, op) /\ LockPart' /\ pc'[o] \in HolderStates
      BY <2>2, <1>0, <3>1, QueueOnLock DEF AsyncSend, HolderStates
    <3>4. HolderLeadsLine'
      BY HoldersLeadLine, PTL
    <3>5. InLine' = <<o>> \o Append(ch.waiters, op)
      BY <3>3, <3>4 DEF HolderLeadsLine
    <3>6. <<o>> \o Append(ch.waiters, op) = Append(<<o>> \o ch.waiters, op)
      BY <1>0
    <3> QED
      BY <3>2, <3>5, <3>6
  <2> QED
    BY <2>1, <2>2
<1> QED
  BY <1>1, <1>2 DEF Writer!Submit

(* A release that writes nothing lets the first in line leave.               *)
LEMMA ReleaseLeaves ==
  ASSUME LockPart, NEW op \in Ops, pc[op] \in HolderStates, UNCHANGED wire,
         NEW q \in {"lingering", "ok", "failed"}, UnlockAndGo(op, q)
  PROVE  \E k \in 1 .. Len(InLine) : Writer!Leave(k)
<1> DEFINE w == ch.waiters
<1>1. w \in Seq(Ops) /\ InLine = <<op>> \o w /\ InLine' = w
  BY LineOfHolder, ReleaseAdvancesLine DEF LockPart, Channel
<1>2. /\ Len(w) \in Nat /\ Len(InLine) = Len(w) + 1
      /\ \A i \in 1 .. Len(w) : InLine[i + 1] = w[i]
  BY <1>1
<1>3. w = [i \in 1 .. Len(InLine) - 1 |-> IF i < 1 THEN InLine[i] ELSE InLine[i + 1]]
  <2>1. w = [i \in 1 .. Len(w) |-> w[i]]
    BY <1>1
  <2>2. 1 .. Len(InLine) - 1 = 1 .. Len(w)
    BY <1>2
  <2>3. \A i \in 1 .. Len(w) : w[i] = IF i < 1 THEN InLine[i] ELSE InLine[i + 1]
    BY <1>2
  <2> QED
    BY <2>1, <2>2, <2>3
<1>4. Writer!Leave(1) /\ 1 \in 1 .. Len(InLine)
  BY <1>1, <1>2, <1>3 DEF Writer!Leave
<1> QED
  BY <1>4

(* The writer counts with the Cardinality of its own FiniteSets.             *)
LEMMA SameCardinality == \A S : Writer!Cardinality(S) = Cardinality(S)
BY DEF Writer!Cardinality, Cardinality

(* A chunk: the writing send is the first in line, and leaves with its last. *)
LEMMA WritingPuts ==
  ASSUME LockInv, CountInv, NEW s \in Senders, write_some(s)
  PROVE  Writer!Put
<1>1. /\ LockPart /\ s \in Ops /\ pc[s] = "writing" /\ wire' = Append(wire, s)
      /\ left[s] \in 0 .. Chunks /\ Chunks \in Nat /\ wire \in Seq(Senders)
  BY LockInvParts, OpsAssumption DEF TypeOK, Ops, write_some
<1>2. InLine = <<s>> \o ch.waiters /\ ch.waiters \in Seq(Ops)
  BY <1>1, LineOfHolder DEF HolderStates, LockPart, Channel
<1>3. InLine # <<>> /\ Head(InLine) = s /\ Tail(InLine) = ch.waiters
  BY <1>1, <1>2
<1>4. left[s] + Cardinality(Writer!OnWire(s)) = Chunks /\ Cardinality(Writer!OnWire(s)) \in Nat
  <2>1. 1 \in Int /\ Len(wire) \in Int
    BY <1>1
  <2>2. IsFiniteSet(1 .. Len(wire))
    BY <2>1, FS_Interval
  <2>3. IsFiniteSet(Writer!OnWire(s))
    BY <2>2, FS_Subset DEF Writer!OnWire
  <2> QED
    BY <2>3, FS_CardinalityType DEF CountInv
<1>5. Writer!OnWire(Head(InLine)) = Writer!OnWire(s)
  BY <1>3 DEF Writer!OnWire
<1>6. CASE left[s] > 1 /\ UNCHANGED <<ch, pc>>
  <2>1. InLine' = InLine
    BY <1>6 DEF InLine, Holders
  <2>2. Cardinality(Writer!OnWire(s)) # Chunks - 1
    BY <1>1, <1>4, <1>6
  <2> QED
    BY <1>1, <1>3, <1>5, <2>1, <2>2, SameCardinality DEF Writer!Put
<1>7. CASE left[s] = 1 /\ UnlockAndGo(s, "ok")
  <2>1. InLine' = ch.waiters
    BY <1>1, <1>7, ReleaseAdvancesLine DEF HolderStates
  <2>2. Cardinality(Writer!OnWire(s)) = Chunks - 1
    BY <1>1, <1>4, <1>7
  <2> QED
    BY <1>1, <1>3, <1>5, <2>1, <2>2, SameCardinality DEF Writer!Put
<1> QED
  BY <1>6, <1>7 DEF write_some

(* Every step of the stream is a step of the writer or changes nothing it    *)
(* can see.                                                                  *)
LEMMA StepMaps ==
  ASSUME "waiting" \notin CancelPoints, LockInv, WireInv, CountInv, [Next]_vars
  PROVE  Writer!Next \/ UNCHANGED Writer!vars
<1> USE LockInvParts, OpsAssumption
<1>a. /\ LockPart /\ wire \in Seq(Senders) /\ pc \in [Ops -> PcStates]
      /\ \A s \in Senders : s \in Ops
      /\ \A d \in Disconnects : d \in Ops /\ d \notin Senders
  BY DEF TypeOK, Ops
<1>1. ASSUME UNCHANGED <<ch, wire>>, \A o \in Ops : pc'[o] \in HolderStates <=> pc[o] \in HolderStates
      PROVE  UNCHANGED Writer!vars
  <2>1. Holders' = Holders
    BY <1>1 DEF Holders, HolderStates
  <2> QED
    BY <1>1, <2>1 DEF Writer!vars, InLine
<1>2. ASSUME NEW op \in Ops, pc[op] \in HolderStates, UNCHANGED wire,
             NEW q \in {"lingering", "ok", "failed"}, UnlockAndGo(op, q)
      PROVE  Writer!Next
  BY <1>2, <1>a, ReleaseLeaves DEF Writer!Next
<1>3. ASSUME NEW s \in Senders, async_send(s)
      PROVE  Writer!Next
  <2>1. Writer!OnWire(s) = {}
    BY <1>3 DEF async_send, WireInv, Unbegun, OnWire, Writer!OnWire
  <2>2. Writer!Submit(s)
    BY <1>3, <1>a, <2>1, JoiningSubmits DEF async_send
  <2> QED
    BY <2>2 DEF Writer!Next
<1>4. ASSUME NEW s \in Senders, resume_send(s) \/ cancel_send(s)
      PROVE  UNCHANGED Writer!vars
  BY <1>4, <1>1, <1>a DEF resume_send, cancel_send, HolderStates
<1>5. ASSUME NEW s \in Senders, write_some(s)
      PROVE  Writer!Next
  BY <1>5, WritingPuts DEF Writer!Next
<1>6. ASSUME NEW s \in Senders, write_fail(s) \/ abandon_send(s)
      PROVE  Writer!Next
  <2>1. pc[s] \in HolderStates /\ UnlockAndGo(s, "failed") /\ UNCHANGED wire
    BY <1>6, <1>a DEF write_fail, abandon_send, LockPart, HolderStates
  <2> QED
    BY <2>1, <1>2, <1>a
<1>7. ASSUME NEW d \in Disconnects, async_disconnect(d)
      PROVE  Writer!Next \/ UNCHANGED Writer!vars
  <2>1. CASE sock # "closed" /\ ~CanSend(ch)
    <3>1. Writer!OnWire(d) = {}
      BY <1>a DEF Writer!OnWire
    <3>2. Writer!Submit(d)
      BY <1>7, <2>1, <1>a, <3>1, JoiningSubmits DEF async_disconnect
    <3> QED
      BY <3>2 DEF Writer!Next
  <2>2. CASE ~(sock # "closed" /\ ~CanSend(ch))
    BY <1>7, <2>2, <1>1, <1>a DEF async_disconnect, HolderStates
  <2> QED
    BY <2>1, <2>2
<1>8. ASSUME NEW d \in Disconnects, resume_disconnect(d)
      PROVE  Writer!Next
  <2>1. pc[d] \in HolderStates /\ UNCHANGED wire
        /\ \E q \in {"lingering", "ok", "failed"} : UnlockAndGo(d, q)
    BY <1>8 DEF resume_disconnect, HolderStates
  <2> QED
    BY <2>1, <1>2, <1>a
<1>9. ASSUME NEW d \in Disconnects, wait_error(d) \/ disconnect_timeout(d)
      PROVE  UNCHANGED Writer!vars
  BY <1>9, <1>1, <1>a DEF wait_error, disconnect_timeout, HolderStates
<1>10. CASE close \/ (\E p \in PeerStates : peer_turns(p)) \/ UNCHANGED vars
  BY <1>10, <1>1 DEF close, peer_turns, vars
<1> QED
  BY <1>3, <1>4, <1>5, <1>6, <1>7, <1>8, <1>9, <1>10 DEF Next, SenderStep, DisconnectStep

(* The stream implements the serial writer: messages reach the wire whole,   *)
(* one after the other and in the order of the async_send calls, whatever    *)
(* the peer, the disconnects and the cancellations of running writes do.     *)
THEOREM StreamImplementsWriter ==
  ASSUME "waiting" \notin CancelPoints
  PROVE  Spec => ImplementsSerialWriter
<1>1. Init => Writer!Init
  BY DEF Init, NewChannel, Holders, InLine, Writer!Init
<1>2. LockInv /\ WireInv /\ CountInv /\ [Next]_vars => [Writer!Next]_(Writer!vars)
  BY StepMaps
<1> QED
  BY <1>1, <1>2, LockInvariant, WireInvariant, CountInvariant, PTL
  DEF Spec, ImplementsSerialWriter, Writer!Spec
=============================================================================
