--------------------------- MODULE RpcCallerProofs ---------------------------
(***************************************************************************)
(* For any calls, however the sides' calls nest and overlap: callbacks     *)
(* live exactly as long as their calls.  When none begins while another    *)
(* request of its side is unsent: a call returns what its response says,   *)
(* and the implementation of RemoteCall, that is at most one run of a      *)
(* function for each call.                                                 *)
(* Last, the frames the messages travel in: each is found as a whole, and  *)
(* only as a whole, for every length below 2^63 and however it is cut.     *)
(***************************************************************************)
EXTENDS MCRpcCaller, SequenceTheorems, TLAPS

IsRequest(m) == m.kind = "request"

(* The requests queued on a side are of its own calls, which are in          *)
(* async_send, each once; and there is something to view.                    *)
QueuePart ==
  /\ \A e \in Sides : \A i \in 1 .. Len(sendq[e]) :
       IsRequest(sendq[e][i]) =>
         /\ From[sendq[e][i].call] = e
         /\ call[sendq[e][i].call] = "sending"
         /\ buffer[e] \in Message
  /\ \A e \in Sides : \A i, j \in 1 .. Len(sendq[e]) :
       IsRequest(sendq[e][i]) /\ IsRequest(sendq[e][j]) /\ sendq[e][i].call = sendq[e][j].call
         => i = j

(* Callbacks are registered with the side that calls.                        *)
PendingIsOwn == \A e \in Sides : \A c \in pending[e] : From[c] = e

InvokingServes == \A e \in Sides : recv[e] = "invoking" => serving[e] \in Calls

CallerInv ==
  TypeOK /\ QueuePart /\ PendingIsOwn /\ PendingMatchesCalls /\ InvokingServes

(* The calls whose request has left the queue, and whose function has run.   *)
SentCalls == {c \in Calls : call[c] \notin {"idle", "sending"}}
RanCalls == {c \in Calls : runs[c] = 1}

(* A response follows its request, and an answer the run of the function.    *)
IsReply(m, S, R) ==
  m.kind \in Replies /\ m.call \in S /\ (m.kind = "answer" => m.call \in R)

(* The queue of a side holds responses and at most one request, whose view   *)
(* shows it or a response that was serialized into the buffer since.         *)
QueueOf(q, b, S, R) ==
  /\ \A i \in 1 .. Len(q) :
       \/ IsRequest(q[i]) /\ (b = q[i] \/ IsReply(b, S, R))
       \/ IsReply(q[i], S, R)
  /\ \A i, j \in 1 .. Len(q) : IsRequest(q[i]) /\ IsRequest(q[j]) => i = j

(* On the way from a side are responses and requests of its calls, each the  *)
(* only one of its call, which has not run.                                  *)
Unrun(e) == {c \in SentCalls \ RanCalls : From[c] = e}
WireOf(q, N, S, R) ==
  /\ \A i \in 1 .. Len(q) : (IsRequest(q[i]) /\ q[i].call \in N) \/ IsReply(q[i], S, R)
  /\ \A i, j \in 1 .. Len(q) :
       IsRequest(q[i]) /\ IsRequest(q[j]) /\ q[i].call = q[j].call => i = j

SideOk(e) ==
  /\ QueueOf(sendq[e], buffer[e], SentCalls, RanCalls)
  /\ WireOf(wire[e], Unrun(e), SentCalls, RanCalls)
  /\ recv[e] = "invoking" => serving[e] \in SentCalls \cap RanCalls

Outcomes ==
  \A c \in Calls :
    /\ runs[c] \in {0, 1} /\ (c \in RanCalls => c \in SentCalls)
    /\ notified[c] # "none" => c \in SentCalls /\ c \notin OneWay
    /\ "answer" \in {notified[c], result[c]} => c \in RanCalls

(* When no call begins while another request of its side is unsent.          *)
SerialParts == (\A e \in Sides : SideOk(e)) /\ Outcomes /\ ResponseBeatsTimeout
SerialInv == CallerInv /\ SerialParts

USE CallsAssumption

Results == {"none", "timed_out", "send_error", "sent"} \cup Replies

LEMMA Types ==
  ASSUME TypeOK
  PROVE  /\ \A c \in Calls : From[c] \in Sides /\ Inside[c] \in Calls \cup {NoCall}
         /\ \A e \in Sides : sendq[e] \in Seq(Message) /\ wire[e] \in Seq(Message)
         /\ \A e \in Sides : Peer(e) \in Sides /\ Peer(e) # e
         /\ \A m \in Message : m.call \in Calls /\ m.kind \in {"request"} \cup Replies
         /\ \A c \in Calls : Request(c) \in Message /\ Request(c).call = c
                              /\ Request(c).kind = "request"
         /\ \A c \in Calls : \A k \in Replies :
              Response(c, k) \in Message /\ Response(c, k).call = c /\ Response(c, k).kind = k
<1>1. nesting \in [from : [Calls -> Sides], inside : [Calls -> Calls \cup {NoCall}]]
  BY DEF TypeOK
<1>2. \A e \in Sides : Peer(e) \in Sides /\ Peer(e) # e
  <2> SUFFICES ASSUME NEW e \in Sides PROVE Peer(e) \in Sides /\ Peer(e) # e
    OBVIOUS
  <2>1. \E f \in Sides : f # e
    BY DEF Sides
  <2> QED
    BY <2>1 DEF Peer
<1> QED
  BY <1>1, <1>2 DEF TypeOK, From, Inside, Message, Request, Response, Replies

(* The head and the rest of a queue. *)
LEMMA Split ==
  ASSUME NEW S, NEW q \in Seq(S), q # <<>>
  PROVE  /\ Len(q) \in Nat /\ Len(q) > 0 /\ Head(q) = q[1] /\ q[1] \in S
         /\ Tail(q) \in Seq(S) /\ Len(Tail(q)) = Len(q) - 1
         /\ \A i \in 1 .. Len(Tail(q)) : Tail(q)[i] = q[i + 1] /\ i + 1 \in 1 .. Len(q)
  OBVIOUS

LEMMA EmptyQueue == \A S : <<>> \in Seq(S) /\ Len(<<>>) = 0
  OBVIOUS

LEMMA Extend ==
  ASSUME NEW S, NEW q \in Seq(S), NEW m \in S
  PROVE  /\ Len(q) \in Nat
         /\ Append(q, m) \in Seq(S) /\ Len(Append(q, m)) = Len(q) + 1
         /\ Append(q, m)[Len(q) + 1] = m
         /\ \A i \in 1 .. Len(q) : Append(q, m)[i] = q[i]
  OBVIOUS
------------------------------------------------------------------------------
(* Callbacks live as long as their calls.                                    *)

(* A call that is sending goes on, and the queues stay. *)
LEMMA QueuesStay ==
  ASSUME QueuePart, UNCHANGED <<nesting, sendq>>,
         \A c \in Calls : call[c] = "sending" => call'[c] = "sending",
         \A e \in Sides : buffer[e] \in Message => buffer'[e] \in Message,
         TypeOK
  PROVE  QueuePart'
<1>1. \A e \in Sides : \A i \in 1 .. Len(sendq[e]) : sendq[e][i].call \in Calls
  BY Types
<1> QED
  BY <1>1 DEF QueuePart, IsRequest, From

(* The first message of a queue goes, and its call goes on. *)
LEMMA Dequeue ==
  ASSUME TypeOK, QueuePart, NEW e \in Sides, sendq[e] # <<>>,
         sendq' = [sendq EXCEPT ![e] = Tail(@)], UNCHANGED <<nesting, buffer>>,
         \A c \in Calls : call[c] = "sending" /\ call'[c] # "sending" =>
           IsRequest(Head(sendq[e])) /\ c = Head(sendq[e]).call
  PROVE  QueuePart' /\ sendq' \in [Sides -> Seq(Message)]
<1> DEFINE q == sendq[e]
<1>1. /\ Len(q) \in Nat /\ Len(q) > 0 /\ Head(q) = q[1] /\ q[1] \in Message
      /\ Tail(q) \in Seq(Message) /\ Len(Tail(q)) = Len(q) - 1
      /\ \A i \in 1 .. Len(Tail(q)) : Tail(q)[i] = q[i + 1] /\ i + 1 \in 1 .. Len(q)
  BY Types, Split, Zenon
<1>2. /\ sendq' \in [Sides -> Seq(Message)] /\ sendq'[e] = Tail(q)
      /\ \A f \in Sides : f # e => sendq'[f] = sendq[f]
  BY <1>1 DEF TypeOK
<1>3. ASSUME NEW f \in Sides, NEW i \in 1 .. Len(sendq'[f]), IsRequest(sendq'[f][i])
      PROVE  /\ From[sendq'[f][i].call] = f
             /\ call'[sendq'[f][i].call] = "sending"
             /\ buffer[f] \in Message
  <2>1. CASE f = e
    <3> DEFINE m == q[i + 1]
    <3>1. sendq'[f][i] = m /\ i + 1 \in 1 .. Len(q) /\ m \in Message /\ IsRequest(m)
      BY <1>1, <1>2, <1>3, <2>1, Types
    <3>2. From[m.call] = e /\ call[m.call] = "sending" /\ buffer[e] \in Message /\ m.call \in Calls
      BY <3>1, Types DEF QueuePart
    <3>3. IsRequest(q[1]) => m.call # q[1].call
      <4>1. 1 \in 1 .. Len(q) /\ i + 1 # 1
        BY <1>1, <1>2, <2>1
      <4> QED
        BY <3>1, <4>1 DEF QueuePart
    <3> QED
      BY <3>1, <3>2, <3>3, <1>1, <2>1
  <2>2. CASE f # e
    <3> DEFINE m == sendq[f][i]
    <3>1. sendq'[f][i] = m /\ i \in 1 .. Len(sendq[f]) /\ m \in Message /\ IsRequest(m)
      BY <1>2, <1>3, <2>2, Types
    <3>2. From[m.call] = f /\ call[m.call] = "sending" /\ buffer[f] \in Message /\ m.call \in Calls
      BY <3>1, Types DEF QueuePart
    <3>3. IsRequest(q[1]) => From[q[1].call] = e
      BY <1>1 DEF QueuePart
    <3> QED
      BY <3>1, <3>2, <3>3, <1>1, <2>2
  <2> QED
    BY <2>1, <2>2
<1>4. ASSUME NEW f \in Sides, NEW i \in 1 .. Len(sendq'[f]), NEW j \in 1 .. Len(sendq'[f]),
             IsRequest(sendq'[f][i]), IsRequest(sendq'[f][j]),
             sendq'[f][i].call = sendq'[f][j].call
      PROVE  i = j
  <2>1. CASE f = e
    <3>1. i + 1 = j + 1
      BY <1>1, <1>2, <1>4, <2>1 DEF QueuePart
    <3> QED
      BY <3>1, <1>1, <1>2, <2>1
  <2>2. CASE f # e
    BY <1>2, <1>4, <2>2 DEF QueuePart
  <2> QED
    BY <2>1, <2>2
<1>5. \A f \in Sides : \A i \in 1 .. Len(sendq'[f]) : IsRequest(sendq'[f][i]) =>
        From'[sendq'[f][i].call] = f /\ call'[sendq'[f][i].call] = "sending" /\ buffer'[f] \in Message
  BY <1>3, ZenonT(30) DEF From
<1>6. \A f \in Sides : \A i, j \in 1 .. Len(sendq'[f]) :
        IsRequest(sendq'[f][i]) /\ IsRequest(sendq'[f][j]) /\ sendq'[f][i].call = sendq'[f][j].call
          => i = j
  BY <1>4
<1> QED
  BY <1>2, <1>5, <1>6, SMTT(30) DEF QueuePart

(* A message joins a queue: a reply, or the request of a call that begins. *)
LEMMA Enqueue ==
  ASSUME TypeOK, QueuePart, NEW e \in Sides, NEW m \in Message,
         sendq' = [sendq EXCEPT ![e] = Append(@, m)],
         buffer' = [buffer EXCEPT ![e] = m], UNCHANGED nesting,
         \A c \in Calls : call[c] = "sending" => call'[c] = "sending",
         IsRequest(m) => From[m.call] = e /\ call[m.call] = "idle" /\ call'[m.call] = "sending"
  PROVE  QueuePart' /\ sendq' \in [Sides -> Seq(Message)]
<1> DEFINE q == sendq[e]
           n == Len(q) + 1
<1>1. /\ Len(q) \in Nat
      /\ Append(q, m) \in Seq(Message) /\ Len(Append(q, m)) = n /\ Append(q, m)[n] = m
      /\ \A i \in 1 .. Len(q) : Append(q, m)[i] = q[i]
  BY Types, Extend
<1>2. /\ sendq' \in [Sides -> Seq(Message)] /\ sendq'[e] = Append(q, m)
      /\ \A f \in Sides : f # e => sendq'[f] = sendq[f]
      /\ buffer'[e] = m /\ \A f \in Sides : f # e => buffer'[f] = buffer[f]
  BY <1>1 DEF TypeOK
<1>3. ASSUME NEW f \in Sides, NEW i \in 1 .. Len(sendq[f]), IsRequest(sendq[f][i])
      PROVE  /\ From[sendq[f][i].call] = f
             /\ call[sendq[f][i].call] = "sending" /\ call'[sendq[f][i].call] = "sending"
             /\ buffer'[f] \in Message
  BY <1>2, <1>3, Types DEF QueuePart
<1>4. ASSUME NEW f \in Sides, NEW i \in 1 .. Len(sendq'[f]), IsRequest(sendq'[f][i])
      PROVE  /\ From[sendq'[f][i].call] = f
             /\ call'[sendq'[f][i].call] = "sending"
             /\ buffer'[f] \in Message
  <2>1. CASE f = e /\ i = n
    BY <1>1, <1>2, <1>4, <2>1
  <2>2. CASE f = e /\ i # n
    <3>1. i \in 1 .. Len(q) /\ sendq'[f][i] = q[i]
      BY <1>1, <1>2, <2>2
    <3> QED
      BY <3>1, <1>3, <1>4, <2>2
  <2>3. CASE f # e
    BY <1>2, <1>3, <1>4, <2>3
  <2> QED
    BY <2>1, <2>2, <2>3
<1>5. ASSUME NEW f \in Sides, NEW i \in 1 .. Len(sendq'[f]), NEW j \in 1 .. Len(sendq'[f]),
             IsRequest(sendq'[f][i]), IsRequest(sendq'[f][j]),
             sendq'[f][i].call = sendq'[f][j].call
      PROVE  i = j
  <2>1. CASE f # e
    BY <1>2, <1>5, <2>1 DEF QueuePart
  <2>2. CASE f = e /\ i # n /\ j # n
    BY <1>1, <1>2, <1>5, <2>2 DEF QueuePart
  <2>3. ASSUME f = e, NEW k \in 1 .. Len(q), IsRequest(q[k]), IsRequest(m), q[k].call = m.call
        PROVE  FALSE
    BY <2>3, <1>3
  <2>4. CASE f = e /\ i = n /\ j # n
    BY <1>1, <1>2, <1>5, <2>3, <2>4
  <2>5. CASE f = e /\ i # n /\ j = n
    BY <1>1, <1>2, <1>5, <2>3, <2>5
  <2> QED
    BY <2>1, <2>2, <2>4, <2>5
<1>6. \A f \in Sides : \A i \in 1 .. Len(sendq'[f]) : IsRequest(sendq'[f][i]) =>
        From'[sendq'[f][i].call] = f /\ call'[sendq'[f][i].call] = "sending" /\ buffer'[f] \in Message
  BY <1>4 DEF From
<1>7. \A f \in Sides : \A i, j \in 1 .. Len(sendq'[f]) :
        IsRequest(sendq'[f][i]) /\ IsRequest(sendq'[f][j]) /\ sendq'[f][i].call = sendq'[f][j].call
          => i = j
  BY <1>5
<1> HIDE DEF q, n
<1>8. QueuePart'
  BY <1>6, <1>7, SMTT(30) DEF QueuePart
<1> QED
  BY <1>2, <1>8

(* A call that returns takes its callback with it. *)
LEMMA Returning ==
  ASSUME TypeOK, PendingIsOwn, PendingMatchesCalls, NEW c \in Calls, NEW r \in Results,
         Return(c, r), UNCHANGED nesting
  PROVE  /\ call' \in [Calls -> CallStates] /\ notified' = notified
         /\ result' \in [Calls -> Results] /\ pending' \in [Sides -> SUBSET Calls]
         /\ PendingIsOwn' /\ PendingMatchesCalls'
         /\ call'[c] = "done" /\ \A d \in Calls : d # c => call'[d] = call[d]
<1>1. From[c] \in Sides
  BY Types
<1>2. /\ call' \in [Calls -> CallStates] /\ notified' = notified
      /\ result' \in [Calls -> Results] /\ pending' \in [Sides -> SUBSET Calls]
      /\ call'[c] = "done" /\ \A d \in Calls : d # c => call'[d] = call[d]
  BY DEF Return, TypeOK, CallStates, Results
<1>3. \A e \in Sides : pending'[e] = IF e = From[c] THEN pending[e] \ {c} ELSE pending[e]
  BY <1>1 DEF Return, TypeOK
<1>4. PendingIsOwn'
  BY <1>3 DEF PendingIsOwn, From
<1>5. PendingMatchesCalls'
  <2> SUFFICES ASSUME NEW d \in Calls
               PROVE  d \in pending'[From[d]] <=> InFlight(d)' /\ d \notin OneWay
    BY DEF PendingMatchesCalls, From
  <2>1. From[d] \in Sides
    BY Types
  <2>2. CASE d = c
    BY <2>1, <2>2, <1>2, <1>3 DEF InFlight
  <2>3. CASE d # c
    BY <2>1, <2>3, <1>2, <1>3 DEF InFlight, PendingMatchesCalls
  <2> QED
    BY <2>2, <2>3
<1> QED
  BY <1>2, <1>4, <1>5

(* Calls that go on keep their callbacks. *)
LEMMA GoingOn ==
  ASSUME PendingIsOwn, PendingMatchesCalls, UNCHANGED <<nesting, pending>>,
         \A c \in Calls : InFlight(c)' <=> InFlight(c)
  PROVE  PendingIsOwn' /\ PendingMatchesCalls'
  BY DEF PendingIsOwn, PendingMatchesCalls, From

(* What a do_recv that goes on, leaves, or starts a function may do.         *)
RecvType ==
  /\ recv \in [Sides -> {"reading", "invoking", "replying", "left"}]
  /\ serving \in [Sides -> Calls \cup {NoCall}]
  /\ open \in [Sides -> BOOLEAN]
  /\ runs \in [Calls -> Nat]

LEMMA Replying ==
  ASSUME TypeOK, InvokingServes, NEW e \in Sides, NEW m, Replied(m, e) \/ Leave(e) \/ ReadOn(e)
  PROVE  /\ RecvType' /\ InvokingServes' /\ runs' = runs
         /\ recv'[e] \in {"reading", "left"}
         /\ \A f \in Sides : f # e => recv'[f] = recv[f] /\ serving'[f] = serving[f]
  BY DEF TypeOK, RecvType, InvokingServes, Replied, Leave, ReadOn

LEMMA CallInv ==
  ASSUME CallerInv, NEW c \in Calls, async_call(c), UNCHANGED nesting
  PROVE  CallerInv'
<1> DEFINE e == From[c]
           m == Request(c)
<1> USE DEF CallerInv
<1>1. e \in Sides /\ m \in Message /\ m.call = c
  BY Types
<1>2. /\ sendq' = [sendq EXCEPT ![e] = Append(@, m)] /\ buffer' = [buffer EXCEPT ![e] = m]
      /\ call[c] = "idle" /\ call' = [call EXCEPT ![c] = "sending"]
      /\ pending' = [pending EXCEPT ![e] = @ \cup ({c} \ OneWay)]
      /\ UNCHANGED <<notified, result, wire, recvVars, open>>
  BY DEF async_call
<1>3. call'[c] = "sending" /\ \A d \in Calls : d # c => call'[d] = call[d]
  BY <1>2 DEF TypeOK
<1>4. QueuePart' /\ sendq' \in [Sides -> Seq(Message)]
  <2>1. \A d \in Calls : call[d] = "sending" => call'[d] = "sending"
    BY <1>3
  <2>2. IsRequest(m) => From[m.call] = e /\ call[m.call] = "idle" /\ call'[m.call] = "sending"
    BY <1>1, <1>2, <1>3
  <2> HIDE DEF e, m
  <2> QED
    BY <1>1, <1>2, <2>1, <2>2, Enqueue
<1>5. TypeOK'
  BY <1>1, <1>2, <1>4 DEF TypeOK, CallStates, recvVars
<1>6. pending'[e] = pending[e] \cup ({c} \ OneWay) /\ \A f \in Sides : f # e => pending'[f] = pending[f]
  BY <1>1, <1>2 DEF TypeOK
<1>7. PendingIsOwn'
  <2> SUFFICES ASSUME NEW f \in Sides, NEW d \in pending'[f] PROVE From[d] = f
    BY DEF PendingIsOwn, From, async_call
  <2> QED
    BY <1>6 DEF PendingIsOwn
<1>8. PendingMatchesCalls'
  <2> SUFFICES ASSUME NEW d \in Calls
               PROVE  d \in pending'[From[d]] <=> InFlight(d)' /\ d \notin OneWay
    BY DEF PendingMatchesCalls, From
  <2>1. From[d] \in Sides
    BY Types
  <2>2. CASE d = c
    <3>1. c \notin pending[e]
      BY <1>2 DEF PendingMatchesCalls, InFlight
    <3> QED
      BY <3>1, <2>2, <1>3, <1>6 DEF InFlight
  <2>3. CASE d # c
    BY <2>1, <2>3, <1>3, <1>6 DEF InFlight, PendingMatchesCalls
  <2> QED
    BY <2>2, <2>3
<1>9. InvokingServes'
  BY <1>2 DEF InvokingServes, recvVars
<1> QED
  BY <1>4, <1>5, <1>7, <1>8, <1>9

(* The head of a queue, when it is a request. *)
LEMMA HeadOfQueue ==
  ASSUME TypeOK, QueuePart, NEW e \in Sides, sendq[e] # <<>>
  PROVE  LET m == Head(sendq[e]) IN
         /\ m \in Message /\ m.call \in Calls
         /\ IsRequest(m) => From[m.call] = e /\ call[m.call] = "sending" /\ buffer[e] \in Message
<1>1. sendq[e] \in Seq(Message)
  BY Types
<1>2. Head(sendq[e]) = sendq[e][1] /\ 1 \in 1 .. Len(sendq[e]) /\ sendq[e][1] \in Message
  BY <1>1
<1> QED
  BY <1>2, Types DEF QueuePart

LEMMA WriteInv ==
  ASSUME CallerInv, NEW e \in Sides, write(e) \/ send_fail(e), UNCHANGED nesting
  PROVE  CallerInv'
<1> DEFINE m == Head(sendq[e])
<1> USE DEF CallerInv
<1>1. /\ sendq[e] # <<>> /\ sendq' = [sendq EXCEPT ![e] = Tail(@)] /\ UNCHANGED buffer
  BY DEF write, send_fail
<1>2. /\ m \in Message /\ m.call \in Calls
      /\ IsRequest(m) => From[m.call] = e /\ call[m.call] = "sending" /\ buffer[e] \in Message
  BY <1>1, HeadOfQueue
<1>3. wire' \in [Sides -> Seq(Message)]
  <2>1. CASE write(e)
    <3>1. Written(m, e) \in Message
      BY <1>2 DEF Written, IsRequest
    <3>2. wire[e] \in Seq(Message) /\ Append(wire[e], Written(m, e)) \in Seq(Message)
      BY <3>1, Types, Extend
    <3> QED
      BY <2>1, <3>2 DEF write, TypeOK
  <2>2. CASE send_fail(e)
    BY <2>2 DEF send_fail, TypeOK
  <2> QED
    BY <2>1, <2>2
<1>4. CASE IsRequest(m)
  <2>1. UNCHANGED <<recvVars, open>>
    BY <1>4 DEF write, send_fail, IsRequest, Replies
  <2>2. /\ call' \in [Calls -> CallStates] /\ notified' = notified
        /\ result' \in [Calls -> Results] /\ pending' \in [Sides -> SUBSET Calls]
        /\ PendingIsOwn' /\ PendingMatchesCalls'
        /\ \A d \in Calls : d # m.call => call'[d] = call[d]
    <3>1. CASE \E r \in Results : Return(m.call, r)
      <4> HIDE DEF m
      <4> QED
        BY <1>2, <3>1, Returning
    <3>2. CASE call' = [call EXCEPT ![m.call] = "waiting"] /\ UNCHANGED <<notified, result, pending>>
      <4>1. /\ call' \in [Calls -> CallStates]
            /\ call'[m.call] = "waiting" /\ \A d \in Calls : d # m.call => call'[d] = call[d]
        BY <1>2, <3>2 DEF TypeOK, CallStates
      <4>2. \A d \in Calls : InFlight(d)' <=> InFlight(d)
        BY <4>1, <1>2, <1>4 DEF InFlight
      <4>3. PendingIsOwn' /\ PendingMatchesCalls'
        BY <3>2, <4>2, GoingOn
      <4> QED
        BY <3>2, <4>1, <4>3 DEF TypeOK, Results
    <3> QED
      BY <1>4, <3>1, <3>2 DEF write, send_fail, IsRequest, Replies, Results
  <2>3. QueuePart' /\ sendq' \in [Sides -> Seq(Message)]
    <3>1. \A d \in Calls : call[d] = "sending" /\ call'[d] # "sending" => IsRequest(m) /\ d = m.call
      BY <1>4, <2>2
    <3> QED
      BY <1>1, <3>1, Dequeue
  <2>4. TypeOK'
    BY <1>1, <1>3, <2>1, <2>2, <2>3 DEF TypeOK, Results, recvVars
  <2> QED
    BY <2>1, <2>2, <2>3, <2>4 DEF InvokingServes, recvVars
<1>5. CASE ~IsRequest(m)
  <2>1. Replied(m, e) /\ UNCHANGED callVars
    BY <1>5 DEF write, send_fail, IsRequest
  <2>2. RecvType' /\ InvokingServes'
    BY <2>1, Replying
  <2>3. QueuePart' /\ sendq' \in [Sides -> Seq(Message)]
    BY <1>1, <2>1, Dequeue DEF callVars
  <2>4. PendingIsOwn' /\ PendingMatchesCalls'
    BY <2>1, GoingOn DEF callVars, InFlight
  <2>5. TypeOK'
    BY <1>1, <1>3, <2>1, <2>2, <2>3 DEF TypeOK, RecvType, callVars
  <2> QED
    BY <2>2, <2>3, <2>4, <2>5
<1> QED
  BY <1>4, <1>5

(* The next frame, and the rest. *)
LEMMA HeadOfWire ==
  ASSUME TypeOK, NEW e \in Sides, wire[Peer(e)] # <<>>
  PROVE  LET m == Head(wire[Peer(e)]) IN
         /\ m \in Message /\ m.call \in Calls /\ Peer(e) \in Sides
         /\ [wire EXCEPT ![Peer(e)] = Tail(@)] \in [Sides -> Seq(Message)]
<1>1. Peer(e) \in Sides /\ wire[Peer(e)] \in Seq(Message)
  BY Types
<1>2. Head(wire[Peer(e)]) \in Message /\ Tail(wire[Peer(e)]) \in Seq(Message)
  BY <1>1
<1> QED
  BY <1>1, <1>2, Types DEF TypeOK

(* A response joins the queue. *)
LEMMA ReplyInv ==
  ASSUME TypeOK, QueuePart, NEW e \in Sides, NEW c \in Calls, NEW k \in Replies,
         Reply(e, Response(c, k)), UNCHANGED <<nesting, call>>
  PROVE  /\ QueuePart' /\ sendq' \in [Sides -> Seq(Message)]
         /\ buffer' \in [Sides -> Message \cup {Blank}]
         /\ recv' = [recv EXCEPT ![e] = "replying"]
<1> DEFINE m == Response(c, k)
<1>1. m \in Message /\ ~IsRequest(m)
  BY Types DEF IsRequest, Replies
<1>2. /\ sendq' = [sendq EXCEPT ![e] = Append(@, m)] /\ buffer' = [buffer EXCEPT ![e] = m]
      /\ recv' = [recv EXCEPT ![e] = "replying"]
  BY DEF Reply
<1>3. buffer' \in [Sides -> Message \cup {Blank}]
  BY <1>1, <1>2 DEF TypeOK
<1> HIDE DEF m
<1>4. QueuePart' /\ sendq' \in [Sides -> Seq(Message)]
  BY <1>1, <1>2, Enqueue
<1> QED
  BY <1>2, <1>3, <1>4

LEMMA ReadInv ==
  ASSUME CallerInv, NEW e \in Sides, read(e), UNCHANGED nesting
  PROVE  CallerInv'
<1> DEFINE m == Head(wire[Peer(e)])
<1> USE DEF CallerInv
<1>1. m \in Message /\ m.call \in Calls /\ wire' \in [Sides -> Seq(Message)]
  BY HeadOfWire DEF read
<1>2. CASE Invoke(e, m.call) /\ UNCHANGED <<callVars, open>>
  <2>1. /\ recv' = [recv EXCEPT ![e] = "invoking"] /\ serving' = [serving EXCEPT ![e] = m.call]
        /\ runs' = [runs EXCEPT ![m.call] = @ + 1] /\ UNCHANGED <<buffer, sendq, callVars, open>>
    BY <1>2 DEF Invoke
  <2> HIDE DEF m
  <2>2. runs' \in [Calls -> Nat]
    BY <1>1, <2>1 DEF TypeOK
  <2>3. TypeOK' /\ InvokingServes'
    BY <1>1, <2>1, <2>2 DEF TypeOK, callVars, InvokingServes
  <2>4. QueuePart' /\ PendingIsOwn' /\ PendingMatchesCalls'
    BY <2>1, QueuesStay, GoingOn DEF callVars, InFlight
  <2> QED
    BY <2>3, <2>4
<1>3. CASE Refuse(e, m.call) /\ UNCHANGED <<callVars, open>>
  <2>1. /\ Reply(e, Response(m.call, "error")) /\ serving' = [serving EXCEPT ![e] = m.call]
        /\ UNCHANGED <<callVars, open, runs>>
    BY <1>3 DEF Refuse
  <2> HIDE DEF m
  <2>2. /\ QueuePart' /\ sendq' \in [Sides -> Seq(Message)]
        /\ buffer' \in [Sides -> Message \cup {Blank}]
        /\ recv' = [recv EXCEPT ![e] = "replying"]
    BY <1>1, <2>1, ReplyInv DEF callVars, Replies
  <2>3. TypeOK' /\ InvokingServes'
    BY <1>1, <2>1, <2>2 DEF TypeOK, callVars, InvokingServes
  <2>4. PendingIsOwn' /\ PendingMatchesCalls'
    BY <2>1, GoingOn DEF callVars, InFlight
  <2> QED
    BY <2>2, <2>3, <2>4
<1>4. CASE m.kind \in Replies /\ async_notify(e, m.call, m.kind) /\ UNCHANGED <<buffer, sendq, open>>
  <2>1. /\ notified' \in [Calls -> {"none"} \cup Replies] /\ call' \in [Calls -> CallStates]
        /\ \A c \in Calls : call'[c] = call[c] \/ (call[c] = "waiting" /\ call'[c] = "wakeup")
        /\ UNCHANGED <<result, pending, recvVars, buffer, sendq, open>>
    BY <1>1, <1>4 DEF async_notify, TypeOK, CallStates
  <2>2. TypeOK' /\ InvokingServes'
    BY <1>1, <2>1 DEF TypeOK, recvVars, InvokingServes
  <2>3. \A c \in Calls : /\ InFlight(c)' <=> InFlight(c)
                         /\ call[c] = "sending" => call'[c] = "sending"
    BY <2>1 DEF InFlight
  <2>4. QueuePart' /\ PendingIsOwn' /\ PendingMatchesCalls'
    BY <2>1, <2>3, QueuesStay, GoingOn
  <2> QED
    BY <2>2, <2>4
<1> QED
  BY <1>2, <1>3, <1>4 DEF read

LEMMA ReadFailsInv ==
  ASSUME CallerInv, NEW e \in Sides, read_fails(e), UNCHANGED nesting
  PROVE  CallerInv'
<1> USE DEF CallerInv
<1>1. Leave(e) /\ wire' = [wire EXCEPT ![Peer(e)] = <<>>] /\ UNCHANGED <<callVars, buffer, sendq>>
  BY DEF read_fails
<1>2. RecvType' /\ InvokingServes'
  BY <1>1, Replying
<1>3. wire' \in [Sides -> Seq(Message)]
  BY <1>1, EmptyQueue DEF TypeOK
<1>4. QueuePart' /\ PendingIsOwn' /\ PendingMatchesCalls'
  BY <1>1, QueuesStay, GoingOn DEF callVars, InFlight
<1> QED
  BY <1>1, <1>2, <1>3, <1>4 DEF TypeOK, RecvType, callVars

LEMMA InvokeReturnsInv ==
  ASSUME CallerInv, NEW e \in Sides, NEW k \in Replies, invoke_returns(e, k), UNCHANGED nesting
  PROVE  CallerInv'
<1> USE DEF CallerInv
<1>1. /\ serving[e] \in Calls /\ Reply(e, Response(serving[e], k))
      /\ UNCHANGED <<callVars, wire, serving, open, runs>>
  BY DEF invoke_returns, InvokingServes
<1>2. /\ QueuePart' /\ sendq' \in [Sides -> Seq(Message)]
      /\ buffer' \in [Sides -> Message \cup {Blank}]
      /\ recv' = [recv EXCEPT ![e] = "replying"]
  BY <1>1, ReplyInv DEF callVars
<1>3. PendingIsOwn' /\ PendingMatchesCalls'
  BY <1>1, GoingOn DEF callVars, InFlight
<1> QED
  BY <1>1, <1>2, <1>3 DEF TypeOK, callVars, InvokingServes

LEMMA WakeInv ==
  ASSUME CallerInv, NEW c \in Calls, timeout(c) \/ resume_call(c), UNCHANGED nesting
  PROVE  CallerInv'
<1> USE DEF CallerInv
<1>1. UNCHANGED <<buffer, sendq, wire, recvVars, open>>
  BY DEF timeout, resume_call
<1>2. CASE timeout(c)
  <2>1. /\ call' \in [Calls -> CallStates] /\ UNCHANGED <<notified, result, pending>>
        /\ call[c] = "waiting" /\ call'[c] = "wakeup" /\ \A d \in Calls : d # c => call'[d] = call[d]
    BY <1>2 DEF timeout, TypeOK, CallStates
  <2>2. TypeOK' /\ InvokingServes'
    BY <1>1, <2>1 DEF TypeOK, recvVars, InvokingServes
  <2>3. \A d \in Calls : /\ InFlight(d)' <=> InFlight(d)
                         /\ call[d] = "sending" => call'[d] = "sending"
    BY <2>1 DEF InFlight
  <2>4. QueuePart' /\ PendingIsOwn' /\ PendingMatchesCalls'
    BY <1>1, <2>1, <2>3, QueuesStay, GoingOn
  <2> QED
    BY <2>2, <2>4
<1>3. CASE resume_call(c)
  <2>1. PICK r \in Results : Return(c, r)
    BY <1>3 DEF resume_call, TypeOK, Results
  <2>2. /\ call' \in [Calls -> CallStates] /\ notified' = notified
        /\ result' \in [Calls -> Results] /\ pending' \in [Sides -> SUBSET Calls]
        /\ PendingIsOwn' /\ PendingMatchesCalls'
        /\ \A d \in Calls : d # c => call'[d] = call[d]
    BY <2>1, Returning
  <2>3. TypeOK' /\ InvokingServes'
    BY <1>1, <2>2 DEF TypeOK, recvVars, InvokingServes, Results
  <2>4. \A d \in Calls : call[d] = "sending" => call'[d] = "sending"
    BY <1>3, <2>2 DEF resume_call
  <2>5. QueuePart'
    BY <1>1, <2>4, QueuesStay
  <2> QED
    BY <2>2, <2>3, <2>5
<1> QED
  BY <1>2, <1>3

LEMMA CloseInv ==
  ASSUME CallerInv, NEW e \in Sides, close(e), UNCHANGED nesting
  PROVE  CallerInv'
<1> USE DEF CallerInv
<1>1. open' = [open EXCEPT ![e] = FALSE] /\ UNCHANGED <<callVars, buffer, sendq, wire, recvVars>>
  BY DEF close
<1>2. QueuePart' /\ PendingIsOwn' /\ PendingMatchesCalls'
  BY <1>1, QueuesStay, GoingOn DEF callVars, InFlight
<1> QED
  BY <1>1, <1>2 DEF TypeOK, callVars, recvVars, InvokingServes

LEMMA InitCallerInv ==
  ASSUME Init
  PROVE  CallerInv
<1>1. TypeOK
  BY EmptyQueue DEF Init, TypeOK, CallStates
<1>2. QueuePart
  BY EmptyQueue DEF Init, QueuePart
<1>3. PendingIsOwn /\ InvokingServes
  BY DEF Init, PendingIsOwn, InvokingServes
<1>4. PendingMatchesCalls
  BY <1>1, Types DEF Init, PendingMatchesCalls, InFlight
<1> QED
  BY <1>1, <1>2, <1>3, <1>4 DEF CallerInv

LEMMA StepCallerInv ==
  ASSUME CallerInv, [Next]_vars
  PROVE  CallerInv'
<1>1. CASE UNCHANGED vars
  BY <1>1, QueuesStay, GoingOn
     DEF CallerInv, vars, stepVars, callVars, recvVars, TypeOK, InvokingServes, InFlight
<1>2. CASE Next
  BY <1>2, CallInv, WriteInv, ReadInv, ReadFailsInv, InvokeReturnsInv, WakeInv, CloseInv
     DEF Next, SideStep
<1> QED
  BY <1>1, <1>2

(* Callbacks and queues follow the calls, for any calls of both sides.       *)
THEOREM CallerInvariant == Spec => []CallerInv
<1>1. Init => CallerInv
  BY InitCallerInv
<1>2. CallerInv /\ [Next]_vars => CallerInv'
  BY StepCallerInv
<1> QED
  BY <1>1, <1>2, PTL DEF Spec

(* The caller's state is of its type. *)
THEOREM CallerTypeCorrect == Spec => []TypeOK
<1>1. CallerInv => TypeOK
  BY DEF CallerInv
<1> QED
  BY <1>1, CallerInvariant, PTL

(* Callbacks are registered exactly as long as their calls are in flight,    *)
(* however calls nest, overlap, time out or fail.                            *)
THEOREM CallbacksMatchCalls == Spec => []PendingMatchesCalls
<1>1. CallerInv => PendingMatchesCalls
  BY DEF CallerInv
<1> QED
  BY <1>1, CallerInvariant, PTL
------------------------------------------------------------------------------
(* Calls that begin one at a time on each side, whoever makes them.          *)

(* Queues: more calls may be sent and run; a message joins; the first goes.  *)
LEMMA QueueMore ==
  ASSUME NEW q \in Seq(Message), NEW b, NEW S, NEW R, NEW T, NEW U, QueueOf(q, b, S, R),
         S \subseteq T, R \subseteq U
  PROVE  QueueOf(q, b, T, U)
  BY DEF QueueOf, IsReply

LEMMA QueueJoin ==
  ASSUME NEW q \in Seq(Message), NEW b, NEW S, NEW R, QueueOf(q, b, S, R), NEW m \in Message,
         IsReply(m, S, R) \/ (IsRequest(m) /\ \A i \in 1 .. Len(q) : ~IsRequest(q[i]))
  PROVE  QueueOf(Append(q, m), m, S, R)
<1> DEFINE p == Append(q, m)
<1>1. /\ Len(q) \in Nat /\ Len(p) = Len(q) + 1 /\ p[Len(q) + 1] = m
      /\ \A i \in 1 .. Len(q) : p[i] = q[i]
  BY Extend
<1> HIDE DEF p
<1>2. \A i \in 1 .. Len(p) : i \in 1 .. Len(q) \/ i = Len(q) + 1
  BY <1>1
<1>3. CASE IsReply(m, S, R)
  <2>1. ~IsRequest(m)
    BY <1>3 DEF IsReply, IsRequest, Replies
  <2>2. \A i \in 1 .. Len(p) :
          (IsRequest(p[i]) /\ IsReply(m, S, R)) \/ IsReply(p[i], S, R)
    BY <1>1, <1>2, <1>3 DEF QueueOf
  <2>3. \A i \in 1 .. Len(p) : IsRequest(p[i]) => i \in 1 .. Len(q)
    BY <1>1, <1>2, <2>1
  <2> QED
    BY <1>1, <2>2, <2>3 DEF QueueOf, p
<1>4. CASE IsRequest(m) /\ \A i \in 1 .. Len(q) : ~IsRequest(q[i])
  <2>1. \A i \in 1 .. Len(p) : IsRequest(p[i]) => i = Len(q) + 1
    BY <1>1, <1>2, <1>4
  <2>2. \A i \in 1 .. Len(p) : (IsRequest(p[i]) /\ m = p[i]) \/ IsReply(p[i], S, R)
    BY <1>1, <1>2, <1>4 DEF QueueOf
  <2> QED
    BY <2>1, <2>2 DEF QueueOf, p
<1> QED
  BY <1>3, <1>4

LEMMA QueueTail ==
  ASSUME NEW q \in Seq(Message), NEW b, NEW S, NEW R, QueueOf(q, b, S, R), q # <<>>
  PROVE  /\ QueueOf(Tail(q), b, S, R)
         /\ \/ IsRequest(Head(q)) /\ (b = Head(q) \/ IsReply(b, S, R))
            \/ IsReply(Head(q), S, R)
<1>1. /\ Len(q) \in Nat /\ Len(q) > 0 /\ Head(q) = q[1] /\ 1 \in 1 .. Len(q)
      /\ \A i \in 1 .. Len(Tail(q)) : Tail(q)[i] = q[i + 1] /\ i + 1 \in 1 .. Len(q)
  BY Split
<1>2. \A i, j \in 1 .. Len(Tail(q)) : i + 1 = j + 1 => i = j
  OBVIOUS
<1> QED
  BY <1>1, <1>2 DEF QueueOf

(* Wires: calls that run have no request there; a message joins; one goes.   *)
LEMMA WireMore ==
  ASSUME NEW q \in Seq(Message), NEW N, NEW S, NEW R, NEW M, NEW T, NEW U,
         WireOf(q, N, S, R), S \subseteq T, R \subseteq U,
         \A i \in 1 .. Len(q) : IsRequest(q[i]) => q[i].call \in M
  PROVE  WireOf(q, M, T, U)
  BY DEF WireOf, IsReply

LEMMA WireJoin ==
  ASSUME NEW q \in Seq(Message), NEW N, NEW S, NEW R, WireOf(q, N, S, R), NEW m \in Message,
         \/ IsReply(m, S, R)
         \/ IsRequest(m) /\ m.call \in N /\ \A i \in 1 .. Len(q) : IsRequest(q[i]) => q[i].call # m.call
  PROVE  WireOf(Append(q, m), N, S, R)
<1> DEFINE p == Append(q, m)
<1>1. /\ Len(q) \in Nat /\ Len(p) = Len(q) + 1 /\ p[Len(q) + 1] = m
      /\ \A i \in 1 .. Len(q) : p[i] = q[i]
  BY Extend
<1> HIDE DEF p
<1>2. \A i \in 1 .. Len(p) : i \in 1 .. Len(q) \/ i = Len(q) + 1
  BY <1>1
<1>3. \A i \in 1 .. Len(p) : (IsRequest(p[i]) /\ p[i].call \in N) \/ IsReply(p[i], S, R)
  BY <1>1, <1>2 DEF WireOf
<1>4. IsRequest(m) => \A i \in 1 .. Len(q) : IsRequest(q[i]) => q[i].call # m.call
  BY DEF IsReply, IsRequest, Replies
<1>5. ASSUME NEW i \in 1 .. Len(p), NEW j \in 1 .. Len(p),
             IsRequest(p[i]), IsRequest(p[j]), p[i].call = p[j].call
      PROVE  i = j
  <2>1. CASE i \in 1 .. Len(q) /\ j \in 1 .. Len(q)
    BY <1>1, <1>5, <2>1 DEF WireOf
  <2>2. CASE i = Len(q) + 1 /\ j \in 1 .. Len(q)
    BY <1>1, <1>4, <1>5, <2>2
  <2>3. CASE j = Len(q) + 1 /\ i \in 1 .. Len(q)
    BY <1>1, <1>4, <1>5, <2>3
  <2> QED
    BY <1>2, <2>1, <2>2, <2>3
<1> QED
  BY <1>3, <1>5 DEF WireOf, p

LEMMA WireTail ==
  ASSUME NEW q \in Seq(Message), NEW N, NEW S, NEW R, WireOf(q, N, S, R), q # <<>>
  PROVE  /\ WireOf(Tail(q), N, S, R)
         /\ (IsRequest(Head(q)) /\ Head(q).call \in N) \/ IsReply(Head(q), S, R)
         /\ IsRequest(Head(q)) => \A i \in 1 .. Len(Tail(q)) :
              IsRequest(Tail(q)[i]) => Tail(q)[i].call # Head(q).call
<1>1. /\ Len(q) \in Nat /\ Len(q) > 0 /\ Head(q) = q[1] /\ 1 \in 1 .. Len(q)
      /\ \A i \in 1 .. Len(Tail(q)) :
           Tail(q)[i] = q[i + 1] /\ i + 1 \in 1 .. Len(q) /\ i + 1 # 1
  BY Split
<1>2. \A i, j \in 1 .. Len(Tail(q)) : i + 1 = j + 1 => i = j
  OBVIOUS
<1> QED
  BY <1>1, <1>2 DEF WireOf

LEMMA Nobody ==
  ASSUME NEW N, NEW b, NEW S, NEW R
  PROVE  WireOf(<<>>, N, S, R) /\ QueueOf(<<>>, b, S, R)
BY EmptyQueue DEF WireOf, QueueOf

LEMMA SerialTypes ==
  ASSUME SerialInv
  PROVE  /\ CallerInv /\ TypeOK /\ QueuePart /\ PendingMatchesCalls
         /\ Outcomes /\ ResponseBeatsTimeout /\ \A e \in Sides : SideOk(e)
         /\ \A e \in Sides : sendq[e] \in Seq(Message) /\ wire[e] \in Seq(Message)
         /\ \A e \in Sides : Peer(e) \in Sides /\ Peer(e) # e
         /\ \A e, f \in Sides : f # Peer(e) => f = e
         /\ \A f \in Sides : \A i \in 1 .. Len(wire[f]) :
              IsRequest(wire[f][i]) => wire[f][i].call \in Unrun(f)
<1>1. CallerInv /\ TypeOK /\ QueuePart /\ PendingMatchesCalls
  BY DEF SerialInv, CallerInv
<1>2. Outcomes /\ ResponseBeatsTimeout /\ \A e \in Sides : SideOk(e)
  BY DEF SerialInv, SerialParts
<1>3. \A f \in Sides : \A i \in 1 .. Len(wire[f]) :
        IsRequest(wire[f][i]) => wire[f][i].call \in Unrun(f)
  BY <1>2 DEF SideOk, WireOf, IsReply, IsRequest, Replies
<1>4. \A e \in Sides : Peer(e) \in Sides /\ Peer(e) # e
  BY <1>1, Types
<1>5. \A e, f \in Sides : f # Peer(e) => f = e
  BY <1>4 DEF Sides
<1> QED
  BY <1>1, <1>2, <1>3, <1>4, <1>5, Types

(* A wire that a step leaves alone, and of whose requests none runs.         *)
LEMMA WireStays ==
  ASSUME SerialInv, NEW f \in Sides, UNCHANGED nesting,
         SentCalls \subseteq SentCalls', RanCalls \subseteq RanCalls',
         \A i \in 1 .. Len(wire[f]) : IsRequest(wire[f][i]) => wire[f][i].call \notin RanCalls'
  PROVE  WireOf(wire[f], Unrun(f)', SentCalls', RanCalls')
<1> USE SerialTypes
<1>1. \A i \in 1 .. Len(wire[f]) : IsRequest(wire[f][i]) => wire[f][i].call \in Unrun(f)'
  BY DEF Unrun, From
<1> QED
  BY <1>1, WireMore DEF SideOk

(* A side that a step leaves alone but for calls that were sent or have run. *)
LEMMA SideStays ==
  ASSUME SerialInv, NEW f \in Sides, UNCHANGED nesting,
         SentCalls \subseteq SentCalls', RanCalls \subseteq RanCalls',
         sendq'[f] = sendq[f], buffer'[f] = buffer[f], wire'[f] \in {wire[f], <<>>},
         recv'[f] = "invoking" => recv[f] = "invoking" /\ serving'[f] = serving[f],
         \A i \in 1 .. Len(wire[f]) : IsRequest(wire[f][i]) => wire[f][i].call \notin RanCalls'
  PROVE  SideOk(f)'
<1> USE SerialTypes
<1>1. QueueOf(sendq[f], buffer[f], SentCalls', RanCalls')
  BY QueueMore DEF SideOk
<1>2. WireOf(wire'[f], Unrun(f)', SentCalls', RanCalls')
  <2>1. WireOf(wire[f], Unrun(f)', SentCalls', RanCalls')
    BY WireStays
  <2>2. WireOf(<<>>, Unrun(f)', SentCalls', RanCalls')
    BY Nobody
  <2> QED
    BY <2>1, <2>2
<1> QED
  BY <1>1, <1>2 DEF SideOk

(* Outcomes of a step that starts and ends no call and runs no function.     *)
LEMMA SentStay ==
  ASSUME UNCHANGED <<callVars, runs>>, SerialInv
  PROVE  SentCalls' = SentCalls /\ RanCalls' = RanCalls /\ Outcomes' /\ ResponseBeatsTimeout'
<1>1. SentCalls' = SentCalls /\ RanCalls' = RanCalls
  BY DEF callVars, SentCalls, RanCalls
<1>2. Outcomes'
  BY <1>1, SerialTypes DEF callVars, Outcomes
<1>3. ResponseBeatsTimeout'
  BY SerialTypes DEF callVars, ResponseBeatsTimeout
<1> QED
  BY <1>1, <1>2, <1>3

(* A call begins, with no request of its side in the queue.                  *)
LEMMA SerialCall ==
  ASSUME ~Overlap, SerialInv, NEW c \in Calls, async_call(c), UNCHANGED nesting
  PROVE  SerialParts'
<1> USE SerialTypes
<1> DEFINE m == Request(c)
<1>0. PICK e \in Sides : e = From[c]
  BY Types
<1>1. e \in Sides /\ m \in Message /\ IsRequest(m)
  BY Types DEF IsRequest
<1>2. \A i \in 1 .. Len(sendq[e]) : ~IsRequest(sendq[e][i])
  BY <1>0 DEF async_call, MayCall, IsRequest
<1>3. /\ call[c] = "idle" /\ call' = [call EXCEPT ![c] = "sending"]
      /\ buffer' = [buffer EXCEPT ![e] = m] /\ sendq' = [sendq EXCEPT ![e] = Append(@, m)]
      /\ UNCHANGED <<notified, result, wire, recv, serving, runs, open>>
  BY <1>0 DEF async_call, recvVars
<1> HIDE DEF m
<1>4. /\ sendq'[e] = Append(sendq[e], m) /\ buffer'[e] = m
      /\ \A f \in Sides : f # e => sendq'[f] = sendq[f] /\ buffer'[f] = buffer[f]
      /\ call'[c] = "sending" /\ \A d \in Calls : d # c => call'[d] = call[d]
  BY <1>1, <1>3 DEF TypeOK
<1>5. SentCalls' = SentCalls /\ RanCalls' = RanCalls
  BY <1>3, <1>4 DEF SentCalls, RanCalls
<1>6. \A f \in Sides : \A i \in 1 .. Len(wire[f]) :
        IsRequest(wire[f][i]) => wire[f][i].call \notin RanCalls'
  BY <1>5 DEF Unrun
<1>7. SideOk(e)'
  <2>1. QueueOf(Append(sendq[e], m), m, SentCalls, RanCalls)
    BY <1>1, <1>2, QueueJoin DEF SideOk
  <2>2. WireOf(wire[e], Unrun(e)', SentCalls', RanCalls')
    BY <1>1, <1>5, <1>6, WireStays
  <2> QED
    BY <1>1, <1>3, <1>4, <1>5, <2>1, <2>2 DEF SideOk
<1>8. \A f \in Sides : f # e => SideOk(f)'
  BY <1>3, <1>4, <1>5, <1>6, SideStays
<1>9. Outcomes'
  BY <1>3, <1>5 DEF Outcomes
<1>10. ResponseBeatsTimeout'
  BY <1>3, <1>4 DEF ResponseBeatsTimeout
<1> QED
  BY <1>7, <1>8, <1>9, <1>10 DEF SerialParts

(* What the sending of a request, or its failure, does to its call.          *)
LEMMA RequestLeaves ==
  ASSUME SerialInv, NEW e \in Sides, write(e) \/ send_fail(e), UNCHANGED nesting,
         IsRequest(Head(sendq[e]))
  PROVE  LET c == Head(sendq[e]).call IN
         /\ c \in Calls /\ From[c] = e /\ call[c] = "sending"
         /\ UNCHANGED <<notified, recv, serving, runs, open>>
         /\ \A d \in Calls : d # c => call'[d] = call[d] /\ result'[d] = result[d]
         /\ \/ call'[c] = "waiting" /\ result'[c] = result[c]
            \/ call'[c] = "done" /\ result'[c] \in {"sent", "send_error"}
<1> USE SerialTypes
<1> DEFINE m == Head(sendq[e])
           c == m.call
<1>1. sendq[e] # <<>> /\ m.kind = "request"
  BY DEF write, send_fail, IsRequest
<1>2. c \in Calls /\ From[c] = e /\ call[c] = "sending"
  BY <1>1, HeadOfQueue
<1>3. UNCHANGED <<notified, recv, serving, runs, open>>
  BY <1>1 DEF write, send_fail, Return, Replies, recvVars
<1>4. \/ call' = [call EXCEPT ![c] = "waiting"] /\ UNCHANGED result
      \/ \E r \in {"sent", "send_error"} :
           call' = [call EXCEPT ![c] = "done"] /\ result' = [result EXCEPT ![c] = r]
  BY <1>1 DEF write, send_fail, Return, Replies
<1> HIDE DEF c
<1>5. /\ \A d \in Calls : d # c => call'[d] = call[d] /\ result'[d] = result[d]
      /\ \/ call'[c] = "waiting" /\ result'[c] = result[c]
         \/ call'[c] = "done" /\ result'[c] \in {"sent", "send_error"}
  BY <1>2, <1>4 DEF TypeOK
<1> QED
  BY <1>2, <1>3, <1>5 DEF c

(* A request is written, as its view shows it, or its send fails.            *)
LEMMA SerialWrite ==
  ASSUME SerialInv, NEW e \in Sides, write(e) \/ send_fail(e), UNCHANGED nesting,
         IsRequest(Head(sendq[e]))
  PROVE  SerialParts'
<1> USE SerialTypes
<1> DEFINE m == Head(sendq[e])
           c == m.call
<1>1. /\ c \in Calls /\ From[c] = e /\ call[c] = "sending"
      /\ UNCHANGED <<notified, recv, serving, runs, open>>
      /\ \A d \in Calls : d # c => call'[d] = call[d] /\ result'[d] = result[d]
      /\ \/ call'[c] = "waiting" /\ result'[c] = result[c]
         \/ call'[c] = "done" /\ result'[c] \in {"sent", "send_error"}
  BY RequestLeaves
<1>2. /\ sendq[e] # <<>> /\ sendq' = [sendq EXCEPT ![e] = Tail(@)] /\ UNCHANGED buffer
      /\ m.kind = "request"
  BY DEF write, send_fail, IsRequest
<1>3. wire' = wire \/ wire' = [wire EXCEPT ![e] = Append(@, buffer[e])]
  BY <1>2 DEF write, send_fail, Written, TypeOK
<1>4. /\ QueueOf(Tail(sendq[e]), buffer[e], SentCalls, RanCalls)
      /\ buffer[e] = m \/ IsReply(buffer[e], SentCalls, RanCalls)
      /\ buffer[e] \in Message
  BY <1>2, QueueTail, HeadOfQueue DEF SideOk, IsReply, Replies
<1> HIDE DEF c
<1>5. c \notin SentCalls /\ c \notin RanCalls /\ notified[c] = "none" /\ runs[c] = 0
  BY <1>1 DEF SentCalls, Outcomes, RanCalls
<1>6. SentCalls' = SentCalls \cup {c} /\ RanCalls' = RanCalls
  BY <1>1 DEF SentCalls, RanCalls
<1>7. \A f \in Sides : \A i \in 1 .. Len(wire[f]) : IsRequest(wire[f][i]) =>
        wire[f][i].call \notin RanCalls' /\ wire[f][i].call # c
  BY <1>5, <1>6 DEF Unrun
<1>8. sendq'[e] = Tail(sendq[e]) /\ \A f \in Sides : f # e => sendq'[f] = sendq[f]
  BY <1>2 DEF TypeOK
<1>9. /\ wire'[e] \in {wire[e], Append(wire[e], buffer[e])}
      /\ \A f \in Sides : f # e => wire'[f] = wire[f]
  BY <1>3 DEF TypeOK
<1>10. WireOf(wire'[e], Unrun(e)', SentCalls', RanCalls')
  <2>1. WireOf(wire[e], Unrun(e)', SentCalls', RanCalls')
    BY <1>6, <1>7, WireStays
  <2>2. WireOf(Append(wire[e], buffer[e]), Unrun(e)', SentCalls', RanCalls')
    <3>1. CASE buffer[e] = m
      <4>1. c \in Unrun(e)' /\ IsRequest(buffer[e]) /\ buffer[e].call = c
        BY <1>1, <1>5, <1>6, <3>1 DEF Unrun, From, c
      <4> QED
        BY <1>4, <1>7, <2>1, <4>1, WireJoin
    <3>2. CASE IsReply(buffer[e], SentCalls, RanCalls)
      <4>1. IsReply(buffer[e], SentCalls', RanCalls')
        BY <1>6, <3>2 DEF IsReply
      <4> QED
        BY <1>4, <2>1, <4>1, WireJoin
    <3> QED
      BY <1>4, <3>1, <3>2
  <2> QED
    BY <1>9, <2>1, <2>2
<1>11. SideOk(e)'
  <2>1. Tail(sendq[e]) \in Seq(Message)
    BY <1>2, Split
  <2>2. QueueOf(Tail(sendq[e]), buffer[e], SentCalls', RanCalls')
    BY <1>4, <1>6, <2>1, QueueMore
  <2>3. recv'[e] = "invoking" => serving'[e] \in SentCalls' \cap RanCalls'
    BY <1>1, <1>6 DEF SideOk
  <2> QED
    BY <1>2, <1>8, <1>10, <2>2, <2>3 DEF SideOk
<1>12. \A f \in Sides : f # e => SideOk(f)'
  BY <1>1, <1>2, <1>6, <1>7, <1>8, <1>9, SideStays
<1>13. Outcomes'
  <2> SUFFICES ASSUME NEW d \in Calls
               PROVE  /\ runs'[d] \in {0, 1} /\ (d \in RanCalls' => d \in SentCalls')
                      /\ notified'[d] # "none" => d \in SentCalls' /\ d \notin OneWay
                      /\ "answer" \in {notified'[d], result'[d]} => d \in RanCalls'
    BY DEF Outcomes
  <2> QED
    BY <1>1, <1>5, <1>6 DEF Outcomes
<1>14. ResponseBeatsTimeout'
  BY <1>1, <1>5 DEF ResponseBeatsTimeout, Replies
<1> QED
  BY <1>11, <1>12, <1>13, <1>14 DEF SerialParts

(* A response is written, or its send fails; do_recv goes on or leaves.      *)
LEMMA SerialReply ==
  ASSUME SerialInv, NEW e \in Sides, write(e) \/ send_fail(e), UNCHANGED nesting,
         ~IsRequest(Head(sendq[e]))
  PROVE  SerialParts' /\ UNCHANGED <<call, result, runs>>
<1> USE SerialTypes
<1> DEFINE m == Head(sendq[e])
<1>1. sendq[e] # <<>> /\ sendq' = [sendq EXCEPT ![e] = Tail(@)] /\ UNCHANGED buffer
  BY DEF write, send_fail
<1>2. /\ m \in Message /\ IsReply(m, SentCalls, RanCalls)
      /\ QueueOf(Tail(sendq[e]), buffer[e], SentCalls, RanCalls)
      /\ Tail(sendq[e]) \in Seq(Message)
  BY <1>1, QueueTail, HeadOfQueue, Split DEF SideOk
<1>3. Replied(m, e) /\ UNCHANGED callVars /\ m.kind # "request"
  BY <1>2 DEF write, send_fail, IsReply, IsRequest, Replies
<1>4. /\ runs' = runs /\ recv'[e] # "invoking"
      /\ \A f \in Sides : f # e => recv'[f] = recv[f] /\ serving'[f] = serving[f]
  BY <1>3, Replying DEF CallerInv
<1>5. wire' = wire \/ wire' = [wire EXCEPT ![e] = Append(@, m)]
  BY <1>3 DEF write, send_fail, Written, TypeOK
<1> HIDE DEF m
<1>6. SentCalls' = SentCalls /\ RanCalls' = RanCalls /\ Outcomes' /\ ResponseBeatsTimeout'
  BY <1>3, <1>4, SentStay
<1>7. \A f \in Sides : \A i \in 1 .. Len(wire[f]) :
        IsRequest(wire[f][i]) => wire[f][i].call \notin RanCalls'
  BY <1>6 DEF Unrun
<1>8. /\ sendq'[e] = Tail(sendq[e]) /\ \A f \in Sides : f # e => sendq'[f] = sendq[f]
      /\ wire'[e] \in {wire[e], Append(wire[e], m)} /\ \A f \in Sides : f # e => wire'[f] = wire[f]
  BY <1>1, <1>5 DEF TypeOK
<1>9. WireOf(wire'[e], Unrun(e)', SentCalls', RanCalls')
  <2>1. WireOf(wire[e], Unrun(e)', SentCalls', RanCalls')
    BY <1>6, <1>7, WireStays
  <2>2. WireOf(Append(wire[e], m), Unrun(e)', SentCalls', RanCalls')
    BY <1>2, <1>6, <2>1, WireJoin
  <2> QED
    BY <1>8, <2>1, <2>2
<1>10. SideOk(e)'
  BY <1>1, <1>2, <1>4, <1>6, <1>8, <1>9 DEF SideOk
<1>11. \A f \in Sides : f # e => SideOk(f)'
  BY <1>1, <1>4, <1>6, <1>7, <1>8, SideStays
<1> QED
  BY <1>3, <1>4, <1>6, <1>10, <1>11 DEF SerialParts, callVars

(* A side reads a response.                                                  *)
LEMMA SerialNotify ==
  ASSUME SerialInv, NEW e \in Sides, read(e), UNCHANGED nesting,
         ~IsRequest(Head(wire[Peer(e)]))
  PROVE  /\ SerialParts' /\ UNCHANGED <<result, runs>>
         /\ \A c \in Calls : call'[c] = call[c] \/ (call[c] = "waiting" /\ call'[c] = "wakeup")
<1> USE SerialTypes
<1>0. PICK p \in Sides : p = Peer(e)
  OBVIOUS
<1> DEFINE m == Head(wire[p])
<1>1. wire[p] # <<>> /\ wire' = [wire EXCEPT ![p] = Tail(@)] /\ UNCHANGED open
  BY <1>0 DEF read
<1>2. /\ m \in Message /\ m.call \in Calls /\ IsReply(m, SentCalls, RanCalls)
      /\ WireOf(Tail(wire[p]), Unrun(p), SentCalls, RanCalls)
  BY <1>0, <1>1, WireTail, HeadOfWire DEF SideOk
<1>3. async_notify(e, m.call, m.kind) /\ UNCHANGED <<buffer, sendq>>
  BY <1>0, <1>2 DEF read, IsReply, Replies
<1> HIDE DEF m
<1>4. UNCHANGED <<result, recv, serving, runs>>
  BY <1>3 DEF async_notify, recvVars
<1>5. \A d \in Calls : call'[d] = call[d] \/ (call[d] = "waiting" /\ call'[d] = "wakeup")
  BY <1>3, SMTT(30) DEF async_notify, TypeOK
<1>6. SentCalls' = SentCalls /\ RanCalls' = RanCalls
  BY <1>4, <1>5 DEF SentCalls, RanCalls
<1>7. \A d \in Calls : \/ notified'[d] = notified[d]
                       \/ d = m.call /\ notified'[d] = m.kind /\ InFlight(d) /\ d \notin OneWay
  <2>1. \A d \in pending[e] : d \in Calls => From[d] = e
    BY DEF CallerInv, PendingIsOwn
  <2>2. m.call \in pending[e] => InFlight(m.call) /\ m.call \notin OneWay
    BY <1>2, <2>1 DEF PendingMatchesCalls
  <2>3. \/ notified' = notified
        \/ m.call \in pending[e] /\ notified' = [notified EXCEPT ![m.call] = m.kind]
    BY <1>3 DEF async_notify
  <2> QED
    BY <1>2, <2>2, <2>3 DEF TypeOK
<1>8. wire'[p] = Tail(wire[p]) /\ \A f \in Sides : f # p => wire'[f] = wire[f]
  BY <1>1 DEF TypeOK
<1>9. \A f \in Sides : \A i \in 1 .. Len(wire[f]) :
        IsRequest(wire[f][i]) => wire[f][i].call \notin RanCalls'
  BY <1>6 DEF Unrun
<1>10. Unrun(p)' = Unrun(p)
  BY <1>6 DEF Unrun, From
<1>11. SideOk(p)'
  BY <1>2, <1>3, <1>4, <1>6, <1>8, <1>10 DEF SideOk
<1>12. \A f \in Sides : f # p => SideOk(f)'
  BY <1>3, <1>4, <1>6, <1>8, <1>9, SideStays
<1>13. Outcomes'
  BY <1>2, <1>4, <1>6, <1>7 DEF Outcomes, IsReply, Replies
<1>14. ResponseBeatsTimeout'
  BY <1>4, <1>5, <1>7 DEF ResponseBeatsTimeout, InFlight
<1> QED
  BY <1>4, <1>5, <1>11, <1>12, <1>13, <1>14 DEF SerialParts

(* A side that queues a response.                                            *)
LEMMA SerialQueues ==
  ASSUME SerialInv, NEW e \in Sides, NEW m \in Message, IsReply(m, SentCalls, RanCalls),
         sendq' = [sendq EXCEPT ![e] = Append(@, m)], buffer' = [buffer EXCEPT ![e] = m],
         SentCalls' = SentCalls, RanCalls' = RanCalls
  PROVE  /\ QueueOf(sendq'[e], buffer'[e], SentCalls', RanCalls')
         /\ \A f \in Sides : f # e => sendq'[f] = sendq[f] /\ buffer'[f] = buffer[f]
<1> USE SerialTypes
<1>1. /\ sendq'[e] = Append(sendq[e], m) /\ buffer'[e] = m
      /\ \A f \in Sides : f # e => sendq'[f] = sendq[f] /\ buffer'[f] = buffer[f]
  BY DEF TypeOK
<1>2. QueueOf(Append(sendq[e], m), m, SentCalls, RanCalls)
  BY QueueJoin DEF SideOk
<1> QED
  BY <1>1, <1>2

(* A side reads a request: it is the only one of its call, and is run or     *)
(* refused.                                                                  *)
LEMMA SerialServe ==
  ASSUME SerialInv, NEW e \in Sides, read(e), UNCHANGED nesting,
         IsRequest(Head(wire[Peer(e)]))
  PROVE  /\ SerialParts' /\ UNCHANGED callVars
         /\ \/ UNCHANGED runs
            \/ \E c \in SentCalls : runs[c] = 0 /\ runs' = [runs EXCEPT ![c] = 1]
<1> USE SerialTypes
<1>0. PICK p \in Sides : p = Peer(e)
  OBVIOUS
<1> DEFINE m == Head(wire[p])
           c == m.call
<1>1. wire[p] # <<>> /\ wire' = [wire EXCEPT ![p] = Tail(@)] /\ UNCHANGED open /\ p # e
  BY <1>0 DEF read
<1>2. /\ m \in Message /\ c \in Calls /\ m.kind = "request"
      /\ WireOf(Tail(wire[p]), Unrun(p), SentCalls, RanCalls) /\ Tail(wire[p]) \in Seq(Message)
      /\ c \in Unrun(p)
      /\ \A i \in 1 .. Len(Tail(wire[p])) :
           IsRequest(Tail(wire[p])[i]) => Tail(wire[p])[i].call \in Unrun(p) \ {c}
  <2>1. /\ WireOf(Tail(wire[p]), Unrun(p), SentCalls, RanCalls) /\ Tail(wire[p]) \in Seq(Message)
        /\ c \in Unrun(p)
        /\ \A i \in 1 .. Len(Tail(wire[p])) :
             IsRequest(Tail(wire[p])[i]) => Tail(wire[p])[i].call # c
    BY <1>0, <1>1, WireTail, Split DEF SideOk, IsReply, IsRequest, Replies
  <2>2. \A i \in 1 .. Len(Tail(wire[p])) :
          IsRequest(Tail(wire[p])[i]) => Tail(wire[p])[i].call \in Unrun(p)
    BY <2>1 DEF WireOf, IsReply, IsRequest, Replies
  <2> QED
    BY <1>0, <1>1, <2>1, <2>2, HeadOfWire DEF IsRequest
<1>3. (Invoke(e, c) \/ Refuse(e, c)) /\ UNCHANGED callVars
  BY <1>0, <1>2 DEF read, Replies
<1> HIDE DEF m, c
<1>4. /\ c \in SentCalls /\ c \notin RanCalls /\ From[c] = p /\ runs[c] = 0
      /\ SentCalls' = SentCalls
  BY <1>2, <1>3 DEF Unrun, Outcomes, RanCalls, SentCalls, callVars
<1>5. wire'[p] = Tail(wire[p]) /\ \A f \in Sides : f # p => wire'[f] = wire[f]
  BY <1>1 DEF TypeOK
<1>6. CASE Invoke(e, c)
  <2>1. /\ recv' = [recv EXCEPT ![e] = "invoking"] /\ serving' = [serving EXCEPT ![e] = c]
        /\ UNCHANGED <<buffer, sendq>> /\ runs' = [runs EXCEPT ![c] = 1]
    BY <1>4, <1>6 DEF Invoke, TypeOK
  <2>2. RanCalls' = RanCalls \cup {c}
    BY <1>2, <2>1 DEF RanCalls, TypeOK
  <2>3. \A f \in Sides : \A i \in 1 .. Len(wire[f]) :
          f # p /\ IsRequest(wire[f][i]) => wire[f][i].call \notin RanCalls'
    BY <1>4, <2>2 DEF Unrun
  <2>4. Unrun(p)' = Unrun(p) \ {c}
    BY <1>4, <2>2 DEF Unrun, From
  <2>5. SideOk(p)'
    <3>1. WireOf(Tail(wire[p]), Unrun(p)', SentCalls', RanCalls')
      BY <1>2, <1>4, <2>2, <2>4, WireMore
    <3>2. QueueOf(sendq[p], buffer[p], SentCalls', RanCalls')
      BY <1>4, <2>2, QueueMore DEF SideOk
    <3>3. recv'[p] = recv[p] /\ serving'[p] = serving[p]
      BY <1>1, <2>1 DEF TypeOK
    <3> QED
      BY <1>4, <1>5, <2>1, <2>2, <3>1, <3>2, <3>3 DEF SideOk
  <2>6. SideOk(e)'
    <3>1. WireOf(wire[e], Unrun(e)', SentCalls', RanCalls')
      BY <1>1, <1>4, <2>2, <2>3, WireStays
    <3>2. QueueOf(sendq[e], buffer[e], SentCalls', RanCalls')
      BY <1>4, <2>2, QueueMore DEF SideOk
    <3>3. serving'[e] = c
      BY <2>1 DEF TypeOK
    <3> QED
      BY <1>1, <1>4, <1>5, <2>1, <2>2, <3>1, <3>2, <3>3 DEF SideOk
  <2>7. \A f \in Sides : SideOk(f)'
    BY <1>0, <2>5, <2>6
  <2>8. Outcomes' /\ ResponseBeatsTimeout'
    BY <1>2, <1>3, <1>4, <2>1, <2>2 DEF Outcomes, ResponseBeatsTimeout, callVars, TypeOK
  <2> QED
    BY <1>3, <1>4, <2>1, <2>7, <2>8 DEF SerialParts
<1>7. CASE Refuse(e, c)
  <2> DEFINE r == Response(c, "error")
  <2>1. r \in Message /\ IsReply(r, SentCalls, RanCalls)
    BY <1>2, <1>4, Types DEF IsReply, Replies
  <2>2. /\ sendq' = [sendq EXCEPT ![e] = Append(@, r)] /\ UNCHANGED runs
        /\ buffer' = [buffer EXCEPT ![e] = r] /\ recv' = [recv EXCEPT ![e] = "replying"]
        /\ serving' = [serving EXCEPT ![e] = c]
    BY <1>7 DEF Refuse, Reply
  <2> HIDE DEF r
  <2>3. RanCalls' = RanCalls /\ Outcomes' /\ ResponseBeatsTimeout'
    BY <1>3, <2>2, SentStay
  <2>4. /\ QueueOf(sendq'[e], buffer'[e], SentCalls', RanCalls')
        /\ \A f \in Sides : f # e => sendq'[f] = sendq[f] /\ buffer'[f] = buffer[f]
    BY <1>4, <2>1, <2>2, <2>3, SerialQueues
  <2>5. /\ recv'[e] = "replying"
        /\ \A f \in Sides : f # e => recv'[f] = recv[f] /\ serving'[f] = serving[f]
    BY <2>2 DEF TypeOK
  <2>6. \A f \in Sides : \A i \in 1 .. Len(wire[f]) :
          IsRequest(wire[f][i]) => wire[f][i].call \notin RanCalls'
    BY <2>3 DEF Unrun
  <2>7. Unrun(p)' = Unrun(p)
    BY <1>4, <2>3 DEF Unrun, From
  <2>8. SideOk(p)'
    <3>1. WireOf(wire'[p], Unrun(p)', SentCalls', RanCalls')
      BY <1>2, <1>4, <1>5, <2>3, <2>7
    <3>2. sendq'[p] = sendq[p] /\ buffer'[p] = buffer[p] /\ recv'[p] = recv[p] /\ serving'[p] = serving[p]
      BY <1>1, <2>4, <2>5
    <3> QED
      BY <1>4, <2>3, <3>1, <3>2 DEF SideOk
  <2>9. SideOk(e)'
    <3>1. WireOf(wire'[e], Unrun(e)', SentCalls', RanCalls')
      BY <1>1, <1>4, <1>5, <2>3, <2>6, WireStays
    <3> QED
      BY <2>4, <2>5, <3>1 DEF SideOk
  <2>10. \A f \in Sides : SideOk(f)'
    BY <1>0, <2>8, <2>9
  <2> QED
    BY <1>3, <2>2, <2>3, <2>10 DEF SerialParts
<1> QED
  BY <1>3, <1>6, <1>7

(* A read fails.                                                             *)
LEMMA SerialReadFails ==
  ASSUME SerialInv, NEW e \in Sides, read_fails(e), UNCHANGED nesting
  PROVE  SerialParts'
<1> USE SerialTypes
<1>1. Leave(e) /\ wire' = [wire EXCEPT ![Peer(e)] = <<>>] /\ UNCHANGED <<callVars, buffer, sendq>>
  BY DEF read_fails
<1>2. SentCalls' = SentCalls /\ RanCalls' = RanCalls /\ Outcomes' /\ ResponseBeatsTimeout'
  BY <1>1, SentStay DEF Leave
<1>3. \A f \in Sides : wire'[f] \in {wire[f], <<>>}
  BY <1>1 DEF TypeOK
<1>4. \A f \in Sides : recv'[f] = "invoking" => recv[f] = "invoking" /\ serving'[f] = serving[f]
  BY <1>1 DEF Leave, TypeOK
<1>5. \A f \in Sides : \A i \in 1 .. Len(wire[f]) :
        IsRequest(wire[f][i]) => wire[f][i].call \notin RanCalls'
  BY <1>2 DEF Unrun
<1>6. \A f \in Sides : SideOk(f)'
  BY <1>1, <1>2, <1>3, <1>4, <1>5, SideStays
<1> QED
  BY <1>2, <1>6 DEF SerialParts

(* A function that was run ends, and its response is queued.                 *)
LEMMA SerialReturn ==
  ASSUME SerialInv, NEW e \in Sides, NEW k \in Replies, invoke_returns(e, k), UNCHANGED nesting
  PROVE  SerialParts'
<1> USE SerialTypes
<1>1. PICK c \in Calls : c = serving[e] /\ c \in SentCalls \cap RanCalls
  BY DEF invoke_returns, SideOk, SentCalls
<1> DEFINE r == Response(c, k)
<1>2. r \in Message /\ IsReply(r, SentCalls, RanCalls)
  BY <1>1, Types DEF IsReply
<1>3. /\ sendq' = [sendq EXCEPT ![e] = Append(@, r)] /\ buffer' = [buffer EXCEPT ![e] = r]
      /\ recv' = [recv EXCEPT ![e] = "replying"]
      /\ UNCHANGED <<callVars, wire, serving, open, runs>>
  BY <1>1 DEF invoke_returns, Reply
<1> HIDE DEF r
<1>4. SentCalls' = SentCalls /\ RanCalls' = RanCalls /\ Outcomes' /\ ResponseBeatsTimeout'
  BY <1>3, SentStay
<1>5. /\ QueueOf(sendq'[e], buffer'[e], SentCalls', RanCalls')
      /\ \A f \in Sides : f # e => sendq'[f] = sendq[f] /\ buffer'[f] = buffer[f]
  BY <1>2, <1>3, <1>4, SerialQueues
<1>6. recv'[e] = "replying" /\ \A f \in Sides : f # e => recv'[f] = recv[f]
  BY <1>3 DEF TypeOK
<1>7. \A f \in Sides : \A i \in 1 .. Len(wire[f]) :
        IsRequest(wire[f][i]) => wire[f][i].call \notin RanCalls'
  BY <1>4 DEF Unrun
<1>8. SideOk(e)'
  <2>1. WireOf(wire[e], Unrun(e)', SentCalls', RanCalls')
    BY <1>4, <1>7, WireStays
  <2> QED
    BY <1>3, <1>5, <1>6, <2>1 DEF SideOk
<1>9. \A f \in Sides : f # e => SideOk(f)'
  BY <1>3, <1>4, <1>5, <1>6, <1>7, SideStays
<1> QED
  BY <1>4, <1>8, <1>9 DEF SerialParts

(* A wait ends, or the call that waited returns.                             *)
LEMMA SerialWake ==
  ASSUME SerialInv, NEW c \in Calls, timeout(c) \/ resume_call(c), UNCHANGED nesting
  PROVE  SerialParts'
<1> USE SerialTypes
<1>1. UNCHANGED <<buffer, sendq, wire, recv, serving, runs, open, notified>>
  BY DEF timeout, resume_call, recvVars, Return
<1>2. /\ call[c] \in {"waiting", "wakeup"} /\ call'[c] \in {"wakeup", "done"}
      /\ \A d \in Calls : d # c => call'[d] = call[d] /\ result'[d] = result[d]
      /\ \/ result'[c] = result[c] /\ call'[c] = "wakeup"
         \/ result'[c] = IF notified[c] = "none" THEN "timed_out" ELSE notified[c]
  BY DEF timeout, resume_call, Return, TypeOK
<1>3. SentCalls' = SentCalls /\ RanCalls' = RanCalls
  BY <1>1, <1>2 DEF SentCalls, RanCalls
<1>4. \A f \in Sides : \A i \in 1 .. Len(wire[f]) :
        IsRequest(wire[f][i]) => wire[f][i].call \notin RanCalls'
  BY <1>3 DEF Unrun
<1>5. \A f \in Sides : SideOk(f)'
  BY <1>1, <1>3, <1>4, SideStays
<1>6. Outcomes'
  BY <1>1, <1>2, <1>3 DEF Outcomes
<1>7. ResponseBeatsTimeout'
  BY <1>1, <1>2 DEF ResponseBeatsTimeout, Replies
<1> QED
  BY <1>5, <1>6, <1>7 DEF SerialParts

LEMMA SerialClose ==
  ASSUME SerialInv, UNCHANGED <<nesting, callVars, buffer, sendq, wire, recvVars>>
  PROVE  SerialParts'
<1> USE SerialTypes
<1>1. SentCalls' = SentCalls /\ RanCalls' = RanCalls /\ Outcomes' /\ ResponseBeatsTimeout'
  BY SentStay DEF recvVars
<1>2. \A f \in Sides : \A i \in 1 .. Len(wire[f]) :
        IsRequest(wire[f][i]) => wire[f][i].call \notin RanCalls'
  BY <1>1 DEF Unrun
<1>3. \A f \in Sides : SideOk(f)'
  BY <1>1, <1>2, SideStays DEF recvVars
<1> QED
  BY <1>1, <1>3 DEF SerialParts

(* Each call is in one place: unsent, on the wire, served, or answered.      *)
THEOREM SerialInvariant ==
  ASSUME ~Overlap
  PROVE  Spec => []SerialInv
<1>1. Init => SerialInv
  <2> SUFFICES ASSUME Init PROVE SerialInv
    OBVIOUS
  <2>1. CallerInv
    BY InitCallerInv
  <2>2. \A e \in Sides : SideOk(e)
    <3>1. \A e \in Sides : sendq[e] = <<>> /\ wire[e] = <<>> /\ recv[e] # "invoking"
      BY DEF Init
    <3> QED
      BY <3>1, Nobody DEF SideOk
  <2>3. Outcomes /\ ResponseBeatsTimeout
    BY DEF Init, Outcomes, RanCalls, ResponseBeatsTimeout
  <2> QED
    BY <2>1, <2>2, <2>3 DEF SerialInv, SerialParts
<1>2. ASSUME SerialInv, [Next]_vars PROVE SerialInv'
  <2>1. CallerInv'
    BY <1>2, StepCallerInv DEF SerialInv
  <2>2. CASE UNCHANGED vars
    BY <1>2, <2>1, <2>2, SerialClose DEF vars, stepVars, SerialInv
  <2>3. ASSUME NEW c \in Calls, async_call(c) \/ timeout(c) \/ resume_call(c), UNCHANGED nesting
        PROVE  SerialParts'
    BY <1>2, <2>3, SerialCall, SerialWake
  <2>4. ASSUME NEW e \in Sides, SideStep(e) \/ close(e), UNCHANGED nesting
        PROVE  SerialParts'
    <3>1. CASE write(e) \/ send_fail(e)
      BY <1>2, <2>4, <3>1, SerialWrite, SerialReply
    <3>2. CASE read(e)
      BY <1>2, <2>4, <3>2, SerialNotify, SerialServe
    <3>3. CASE read_fails(e) \/ \E k \in Replies : invoke_returns(e, k)
      BY <1>2, <2>4, <3>3, SerialReadFails, SerialReturn
    <3>4. CASE close(e)
      BY <1>2, <2>4, <3>4, SerialClose DEF close
    <3> QED
      BY <2>4, <3>1, <3>2, <3>3, <3>4 DEF SideStep
  <2>5. CASE Next
    <3>1. /\ \/ \E c \in Calls : async_call(c) \/ timeout(c) \/ resume_call(c)
             \/ \E e \in Sides : SideStep(e) \/ close(e)
          /\ UNCHANGED nesting
      BY <2>5 DEF Next
    <3> QED
      BY <2>1, <2>3, <2>4, <3>1 DEF SerialInv
  <2> QED
    BY <1>2, <2>2, <2>5
<1> QED
  BY <1>1, <1>2, PTL DEF Spec

(* A call whose response was read before it returned returns what it says,   *)
(* and no other call returns an answer, however calls of the two sides nest, *)
(* when none begins while another request of its side is unsent.             *)
THEOREM ResponsesAreReturned ==
  ASSUME ~Overlap
  PROVE  Spec => []ResponseBeatsTimeout
<1>1. SerialInv => ResponseBeatsTimeout
  BY DEF SerialInv, SerialParts
<1> QED
  BY <1>1, SerialInvariant, PTL
------------------------------------------------------------------------------
(* Such calls implement RemoteCall.                                          *)
StatusOf(c) ==
  IF call[c] = "idle" THEN "idle"
  ELSE IF call[c] # "done" THEN "called"
  ELSE IF result[c] = "answer" THEN "ok" ELSE "unknown"
Status == [c \in Calls |-> StatusOf(c)]

(* One call moves, or none does. *)
LEMMA StatusStep ==
  ASSUME NEW c \in Calls,
         \A d \in Calls : d # c => call'[d] = call[d] /\ result'[d] = result[d]
  PROVE  Status' = [Status EXCEPT ![c] = StatusOf(c)']
<1>1. \A d \in Calls : d # c => StatusOf(d)' = StatusOf(d)
  BY DEF StatusOf
<1> QED
  BY <1>1 DEF Status

LEMMA StatusStays ==
  ASSUME \A c \in Calls : StatusOf(c)' = StatusOf(c)
  PROVE  Status' = Status
  BY DEF Status

(* Every step of a call is one of RemoteCall or none. *)
LEMMA CallStepMaps ==
  ASSUME SerialInv, NEW c \in Calls, UNCHANGED nesting,
         async_call(c) \/ timeout(c) \/ resume_call(c)
  PROVE  Abstract!Call(c) \/ Abstract!Succeed(c) \/ Abstract!Fail(c) \/ UNCHANGED Abstract!vars
<1> USE SerialTypes
<1>1. UNCHANGED runs /\ \A d \in Calls : d # c => call'[d] = call[d] /\ result'[d] = result[d]
  BY DEF async_call, timeout, resume_call, Return, recvVars, TypeOK
<1>2. Status' = [Status EXCEPT ![c] = StatusOf(c)'] /\ Status[c] = StatusOf(c)
  BY <1>1, StatusStep DEF Status
<1>3. CASE async_call(c)
  <2>1. StatusOf(c) = "idle" /\ StatusOf(c)' = "called"
    BY <1>3 DEF async_call, StatusOf, TypeOK
  <2> QED
    BY <1>1, <1>2, <2>1 DEF Abstract!Call, Status, StatusOf
<1>4. CASE timeout(c)
  <2>1. StatusOf(c)' = StatusOf(c)
    BY <1>4 DEF timeout, StatusOf, TypeOK
  <2>2. Status' = Status
    BY <1>2, <2>1 DEF Status
  <2> QED
    BY <1>1, <2>2 DEF Abstract!vars, Status, StatusOf
<1>5. CASE resume_call(c)
  <2>1. /\ StatusOf(c) = "called" /\ StatusOf(c)' \in {"ok", "unknown"}
        /\ StatusOf(c)' = "ok" => runs[c] = 1
    BY <1>5 DEF resume_call, Return, StatusOf, TypeOK, Outcomes, RanCalls
  <2> QED
    BY <1>1, <1>2, <2>1 DEF Abstract!Succeed, Abstract!Fail, Status, StatusOf
<1> QED
  BY <1>3, <1>4, <1>5

(* A request that leaves the queue may end its call without an answer.       *)
LEMMA RequestMaps ==
  ASSUME SerialInv, NEW e \in Sides, write(e) \/ send_fail(e), UNCHANGED nesting,
         IsRequest(Head(sendq[e]))
  PROVE  (\E c \in Calls : Abstract!Fail(c)) \/ UNCHANGED Abstract!vars
<1>1. PICK c \in Calls : c = Head(sendq[e]).call
  BY RequestLeaves
<1>2. /\ call[c] = "sending" /\ UNCHANGED runs
      /\ \A d \in Calls : d # c => call'[d] = call[d] /\ result'[d] = result[d]
      /\ \/ call'[c] = "waiting" /\ result'[c] = result[c]
         \/ call'[c] = "done" /\ result'[c] \in {"sent", "send_error"}
  BY <1>1, RequestLeaves
<1>3. Status' = [Status EXCEPT ![c] = StatusOf(c)'] /\ Status[c] = StatusOf(c)
  BY <1>2, StatusStep DEF Status
<1>4. StatusOf(c) = "called" /\ StatusOf(c)' \in {"called", "unknown"}
  BY <1>2 DEF StatusOf
<1>5. CASE StatusOf(c)' = "called"
  <2>1. Status' = Status
    BY <1>3, <1>4, <1>5 DEF Status
  <2> QED
    BY <1>2, <2>1 DEF Abstract!vars, Status, StatusOf
<1>6. CASE StatusOf(c)' = "unknown"
  BY <1>2, <1>3, <1>4, <1>6 DEF Abstract!Fail, Status, StatusOf
<1> QED
  BY <1>4, <1>5, <1>6

(* The steps of a side that end no call and run no function. *)
LEMMA StepHides ==
  ASSUME UNCHANGED <<result, runs>>,
         \A c \in Calls : call'[c] = call[c] \/ (call[c] = "waiting" /\ call'[c] = "wakeup")
  PROVE  UNCHANGED Abstract!vars
<1>1. \A c \in Calls : StatusOf(c)' = StatusOf(c)
  BY DEF StatusOf
<1>2. Status' = Status
  BY <1>1, StatusStays
<1> QED
  BY <1>2 DEF Abstract!vars, Status, StatusOf

(* A request that is read runs its function, or is refused. *)
LEMMA ServeMaps ==
  ASSUME SerialInv, NEW e \in Sides, read(e), UNCHANGED nesting,
         IsRequest(Head(wire[Peer(e)]))
  PROVE  (\E c \in Calls : Abstract!Run(c)) \/ UNCHANGED Abstract!vars
<1>1. UNCHANGED callVars
  BY SerialServe
<1>2. Status' = Status
  BY <1>1, StatusStays DEF StatusOf, callVars
<1>3. CASE UNCHANGED runs
  BY <1>2, <1>3 DEF Abstract!vars, Status, StatusOf
<1>4. ASSUME NEW c \in SentCalls, runs[c] = 0, runs' = [runs EXCEPT ![c] = 1]
      PROVE  Abstract!Run(c)
  <2>1. c \in Calls /\ result[c] # "answer" /\ call[c] # "idle"
    BY <1>4, SerialTypes DEF SentCalls, Outcomes, RanCalls
  <2>2. Status[c] \in {"called", "unknown"}
    BY <2>1 DEF Status, StatusOf
  <2> QED
    BY <1>2, <1>4, <2>2 DEF Abstract!Run, Status, StatusOf
<1> QED
  BY <1>3, <1>4, SerialServe DEF SentCalls

LEMMA SideStepMaps ==
  ASSUME SerialInv, NEW e \in Sides, SideStep(e) \/ close(e), UNCHANGED nesting
  PROVE  \/ \E c \in Calls : Abstract!Run(c) \/ Abstract!Fail(c)
         \/ UNCHANGED Abstract!vars
<1>1. CASE (write(e) \/ send_fail(e)) /\ IsRequest(Head(sendq[e]))
  BY <1>1, RequestMaps
<1>2. CASE (write(e) \/ send_fail(e)) /\ ~IsRequest(Head(sendq[e]))
  <2>1. UNCHANGED <<call, result, runs>>
    BY <1>2, SerialReply
  <2> QED
    BY <2>1, StepHides
<1>3. CASE read(e) /\ IsRequest(Head(wire[Peer(e)]))
  BY <1>3, ServeMaps
<1>4. CASE read(e) /\ ~IsRequest(Head(wire[Peer(e)]))
  BY <1>4, SerialNotify, StepHides
<1>5. CASE read_fails(e) \/ close(e) \/ \E k \in Replies : invoke_returns(e, k)
  <2>1. UNCHANGED <<call, result, runs>>
    BY <1>5 DEF read_fails, Leave, close, invoke_returns, recvVars, callVars
  <2> QED
    BY <2>1, StepHides
<1> QED
  BY <1>1, <1>2, <1>3, <1>4, <1>5 DEF SideStep

(* Calls of both sides, however they nest, time out, fail or lose their      *)
(* connection, implement RemoteCall, when none begins while another request  *)
(* of its side is unsent: no function runs twice for a call, and no call     *)
(* returns an answer unless its function ran.                                *)
THEOREM CallsImplementRemoteCall ==
  ASSUME ~Overlap
  PROVE  Spec => ImplementsRemoteCall
<1>1. Init => Abstract!Init
  BY DEF Init, Abstract!Init
<1>2. SerialInv /\ [Next]_vars => [Abstract!Next]_(Abstract!vars)
  <2> SUFFICES ASSUME SerialInv, [Next]_vars PROVE Abstract!Next \/ UNCHANGED Abstract!vars
    OBVIOUS
  <2>1. CASE UNCHANGED vars
    <3>1. Status' = Status /\ UNCHANGED runs
      BY <2>1, StatusStays DEF vars, stepVars, callVars, recvVars, StatusOf
    <3> QED
      BY <3>1 DEF Abstract!vars, Status, StatusOf
  <2>2. ASSUME NEW c \in Calls, async_call(c) \/ timeout(c) \/ resume_call(c), UNCHANGED nesting
        PROVE  Abstract!Next \/ UNCHANGED Abstract!vars
    BY <2>2, CallStepMaps DEF Abstract!Next
  <2>3. ASSUME NEW e \in Sides, SideStep(e) \/ close(e), UNCHANGED nesting
        PROVE  Abstract!Next \/ UNCHANGED Abstract!vars
    BY <2>3, SideStepMaps DEF Abstract!Next
  <2>4. CASE Next
    <3>1. /\ \/ \E c \in Calls : async_call(c) \/ timeout(c) \/ resume_call(c)
             \/ \E e \in Sides : SideStep(e) \/ close(e)
          /\ UNCHANGED nesting
      BY <2>4 DEF Next
    <3> QED
      BY <2>2, <2>3, <3>1
  <2> QED
    BY <2>1, <2>4
<1> QED
  BY <1>1, <1>2, SerialInvariant, PTL DEF Spec, ImplementsRemoteCall, Abstract!Spec
------------------------------------------------------------------------------
(* A number is its lowest byte and the rest. *)
LEMMA LowestByte ==
  ASSUME NEW n \in Nat
  PROVE  /\ n \div 256 \in Nat
         /\ n % 256 \in Nat
         /\ (n % 256) + 256 * (n \div 256) = n
  OBVIOUS

LEMMA Quotients ==
  ASSUME NEW n \in Nat
  PROVE  /\ Q1(n) \in Nat /\ n % 256 \in Nat /\ (n % 256) + 256 * Q1(n) = n
         /\ Q2(n) \in Nat /\ Q1(n) % 256 \in Nat /\ (Q1(n) % 256) + 256 * Q2(n) = Q1(n)
         /\ Q3(n) \in Nat /\ Q2(n) % 256 \in Nat /\ (Q2(n) % 256) + 256 * Q3(n) = Q2(n)
         /\ Q4(n) \in Nat /\ Q3(n) % 256 \in Nat /\ (Q3(n) % 256) + 256 * Q4(n) = Q3(n)
         /\ Q5(n) \in Nat /\ Q4(n) % 256 \in Nat /\ (Q4(n) % 256) + 256 * Q5(n) = Q4(n)
         /\ Q6(n) \in Nat /\ Q5(n) % 256 \in Nat /\ (Q5(n) % 256) + 256 * Q6(n) = Q5(n)
         /\ Q7(n) \in Nat /\ Q6(n) % 256 \in Nat /\ (Q6(n) % 256) + 256 * Q7(n) = Q6(n)
<1>1. Q1(n) \in Nat /\ n % 256 \in Nat /\ (n % 256) + 256 * Q1(n) = n
  BY LowestByte, ZenonT(40) DEF Q1
<1>2. Q2(n) \in Nat /\ Q1(n) % 256 \in Nat /\ (Q1(n) % 256) + 256 * Q2(n) = Q1(n)
  BY <1>1, LowestByte, ZenonT(40) DEF Q2
<1>3. Q3(n) \in Nat /\ Q2(n) % 256 \in Nat /\ (Q2(n) % 256) + 256 * Q3(n) = Q2(n)
  BY <1>2, LowestByte, ZenonT(40) DEF Q3
<1>4. Q4(n) \in Nat /\ Q3(n) % 256 \in Nat /\ (Q3(n) % 256) + 256 * Q4(n) = Q3(n)
  BY <1>3, LowestByte, ZenonT(40) DEF Q4
<1>5. Q5(n) \in Nat /\ Q4(n) % 256 \in Nat /\ (Q4(n) % 256) + 256 * Q5(n) = Q4(n)
  BY <1>4, LowestByte, ZenonT(40) DEF Q5
<1>6. Q6(n) \in Nat /\ Q5(n) % 256 \in Nat /\ (Q5(n) % 256) + 256 * Q6(n) = Q5(n)
  BY <1>5, LowestByte, ZenonT(40) DEF Q6
<1>7. Q7(n) \in Nat /\ Q6(n) % 256 \in Nat /\ (Q6(n) % 256) + 256 * Q7(n) = Q6(n)
  BY <1>6, LowestByte, ZenonT(40) DEF Q7
<1> QED
  BY <1>1, <1>2, <1>3, <1>4, <1>5, <1>6, <1>7

(* A prefix of nine bytes is read back. *)
LEMMA ReadBack ==
  ASSUME NEW n, IsLength(n), NEW h,
         h[2] = n % 256, h[3] = Q1(n) % 256, h[4] = Q2(n) % 256, h[5] = Q3(n) % 256,
         h[6] = Q4(n) % 256, h[7] = Q5(n) % 256, h[8] = Q6(n) % 256, h[9] = Q7(n) % 256
  PROVE  Uint63(h) = n /\ h[9] \in Nat /\ h[9] < 128
<1>1. n \in Nat /\ Q7(n) < 128
  BY DEF IsLength
<1>2. h[9] = Q7(n) /\ Q7(n) \in Nat
  <2>1. Q7(n) \in Nat
    BY <1>1, Quotients, ZenonT(40)
  <2>2. Q7(n) % 256 = Q7(n)
    BY <1>1, <2>1
  <2> QED
    BY <2>1, <2>2, Zenon
<1>3. h[8] + 256 * Q7(n) = Q6(n)
  <2>1. (Q6(n) % 256) + 256 * Q7(n) = Q6(n)
    BY <1>1, Quotients, ZenonT(40)
  <2> QED
    BY <2>1, Zenon
<1>4. h[7] + 256 * Q6(n) = Q5(n)
  <2>1. (Q5(n) % 256) + 256 * Q6(n) = Q5(n)
    BY <1>1, Quotients, ZenonT(40)
  <2> QED
    BY <2>1, Zenon
<1>5. h[6] + 256 * Q5(n) = Q4(n)
  <2>1. (Q4(n) % 256) + 256 * Q5(n) = Q4(n)
    BY <1>1, Quotients, ZenonT(40)
  <2> QED
    BY <2>1, Zenon
<1>6. h[5] + 256 * Q4(n) = Q3(n)
  <2>1. (Q3(n) % 256) + 256 * Q4(n) = Q3(n)
    BY <1>1, Quotients, ZenonT(40)
  <2> QED
    BY <2>1, Zenon
<1>7. h[4] + 256 * Q3(n) = Q2(n)
  <2>1. (Q2(n) % 256) + 256 * Q3(n) = Q2(n)
    BY <1>1, Quotients, ZenonT(40)
  <2> QED
    BY <2>1, Zenon
<1>8. h[3] + 256 * Q2(n) = Q1(n)
  <2>1. (Q1(n) % 256) + 256 * Q2(n) = Q1(n)
    BY <1>1, Quotients, ZenonT(40)
  <2> QED
    BY <2>1, Zenon
<1>9. h[2] + 256 * Q1(n) = n
  <2>1. (n % 256) + 256 * Q1(n) = n
    BY <1>1, Quotients, ZenonT(40)
  <2> QED
    BY <2>1, Zenon
<1> QED
  BY <1>1, <1>2, <1>3, <1>4, <1>5, <1>6, <1>7, <1>8, <1>9 DEF Uint63

(* Whatever its length and however much of it has arrived, a frame is found  *)
(* when its last byte is there, as a whole, and not before.                  *)
THEOREM FramesFound ==
  ASSUME NEW n, IsLength(n), NEW size \in Nat
  PROVE  FrameIsFound(n, size)
<1> DEFINE h == Arrived(n, size)
<1>0. n \in Nat
  BY DEF IsLength
<1>1. CASE n < 254
  <2>1. generate_length(n) = <<n>> /\ Len(generate_length(n)) = 1
    BY <1>1 DEF generate_length
  <2>2. size >= 1 => h[1] = n
    BY <2>1 DEF Arrived
  <2> HIDE DEF h
  <2>3. size < n + 1 => Match(h, size) = NotYet
    BY <1>0, <1>1, <2>2 DEF Match, Payload
  <2>4. size >= n + 1 => Match(h, size) = Frame(n + 1) /\ get_payload(h) = 1
    BY <1>0, <1>1, <2>2 DEF Match, Payload, get_payload
  <2> QED
    BY <1>0, <2>1, <2>3, <2>4 DEF FrameIsFound, h
<1>2. CASE n >= 254 /\ n <= 65535
  <2>1. /\ generate_length(n) = <<254, n % 256, Q1(n)>>
        /\ Len(generate_length(n)) = 3
    BY <1>0, <1>2 DEF generate_length
  <2>2. size >= 1 => h[1] = 254
    BY <2>1 DEF Arrived
  <2>3. size >= 3 => h[2] = n % 256 /\ h[3] = Q1(n)
    BY <2>1 DEF Arrived
  <2> HIDE DEF h
  <2>4. size >= 3 => Uint16(h) = n
    <3>1. (n % 256) + 256 * Q1(n) = n
      BY <1>0, Quotients, ZenonT(40)
    <3> QED
      BY <2>3, <3>1, Zenon DEF Uint16
  <2>5. size < n + 3 => Match(h, size) = NotYet
    BY <1>0, <1>2, <2>2, <2>4 DEF Match, Payload
  <2>6. size >= n + 3 => Match(h, size) = Frame(n + 3) /\ get_payload(h) = 3
    BY <1>0, <1>2, <2>2, <2>4 DEF Match, Payload, get_payload
  <2> QED
    BY <1>0, <2>1, <2>5, <2>6 DEF FrameIsFound, h
<1>3. CASE n > 65535
  <2>1. /\ generate_length(n) = <<255, n % 256, Q1(n) % 256, Q2(n) % 256, Q3(n) % 256,
                                 Q4(n) % 256, Q5(n) % 256, Q6(n) % 256, Q7(n) % 256>>
        /\ Len(generate_length(n)) = 9
    BY <1>0, <1>3 DEF generate_length
  <2>2. size >= 1 => h[1] = 255
    BY <2>1 DEF Arrived
  <2>3. size >= 9 =>
          /\ h[2] = n % 256 /\ h[3] = Q1(n) % 256 /\ h[4] = Q2(n) % 256
          /\ h[5] = Q3(n) % 256 /\ h[6] = Q4(n) % 256 /\ h[7] = Q5(n) % 256
          /\ h[8] = Q6(n) % 256 /\ h[9] = Q7(n) % 256
    BY <2>1 DEF Arrived
  <2> HIDE DEF h
  <2>4. size >= 9 => Uint63(h) = n
    BY <2>3, ReadBack
  <2>5. size >= 9 => h[9] \in Nat /\ h[9] < 128
    BY <2>3, ReadBack
  <2>6. size < n + 9 => Match(h, size) = NotYet
    BY <1>0, <1>3, <2>2, <2>4, <2>5 DEF Match, Payload
  <2>7. size >= n + 9 => Match(h, size) = Frame(n + 9) /\ get_payload(h) = 9
    BY <1>0, <1>3, <2>2, <2>4, <2>5 DEF Match, Payload, get_payload
  <2> QED
    BY <1>0, <2>1, <2>6, <2>7 DEF FrameIsFound, h
<1> QED
  BY <1>0, <1>1, <1>2, <1>3

(* The lengths at the boundaries of the prefix are lengths. *)
LEMMA QuotientType ==
  ASSUME NEW n \in Nat
  PROVE  n \div 256 \in Nat
  OBVIOUS

LEMMA BelowTwoBytes ==
  ASSUME NEW n \in Nat, n < 65537
  PROVE  n \div 256 < 257
  OBVIOUS

LEMMA BelowOneByte ==
  ASSUME NEW n \in Nat, n < 257
  PROVE  n \div 256 < 2
  OBVIOUS

LEMMA SmallIsLength ==
  ASSUME NEW n \in Nat, n < 65537
  PROVE  IsLength(n)
<1>0. \A m \in Nat : m < 2 => m < 257 /\ m < 128
  OBVIOUS
<1>1. Q1(n) \in Nat /\ Q1(n) < 257
  BY QuotientType, BelowTwoBytes DEF Q1
<1>2. Q2(n) \in Nat /\ Q2(n) < 2
  BY <1>0, <1>1, QuotientType, BelowOneByte DEF Q2
<1>3. Q3(n) \in Nat /\ Q3(n) < 2
  BY <1>0, <1>2, QuotientType, BelowOneByte DEF Q3
<1>4. Q4(n) \in Nat /\ Q4(n) < 2
  BY <1>0, <1>3, QuotientType, BelowOneByte DEF Q4
<1>5. Q5(n) \in Nat /\ Q5(n) < 2
  BY <1>0, <1>4, QuotientType, BelowOneByte DEF Q5
<1>6. Q6(n) \in Nat /\ Q6(n) < 2
  BY <1>0, <1>5, QuotientType, BelowOneByte DEF Q6
<1>7. Q7(n) \in Nat /\ Q7(n) < 2
  BY <1>0, <1>6, QuotientType, BelowOneByte DEF Q7
<1> QED
  BY <1>0, <1>7 DEF IsLength

LEMMA BoundaryLengths == \A n \in Lengths : IsLength(n) /\ Sizes(n) \subseteq Nat
<1>1. \A n \in Lengths : n \in Nat /\ n < 65537
  BY DEF Lengths
<1>2. \A n \in Nat : Sizes(n) \subseteq Nat
  BY DEF Sizes
<1> QED
  BY <1>1, <1>2, SmallIsLength

(* Whatever is on its way between the sides, a frame is found when its last  *)
(* byte is there and not before (core/match_condition.hpp).                  *)
THEOREM FramesOnTheWayAreFound == Spec => []FramesAreFound
<1>1. FramesAreFound
  BY BoundaryLengths, FramesFound DEF FramesAreFound
<1> QED
  BY <1>1, PTL
=============================================================================
