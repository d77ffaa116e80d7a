--------------------------- MODULE TcpClientProofs ---------------------------
(***************************************************************************)
(* The client is type correct and its connect timeout closes no connection *)
(* of a connect that has returned, for any number of endpoints.            *)
(***************************************************************************)
EXTENDS TcpClient, TLAPS

(* The timeout lives only as long as the connect that started it. *)
TimerOnlyWhileConnecting == timer # "off" => pc \in Connecting

(* Inductive. *)
ClientInv == TypeOK /\ TimerOnlyWhileConnecting

LEMMA ClientInitInv == Init => ClientInv
<1> SUFFICES ASSUME Init PROVE ClientInv
  OBVIOUS
<1>1. aborted \in BOOLEAN
  BY Zenon DEF Init
<1>2. pc = "looping" /\ left \in 0 .. MaxEndpoints
  BY ClientAssumption, SMT DEF ClientAssumption, Init
<1>3. TypeOK
  BY <1>1, <1>2, Zenon DEF Init, TypeOK
<1>4. TimerOnlyWhileConnecting
  BY DEF Init, TimerOnlyWhileConnecting
<1>5. QED
  BY <1>3, <1>4 DEF ClientInv

(* The steps of the connect itself. *)
LEMMA ConnectStepsInv ==
  ASSUME ClientInv,
         loop \/ resolved \/ attempt_ends \/ connect_succeeds \/ connect_fails \/ wakeup
  PROVE  ClientInv'
<1> USE ClientAssumption DEF ClientAssumption, ClientInv, TypeOK, TimerOnlyWhileConnecting,
        Connecting, Connected, Sending
<1>1. CASE loop
  BY <1>1 DEF loop
<1>2. CASE resolved
  BY <1>2 DEF resolved, Return
<1>3. CASE attempt_ends
  BY <1>3 DEF attempt_ends
<1>4. CASE connect_succeeds
  BY <1>4 DEF connect_succeeds, Return
<1>5. CASE connect_fails
  BY <1>5 DEF connect_fails, Try, Return
<1>6. CASE wakeup
  BY <1>6 DEF wakeup, Close
<1>7. QED
  BY <1>1, <1>2, <1>3, <1>4, <1>5, <1>6

(* The steps on a connection. *)
LEMMA ConnectedStepsInv ==
  ASSUME ClientInv, sent \/ send_fails \/ read \/ read_fails
  PROVE  ClientInv'
<1> USE DEF ClientInv, TypeOK, TimerOnlyWhileConnecting,
        Connecting, Connected, Sending
<1>1. CASE sent
  BY <1>1 DEF sent, Unlock
<1>2. CASE send_fails
  BY <1>2 DEF send_fails, Unlock, Close
<1>3. CASE read
  BY <1>3 DEF read
<1>4. CASE read_fails
  BY <1>4 DEF read_fails, Close
<1>5. QED
  BY <1>1, <1>2, <1>3, <1>4

(* The timers, the stop, the application and the peer. *)
LEMMA OtherStepsInv ==
  ASSUME ClientInv,
         \/ timer_expires \/ connect_timeout \/ disconnect_timeout
         \/ async_stop \/ resume_stop \/ stop_ends \/ restart \/ peer_turns
  PROVE  ClientInv'
<1> USE DEF ClientInv, TypeOK, TimerOnlyWhileConnecting,
        Connecting, Connected, Sending
<1>1. CASE timer_expires
  BY <1>1 DEF timer_expires
<1>2. CASE connect_timeout
  BY <1>2 DEF connect_timeout, Close
<1>3. CASE disconnect_timeout
  BY <1>3 DEF disconnect_timeout, Close
<1>4. CASE async_stop
  BY <1>4 DEF async_stop, Disconnect, Close
<1>5. CASE resume_stop
  BY <1>5 DEF resume_stop, Disconnect, Close
<1>6. CASE stop_ends
  BY <1>6 DEF stop_ends, Close
<1>7. CASE restart
  BY <1>7 DEF restart
<1>8. CASE peer_turns
  BY <1>8 DEF peer_turns
<1>9. QED
  BY <1>1, <1>2, <1>3, <1>4, <1>5, <1>6, <1>7, <1>8

(* The inductive invariant of the client. *)
THEOREM ClientInvariant == Spec => []ClientInv
<1>1. Init => ClientInv
  BY ClientInitInv
<1>2. ClientInv /\ [Next]_vars => ClientInv'
  <2>1. ASSUME ClientInv, Next PROVE ClientInv'
    BY <2>1, ConnectStepsInv, ConnectedStepsInv, OtherStepsInv
    DEF Next, LoopStep, StopStep
  <2>2. ASSUME ClientInv, UNCHANGED vars PROVE ClientInv'
    BY <2>2 DEF vars, ClientInv, TypeOK, TimerOnlyWhileConnecting
  <2>3. QED
    BY <2>1, <2>2
<1>3. QED
  BY <1>1, <1>2, PTL DEF Spec

(* Type correctness (tcp/tcp_client.hpp, tcp/connect.hpp). *)
THEOREM ClientTypeCorrect == Spec => []TypeOK
<1>1. ClientInv => TypeOK
  BY DEF ClientInv
<1>2. QED
  BY <1>1, ClientInvariant, PTL

(* A connect timeout, however late, closes no connection of a connect that   *)
(* has returned (tcp/connect.hpp:117-123 against the destructor of           *)
(* core/timer.hpp:197), and a temporary socket that was moved in is up.      *)
THEOREM ConnectionsOutliveTimeouts == Spec => TimeoutSparesConnection
<1> DEFINE Stays == /\ pc \in Connected /\ pc' \in Connected
                    /\ stop' \in {"idle", "waiting"} /\ sock = "up"
                    => sock' = "up"
           MovedIn == pc \in Connecting /\ pc' \in Connected /\ way = "temporary" => sock' = "up"
<1>1. ASSUME ClientInv, Next PROVE Stays /\ MovedIn
  <2> USE DEF Connecting, Connected, Sending
  <2>1. CASE LoopStep
    BY <2>1 DEF LoopStep, loop, resolved, attempt_ends, connect_succeeds, connect_fails,
                wakeup, sent, send_fails, read_fails, Return, Try
  <2>2. CASE StopStep
    BY <2>2 DEF StopStep, resume_stop, stop_ends, Disconnect, Close
  <2>3. CASE connect_timeout
    BY <1>1, <2>3 DEF connect_timeout, ClientInv, TimerOnlyWhileConnecting
  <2>4. CASE read \/ timer_expires \/ restart \/ peer_turns
    BY <2>4 DEF read, timer_expires, restart, peer_turns
  <2>5. CASE disconnect_timeout \/ async_stop
    BY <2>5 DEF disconnect_timeout, async_stop, Disconnect, Close
  <2> QED
    BY <1>1, <2>1, <2>2, <2>3, <2>4, <2>5 DEF Next
<1>2. ClientInv /\ [Next]_vars => [Stays /\ MovedIn]_vars
  BY <1>1
<1> QED
  BY <1>2, ClientInvariant, PTL DEF Spec, TimeoutSparesConnection
=============================================================================
