----------------------------- MODULE RemoteCall ------------------------------
(***************************************************************************)
(* What async_call promises its callers: the remote function runs at most  *)
(* once for a call, a call that succeeds returns what that run answered,   *)
(* and a call that returns an error, or is one-way, may or may not have run. *)
(***************************************************************************)
EXTENDS Naturals

CONSTANT Calls

VARIABLES
  status,  (* "idle", "called", "ok" or "unknown", for each call         *)
  runs     (* how often the remote function ran for each call           *)

vars == <<status, runs>>

Init ==
  /\ status = [c \in Calls |-> "idle"]
  /\ runs = [c \in Calls |-> 0]

Call(c) ==
  /\ status[c] = "idle"
  /\ status' = [status EXCEPT ![c] = "called"]
  /\ UNCHANGED runs

(* The function may still run after its caller has given up. *)
Run(c) ==
  /\ status[c] \in {"called", "unknown"} /\ runs[c] = 0
  /\ runs' = [runs EXCEPT ![c] = 1]
  /\ UNCHANGED status

Succeed(c) ==
  /\ status[c] = "called" /\ runs[c] = 1
  /\ status' = [status EXCEPT ![c] = "ok"]
  /\ UNCHANGED runs

Fail(c) ==
  /\ status[c] = "called"
  /\ status' = [status EXCEPT ![c] = "unknown"]
  /\ UNCHANGED runs

Next == \E c \in Calls : Call(c) \/ Run(c) \/ Succeed(c) \/ Fail(c)

Spec == Init /\ [][Next]_vars
=============================================================================
