------------------------------ MODULE TaskQueue ------------------------------
(***************************************************************************)
(* What a thread pool or group promises those who post to it: a task is     *)
(* accepted or refused; the accepted tasks of a line are started in the      *)
(* order they were accepted in, each once, and the queue is closed only when *)
(* every accepted task has ended.                                            *)
(***************************************************************************)
EXTENDS Sequences

CONSTANTS Tasks, Lines

VARIABLES
  status,  (* "new", "accepted", "started", "ended" or "refused", per task    *)
  line,    (* accepted tasks not started, per line                            *)
  closed

vars == <<status, line, closed>>

Init ==
  /\ status = [t \in Tasks |-> "new"]
  /\ line = [p \in Lines |-> <<>>]
  /\ closed = FALSE

Accept(t, p) ==
  /\ status[t] = "new" /\ ~closed
  /\ status' = [status EXCEPT ![t] = "accepted"]
  /\ line' = [line EXCEPT ![p] = Append(@, t)]
  /\ UNCHANGED closed

Refuse(t) ==
  /\ status[t] = "new"
  /\ status' = [status EXCEPT ![t] = "refused"]
  /\ UNCHANGED <<line, closed>>

Start(p) ==
  /\ line[p] # <<>>
  /\ status' = [status EXCEPT ![Head(line[p])] = "started"]
  /\ line' = [line EXCEPT ![p] = Tail(@)]
  /\ UNCHANGED closed

End(t) ==
  /\ status[t] = "started"
  /\ status' = [status EXCEPT ![t] = "ended"]
  /\ UNCHANGED <<line, closed>>

Close ==
  /\ \A t \in Tasks : status[t] \notin {"accepted", "started"}
  /\ closed' = TRUE
  /\ UNCHANGED <<status, line>>

Next ==
  \/ \E t \in Tasks : (\E p \in Lines : Accept(t, p)) \/ Refuse(t) \/ End(t)
  \/ \E p \in Lines : Start(p)
  \/ Close

Spec == Init /\ [][Next]_vars
=============================================================================
