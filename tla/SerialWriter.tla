---------------------------- MODULE SerialWriter -----------------------------
(***************************************************************************)
(* What async_send promises to the callers of one stream: the messages     *)
(* reach the wire one after the other, in the order of the calls, and a    *)
(* message that is not dropped reaches it whole.  Other operations take    *)
(* their turn in the same line and write nothing.                          *)
(***************************************************************************)
EXTENDS Naturals, Sequences, FiniteSets

CONSTANTS
  Messages,  (* the messages, each sent at most once   *)
  Turns,     (* the operations that only take a turn   *)
  Chunks     (* the pieces a message is taken in       *)

VARIABLES
  line,      (* who was called and is not finished, in the order of the calls *)
  wire       (* whose chunk each one on the wire is                       *)

vars == <<line, wire>>

InLineAlready(m) == \E i \in 1 .. Len(line) : line[i] = m
OnWire(m) == {i \in 1 .. Len(wire) : wire[i] = m}

Init == line = <<>> /\ wire = <<>>

Submit(m) ==
  /\ ~InLineAlready(m) /\ OnWire(m) = {}
  /\ line' = Append(line, m)
  /\ UNCHANGED wire

(* Only the first in line writes, and leaves with its last chunk. *)
Put ==
  /\ line # <<>> /\ Head(line) \in Messages
  /\ wire' = Append(wire, Head(line))
  /\ line' = IF Cardinality(OnWire(Head(line))) = Chunks - 1 THEN Tail(line) ELSE line

(* A turn is over, or a message is given up: its send was cancelled or the   *)
(* stream broke.  A turn is not given up before it comes.                    *)
Leave(k) ==
  /\ k = 1 \/ line[k] \in Messages
  /\ line' = [i \in 1 .. Len(line) - 1 |-> IF i < k THEN line[i] ELSE line[i + 1]]
  /\ UNCHANGED wire

Next ==
  \/ \E m \in Messages \cup Turns : Submit(m)
  \/ Put
  \/ \E k \in 1 .. Len(line) : Leave(k)

Spec == Init /\ [][Next]_vars
=============================================================================
