----------------------------- MODULE MCRpcCaller -----------------------------
(* RpcCaller with the calls c1, c2, c3: who makes them, and inside which;    *)
(* and the frames its messages travel in, at the boundaries of the prefix.   *)
EXTENDS RpcCaller, RpcFraming

CONSTANTS c1, c2, c3

(* The client makes all the calls. *)
OneSided == [from |-> [c \in Calls |-> "client"], inside |-> [c \in Calls |-> NoCall]]

(* The function that serves c1 on the server calls c2 back on the client. *)
CallBack ==
  [from |-> [c \in Calls |-> IF c = c2 THEN "server" ELSE "client"],
   inside |-> [c \in Calls |-> IF c = c2 THEN c1 ELSE NoCall]]

OnlyOneSided == {OneSided}
BothShapes == {OneSided, CallBack}

Lengths == {0, 253, 254, 65535, 65536}
Sizes(n) == {0, 1, 2, 3, 8, 9} \cup {n + k : k \in {0, 1, 2, 3, 8, 9}}

(* While a frame is on its way, whatever its length and however much of it   *)
(* has arrived: it is found when it is whole, and never before.              *)
FramesAreFound ==
  (\E e \in Sides : wire[e] # <<>>) =>
    \A n \in Lengths : \A size \in Sizes(n) : FrameIsFound(n, size)
=============================================================================
