---------------------------- MODULE MCThreadPool -----------------------------
(* ThreadPool with one pool of two workers and with a group of two pools.    *)
EXTENDS ThreadPool

CONSTANTS w1, w2, t1, t2, t3, t4, t5

(* t1 posts t2; t3 posts t4. *)
Posters == [t \in Tasks |-> IF t = t2 THEN t1 ELSE IF t = t4 THEN t3 ELSE NoTask]

(* t1 waits for t2 in the same pool. *)
OnePool ==
  [count |-> 1, of |-> [w \in Workers |-> 1], home |-> [t \in Tasks |-> 1],
   by |-> Posters, waits |-> {t1}]

(* t1 and t3 run on different pools and post to each other's. *)
Group ==
  [count |-> 2, of |-> [w \in Workers |-> IF w = w1 THEN 1 ELSE 2],
   home |-> [t \in Tasks |-> IF t \in {t2, t3} THEN 2 ELSE 1],
   by |-> Posters, waits |-> {}]

SmallLayouts == {OnePool, Group}
=============================================================================
