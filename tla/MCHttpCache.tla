----------------------------- MODULE MCHttpCache -----------------------------
(* HttpCache on small sets; the model values of each set are alike. *)
EXTENDS HttpCache, TLC

Alike == Permutations(Sessions) \cup Permutations(Urls) \cup Permutations(Values)
=============================================================================
