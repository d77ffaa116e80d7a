------------------------------ MODULE HttpCache ------------------------------
(***************************************************************************)
(* The response cache of the HTTP router (http/cache.hpp) and the routing  *)
(* of GET requests to a function with enable_cache (_proxy in              *)
(* http/router.hpp), for the sessions of one io_context thread.            *)
(*                                                                         *)
(* A request that finds a node keeps a pointer to it while it awaits the   *)
(* before and after functions, and its response refers to the node until   *)
(* it is written; the other sessions go on in between.                     *)
(***************************************************************************)
EXTENDS Naturals, Sequences, SequencesExt

CONSTANTS
  Sessions,  (* the sessions, each with one request at a time              *)
  Urls,      (* the targets they ask for                                   *)
  Values,    (* the responses the functions make that may be stored        *)
  NotKept,   (* any other: its status is not ok, or its body has no string *)
  Nothing,   (* no response, no URL                                        *)
  MaxCount   (* cache_max_count_                                           *)

ASSUME CacheAssumption ==
  /\ MaxCount \in Nat
  /\ NotKept \notin Values /\ Nothing \notin Values \cup Urls

VARIABLES
  pc,      (* where each session is                                        *)
  url,     (* the target of its request                                    *)
  node,    (* whether it holds a node, and whether that was freed          *)
  stored,  (* the response stored for each URL                             *)
  age      (* the stored URLs, by alive, the oldest first                  *)

vars == <<pc, url, node, stored, age>>

(* undefined: it has used a node that was freed, and is not followed on.    *)
TypeOK ==
  /\ pc \in [Sessions -> {"idle", "hit", "miss", "writing", "undefined"}]
  /\ url \in [Sessions -> Urls \cup {Nothing}]
  /\ node \in [Sessions -> {"none", "live", "freed"}]
  /\ stored \in [Urls -> Values \cup {Nothing}]
  /\ age \in Seq(Urls) /\ Len(age) <= MaxCount
  /\ \A i, j \in 1 .. Len(age) : age[i] = age[j] => i = j
  /\ \A u \in Urls : stored[u] # Nothing <=> \E i \in 1 .. Len(age) : age[i] = u

Init ==
  /\ pc = [s \in Sessions |-> "idle"]
  /\ url = [s \in Sessions |-> Nothing]
  /\ node = [s \in Sessions |-> "none"]
  /\ stored = [u \in Urls |-> Nothing]
  /\ age = <<>>
------------------------------------------------------------------------------
(* Session s has read a GET request for u, and the route looks it up. *)
find(s, u) ==
  /\ pc[s] = "idle"
  /\ url' = [url EXCEPT ![s] = u]
  /\ pc' = [pc EXCEPT ![s] = IF stored[u] = Nothing THEN "miss" ELSE "hit"]
  /\ node' = [node EXCEPT ![s] = IF stored[u] = Nothing THEN "none" ELSE "live"]
  /\ UNCHANGED <<stored, age>>

(* Mutant: one fewer goes. *)
M_Erased_off_by_one ==
  IF Len(age) < MaxCount THEN 0 ELSE (Len(age) \div 3) - 1

(* How many shrink_to_fit erases: a third of a full cache, the oldest ones.  *)
Erased == IF Len(age) < MaxCount THEN 0 ELSE Len(age) \div 3

Victims == {age[i] : i \in 1 .. Erased}
Kept == SubSeq(age, Erased + 1, Len(age))

(* The nodes of the URLs in E are erased; who holds one is not asked.        *)
Freed(E) ==
  [s \in Sessions |-> IF node[s] = "live" /\ url[s] \in E THEN "freed" ELSE node[s]]

(* A function of the route has returned false, with its own response. *)
route_fails(s) ==
  /\ pc[s] \in {"hit", "miss"}
  /\ pc' = [pc EXCEPT ![s] = "writing"]
  /\ node' = [node EXCEPT ![s] = "none"]
  /\ UNCHANGED <<url, stored, age>>

(* Mutants: insert_or_assign; the cache is not shrunk. *)
M_miss_done_assigns(s, v) ==
  /\ pc[s] = "miss"
  /\ pc' = [pc EXCEPT ![s] = "writing"]
  /\ node' = Freed(Victims)
  /\ LET adds == v # NotKept /\ Len(Kept) < MaxCount
     IN  /\ stored' = [u \in Urls |-> IF adds /\ u = url[s] THEN v
                                     ELSE IF u \in Victims THEN Nothing ELSE stored[u]]
         /\ age' = IF adds /\ ~Contains(Kept, url[s]) THEN Append(Kept, url[s]) ELSE Kept
  /\ UNCHANGED url

M_miss_done_grows(s, v) ==
  /\ pc[s] = "miss"
  /\ pc' = [pc EXCEPT ![s] = "writing"]
  /\ IF v # NotKept /\ stored[url[s]] = Nothing
     THEN stored' = [stored EXCEPT ![url[s]] = v] /\ age' = Append(age, url[s])
     ELSE UNCHANGED <<stored, age>>
  /\ UNCHANGED <<url, node>>

(* The functions of a miss have made the response v: a full cache is shrunk, *)
(* also for a response that is not kept; one that may be is stored, unless   *)
(* there is still no room or another request has stored one meanwhile.       *)
miss_done(s, v) ==
  /\ pc[s] = "miss"
  /\ pc' = [pc EXCEPT ![s] = "writing"]
  /\ node' = Freed(Victims)
  /\ LET adds == v # NotKept /\ Len(Kept) < MaxCount /\ ~Contains(Kept, url[s])
     IN  /\ stored' = [u \in Urls |-> IF adds /\ u = url[s] THEN v
                                     ELSE IF u \in Victims THEN Nothing ELSE stored[u]]
         /\ age' = IF adds THEN Append(Kept, url[s]) ELSE Kept
  /\ UNCHANGED url

(* The functions of a hit have returned: the node's time is updated and the  *)
(* response refers to its message.                                           *)
hit_done(s) ==
  /\ pc[s] = "hit"
  /\ \/ /\ node[s] = "live"
        /\ pc' = [pc EXCEPT ![s] = "writing"]
        /\ \E i \in 1 .. Len(age) :
             age[i] = url[s] /\ age' = Append(RemoveAt(age, i), url[s])
     \/ /\ node[s] = "freed"
        /\ pc' = [pc EXCEPT ![s] = "undefined"]
        /\ UNCHANGED age
  /\ UNCHANGED <<url, node, stored>>

(* The response is written; a write that refers to a freed node is undefined. *)
written(s) ==
  /\ pc[s] = "writing"
  /\ pc' = [pc EXCEPT ![s] = IF node[s] = "freed" THEN "undefined" ELSE "idle"]
  /\ url' = [url EXCEPT ![s] = Nothing]
  /\ node' = [node EXCEPT ![s] = "none"]
  /\ UNCHANGED <<stored, age>>

(* The application clears the cache. *)
clear ==
  /\ stored' = [u \in Urls |-> Nothing] /\ age' = <<>>
  /\ node' = Freed(Urls)
  /\ UNCHANGED <<pc, url>>

Next ==
  \/ \E s \in Sessions :
       \/ \E u \in Urls : find(s, u)
       \/ route_fails(s)
       \/ \E v \in Values \cup {NotKept} : miss_done(s, v)
       \/ hit_done(s)
       \/ written(s)
  \/ clear

Spec == Init /\ [][Next]_vars
------------------------------------------------------------------------------
(* The message of a node that a request refers to is not replaced by that of *)
(* another request that missed the same URL at the same time; and only a     *)
(* miss that finds the cache full, or a clear, takes it away.                *)
HeldMessageKept ==
  [][\A s \in Sessions :
       node[s] = "live" =>
         \/ node'[s] = "none"
         \/ node'[s] = "live" /\ stored'[url[s]] = stored[url[s]]
         \/ node'[s] = "freed" /\ (Len(age) >= MaxCount \/ age' = <<>>)]_vars

(* A response that may be stored is, also by a full cache: the oldest third  *)
(* makes room for it.  With a limit below three the third is nothing, and    *)
(* the cache never changes again.                                            *)
FullCacheAdmits ==
  [][\A s \in Sessions : \A v \in Values :
       MaxCount >= 3 /\ miss_done(s, v) => stored'[url[s]] # Nothing]_vars
=============================================================================
