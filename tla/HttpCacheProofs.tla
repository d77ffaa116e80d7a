---------------------------- MODULE HttpCacheProofs ---------------------------
(***************************************************************************)
(* For any sessions, targets and limit of the HTTP cache: it holds each    *)
(* target once and never more than the limit; a message a response refers  *)
(* to stays until an eviction or a clear takes it; a full cache admits.    *)
(***************************************************************************)
EXTENDS HttpCache, SequenceTheorems, TLAPS

Elems(q) == {q[i] : i \in 1 .. Len(q)}
Distinct(q) == \A i, j \in 1 .. Len(q) : q[i] = q[j] => i = j

(* Inductive: a session has a node only while it has a request, and the node *)
(* of a session is in the cache until it is freed.                           *)
CacheInv ==
  /\ TypeOK
  /\ \A s \in Sessions :
       /\ pc[s] = "idle" => node[s] = "none"
       /\ pc[s] \in {"hit", "miss"} => url[s] \in Urls
       /\ node[s] = "live" => url[s] \in Urls /\ stored[url[s]] # Nothing

USE CacheAssumption

(* The ages: each stored URL once, and no other.                             *)
AgePart ==
  /\ age \in Seq(Urls) /\ Len(age) <= MaxCount
  /\ Distinct(age)
  /\ \A u \in Urls : stored[u] # Nothing <=> u \in Elems(age)

TypePartsHold ==
  TypeOK <=> /\ pc \in [Sessions -> {"idle", "hit", "miss", "writing", "undefined"}]
             /\ url \in [Sessions -> Urls \cup {Nothing}]
             /\ node \in [Sessions -> {"none", "live", "freed"}]
             /\ stored \in [Urls -> Values \cup {Nothing}]
             /\ AgePart

LEMMA TypeParts == TypePartsHold
BY DEF TypePartsHold, TypeOK, AgePart, Elems, Distinct

LEMMA TypePartsNext == TypePartsHold'
BY TypeParts, PTL
------------------------------------------------------------------------------
(* What is in a sequence after a URL is put at its end.                      *)
LEMMA PutLast ==
  ASSUME NEW q \in Seq(Urls), NEW u \in Urls, Distinct(q), u \notin Elems(q)
  PROVE  /\ Append(q, u) \in Seq(Urls) /\ Len(Append(q, u)) = Len(q) + 1
         /\ Elems(Append(q, u)) = Elems(q) \cup {u}
         /\ Distinct(Append(q, u))
<1> DEFINE v == Append(q, u)
<1>1. /\ v \in Seq(Urls) /\ Len(q) \in Nat /\ Len(v) = Len(q) + 1
      /\ \A i \in 1 .. Len(q) : v[i] = q[i]
      /\ v[Len(q) + 1] = u
  OBVIOUS
<1> HIDE DEF v
<1>2. Elems(v) = Elems(q) \cup {u}
  <2>1. 1 .. Len(v) = 1 .. Len(q) \cup {Len(q) + 1}
    BY <1>1
  <2> QED
    BY <1>1, <2>1 DEF Elems
<1>3. ASSUME NEW i \in 1 .. Len(v), NEW j \in 1 .. Len(v), v[i] = v[j]
      PROVE  i = j
  <2>1. CASE i \in 1 .. Len(q) /\ j \in 1 .. Len(q)
    BY <1>1, <1>3, <2>1 DEF Distinct
  <2>2. CASE i = Len(q) + 1 /\ j \in 1 .. Len(q)
    BY <1>1, <1>3, <2>2 DEF Elems
  <2>3. CASE j = Len(q) + 1 /\ i \in 1 .. Len(q)
    BY <1>1, <1>3, <2>3 DEF Elems
  <2>4. CASE i = Len(q) + 1 /\ j = Len(q) + 1
    BY <2>4
  <2> QED
    BY <1>1, <2>1, <2>2, <2>3, <2>4
<1> QED
  BY <1>1, <1>2, <1>3 DEF v, Distinct

(* The oldest ones of a full cache are evicted and the others keep order.    *)
LEMMA KeptFacts ==
  ASSUME AgePart
  PROVE  /\ Erased \in Nat /\ Erased <= Len(age)
         /\ Kept \in Seq(Urls) /\ Len(Kept) = Len(age) - Erased
         /\ Distinct(Kept)
         /\ Victims \subseteq Elems(age)
         /\ Elems(Kept) = Elems(age) \ Victims
<1>1. /\ age \in Seq(Urls) /\ Len(age) \in Nat /\ MaxCount \in Nat
      /\ \A i \in 1 .. Len(age) : age[i] \in Urls
  BY DEF AgePart
<1>2. Erased \in Nat /\ Erased <= Len(age)
  BY <1>1 DEF Erased
<1> DEFINE e == Erased
           n == Len(age)
           k == Kept
<1>3. k \in Seq(Urls) /\ Len(k) = n - e /\ \A i \in 1 .. n - e : k[i] = age[e + i]
  <2> HIDE DEF e
  <2>1. k = [i \in 1 .. n - e |-> age[e + i]]
    BY <1>1, <1>2 DEF Kept, e
  <2>2. \A i \in 1 .. n - e : e + i \in 1 .. n
    BY <1>1, <1>2 DEF e
  <2>3. n - e \in Nat
    BY <1>1, <1>2 DEF e
  <2>4. \A i \in 1 .. n - e : age[e + i] \in Urls
    BY <1>1, <2>2
  <2> HIDE DEF k
  <2>5. k \in Seq(Urls) /\ Len(k) = n - e
    BY <2>1, <2>3, <2>4
  <2> QED
    BY <2>1, <2>5
<1> HIDE DEF k, e
<1>4. e \in Nat /\ e <= n /\ n \in Nat
  BY <1>1, <1>2 DEF e
<1>5. Distinct(k)
  <2> SUFFICES ASSUME NEW i \in 1 .. n - e, NEW j \in 1 .. n - e, k[i] = k[j]
               PROVE  i = j
    BY <1>3 DEF Distinct
  <2>1. e + i \in 1 .. n /\ e + j \in 1 .. n /\ age[e + i] = age[e + j]
    BY <1>3, <1>4
  <2>2. e + i = e + j
    BY <2>1 DEF AgePart, Distinct
  <2> QED
    BY <2>2, <1>4
<1>6. Victims = {age[i] : i \in 1 .. e}
  BY DEF Victims, e
<1>7. Victims \subseteq Elems(age)
  BY <1>4, <1>6 DEF Elems
<1>8. Elems(k) = Elems(age) \ Victims
  <2>1. ASSUME NEW i \in 1 .. n - e
        PROVE  k[i] \in Elems(age) \ Victims
    <3>1. e + i \in 1 .. n /\ k[i] = age[e + i] /\ e + i \notin 1 .. e
      BY <1>3, <1>4
    <3>2. \A j \in 1 .. e : j \in 1 .. n
      BY <1>4
    <3> QED
      BY <3>1, <3>2, <1>6 DEF Elems, AgePart, Distinct
  <2>2. ASSUME NEW i \in 1 .. n, age[i] \notin Victims
        PROVE  age[i] \in Elems(k)
    <3>1. i \notin 1 .. e
      BY <1>6, <2>2
    <3>2. i - e \in 1 .. n - e /\ e + (i - e) = i
      BY <1>4, <3>1
    <3> QED
      BY <1>3, <3>2 DEF Elems
  <2>3. Elems(k) = {k[i] : i \in 1 .. n - e}
    BY <1>3 DEF Elems
  <2>4. Elems(age) = {age[i] : i \in 1 .. n}
    BY DEF Elems
  <2>5. Elems(k) \subseteq Elems(age) \ Victims
    BY <2>1, <2>3
  <2>6. Elems(age) \ Victims \subseteq Elems(k)
    BY <2>2, <2>4
  <2> QED
    BY <2>5, <2>6
<1> QED
  BY <1>2, <1>3, <1>5, <1>7, <1>8 DEF k, e

(* A URL is taken out of its place. *)
LEMMA TakenOut ==
  ASSUME NEW q \in Seq(Urls), Distinct(q), NEW m \in 1 .. Len(q)
  PROVE  /\ RemoveAt(q, m) \in Seq(Urls) /\ Len(RemoveAt(q, m)) = Len(q) - 1
         /\ Elems(RemoveAt(q, m)) = Elems(q) \ {q[m]}
         /\ Distinct(RemoveAt(q, m))
<1> DEFINE a == SubSeq(q, 1, m - 1)
           b == SubSeq(q, m + 1, Len(q))
           r == RemoveAt(q, m)
           n == Len(q)
<1>0. n \in Nat /\ m \in Nat /\ m >= 1 /\ m <= n /\ \A i \in 1 .. n : q[i] \in Urls
  OBVIOUS
<1>1. a \in Seq(Urls) /\ Len(a) = m - 1 /\ \A i \in 1 .. m - 1 : a[i] = q[i]
  <2>1. a = [i \in 1 .. m - 1 |-> q[i]]
    BY <1>0
  <2> HIDE DEF a
  <2> QED
    BY <1>0, <2>1
<1>2. b \in Seq(Urls) /\ Len(b) = n - m /\ \A i \in 1 .. n - m : b[i] = q[m + i]
  <2>1. b = [i \in 1 .. n - m |-> q[m + i]]
    BY <1>0
  <2>2. \A i \in 1 .. n - m : m + i \in 1 .. n
    BY <1>0
  <2>3. n - m \in Nat
    BY <1>0
  <2> HIDE DEF b
  <2> QED
    BY <1>0, <2>1, <2>2, <2>3
<1>3. r = a \o b
  BY DEF RemoveAt
<1> HIDE DEF a, b, r
<1>4. /\ r \in Seq(Urls) /\ Len(r) = n - 1
      /\ \A i \in 1 .. n - 1 : r[i] = IF i < m THEN q[i] ELSE q[i + 1]
  <2>1. /\ r \in Seq(Urls) /\ Len(r) = (m - 1) + (n - m)
        /\ \A i \in 1 .. (m - 1) + (n - m) : r[i] = IF i <= m - 1 THEN a[i] ELSE b[i - (m - 1)]
    <3>1. /\ a \o b \in Seq(Urls) /\ Len(a \o b) = Len(a) + Len(b)
          /\ \A i \in 1 .. Len(a) + Len(b) :
               (a \o b)[i] = IF i <= Len(a) THEN a[i] ELSE b[i - Len(a)]
      <4>1. a \in Seq(Urls) /\ b \in Seq(Urls)
        BY <1>1, <1>2
      <4> QED
        BY <4>1, ConcatProperties
    <3>2. Len(a) = m - 1 /\ Len(b) = n - m
      BY <1>1, <1>2
    <3> QED
      BY <1>3, <3>1, <3>2
  <2>2. (m - 1) + (n - m) = n - 1
    BY <1>0
  <2>3. ASSUME NEW i \in 1 .. n - 1
        PROVE  r[i] = IF i < m THEN q[i] ELSE q[i + 1]
    <3>1. CASE i < m
      <4>1. i \in 1 .. m - 1 /\ i <= m - 1
        BY <1>0, <3>1
      <4> QED
        BY <1>1, <2>1, <2>2, <3>1, <4>1
    <3>2. CASE ~(i < m)
      <4>1. /\ i - (m - 1) \in 1 .. n - m /\ ~(i <= m - 1)
            /\ m + (i - (m - 1)) = i + 1
        BY <1>0, <3>2
      <4> QED
        BY <1>2, <2>1, <2>2, <3>2, <4>1
    <3> QED
      BY <3>1, <3>2
  <2> QED
    BY <2>1, <2>2, <2>3
<1>5. Distinct(r)
  <2> SUFFICES ASSUME NEW i \in 1 .. n - 1, NEW j \in 1 .. n - 1, r[i] = r[j]
               PROVE  i = j
    BY <1>4 DEF Distinct
  <2> DEFINE f(x) == IF x < m THEN x ELSE x + 1
  <2>1. ASSUME NEW x \in 1 .. n - 1
        PROVE  f(x) \in 1 .. n /\ r[x] = q[f(x)]
    <3>1. CASE x < m
      BY <1>0, <1>4, <3>1
    <3>2. CASE ~(x < m)
      BY <1>0, <1>4, <3>2
    <3> QED
      BY <3>1, <3>2
  <2>2. f(i) = f(j)
    BY <2>1 DEF Distinct
  <2> QED
    BY <1>0, <2>2
<1>6. Elems(r) = Elems(q) \ {q[m]}
  <2>1. ASSUME NEW i \in 1 .. n - 1
        PROVE  r[i] \in Elems(q) \ {q[m]}
    <3>1. CASE i < m
      <4>1. i \in 1 .. n /\ i # m /\ r[i] = q[i]
        BY <1>0, <1>4, <3>1
      <4> QED
        BY <4>1 DEF Elems, Distinct
    <3>2. CASE ~(i < m)
      <4>1. i + 1 \in 1 .. n /\ i + 1 # m /\ r[i] = q[i + 1]
        BY <1>0, <1>4, <3>2
      <4> QED
        BY <4>1 DEF Elems, Distinct
    <3> QED
      BY <3>1, <3>2
  <2>2. ASSUME NEW i \in 1 .. n, q[i] # q[m]
        PROVE  q[i] \in Elems(r)
    <3>1. CASE i < m
      <4>1. i \in 1 .. n - 1 /\ r[i] = q[i]
        BY <1>0, <1>4, <3>1
      <4> QED
        BY <1>4, <4>1 DEF Elems
    <3>2. CASE ~(i < m)
      <4>1. i - 1 \in 1 .. n - 1 /\ ~(i - 1 < m) /\ (i - 1) + 1 = i
        BY <1>0, <2>2, <3>2
      <4>2. r[i - 1] = q[i]
        BY <1>4, <4>1
      <4> QED
        BY <1>4, <4>1, <4>2 DEF Elems
    <3> QED
      BY <3>1, <3>2
  <2>3. Elems(r) = {r[i] : i \in 1 .. n - 1}
    BY <1>4 DEF Elems
  <2>4. Elems(q) = {q[i] : i \in 1 .. n}
    BY DEF Elems
  <2>5. Elems(r) \subseteq Elems(q) \ {q[m]}
    BY <2>1, <2>3
  <2>6. Elems(q) \ {q[m]} \subseteq Elems(r)
    BY <2>2, <2>4
  <2> QED
    BY <2>5, <2>6
<1> QED
  BY <1>4, <1>5, <1>6 DEF r
------------------------------------------------------------------------------
LEMMA FreedType ==
  ASSUME TypeOK, NEW E
  PROVE  /\ Freed(E) \in [Sessions -> {"none", "live", "freed"}]
         /\ \A s \in Sessions : Freed(E)[s] = "live" <=> node[s] = "live" /\ url[s] \notin E
         /\ \A s \in Sessions : Freed(E)[s] = "none" <=> node[s] = "none"
BY DEF TypeOK, Freed

(* What a miss that makes v changes, whether it is stored or not.            *)
Adds(s, v) == v # NotKept /\ Len(Kept) < MaxCount /\ url[s] \notin Elems(Kept)

LEMMA MissFacts ==
  ASSUME CacheInv, NEW s \in Sessions, NEW v \in Values \cup {NotKept}, miss_done(s, v)
  PROVE  /\ AgePart /\ url[s] \in Urls
         /\ pc' = [pc EXCEPT ![s] = "writing"] /\ url' = url /\ node' = Freed(Victims)
         /\ stored' = [u \in Urls |-> IF Adds(s, v) /\ u = url[s] THEN v
                                      ELSE IF u \in Victims THEN Nothing ELSE stored[u]]
         /\ age' = IF Adds(s, v) THEN Append(Kept, url[s]) ELSE Kept
<1>1. AgePart
  BY TypeParts DEF TypePartsHold, CacheInv
<1>2. Contains(Kept, url[s]) <=> url[s] \in Elems(Kept)
  BY DEF Contains, Elems
<1> QED
  BY <1>1, <1>2 DEF CacheInv, miss_done, Adds

LEMMA MissKeepsInv ==
  ASSUME CacheInv, NEW s \in Sessions, NEW v \in Values \cup {NotKept}, miss_done(s, v)
  PROVE  CacheInv'
<1> DEFINE adds == Adds(s, v)
<1>1. /\ AgePart /\ url[s] \in Urls
      /\ pc' = [pc EXCEPT ![s] = "writing"] /\ url' = url /\ node' = Freed(Victims)
      /\ stored' = [u \in Urls |-> IF adds /\ u = url[s] THEN v
                                   ELSE IF u \in Victims THEN Nothing ELSE stored[u]]
      /\ age' = IF adds THEN Append(Kept, url[s]) ELSE Kept
  BY MissFacts
<1>2. /\ Kept \in Seq(Urls) /\ Len(Kept) \in Nat /\ Len(Kept) <= MaxCount /\ Distinct(Kept)
      /\ Elems(Kept) = Elems(age) \ Victims /\ Victims \subseteq Elems(age) /\ MaxCount \in Nat
  <2>1. Len(age) \in Nat /\ Len(age) <= MaxCount
    BY <1>1 DEF AgePart
  <2> QED
    BY <1>1, <2>1, KeptFacts
<1>3. adds => v \in Values /\ v # Nothing /\ Len(Kept) < MaxCount /\ url[s] \notin Elems(Kept)
  BY DEF Adds
<1>4. stored' \in [Urls -> Values \cup {Nothing}]
  BY <1>1, <1>3 DEF CacheInv, TypeOK
<1>5. AgePart'
  <2>1. \A u \in Urls : stored[u] # Nothing <=> u \in Elems(age)
    BY <1>1 DEF AgePart
  <2>2. CASE adds
    <3>1. /\ age' \in Seq(Urls) /\ Len(age') <= MaxCount
          /\ Elems(age') = Elems(Kept) \cup {url[s]} /\ Distinct(age')
      BY <1>1, <1>2, <1>3, <2>2, PutLast
    <3>2. \A u \in Urls : stored'[u] # Nothing <=> u \in Elems(age')
      BY <1>1, <1>2, <1>3, <2>1, <2>2, <3>1
    <3> QED
      BY <3>1, <3>2 DEF AgePart
  <2>3. CASE ~adds
    <3>1. age' = Kept
      BY <1>1, <2>3
    <3>2. \A u \in Urls : stored'[u] # Nothing <=> u \in Elems(age')
      BY <1>1, <1>2, <2>1, <2>3, <3>1
    <3> QED
      BY <1>2, <3>1, <3>2 DEF AgePart
  <2> QED
    BY <2>2, <2>3
<1>6. TypeOK'
  <2>1. /\ pc' \in [Sessions -> {"idle", "hit", "miss", "writing", "undefined"}]
        /\ url' \in [Sessions -> Urls \cup {Nothing}]
        /\ node' \in [Sessions -> {"none", "live", "freed"}]
    BY <1>1, FreedType DEF CacheInv, TypeOK
  <2> QED
    BY <1>4, <1>5, <2>1, TypePartsNext DEF TypePartsHold
<1>7. ASSUME NEW t \in Sessions
      PROVE  /\ pc'[t] = "idle" => node'[t] = "none"
             /\ pc'[t] \in {"hit", "miss"} => url'[t] \in Urls
             /\ node'[t] = "live" => url'[t] \in Urls /\ stored'[url'[t]] # Nothing
  <2>1. pc'[t] \in {"idle", "hit", "miss"} => pc'[t] = pc[t]
    BY <1>1 DEF CacheInv, TypeOK
  <2>2. /\ node'[t] = "live" => node[t] = "live" /\ url[t] \notin Victims
        /\ node'[t] = "none" <=> node[t] = "none"
    BY <1>1, FreedType DEF CacheInv
  <2>3. node'[t] = "live" => url[t] \in Urls /\ stored'[url[t]] # Nothing
    BY <1>1, <1>3, <2>2 DEF CacheInv
  <2> QED
    BY <1>1, <2>1, <2>2, <2>3 DEF CacheInv
<1> QED
  BY <1>6, <1>7 DEF CacheInv

LEMMA AgesAsTheyWere ==
  ASSUME CacheInv, UNCHANGED <<stored, age>>
  PROVE  AgePart' /\ stored' \in [Urls -> Values \cup {Nothing}]
<1>1. AgePart /\ stored \in [Urls -> Values \cup {Nothing}]
  BY TypeParts DEF TypePartsHold, CacheInv
<1>2. stored' = stored /\ age' = age
  OBVIOUS
<1> QED
  BY <1>1, <1>2 DEF AgePart, Elems, Distinct

LEMMA FindKeepsInv ==
  ASSUME CacheInv, NEW s \in Sessions, NEW u \in Urls, find(s, u)
  PROVE  CacheInv'
<1>1. /\ url' = [url EXCEPT ![s] = u]
      /\ pc' = [pc EXCEPT ![s] = IF stored[u] = Nothing THEN "miss" ELSE "hit"]
      /\ node' = [node EXCEPT ![s] = IF stored[u] = Nothing THEN "none" ELSE "live"]
      /\ stored' = stored /\ age' = age
  BY DEF find
<1>2. TypeOK /\ \A t \in Sessions :
        /\ pc[t] = "idle" => node[t] = "none"
        /\ pc[t] \in {"hit", "miss"} => url[t] \in Urls
        /\ node[t] = "live" => url[t] \in Urls /\ stored[url[t]] # Nothing
  BY DEF CacheInv
<1>3. TypeOK'
  BY <1>1, <1>2, AgesAsTheyWere, TypePartsNext DEF TypePartsHold, TypeOK
<1>4. ASSUME NEW t \in Sessions
      PROVE  /\ pc'[t] = "idle" => node'[t] = "none"
             /\ pc'[t] \in {"hit", "miss"} => url'[t] \in Urls
             /\ node'[t] = "live" => url'[t] \in Urls /\ stored'[url'[t]] # Nothing
  <2>1. CASE t = s
    BY <1>1, <1>2, <2>1 DEF TypeOK
  <2>2. CASE t # s
    BY <1>1, <1>2, <2>2 DEF TypeOK
  <2> QED
    BY <2>1, <2>2
<1> QED
  BY <1>3, <1>4 DEF CacheInv

LEMMA FailKeepsInv ==
  ASSUME CacheInv, NEW s \in Sessions, route_fails(s)
  PROVE  CacheInv'
<1>1. /\ url' = url /\ stored' = stored /\ age' = age
      /\ pc' = [pc EXCEPT ![s] = "writing"] /\ node' = [node EXCEPT ![s] = "none"]
  BY DEF route_fails
<1>2. TypeOK'
  BY <1>1, AgesAsTheyWere, TypePartsNext DEF TypePartsHold, TypeOK, CacheInv
<1> QED
  BY <1>1, <1>2 DEF CacheInv, TypeOK

LEMMA WrittenKeepsInv ==
  ASSUME CacheInv, NEW s \in Sessions, written(s)
  PROVE  CacheInv'
<1>1. /\ url' = [url EXCEPT ![s] = Nothing] /\ stored' = stored /\ age' = age
      /\ pc' = [pc EXCEPT ![s] = IF node[s] = "freed" THEN "undefined" ELSE "idle"]
      /\ node' = [node EXCEPT ![s] = "none"]
  BY DEF written
<1>2. TypeOK'
  BY <1>1, AgesAsTheyWere, TypePartsNext DEF TypePartsHold, TypeOK, CacheInv
<1> QED
  BY <1>1, <1>2 DEF CacheInv, TypeOK

LEMMA ClearKeepsInv ==
  ASSUME CacheInv, clear
  PROVE  CacheInv'
<1>1. /\ pc' = pc /\ url' = url /\ node' = Freed(Urls)
      /\ stored' = [u \in Urls |-> Nothing] /\ age' = <<>>
  BY DEF clear
<1>2. TypeOK /\ MaxCount \in Nat /\ node' \in [Sessions -> {"none", "live", "freed"}]
  BY <1>1, FreedType DEF CacheInv
<1>3. AgePart'
  <2>1. age' \in Seq(Urls) /\ Len(age') = 0
    BY <1>1
  <2> QED
    BY <1>1, <1>2, <2>1 DEF AgePart, Elems, Distinct
<1>4. TypeOK'
  BY <1>1, <1>2, <1>3, TypePartsNext DEF TypePartsHold, TypeOK
<1>5. \A t \in Sessions : node'[t] # "live" /\ (node'[t] = "none" <=> node[t] = "none")
  BY <1>1, <1>2, FreedType DEF CacheInv
<1> QED
  BY <1>1, <1>4, <1>5 DEF CacheInv

(* A hit takes its URL out of its place and puts it at the end.              *)
LEMMA HitKeepsInv ==
  ASSUME CacheInv, NEW s \in Sessions, hit_done(s)
  PROVE  CacheInv'
<1>1. CASE node[s] = "live"
  <2>1. PICK m \in 1 .. Len(age) : age[m] = url[s] /\ age' = Append(RemoveAt(age, m), url[s])
    BY <1>1 DEF hit_done
  <2>2. /\ url' = url /\ node' = node /\ stored' = stored
        /\ pc' = [pc EXCEPT ![s] = "writing"]
    BY <1>1 DEF hit_done
  <2>3. /\ url[s] \in Urls /\ AgePart /\ age \in Seq(Urls) /\ Distinct(age)
        /\ Len(age) \in Nat /\ Len(age) <= MaxCount
        /\ url[s] \in Elems(age)
    BY <1>1, <2>1, TypeParts DEF TypePartsHold, CacheInv, AgePart, Elems
  <2> DEFINE r == RemoveAt(age, m)
  <2>4. /\ r \in Seq(Urls) /\ Len(r) = Len(age) - 1
        /\ Elems(r) = Elems(age) \ {url[s]} /\ Distinct(r)
    BY <2>1, <2>3, TakenOut
  <2> HIDE DEF r
  <2>5. /\ age' \in Seq(Urls) /\ Len(age') = (Len(age) - 1) + 1
        /\ Elems(age') = (Elems(age) \ {url[s]}) \cup {url[s]} /\ Distinct(age')
    BY <2>1, <2>3, <2>4, PutLast DEF r
  <2>6. Len(age') <= MaxCount /\ Elems(age') = Elems(age)
    BY <2>3, <2>5
  <2>7. AgePart'
    BY <2>2, <2>3, <2>5, <2>6 DEF AgePart
  <2>8. TypeOK'
    BY <2>2, <2>7, TypePartsNext DEF TypePartsHold, TypeOK, CacheInv
  <2> QED
    BY <2>2, <2>8 DEF CacheInv, TypeOK
<1>2. CASE node[s] # "live"
  <2>1. /\ url' = url /\ node' = node /\ stored' = stored /\ age' = age
        /\ pc' = [pc EXCEPT ![s] = "undefined"]
    BY <1>2 DEF hit_done
  <2>2. TypeOK'
    BY <2>1, AgesAsTheyWere, TypePartsNext DEF TypePartsHold, TypeOK, CacheInv
  <2> QED
    BY <2>1, <2>2 DEF CacheInv, TypeOK
<1> QED
  BY <1>1, <1>2
------------------------------------------------------------------------------
LEMMA InitKeepsInv == Init => CacheInv
<1> SUFFICES ASSUME Init PROVE CacheInv
  OBVIOUS
<1>1. AgePart
  <2>1. age = <<>> /\ age \in Seq(Urls) /\ Len(age) = 0 /\ MaxCount \in Nat
    BY DEF Init
  <2> QED
    BY <2>1 DEF Init, AgePart, Elems, Distinct
<1>2. TypeOK
  BY <1>1, TypeParts DEF TypePartsHold, Init
<1> QED
  BY <1>2 DEF Init, CacheInv

LEMMA NextKeepsInv == CacheInv /\ [Next]_vars => CacheInv'
<1> SUFFICES ASSUME CacheInv, [Next]_vars PROVE CacheInv'
  OBVIOUS
<1>1. ASSUME NEW s \in Sessions, NEW u \in Urls, find(s, u) PROVE CacheInv'
  BY <1>1, FindKeepsInv
<1>2. ASSUME NEW s \in Sessions, route_fails(s) PROVE CacheInv'
  BY <1>2, FailKeepsInv
<1>3. ASSUME NEW s \in Sessions, NEW v \in Values \cup {NotKept}, miss_done(s, v) PROVE CacheInv'
  BY <1>3, MissKeepsInv
<1>4. ASSUME NEW s \in Sessions, hit_done(s) PROVE CacheInv'
  BY <1>4, HitKeepsInv
<1>5. ASSUME NEW s \in Sessions, written(s) PROVE CacheInv'
  BY <1>5, WrittenKeepsInv
<1>6. ASSUME clear PROVE CacheInv'
  BY <1>6, ClearKeepsInv
<1>7. CASE UNCHANGED vars
  <2>1. pc' = pc /\ url' = url /\ node' = node /\ stored' = stored /\ age' = age
    BY <1>7 DEF vars
  <2>2. TypeOK'
    BY <2>1, AgesAsTheyWere, TypePartsNext DEF TypePartsHold, TypeOK, CacheInv
  <2> QED
    BY <2>1, <2>2 DEF CacheInv
<1> QED
  BY <1>1, <1>2, <1>3, <1>4, <1>5, <1>6, <1>7 DEF Next

THEOREM CacheInvariant == Spec => []CacheInv
<1> QED
  BY InitKeepsInv, NextKeepsInv, PTL DEF Spec

(* The cache holds each target at most once and never more targets than its  *)
(* limit, whatever the sessions that missed them add: the map of             *)
(* http/cache.hpp and the times by which shrink_to_fit evicts agree.         *)
THEOREM CacheTypeCorrect == Spec => []TypeOK
<1>1. CacheInv => TypeOK
  BY DEF CacheInv
<1> QED
  BY <1>1, CacheInvariant, PTL
------------------------------------------------------------------------------
(* What may become of the message of the node a session holds.               *)
HeldKept(s) ==
  node[s] = "live" =>
    \/ node'[s] = "none"
    \/ node'[s] = "live" /\ stored'[url[s]] = stored[url[s]]
    \/ node'[s] = "freed" /\ (Len(age) >= MaxCount \/ age' = <<>>)

(* Another session's miss adds nothing over it: its URL is in the cache, and *)
(* either stays there or is evicted from a full one.                         *)
LEMMA MissKeepsHeld ==
  ASSUME CacheInv, NEW s \in Sessions, NEW v \in Values \cup {NotKept}, miss_done(s, v),
         NEW t \in Sessions, node[t] = "live"
  PROVE  HeldKept(t)
<1>1. /\ AgePart /\ node' = Freed(Victims)
      /\ stored' = [u \in Urls |-> IF Adds(s, v) /\ u = url[s] THEN v
                                   ELSE IF u \in Victims THEN Nothing ELSE stored[u]]
  BY MissFacts
<1>2. Elems(Kept) = Elems(age) \ Victims
  BY <1>1, KeptFacts
<1>3. url[t] \in Urls /\ url[t] \in Elems(age)
  BY <1>1 DEF CacheInv, AgePart
<1>4. CASE url[t] \in Victims
  <2>1. node'[t] = "freed"
    BY <1>1, <1>4 DEF Freed
  <2>2. PICK i \in 1 .. Erased : age[i] = url[t]
    BY <1>4 DEF Victims
  <2>3. Len(age) >= MaxCount
    <3>1. Erased # 0
      BY <2>2
    <3>2. Len(age) \in Nat /\ MaxCount \in Nat
      BY <1>1 DEF AgePart
    <3> QED
      BY <3>1, <3>2 DEF Erased
  <2> QED
    BY <2>1, <2>3 DEF HeldKept
<1>5. CASE url[t] \notin Victims
  <2>1. node'[t] = "live"
    BY <1>1, <1>5 DEF Freed
  <2>2. ~(Adds(s, v) /\ url[t] = url[s])
    BY <1>2, <1>3, <1>5 DEF Adds
  <2>3. stored'[url[t]] = stored[url[t]]
    BY <1>1, <1>3, <1>5, <2>2
  <2> QED
    BY <2>1, <2>3 DEF HeldKept
<1> QED
  BY <1>4, <1>5

LEMMA StepKeepsHeld ==
  ASSUME CacheInv, [Next]_vars, NEW t \in Sessions
  PROVE  HeldKept(t)
<1> SUFFICES ASSUME node[t] = "live" PROVE HeldKept(t)
  BY DEF HeldKept
<1>0. TypeOK /\ pc[t] # "idle" /\ url[t] \in Urls
  BY DEF CacheInv
<1>1. ASSUME NEW s \in Sessions, NEW u \in Urls, find(s, u) PROVE HeldKept(t)
  BY <1>0, <1>1 DEF HeldKept, find, TypeOK
<1>2. ASSUME NEW s \in Sessions, route_fails(s) PROVE HeldKept(t)
  BY <1>0, <1>2 DEF HeldKept, route_fails, TypeOK
<1>3. ASSUME NEW s \in Sessions, NEW v \in Values \cup {NotKept}, miss_done(s, v) PROVE HeldKept(t)
  BY <1>3, MissKeepsHeld
<1>4. ASSUME NEW s \in Sessions, hit_done(s) PROVE HeldKept(t)
  BY <1>4 DEF HeldKept, hit_done
<1>5. ASSUME NEW s \in Sessions, written(s) PROVE HeldKept(t)
  BY <1>0, <1>5 DEF HeldKept, written, TypeOK
<1>6. ASSUME clear PROVE HeldKept(t)
  BY <1>0, <1>6 DEF HeldKept, clear, Freed
<1>7. CASE UNCHANGED vars
  BY <1>7 DEF HeldKept, vars
<1> QED
  BY <1>1, <1>2, <1>3, <1>4, <1>5, <1>6, <1>7 DEF Next

(* The message a response refers to until it is written is not replaced by   *)
(* the add of another request that missed the same target (the emplace of    *)
(* http/cache.hpp), and only the eviction from a full cache, or a clear,     *)
(* frees it.                                                                 *)
THEOREM HeldMessagesKept == Spec => HeldMessageKept
<1>1. CacheInv /\ [Next]_vars =>
        \A s \in Sessions :
          node[s] = "live" =>
            \/ node'[s] = "none"
            \/ node'[s] = "live" /\ stored'[url[s]] = stored[url[s]]
            \/ node'[s] = "freed" /\ (Len(age) >= MaxCount \/ age' = <<>>)
  BY StepKeepsHeld DEF HeldKept
<1> QED
  BY <1>1, CacheInvariant, PTL DEF Spec, HeldMessageKept

(* A third of a full cache of at least three is at least one.                *)
LEMMA RoomAfterShrink ==
  ASSUME AgePart, MaxCount >= 3
  PROVE  Len(Kept) < MaxCount
<1>1. Len(age) \in Nat /\ Len(age) <= MaxCount /\ MaxCount \in Nat
  BY DEF AgePart
<1>2. Len(Kept) = Len(age) - Erased /\ Erased \in Nat
  BY KeptFacts
<1>3. CASE Len(age) < MaxCount
  BY <1>1, <1>2, <1>3
<1>4. CASE ~(Len(age) < MaxCount)
  <2>1. Len(age) >= 3 /\ Erased = Len(age) \div 3
    BY <1>1, <1>4 DEF Erased
  <2>2. Len(age) \div 3 >= 1
    BY <1>1, <2>1
  <2> QED
    BY <1>1, <1>2, <2>1, <2>2
<1> QED
  BY <1>3, <1>4

(* With a limit of at least three, _proxy stores the ok response of every    *)
(* miss whose target no other request has stored meanwhile, also when the    *)
(* cache is full: shrink_to_fit has made room.                               *)
THEOREM FullCachesAdmit == Spec => FullCacheAdmits
<1>1. ASSUME CacheInv, NEW s \in Sessions, NEW v \in Values, MaxCount >= 3, miss_done(s, v)
      PROVE  stored'[url[s]] # Nothing
  <2>1. /\ AgePart /\ url[s] \in Urls /\ v # NotKept /\ v # Nothing
        /\ stored' = [u \in Urls |-> IF Adds(s, v) /\ u = url[s] THEN v
                                     ELSE IF u \in Victims THEN Nothing ELSE stored[u]]
    BY <1>1, MissFacts
  <2>2. Len(Kept) < MaxCount /\ Elems(Kept) = Elems(age) \ Victims
    BY <1>1, <2>1, RoomAfterShrink, KeptFacts
  <2>3. CASE url[s] \in Elems(Kept)
    <3>1. url[s] \notin Victims /\ url[s] \in Elems(age)
      BY <2>2, <2>3
    <3> QED
      BY <2>1, <2>3, <3>1 DEF AgePart, Adds
  <2>4. CASE url[s] \notin Elems(Kept)
    BY <2>1, <2>2, <2>4 DEF Adds
  <2> QED
    BY <2>3, <2>4
<1>2. CacheInv /\ [Next]_vars =>
        \A s \in Sessions : \A v \in Values :
          MaxCount >= 3 /\ miss_done(s, v) => stored'[url[s]] # Nothing
  BY <1>1
<1> QED
  BY <1>2, CacheInvariant, PTL DEF Spec, FullCacheAdmits
=============================================================================
