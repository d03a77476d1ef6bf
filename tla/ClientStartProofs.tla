-------------------------- MODULE ClientStartProofs --------------------------
(***************************************************************************)
(* The clients of a machine, for any number of them, of servers, addresses,*)
(* connections and devices: types, the history of servers, the client id,  *)
(* and the device that is chosen and announced.                            *)
(*                                                                         *)
(* The argument for the history: the connections are stamped in the order  *)
(* in which they are recorded, every list is ordered by the stamps         *)
(* (OrderInv), and such a list is given by its elements (SameList).  So it *)
(* is enough that record_connection changes the elements as the memory of  *)
(* all connections changes (RecordRemembered), and that a lone save carries*)
(* what is remembered from the file to the copy and back (KeptInv).        *)
(***************************************************************************)
EXTENDS ClientStart, FiniteSetTheorems, FunctionTheorems, SequenceTheorems, TLAPS

-----------------------------------------------------------------------------
(* Sizes of finite sets, and what retain keeps, in which order.            *)
LEMMA InitialSegment ==
  ASSUME NEW n \in Nat, NEW K \in SUBSET (1 .. n)
  PROVE  IsFiniteSet(K) /\ Cardinality(K) \in Nat
<1>1. IsFiniteSet(1 .. n)
  BY FS_Interval
<1>2. QED
  BY <1>1, FS_Subset, FS_CardinalityType

LEMMA OntoIfSameSize ==
  ASSUME NEW K, NEW T, NEW f \in Injection(K, T), IsFiniteSet(T),
         Cardinality(K) = Cardinality(T)
  PROVE  f \in Surjection(K, T)
BY FS_Injection

(* The sizes of the sets of a chain, one for each member of a finite set,  *)
(* are all the numbers up to its own size.                                 *)
Chain(S, u) ==
  /\ IsFiniteSet(S) /\ u \in [S -> SUBSET S] /\ \A a \in S : a \in u[a]
  /\ \A a, b \in S : a # b => u[a] # u[b] /\ (u[a] \subseteq u[b] \/ u[b] \subseteq u[a])
Sized(S, u) ==
  /\ \A a \in S : Cardinality(u[a]) \in 1 .. Cardinality(S)
  /\ \A a, b \in S : a # b /\ u[a] \subseteq u[b] => Cardinality(u[a]) < Cardinality(u[b])
  /\ \A a, b \in S : Cardinality(u[a]) = Cardinality(u[b]) => a = b
  /\ \A i \in 1 .. Cardinality(S) : \E a \in S : Cardinality(u[a]) = i

LEMMA ChainSizes == ASSUME NEW S, NEW u, Chain(S, u) PROVE Sized(S, u)
<1>0. /\ IsFiniteSet(S) /\ u \in [S -> SUBSET S] /\ \A a \in S : a \in u[a]
      /\ \A a, b \in S : a # b => u[a] # u[b] /\ (u[a] \subseteq u[b] \/ u[b] \subseteq u[a])
  BY DEF Chain
<1>1. Cardinality(S) \in Nat
  BY <1>0, FS_CardinalityType
<1>2. \A a \in S : /\ IsFiniteSet(u[a]) /\ Cardinality(u[a]) \in Nat
                   /\ Cardinality(u[a]) <= Cardinality(S)
  <2> TAKE a \in S
  <2>1. u[a] \in SUBSET S
    BY <1>0
  <2>2. QED
    BY <1>0, <1>1, <2>1, FS_Subset, FS_CardinalityType
<1>3. \A a \in S : Cardinality(u[a]) # 0
  <2> TAKE a \in S
  <2>1. a \in u[a]
    BY <1>0
  <2>2. QED
    BY <1>2, <2>1, FS_EmptySet
<1>4. \A a, b \in S : a # b /\ u[a] \subseteq u[b] => Cardinality(u[a]) < Cardinality(u[b])
  <2> SUFFICES ASSUME NEW a \in S, NEW b \in S, a # b, u[a] \subseteq u[b]
               PROVE  Cardinality(u[a]) < Cardinality(u[b])
    OBVIOUS
  <2>1. u[a] \in SUBSET u[b] /\ u[a] # u[b]
    BY <1>0
  <2>2. IsFiniteSet(u[b]) /\ Cardinality(u[a]) \in Nat /\ Cardinality(u[b]) \in Nat
    BY <1>2
  <2>3. Cardinality(u[a]) <= Cardinality(u[b]) /\ Cardinality(u[a]) # Cardinality(u[b])
    BY <2>1, <2>2, FS_Subset
  <2>4. QED
    BY <2>2, <2>3
<1>5. \A a, b \in S : Cardinality(u[a]) = Cardinality(u[b]) => a = b
  <2> SUFFICES ASSUME NEW a \in S, NEW b \in S, a # b
               PROVE  Cardinality(u[a]) # Cardinality(u[b])
    OBVIOUS
  <2>1. \/ Cardinality(u[a]) < Cardinality(u[b])
        \/ Cardinality(u[b]) < Cardinality(u[a])
    BY <1>0, <1>4
  <2>2. QED
    BY <1>2, <2>1
<1> DEFINE f == [a \in S |-> Cardinality(u[a])]
           T == 1 .. Cardinality(S)
<1>6. f \in [S -> T]
  BY <1>1, <1>2, <1>3
<1>7. f \in Injection(S, T)
  BY <1>5, <1>6 DEF Injection, IsInjective
<1>8. IsFiniteSet(T) /\ Cardinality(T) = Cardinality(S)
  BY <1>1, FS_Interval
<1>9. f \in Surjection(S, T)
  <2> HIDE DEF f, T
  <2>1. QED
    BY <1>7, <1>8, OntoIfSameSize
<1>10. \A i \in T : \E a \in S : f[a] = i
  BY <1>9 DEF Surjection
<1>11. QED
  BY <1>1, <1>2, <1>3, <1>4, <1>5, <1>10 DEF Sized

Rank(K, k) == Cardinality({j \in K : j <= k})

(* Counting from the first gives each member of a finite set its place.    *)
LEMMA RankProperties ==
  ASSUME NEW n \in Nat, NEW K \in SUBSET (1 .. n)
  PROVE  /\ \A k \in K : Rank(K, k) \in 1 .. Cardinality(K)
         /\ \A k, l \in K : k < l => Rank(K, k) < Rank(K, l)
         /\ \A i \in 1 .. Cardinality(K) : \E k \in K : Rank(K, k) = i
<1> DEFINE u == [k \in K |-> {j \in K : j <= k}]
<1>1. IsFiniteSet(K) /\ K \subseteq Int
  BY InitialSegment
<1>2. u \in [K -> SUBSET K] /\ \A k \in K : k \in u[k]
  BY <1>1
<1>7. \A k \in K : Cardinality(u[k]) = Rank(K, k)
  <2> TAKE k \in K
  <2>1. u[k] = {j \in K : j <= k}
    OBVIOUS
  <2> HIDE DEF u
  <2>2. QED
    BY <2>1 DEF Rank
<1>3. \A k, l \in K : k < l => u[k] \subseteq u[l] /\ l \in u[l] /\ l \notin u[k] /\ k # l
  <2> SUFFICES ASSUME NEW k \in K, NEW l \in K, k < l
               PROVE  u[k] \subseteq u[l] /\ l \in u[l] /\ l \notin u[k] /\ k # l
    OBVIOUS
  <2>1. k \in Int /\ l \in Int /\ ~ l <= k
    BY <1>1
  <2>2. \A j \in u[k] : j \in K /\ j <= l
    BY <1>1, <2>1
  <2>3. l \in u[l] /\ l \notin u[k]
    BY <2>1
  <2>4. QED
    BY <2>1, <2>2, <2>3
<1>4. \A k, l \in K : k # l => u[k] # u[l] /\ (u[k] \subseteq u[l] \/ u[l] \subseteq u[k])
  <2> SUFFICES ASSUME NEW k \in K, NEW l \in K, k # l
               PROVE  u[k] # u[l] /\ (u[k] \subseteq u[l] \/ u[l] \subseteq u[k])
    OBVIOUS
  <2>1. k < l \/ l < k
    BY <1>1
  <2> HIDE DEF u
  <2>2. QED
    BY <1>3, <2>1
<1> HIDE DEF u
<1>5. /\ \A k \in K : Cardinality(u[k]) \in 1 .. Cardinality(K)
      /\ \A k, l \in K : k # l /\ u[k] \subseteq u[l] => Cardinality(u[k]) < Cardinality(u[l])
      /\ \A i \in 1 .. Cardinality(K) : \E k \in K : Cardinality(u[k]) = i
  <2>1. Chain(K, u)
    BY <1>1, <1>2, <1>4 DEF Chain
  <2>2. Sized(K, u)
    BY <2>1, ChainSizes
  <2>3. QED
    BY <2>2 DEF Sized
<1>6. QED
  BY <1>7, <1>3, <1>5

(* r is s reduced to K: every place in it is one in s, places keep their   *)
(* order, and none of K is left out.                                       *)
Reduces(r, s, K) ==
  \E from \in [DOMAIN r -> K] :
    /\ \A i \in DOMAIN r : r[i] = s[from[i]]
    /\ \A i, j \in DOMAIN r : i < j => from[i] < from[j]
    /\ \A k \in K : \E i \in DOMAIN r : from[i] = k

LEMMA RetainProperties ==
  ASSUME NEW S, NEW s \in Seq(S), NEW K \in SUBSET DOMAIN s
  PROVE  /\ retain(s, K) \in Seq(S)
         /\ Len(retain(s, K)) = Cardinality(K)
         /\ Reduces(retain(s, K), s, K)
<1> DEFINE m == Cardinality(K)
           at(i) == CHOOSE k \in K : Rank(K, k) = i
           from == [i \in 1 .. m |-> at(i)]
<1>1. DOMAIN s = 1 .. Len(s) /\ Len(s) \in Nat
  OBVIOUS
<1>2. m \in Nat
  BY <1>1, InitialSegment
<1>3. /\ \A k \in K : Rank(K, k) \in 1 .. m
      /\ \A k, l \in K : k < l => Rank(K, k) < Rank(K, l)
      /\ \A i \in 1 .. m : \E k \in K : Rank(K, k) = i
  BY <1>1, RankProperties
<1>4. \A i \in 1 .. m : at(i) \in K /\ Rank(K, at(i)) = i
  BY <1>3
<1>5. retain(s, K) = [i \in 1 .. m |-> s[at(i)]]
  BY DEF retain, Rank
<1> HIDE DEF m, at
<1>6. \A i \in 1 .. m : s[at(i)] \in S
  BY <1>1, <1>4
<1>7. retain(s, K) \in Seq(S) /\ Len(retain(s, K)) = m
  BY <1>2, <1>5, <1>6
<1>8. DOMAIN retain(s, K) = 1 .. m
  BY <1>5
<1>9. from \in [1 .. m -> K]
  BY <1>4
<1>10. \A i \in 1 .. m : retain(s, K)[i] = s[from[i]]
  BY <1>5
<1>11. \A i, j \in 1 .. m : i < j => from[i] < from[j]
  <2> SUFFICES ASSUME NEW i \in 1 .. m, NEW j \in 1 .. m, i < j
               PROVE  at(i) < at(j)
    OBVIOUS
  <2>1. at(i) \in Nat /\ at(j) \in Nat
    BY <1>1, <1>4
  <2>2. at(i) # at(j)
    BY <1>2, <1>4
  <2>3. ~ at(j) < at(i)
    BY <1>2, <1>3, <1>4
  <2>4. QED
    BY <2>1, <2>2, <2>3
<1>12. \A k \in K : \E i \in 1 .. m : from[i] = k
  <2> SUFFICES ASSUME NEW k \in K PROVE \E i \in 1 .. m : at(i) = k
    OBVIOUS
  <2> DEFINE i == Rank(K, k)
  <2>1. i \in 1 .. m
    BY <1>3
  <2>2. at(i) \in K /\ Rank(K, at(i)) = i
    BY <1>4, <2>1
  <2>3. at(i) = k
    <3>1. ~ at(i) < k /\ ~ k < at(i)
      BY <1>2, <1>3, <2>1, <2>2
    <3>2. at(i) \in Nat /\ k \in Nat
      BY <1>1, <2>2
    <3>3. QED
      BY <3>1, <3>2
  <2>4. QED
    BY <2>1, <2>3
<1> HIDE DEF from
<1>13. /\ from \in [DOMAIN retain(s, K) -> K]
       /\ \A i \in DOMAIN retain(s, K) : retain(s, K)[i] = s[from[i]]
       /\ \A i, j \in DOMAIN retain(s, K) : i < j => from[i] < from[j]
       /\ \A k \in K : \E i \in DOMAIN retain(s, K) : from[i] = k
  BY <1>8, <1>9, <1>10, <1>11, <1>12
<1>14. Reduces(retain(s, K), s, K)
  BY <1>13 DEF Reduces
<1>15. QED
  BY <1>7, <1>14 DEF m

-----------------------------------------------------------------------------
(* Lists of connections, the latest first.                                 *)

Elements(s) == {s[i] : i \in DOMAIN s}
Descending(s) == \A i, j \in DOMAIN s : i < j => s[i].at > s[j].at
Ordered(s) ==
  \A i, j \in DOMAIN s : i < j =>
    s[i].at > s[j].at /\ s[i].host # s[j].host /\ s[i].target # s[j].target

LEMMA EntryType ==
  /\ \A h \in Hosts, t \in Texts, n \in 1 .. MaxRecords : Entry(h, t, n) \in Entries
  /\ \A e \in Entries : e.host \in Hosts /\ e.target \in Texts /\ e.at \in 1 .. MaxRecords
  /\ \A h, t, n : /\ Entry(h, t, n).host = h /\ Entry(h, t, n).target = t
                  /\ Entry(h, t, n).at = n
BY DEF Entries, Entry

LEMMA Decreasing ==
  ASSUME NEW s \in Seq(Entries), Descending(s), NEW i \in DOMAIN s, NEW j \in DOMAIN s
  PROVE  s[i].at >= s[j].at <=> i <= j
<1>1. i \in Int /\ j \in Int
  OBVIOUS
<1>2. s[i] \in Entries /\ s[j] \in Entries
  OBVIOUS
<1>3. s[i].at \in Int /\ s[j].at \in Int
  BY <1>2, EntryType
<1>4. CASE i = j
  BY <1>1, <1>3, <1>4
<1>5. CASE i < j
  BY <1>1, <1>3, <1>5 DEF Descending
<1>6. CASE j < i
  BY <1>1, <1>3, <1>6 DEF Descending
<1>7. QED
  BY <1>1, <1>4, <1>5, <1>6

(* The first i elements are i: they are the ones as late as the i-th.      *)
LEMMA Place ==
  ASSUME NEW s \in Seq(Entries), Descending(s), NEW i \in DOMAIN s
  PROVE  Cardinality({e \in Elements(s) : e.at >= s[i].at}) = i
<1> DEFINE late == {e \in Elements(s) : e.at >= s[i].at}
           f == [j \in 1 .. i |-> s[j]]
<1>1. DOMAIN s = 1 .. Len(s) /\ Len(s) \in Nat /\ i \in 1 .. Len(s)
  OBVIOUS
<1>2. \A j \in DOMAIN s : s[j] \in late <=> j \in 1 .. i
  <2> TAKE j \in DOMAIN s
  <2>1. s[j].at >= s[i].at <=> j <= i
    BY Decreasing
  <2>2. QED
    BY <1>1, <2>1 DEF Elements
<1>3. f \in [1 .. i -> late]
  BY <1>1, <1>2
<1>4. \A e \in late : \E j \in 1 .. i : f[j] = e
  BY <1>2 DEF Elements
<1>5. \A j, k \in 1 .. i : f[j] = f[k] => j = k
  <2> SUFFICES ASSUME NEW j \in 1 .. i, NEW k \in 1 .. i, s[j] = s[k] PROVE j = k
    OBVIOUS
  <2>1. j \in DOMAIN s /\ k \in DOMAIN s /\ j \in Int /\ k \in Int
    BY <1>1
  <2>2. s[j].at >= s[k].at <=> j <= k
    BY <2>1, Decreasing
  <2>3. s[k].at >= s[j].at <=> k <= j
    BY <2>1, Decreasing
  <2>4. s[j] \in Entries /\ s[j].at >= s[j].at
    BY <2>1, EntryType
  <2>5. QED
    BY <2>1, <2>2, <2>3, <2>4
<1>6. IsFiniteSet(1 .. i) /\ Cardinality(1 .. i) = i
  BY <1>1, FS_Interval
<1> HIDE DEF f, late
<1>7. f \in Bijection(1 .. i, late)
  BY <1>3, <1>4, <1>5 DEF Bijection, Injection, Surjection, IsInjective
<1>8. Cardinality(late) = i
  BY <1>6, <1>7, FS_Bijection DEF ExistsBijection
<1>9. QED
  BY <1>8 DEF late

(* So a list is given by its elements.                                     *)
LEMMA SameList ==
  ASSUME NEW s \in Seq(Entries), Descending(s), NEW t \in Seq(Entries), Descending(t),
         Elements(s) = Elements(t)
  PROVE  s = t
<1>1. \A i \in DOMAIN s : i \in DOMAIN t /\ s[i] = t[i]
  <2> TAKE i \in DOMAIN s
  <2>1. PICK j \in DOMAIN t : s[i] = t[j]
    BY DEF Elements
  <2>2. j = i
    BY <2>1, Place
  <2>3. QED
    BY <2>1, <2>2
<1>2. \A i \in DOMAIN t : i \in DOMAIN s
  <2> TAKE i \in DOMAIN t
  <2>1. PICK j \in DOMAIN s : t[i] = s[j]
    BY DEF Elements
  <2>2. j = i
    BY <2>1, Place
  <2>3. QED
    BY <2>2
<1>3. DOMAIN s = DOMAIN t
  BY <1>1, <1>2
<1>4. QED
  BY <1>1, <1>3

LEMMA OrderedDescends == ASSUME NEW s, Ordered(s) PROVE Descending(s)
BY DEF Ordered, Descending

LEMMA RetainOrdered ==
  ASSUME NEW s \in Seq(Entries), Ordered(s), NEW K \in SUBSET DOMAIN s
  PROVE  /\ retain(s, K) \in Seq(Entries) /\ Ordered(retain(s, K))
         /\ Elements(retain(s, K)) = {s[k] : k \in K}
<1> DEFINE r == retain(s, K)
<1>1. r \in Seq(Entries)
  BY RetainProperties
<1>0. Reduces(r, s, K)
  BY RetainProperties
<1> HIDE DEF r
<1>2. PICK from \in [DOMAIN r -> K] :
        /\ \A i \in DOMAIN r : r[i] = s[from[i]]
        /\ \A i, j \in DOMAIN r : i < j => from[i] < from[j]
        /\ \A k \in K : \E i \in DOMAIN r : from[i] = k
  BY <1>0 DEF Reduces
<1>3. Ordered(r)
  BY <1>2 DEF Ordered
<1>4. Elements(r) = {s[k] : k \in K}
  BY <1>2 DEF Elements
<1>5. QED
  BY <1>1, <1>3, <1>4 DEF r

(* A connection comes to the front of the list and takes the place of the  *)
(* entries with its server or address.                                     *)
LEMMA RecordProperties ==
  ASSUME NEW s \in Seq(Entries), Ordered(s), NEW h \in Hosts, NEW t \in Texts,
         NEW n \in 1 .. MaxRecords, \A i \in DOMAIN s : s[i].at < n
  PROVE  LET r == record_connection(s, h, t, n) IN
         /\ r \in Seq(Entries) /\ Ordered(r) /\ \A i \in DOMAIN r : r[i].at <= n
         /\ Elements(r) = {Entry(h, t, n)}
                            \cup {e \in Elements(s) : e.target # t /\ e.host # h}
<1> DEFINE K == Unlike(s, h, t)
           q == retain(s, K)
           e == Entry(h, t, n)
           r == <<e>> \o q
<1>1. K \in SUBSET DOMAIN s /\ \A k \in K : s[k].target # t /\ s[k].host # h
  BY DEF Unlike
<1>2. q \in Seq(Entries) /\ Ordered(q) /\ Elements(q) = {s[k] : k \in K}
  BY <1>1, RetainOrdered
<1>3. e \in Entries /\ e.host = h /\ e.target = t /\ e.at = n
  BY EntryType
<1>4. \A i \in DOMAIN q : q[i].at < n /\ q[i].target # t /\ q[i].host # h
  <2> TAKE i \in DOMAIN q
  <2>1. q[i] \in {s[k] : k \in K}
    BY <1>2 DEF Elements
  <2>2. QED
    BY <1>1, <2>1
<1>5. Elements(q) = {x \in Elements(s) : x.target # t /\ x.host # h}
  BY <1>2 DEF Elements, Unlike
<1>6. n \in Int /\ \A x \in Entries : x.at \in Int
  BY EntryType
<1> HIDE DEF K, q, e
<1>7. /\ r \in Seq(Entries) /\ Len(r) = Len(q) + 1 /\ r[1] = e
      /\ \A i \in 2 .. Len(r) : r[i] = q[i - 1] /\ i - 1 \in DOMAIN q
  BY <1>2, <1>3
<1>8. DOMAIN r = 1 .. Len(r) /\ Len(q) \in Nat /\ DOMAIN q = 1 .. Len(q)
  BY <1>2, <1>7
<1> HIDE DEF r
<1>9. Ordered(r)
  <2> SUFFICES ASSUME NEW i \in DOMAIN r, NEW j \in DOMAIN r, i < j
               PROVE  r[i].at > r[j].at /\ r[i].host # r[j].host /\ r[i].target # r[j].target
    BY DEF Ordered
  <2>1. j \in 2 .. Len(r) /\ r[j] = q[j - 1] /\ j - 1 \in DOMAIN q
    BY <1>7, <1>8
  <2>2. CASE i = 1
    BY <1>2, <1>3, <1>4, <1>6, <1>7, <2>1, <2>2
  <2>3. CASE i # 1
    <3>1. r[i] = q[i - 1] /\ i - 1 \in DOMAIN q /\ i - 1 < j - 1
      BY <1>7, <1>8, <2>1, <2>3
    <3>2. QED
      BY <1>2, <2>1, <3>1 DEF Ordered
  <2>4. QED
    BY <2>2, <2>3
<1>10. \A i \in DOMAIN r : r[i].at <= n
  <2> TAKE i \in DOMAIN r
  <2>1. CASE i = 1
    BY <1>3, <1>6, <1>7, <2>1
  <2>2. CASE i # 1
    <3>1. r[i] = q[i - 1] /\ i - 1 \in DOMAIN q
      BY <1>7, <1>8, <2>2
    <3>2. q[i - 1] \in Entries /\ q[i - 1].at < n
      BY <1>2, <1>4, <3>1
    <3>3. QED
      BY <1>6, <3>1, <3>2
  <2>3. QED
    BY <2>1, <2>2
<1>11. Elements(r) = {e} \cup Elements(q)
  <2>1. \A i \in DOMAIN r : r[i] = e \/ \E j \in DOMAIN q : r[i] = q[j]
    <3> TAKE i \in DOMAIN r
    <3>1. i = 1 \/ i \in 2 .. Len(r)
      BY <1>8
    <3>2. QED
      BY <1>7, <3>1
  <2>2. \A i \in DOMAIN q : i + 1 \in DOMAIN r /\ r[i + 1] = q[i]
    BY <1>7, <1>8
  <2>3. 1 \in DOMAIN r /\ r[1] = e
    BY <1>7, <1>8
  <2>4. \A x : x \in Elements(r) <=> x = e \/ x \in Elements(q)
    BY <2>1, <2>2, <2>3 DEF Elements
  <2>5. QED
    BY <2>4
<1>12. r = record_connection(s, h, t, n)
  BY DEF r, e, q, K, record_connection
<1>13. QED
  BY <1>5, <1>7, <1>9, <1>10, <1>11, <1>12 DEF e

-----------------------------------------------------------------------------
(* What is remembered of a run of connections rec.                         *)
Stamped(rec) == \A i \in DOMAIN rec : rec[i].at = i
Lasts(rec, e) ==
  \A i \in e.at + 1 .. Len(rec) : rec[i].host # e.host /\ rec[i].target # e.target
Reversed(rec) == [i \in DOMAIN rec |-> rec[Len(rec) + 1 - i]]
Lasting(rec) ==
  retain(Reversed(rec), {i \in DOMAIN Reversed(rec) : Lasts(rec, Reversed(rec)[i])})

LEMMA RememberedIs == Remembered = Lasting(recorded)
BY DEF Remembered, Lasting, Lasts, Reversed

LEMMA LastingProperties ==
  ASSUME NEW rec \in Seq(Entries), Stamped(rec)
  PROVE  /\ Lasting(rec) \in Seq(Entries) /\ Ordered(Lasting(rec))
         /\ Elements(Lasting(rec)) = {e \in Elements(rec) : Lasts(rec, e)}
         /\ \A i \in DOMAIN Lasting(rec) : Lasting(rec)[i].at <= Len(rec)
<1> DEFINE v == Reversed(rec)
           K == {i \in DOMAIN v : Lasts(rec, v[i])}
           r == retain(v, K)
<1>1. Len(rec) \in Nat /\ DOMAIN rec = 1 .. Len(rec)
  OBVIOUS
<1>2. /\ DOMAIN v = 1 .. Len(rec) /\ v \in Seq(Entries)
      /\ \A i \in 1 .. Len(rec) : /\ v[i] = rec[Len(rec) + 1 - i]
                                  /\ v[i].at = Len(rec) + 1 - i
  BY <1>1 DEF Reversed, Stamped
<1> HIDE DEF v
<1>3. K \in SUBSET DOMAIN v /\ \A k \in K : Lasts(rec, v[k])
  OBVIOUS
<1> HIDE DEF K
<1>4. r \in Seq(Entries) /\ Reduces(r, v, K)
  BY <1>2, <1>3, RetainProperties
<1> HIDE DEF r
<1>5. PICK from \in [DOMAIN r -> K] :
        /\ \A i \in DOMAIN r : r[i] = v[from[i]]
        /\ \A i, j \in DOMAIN r : i < j => from[i] < from[j]
        /\ \A k \in K : \E i \in DOMAIN r : from[i] = k
  BY <1>4 DEF Reduces
<1>6. Ordered(r)
  <2> SUFFICES ASSUME NEW i \in DOMAIN r, NEW j \in DOMAIN r, i < j
               PROVE  r[i].at > r[j].at /\ r[i].host # r[j].host /\ r[i].target # r[j].target
    BY DEF Ordered
  <2> DEFINE a == Len(rec) + 1 - from[i]
             b == Len(rec) + 1 - from[j]
  <2>1. from[i] \in 1 .. Len(rec) /\ from[j] \in 1 .. Len(rec) /\ from[i] < from[j]
    BY <1>2, <1>3, <1>5
  <2>2. r[i] = rec[a] /\ r[i].at = a /\ r[j] = rec[b] /\ r[j].at = b
    BY <1>2, <1>5, <2>1
  <2>3. a > b /\ a \in b + 1 .. Len(rec)
    BY <1>1, <2>1
  <2>4. Lasts(rec, r[j])
    BY <1>3, <1>5
  <2> HIDE DEF a, b
  <2>5. QED
    BY <2>2, <2>3, <2>4 DEF Lasts
<1>7. Elements(r) = {e \in Elements(rec) : Lasts(rec, e)}
  <2>1. Elements(r) = {v[k] : k \in K}
    BY <1>5 DEF Elements
  <2>2. \A k \in DOMAIN v : v[k] \in Elements(rec)
    <3> TAKE k \in DOMAIN v
    <3>1. Len(rec) + 1 - k \in DOMAIN rec
      BY <1>1, <1>2
    <3>2. QED
      BY <1>2, <3>1 DEF Elements
  <2>3. \A i \in DOMAIN rec : \E k \in DOMAIN v : v[k] = rec[i]
    <3> TAKE i \in DOMAIN rec
    <3>1. Len(rec) + 1 - i \in DOMAIN v /\ Len(rec) + 1 - (Len(rec) + 1 - i) = i
      BY <1>1, <1>2
    <3>2. v[Len(rec) + 1 - i] = rec[i]
      BY <1>2, <3>1
    <3>3. QED
      BY <3>1, <3>2
  <2>4. QED
    BY <2>1, <2>2, <2>3 DEF Elements, K
<1>8. \A i \in DOMAIN r : r[i].at <= Len(rec)
  <2> TAKE i \in DOMAIN r
  <2>1. from[i] \in 1 .. Len(rec) /\ r[i].at = Len(rec) + 1 - from[i]
    BY <1>2, <1>3, <1>5
  <2>2. QED
    BY <1>1, <2>1
<1>9. Lasting(rec) = r
  BY DEF Lasting, r, v, K
<1>10. QED
  BY <1>4, <1>6, <1>7, <1>8, <1>9

(* Recording a connection in the list of what is remembered gives the list *)
(* of what is remembered from then on.                                     *)
LEMMA RecordRemembered ==
  ASSUME NEW rec \in Seq(Entries), Stamped(rec), NEW h \in Hosts, NEW t \in Texts,
         Len(rec) < MaxRecords
  PROVE  LET n == Len(rec) + 1
             next == Append(rec, Entry(h, t, n))
         IN /\ next \in Seq(Entries) /\ Stamped(next) /\ Len(next) = n
            /\ n \in 1 .. MaxRecords
            /\ record_connection(Lasting(rec), h, t, n) = Lasting(next)
<1> DEFINE n == Len(rec) + 1
           e == Entry(h, t, n)
           next == Append(rec, e)
           r == record_connection(Lasting(rec), h, t, n)
<1>1. Len(rec) \in Nat /\ n \in 1 .. MaxRecords
  BY ClientBoundAssumption
<1>2. e \in Entries /\ e.host = h /\ e.target = t /\ e.at = n
  BY <1>1, EntryType
<1> HIDE DEF e
<1>3. /\ next \in Seq(Entries) /\ Len(next) = n /\ next[n] = e
      /\ \A i \in 1 .. Len(rec) : next[i] = rec[i]
  BY <1>2
<1>4. /\ DOMAIN rec = 1 .. Len(rec) /\ DOMAIN next = 1 .. n
  BY <1>1, <1>3
<1> HIDE DEF next
<1>5. Stamped(next)
  BY <1>1, <1>2, <1>3, <1>4 DEF Stamped
<1>6. /\ Lasting(rec) \in Seq(Entries) /\ Ordered(Lasting(rec))
      /\ \A i \in DOMAIN Lasting(rec) : Lasting(rec)[i].at <= Len(rec)
  BY LastingProperties
<1>7. \A i \in DOMAIN Lasting(rec) : Lasting(rec)[i].at < n
  <2> TAKE i \in DOMAIN Lasting(rec)
  <2>1. Lasting(rec)[i] \in Entries
    BY <1>6
  <2>2. Lasting(rec)[i].at \in Int
    BY <2>1, EntryType
  <2>3. QED
    BY <1>1, <1>6, <2>2
<1> HIDE DEF n
<1>8. /\ r \in Seq(Entries) /\ Ordered(r)
      /\ Elements(r) = {e} \cup {x \in Elements(Lasting(rec)) : x.target # t /\ x.host # h}
  BY <1>1, <1>6, <1>7, RecordProperties DEF e
<1>9. Elements(Lasting(rec)) = {x \in Elements(rec) : Lasts(rec, x)}
  BY LastingProperties
<1>10. /\ Lasting(next) \in Seq(Entries) /\ Ordered(Lasting(next))
       /\ Elements(Lasting(next)) = {x \in Elements(next) : Lasts(next, x)}
  BY <1>3, <1>5, LastingProperties
<1>11. Elements(next) = Elements(rec) \cup {e}
  <2>1. 1 .. n = (1 .. Len(rec)) \cup {n}
    BY <1>1 DEF n
  <2>2. QED
    BY <1>3, <1>4, <2>1 DEF Elements
<1>12. Lasts(next, e)
  BY <1>1, <1>2, <1>3 DEF Lasts
<1>13. \A x \in Elements(rec) :
         Lasts(next, x) <=> Lasts(rec, x) /\ x.target # t /\ x.host # h
  <2> TAKE x \in Elements(rec)
  <2>1. x.at \in 1 .. Len(rec)
    BY <1>4 DEF Elements, Stamped
  <2>2. x.at + 1 .. n = (x.at + 1 .. Len(rec)) \cup {n}
    BY <1>1, <2>1 DEF n
  <2>3. \A i \in x.at + 1 .. Len(rec) : next[i] = rec[i]
    BY <1>1, <1>3, <2>1
  <2>4. QED
    BY <1>2, <1>3, <2>2, <2>3 DEF Lasts
<1>14. Elements(r) = Elements(Lasting(next))
  BY <1>8, <1>9, <1>10, <1>11, <1>12, <1>13
<1>15. r = Lasting(next)
  BY <1>8, <1>10, <1>14, SameList, OrderedDescends
<1>16. QED
  BY <1>1, <1>3, <1>5, <1>15 DEF n, next, e

-----------------------------------------------------------------------------
(* Types, and that a client that has not recorded yet has a target.        *)
IdFiles == {{}} \cup {{k} : k \in 0 .. MaxIds}
ClientSteps == {"off", "id", "truncate id", "fill id", "select", "open", "shake",
                "record", "fill"}

Typed ==
  /\ history \in [torn : BOOLEAN, entries : Seq(Entries)]
  /\ identity \in IdFiles
  /\ step \in [Clients -> ClientSteps]
  /\ raw \in [Clients -> Texts \cup {Nothing}]
  /\ choice = [c \in Clients |-> choice[c]]
  /\ copy \in [Clients -> Seq(Entries)]
  /\ ident \in [Clients -> 0 .. MaxIds] /\ generated \in 0 .. MaxIds
  /\ recorded \in Seq(Entries) /\ used \subseteq 0 .. MaxIds
  /\ mixed \in BOOLEAN /\ twice \in BOOLEAN

Aimed == \A c \in Clients : step[c] \notin {"off", "fill"} => raw[c] \in Texts

ClientTypes == Typed /\ Aimed

LEMMA Bounds == MaxIds \in Nat /\ 0 \in 0 .. MaxIds /\ MaxRecords \in Nat
BY ClientBoundAssumption

LEMMA NextId == \A g \in 0 .. MaxIds : g < MaxIds => g + 1 \in 0 .. MaxIds
BY ClientBoundAssumption

LEMMA OneIdSize == \A k : Cardinality({k}) = 1
BY FS_Singleton

LEMMA NoEntries == <<>> \in Seq(Entries)
OBVIOUS

LEMMA VoidType == Void \in [torn : BOOLEAN, entries : Seq(Entries)]
BY DEF Void

LEMMA WithPathType == ASSUME Typed PROVE with_path \in Seq(Entries)
BY DEF Typed, with_path

(* What resolve_target gives is an address, of the history or as typed.    *)
LEMMA ResolveType ==
  ASSUME Typed, NEW request \in Requests, NEW t \in Resolve(request), Valid(t)
  PROVE  t \in Texts
<1>1. \A i \in DOMAIN with_path : with_path[i].target \in Texts
  <2> TAKE i \in DOMAIN with_path
  <2>1. with_path[i] \in Entries
    BY WithPathType
  <2>2. QED
    BY <2>1, EntryType
<1>2. CASE request.form = "index"
  BY <1>1, <1>2 DEF Resolve, get_by_index
<1>3. CASE request.form = "name"
  BY <1>1, <1>3 DEF Resolve, find_by_hostname
<1>4. CASE request.form \notin {"index", "name"}
  BY <1>4 DEF Resolve, Requests
<1>5. QED
  BY <1>2, <1>3, <1>4

LEMMA TypesAtStart == ClientInit => ClientTypes
<1> SUFFICES ASSUME ClientInit PROVE ClientTypes
  OBVIOUS
<1>1. /\ history \in [torn : BOOLEAN, entries : Seq(Entries)]
      /\ copy \in [Clients -> Seq(Entries)] /\ recorded \in Seq(Entries)
  BY VoidType, NoEntries DEF ClientInit
<1>2. Typed
  BY <1>1, Bounds DEF ClientInit, Typed, IdFiles, ClientSteps
<1>3. Aimed
  BY DEF ClientInit, Aimed
<1>4. QED
  BY <1>2, <1>3 DEF ClientTypes

(* A client goes on to a step at which it has its target still.            *)
LEMMA TypesGo ==
  ASSUME ClientTypes, NEW c \in Clients, NEW s \in ClientSteps, Go(c, s),
         raw' = raw, step[c] \notin {"off", "fill"} \/ s \in {"off", "fill"}
  PROVE  step' \in [Clients -> ClientSteps] /\ raw' \in [Clients -> Texts \cup {Nothing}] /\ Aimed'
BY DEF ClientTypes, Typed, Aimed, Go

LEMMA TypesLeave ==
  ASSUME ClientTypes, NEW c \in Clients, Leave(c),
         history' \in [torn : BOOLEAN, entries : Seq(Entries)], mixed' \in BOOLEAN,
         UNCHANGED <<recorded, shared, used>>
  PROVE  ClientTypes'
<1>1. /\ step' = [step EXCEPT ![c] = "off"] /\ raw' = [raw EXCEPT ![c] = Nothing]
      /\ ident' = [ident EXCEPT ![c] = 0] /\ choice' = [choice EXCEPT ![c] = NoChoice]
      /\ copy' = [copy EXCEPT ![c] = <<>>]
      /\ UNCHANGED <<recorded, identity, generated, twice, used>>
  BY DEF Leave, Go, shared
<1>2. copy' \in [Clients -> Seq(Entries)]
  BY <1>1, NoEntries DEF ClientTypes, Typed
<1>3. ident' \in [Clients -> 0 .. MaxIds]
  BY <1>1, Bounds DEF ClientTypes, Typed
<1>4. Typed'
  BY <1>1, <1>2, <1>3 DEF ClientTypes, Typed, ClientSteps
<1>5. Aimed'
  BY <1>1 DEF ClientTypes, Typed, Aimed
<1>6. QED
  BY <1>4, <1>5 DEF ClientTypes

LEMMA TypesStep ==
  ASSUME ClientTypes, [ClientNext]_clientVars
  PROVE  ClientTypes'
<1> USE DEF ClientTypes
<1>1. ASSUME NEW c \in Clients, NEW r \in Requests, Start(c, r) PROVE ClientTypes'
  <2>1. PICK t \in Resolve(r) : Valid(t) /\ raw' = [raw EXCEPT ![c] = t]
    BY <1>1 DEF Start
  <2>2. t \in Texts
    BY <2>1, ResolveType
  <2>3. step' = [step EXCEPT ![c] = "id"]
    BY <1>1 DEF Start, Go
  <2>4. Aimed'
    BY <2>1, <2>2, <2>3 DEF Typed, Aimed
  <2>5. Typed'
    BY <1>1, <2>1, <2>2, <2>3 DEF Start, Typed, ClientSteps, files, ids, shared
  <2>6. QED
    BY <2>4, <2>5
<1>2. ASSUME NEW c \in Clients, ReadId(c) PROVE ClientTypes'
  <2>1. /\ step[c] = "id"
        /\ UNCHANGED <<history, recorded, mixed, identity, raw, choice, copy, used>>
    BY <1>2 DEF ReadId, files
  <2>2. PICK s \in {"select", "truncate id"} : Go(c, s)
    BY <1>2 DEF ReadId
  <2>3. s \in ClientSteps
    BY DEF ClientSteps
  <2>4. Aimed' /\ step' \in [Clients -> ClientSteps]
    BY <2>1, <2>2, <2>3, TypesGo
  <2>5. /\ ident' \in [Clients -> 0 .. MaxIds] /\ generated' \in 0 .. MaxIds
        /\ twice' \in BOOLEAN
    <3>1. CASE identity \notin {{}, {0}}
      <4>1. PICK id \in identity : /\ ident' = [ident EXCEPT ![c] = id]
                                   /\ UNCHANGED <<generated, twice>>
        BY <1>2, <3>1 DEF ReadId
      <4>2. id \in 0 .. MaxIds
        BY DEF Typed, IdFiles
      <4>3. QED
        BY <4>1, <4>2 DEF Typed
    <3>2. CASE identity \in {{}, {0}}
      <4>1. /\ generated < MaxIds /\ generated' = generated + 1
            /\ ident' = [ident EXCEPT ![c] = generated'] /\ twice' \in BOOLEAN
        BY <1>2, <3>2 DEF ReadId, Typed
      <4>2. generated \in 0 .. MaxIds
        BY DEF Typed
      <4>3. generated + 1 \in 0 .. MaxIds
        BY <4>1, <4>2, NextId
      <4>4. QED
        BY <4>1, <4>3 DEF Typed
    <3>3. QED
      BY <3>1, <3>2
  <2>6. Typed'
    BY <2>1, <2>4, <2>5 DEF Typed
  <2>7. QED
    BY <2>4, <2>6
<1>3. ASSUME NEW c \in Clients, TruncateId(c) PROVE ClientTypes'
  <2>1. /\ step[c] = "truncate id" /\ identity' = {0} /\ Go(c, "fill id")
        /\ UNCHANGED <<history, recorded, mixed, ident, generated, twice, raw, choice, copy, used>>
    BY <1>3 DEF TruncateId, files
  <2>2. Aimed' /\ step' \in [Clients -> ClientSteps]
    BY <2>1, TypesGo DEF ClientSteps
  <2>3. identity' \in IdFiles
    BY <2>1, Bounds DEF IdFiles
  <2>4. Typed'
    BY <2>1, <2>2, <2>3 DEF Typed
  <2>5. QED
    BY <2>2, <2>4
<1>4. ASSUME NEW c \in Clients, FillId(c) PROVE ClientTypes'
  <2>1. /\ step[c] = "fill id" /\ identity' = {ident[c]} /\ Go(c, "select")
        /\ UNCHANGED <<history, recorded, mixed, ident, generated, twice, raw, choice, copy, used>>
    BY <1>4 DEF FillId, files
  <2>2. Aimed' /\ step' \in [Clients -> ClientSteps]
    BY <2>1, TypesGo DEF ClientSteps
  <2>3. Typed'
    BY <2>1, <2>2 DEF Typed, IdFiles
  <2>4. QED
    BY <2>2, <2>3
<1>5. ASSUME NEW c \in Clients, SaveIdFails(c) PROVE ClientTypes'
  <2>1. /\ step[c] \in {"truncate id", "fill id"} /\ twice' = TRUE /\ Go(c, "select")
        /\ UNCHANGED <<history, recorded, mixed, identity, ident, generated, raw, choice, copy, used>>
    BY <1>5 DEF SaveIdFails, Creating, files
  <2>2. Aimed' /\ step' \in [Clients -> ClientSteps]
    BY <2>1, TypesGo DEF ClientSteps
  <2>3. Typed'
    BY <2>1, <2>2 DEF Typed
  <2>4. QED
    BY <2>2, <2>3
<1>6. ASSUME NEW c \in Clients, NEW opt, NEW present, Select(c, opt, present)
      PROVE  ClientTypes'
  <2>1. /\ step[c] = "select" /\ Go(c, "open")
        /\ UNCHANGED <<history, recorded, mixed, ident, identity, generated, twice, raw, copy, used>>
    BY <1>6 DEF Select, files, ids, shared
  <2>2. choice' = [x \in Clients |-> choice'[x]]
    BY <1>6 DEF Select, Typed
  <2>3. Aimed' /\ step' \in [Clients -> ClientSteps]
    BY <2>1, TypesGo DEF ClientSteps
  <2>4. Typed'
    BY <2>1, <2>2, <2>3 DEF Typed
  <2>5. QED
    BY <2>3, <2>4
<1>7. ASSUME NEW c \in Clients, NEW present, Open(c, present) PROVE ClientTypes'
  <2>1. /\ step[c] = "open" /\ Go(c, "shake")
        /\ used' = used \cup {ident[c]} /\ ident' = [ident EXCEPT ![c] = 0]
        /\ UNCHANGED <<history, recorded, mixed, identity, generated, twice, raw, copy>>
    BY <1>7 DEF Open, files
  <2>2. choice' = [x \in Clients |-> choice'[x]]
    BY <1>7 DEF Open, Typed
  <2>3. Aimed' /\ step' \in [Clients -> ClientSteps]
    BY <2>1, TypesGo DEF ClientSteps
  <2>4. used' \subseteq 0 .. MaxIds /\ ident' \in [Clients -> 0 .. MaxIds]
    BY <2>1, Bounds DEF Typed
  <2>5. Typed'
    BY <2>1, <2>2, <2>3, <2>4 DEF Typed
  <2>6. QED
    BY <2>3, <2>5
<1>8. ASSUME NEW c \in Clients, Load(c) PROVE ClientTypes'
  <2>1. /\ step[c] = "shake" /\ Go(c, "record")
        /\ copy' = [copy EXCEPT ![c] = with_path] /\ mixed' \in BOOLEAN
        /\ choice' = [choice EXCEPT ![c] = NoChoice]
        /\ UNCHANGED <<history, recorded, ident, identity, generated, twice, raw, used>>
    BY <1>8 DEF Load, ids, shared, Typed
  <2>2. Aimed' /\ step' \in [Clients -> ClientSteps]
    BY <2>1, TypesGo DEF ClientSteps
  <2>3. Typed'
    BY <2>1, <2>2, WithPathType DEF Typed
  <2>4. QED
    BY <2>2, <2>3
<1>10. ASSUME NEW c \in Clients, Fill(c) PROVE ClientTypes'
  <2>1. history' \in [torn : BOOLEAN, entries : Seq(Entries)]
    <3>1. CASE history' = [torn |-> FALSE, entries |-> copy[c]]
      BY <3>1 DEF Typed
    <3>2. CASE history' = [torn |-> TRUE, entries |-> <<>>]
      BY <3>2, NoEntries
    <3>3. QED
      BY <1>10, <3>1, <3>2 DEF Fill
  <2>2. QED
    BY <1>10, <2>1, TypesLeave DEF Fill, Typed
<1>11. ASSUME NEW c \in Clients, SaveFails(c) \/ End(c) PROVE ClientTypes'
  <2>1. Leave(c) /\ mixed' \in BOOLEAN /\ UNCHANGED <<history, recorded, shared, used>>
    BY <1>11 DEF SaveFails, End, Typed
  <2>2. QED
    BY <2>1, TypesLeave DEF Typed
<1>12. ASSUME NEW c \in Clients, NoAnswer(c) PROVE ClientTypes'
  <2>1. Leave(c) /\ UNCHANGED <<history, recorded, mixed, shared, used>>
    BY <1>12 DEF NoAnswer, files
  <2>2. QED
    BY <2>1, TypesLeave DEF Typed
<1>13. CASE UNCHANGED clientVars
  BY <1>13 DEF clientVars, Typed, Aimed
<1>9. ASSUME NEW c \in Clients, NEW h \in Hosts, Record(c, h) PROVE ClientTypes'
  <2> DEFINE n == Len(recorded) + 1
  <2>1. /\ step[c] = "record" /\ Len(recorded) < MaxRecords
        /\ recorded' = Append(recorded, Entry(h, raw[c], n))
        /\ copy' = [copy EXCEPT ![c] = record_connection(copy[c], h, raw[c], Len(recorded'))]
        /\ history' = Void
        /\ raw' = [raw EXCEPT ![c] = Nothing]
        /\ step' = [step EXCEPT ![c] = "fill"]
        /\ UNCHANGED <<mixed, ident, identity, generated, twice, choice, used>>
    BY <1>9 DEF Record, Go, ids, shared
  <2>2. raw[c] \in Texts /\ n \in 1 .. MaxRecords
    <3>1. recorded \in Seq(Entries)
      BY DEF Typed
    <3>2. Len(recorded) \in Nat
      BY <3>1
    <3>3. QED
      BY <2>1, <3>2, Bounds DEF Aimed
  <2>3. Entry(h, raw[c], n) \in Entries
    BY <2>2, EntryType
  <2>4. recorded' \in Seq(Entries) /\ Len(recorded') = n
    BY <2>1, <2>3 DEF Typed
  <2>5. record_connection(copy[c], h, raw[c], n) \in Seq(Entries)
    <3> DEFINE K == Unlike(copy[c], h, raw[c])
    <3>1. copy[c] \in Seq(Entries) /\ K \in SUBSET DOMAIN copy[c]
      BY DEF Typed, Unlike
    <3>2. retain(copy[c], K) \in Seq(Entries)
      <4> HIDE DEF K
      <4>1. QED
        BY <3>1, RetainProperties
    <3>3. QED
      BY <2>3, <3>2 DEF record_connection
  <2>6. copy' \in [Clients -> Seq(Entries)]
    BY <2>1, <2>4, <2>5 DEF Typed
  <2>7. Typed'
    BY <2>1, <2>4, <2>6, VoidType DEF Typed, ClientSteps
  <2>8. Aimed'
    BY <2>1 DEF Typed, Aimed
  <2>9. QED
    BY <2>7, <2>8
<1>14. QED
  BY <1>1, <1>2, <1>3, <1>4, <1>5, <1>6, <1>7, <1>8, <1>9, <1>10, <1>11, <1>12, <1>13
     DEF ClientNext, ClientStep

(* Every variable of the clients of a machine keeps its type, for any      *)
(* number of them; above all the list in known_servers.json and every copy *)
(* of it are lists of addresses that were given (history.rs 7-26).         *)
THEOREM ClientTypeCorrect == ClientSpec => []ClientTypeOK
<1>1. ClientTypes => ClientTypeOK
  <2> SUFFICES ASSUME ClientTypes PROVE ClientTypeOK
    OBVIOUS
  <2>1. identity \subseteq 0 .. MaxIds /\ Cardinality(identity) <= 1
    <3>1. CASE identity = {}
      BY <3>1, FS_EmptySet
    <3>2. CASE \E k \in 0 .. MaxIds : identity = {k}
      BY <3>2, OneIdSize
    <3>3. QED
      BY <3>1, <3>2 DEF ClientTypes, Typed, IdFiles
  <2>2. QED
    BY <2>1 DEF ClientTypes, Typed, ClientSteps, ClientTypeOK
<1>2. ClientTypes /\ [ClientNext]_clientVars => ClientTypes'
  BY TypesStep
<1>3. QED
  BY <1>1, <1>2, TypesAtStart, PTL DEF ClientSpec

-----------------------------------------------------------------------------
(* Client ids.  As long as ids are not created at the same time and can be *)
(* saved, whoever creates one finds no id in the file and is alone in      *)
(* doing so, and every id that is in use, or was, is that of the file.     *)
Holding(c) == step[c] \in {"truncate id", "fill id", "select", "open"}
Settled(c) == step[c] \in {"select", "open"}

Named == 0 \notin used /\ \A c \in Clients : Holding(c) => ident[c] # 0
OneCreates ==
  /\ \A c \in Clients : Creating(c) => identity \in {{}, {0}}
  /\ \A c, d \in Clients : Creating(c) /\ Creating(d) => c = d
Agreed ==
  /\ \A c \in Clients : Settled(c) => identity = {ident[c]}
  /\ \A u \in used : identity = {u}

IdInv == Named /\ (~ twice => OneCreates /\ Agreed)

LEMMA IdAtStart == ClientInit => IdInv
BY DEF ClientInit, IdInv, Named, OneCreates, Agreed, Holding, Settled, Creating

LEMMA IdsDiffer == {0} # {} /\ \A k : {k} = {0} <=> k = 0
OBVIOUS

(* A step of a client that has no id afterwards, and announces none.       *)
LEMMA IdQuiet ==
  ASSUME ClientTypes, IdInv, NEW c \in Clients, NEW s \in ClientSteps, Go(c, s),
         s \notin {"truncate id", "fill id", "select", "open"},
         ident' = ident \/ ident' = [ident EXCEPT ![c] = 0],
         UNCHANGED <<identity, twice, used>>
  PROVE  IdInv'
<1>1. step' = [step EXCEPT ![c] = s] /\ step \in [Clients -> ClientSteps]
  BY DEF Go, ClientTypes, Typed
<1>2. \A d \in Clients : d # c => ident'[d] = ident[d] /\ step'[d] = step[d]
  BY <1>1 DEF ClientTypes, Typed
<1>3. step'[c] = s
  BY <1>1
<1>4. Named'
  BY <1>2, <1>3 DEF IdInv, Named, Holding
<1>5. ASSUME ~ twice' PROVE OneCreates' /\ Agreed'
  <2>1. OneCreates /\ Agreed
    BY <1>5 DEF IdInv
  <2>2. OneCreates'
    BY <1>2, <1>3, <2>1 DEF OneCreates, Creating
  <2>3. Agreed'
    BY <1>2, <1>3, <2>1 DEF Agreed, Settled
  <2>4. QED
    BY <2>2, <2>3
<1>6. QED
  BY <1>4, <1>5 DEF IdInv

LEMMA IdStep ==
  ASSUME ClientTypes, IdInv, [ClientNext]_clientVars
  PROVE  IdInv'
<1>1. ASSUME NEW c \in Clients, ReadId(c) PROVE IdInv'
  <2> DEFINE s == step'[c]
  <2>1. /\ step[c] = "id" /\ identity' = identity /\ used' = used
        /\ step' = [step EXCEPT ![c] = s] /\ s \in {"select", "truncate id"}
        /\ ident' = [ident EXCEPT ![c] = ident'[c]]
    BY <1>1 DEF ReadId, Go, ClientTypes, Typed
  <2> HIDE DEF s
  <2>2. \A d \in Clients : d # c => ident'[d] = ident[d] /\ step'[d] = step[d]
    BY <2>1 DEF ClientTypes, Typed
  <2>3. step'[c] = s
    BY DEF s
  <2>4. CASE identity \notin {{}, {0}}
    <3>1. s = "select" /\ twice' = twice /\ ident'[c] \in identity
      BY <1>1, <2>3, <2>4 DEF ReadId, Go, ClientTypes, Typed
    <3>2. identity = {ident'[c]} /\ ident'[c] # 0
      BY <2>4, <3>1 DEF ClientTypes, Typed, IdFiles
    <3>3. Named'
      BY <2>1, <2>2, <3>2 DEF IdInv, Named, Holding
    <3>4. ASSUME ~ twice' PROVE OneCreates' /\ Agreed'
      <4>1. OneCreates /\ Agreed
        BY <3>1, <3>4 DEF IdInv
      <4>2. OneCreates'
        BY <2>1, <2>2, <2>3, <3>1, <4>1 DEF OneCreates, Creating
      <4>3. Agreed'
        BY <2>1, <2>2, <2>3, <3>1, <3>2, <4>1 DEF Agreed, Settled
      <4>4. QED
        BY <4>2, <4>3
    <3>5. QED
      BY <3>3, <3>4 DEF IdInv
  <2>5. CASE identity \in {{}, {0}}
    <3>1. s = "truncate id" /\ twice' = (twice \/ \E other \in Clients : Creating(other))
      BY <1>1, <2>3, <2>5 DEF ReadId, Go, ClientTypes, Typed
    <3>2. ident'[c] # 0
      <4>1. generated \in 0 .. MaxIds /\ generated' = generated + 1 /\ ident'[c] = generated'
        BY <1>1, <2>5 DEF ReadId, ClientTypes, Typed
      <4>2. generated \in Nat
        BY <4>1, Bounds
      <4>3. QED
        BY <4>1, <4>2
    <3>3. Named'
      BY <2>1, <2>2, <3>2 DEF IdInv, Named, Holding
    <3>4. ASSUME ~ twice' PROVE OneCreates' /\ Agreed'
      <4>1. OneCreates /\ Agreed /\ \A d \in Clients : ~ Creating(d)
        BY <3>1, <3>4 DEF IdInv
      <4>2. OneCreates'
        BY <2>1, <2>2, <2>5, <4>1 DEF OneCreates, Creating
      <4>3. Agreed'
        BY <2>1, <2>2, <2>3, <3>1, <4>1 DEF Agreed, Settled
      <4>4. QED
        BY <4>2, <4>3
    <3>5. QED
      BY <3>3, <3>4 DEF IdInv
  <2>6. QED
    BY <2>4, <2>5
<1>2. ASSUME NEW c \in Clients, TruncateId(c) PROVE IdInv'
  <2>1. /\ step[c] = "truncate id" /\ identity' = {0} /\ step' = [step EXCEPT ![c] = "fill id"]
        /\ UNCHANGED <<ident, twice, used>>
    BY <1>2 DEF TruncateId, Go
  <2>2. /\ step'[c] = "fill id"
        /\ \A d \in Clients : d # c => step'[d] = step[d]
    BY <2>1 DEF ClientTypes, Typed
  <2>3. Named'
    BY <2>1, <2>2 DEF IdInv, Named, Holding
  <2>4. ASSUME ~ twice' PROVE OneCreates' /\ Agreed'
    <3>1. OneCreates /\ Agreed /\ Named
      BY <2>1, <2>4 DEF IdInv
    <3>2. identity \in {{}, {0}}
      BY <2>1, <3>1 DEF OneCreates, Creating
    <3>3. OneCreates'
      BY <2>1, <2>2, <3>1 DEF OneCreates, Creating
    <3>4. used = {}
      BY <3>1, <3>2 DEF Agreed, Named
    <3>5. \A d \in Clients : ~ Settled(d)
      BY <3>1, <3>2 DEF Agreed, Named, Settled, Holding
    <3>6. Agreed'
      BY <2>1, <2>2, <3>4, <3>5 DEF Agreed, Settled
    <3>7. QED
      BY <3>3, <3>6
  <2>5. QED
    BY <2>3, <2>4 DEF IdInv
<1>3. ASSUME NEW c \in Clients, FillId(c) PROVE IdInv'
  <2>1. /\ step[c] = "fill id" /\ identity' = {ident[c]} /\ step' = [step EXCEPT ![c] = "select"]
        /\ UNCHANGED <<ident, twice, used>>
    BY <1>3 DEF FillId, Go
  <2>2. /\ step'[c] = "select"
        /\ \A d \in Clients : d # c => step'[d] = step[d]
    BY <2>1 DEF ClientTypes, Typed
  <2>3. Named'
    BY <2>1, <2>2 DEF IdInv, Named, Holding
  <2>4. ASSUME ~ twice' PROVE OneCreates' /\ Agreed'
    <3>1. OneCreates /\ Agreed /\ Named
      BY <2>1, <2>4 DEF IdInv
    <3>2. identity \in {{}, {0}} /\ \A d \in Clients : d # c => ~ Creating(d)
      BY <2>1, <3>1 DEF OneCreates, Creating
    <3>3. OneCreates'
      BY <2>1, <2>2, <3>2 DEF OneCreates, Creating
    <3>4. used = {}
      BY <3>1, <3>2 DEF Agreed, Named
    <3>5. \A d \in Clients : ~ Settled(d)
      BY <3>1, <3>2 DEF Agreed, Named, Settled, Holding
    <3>6. Agreed'
      BY <2>1, <2>2, <3>4, <3>5 DEF Agreed, Settled
    <3>7. QED
      BY <3>3, <3>6
  <2>5. QED
    BY <2>3, <2>4 DEF IdInv
<1>4. ASSUME NEW c \in Clients, SaveIdFails(c) PROVE IdInv'
  <2>1. /\ Creating(c) /\ twice' /\ step' = [step EXCEPT ![c] = "select"]
        /\ UNCHANGED <<ident, used>>
    BY <1>4 DEF SaveIdFails, Go
  <2>2. \A d \in Clients : d # c => step'[d] = step[d]
    BY <2>1 DEF ClientTypes, Typed
  <2>3. Named'
    BY <2>1, <2>2 DEF IdInv, Named, Holding, Creating
  <2>4. QED
    BY <2>1, <2>3 DEF IdInv
<1>5. ASSUME NEW c \in Clients, NEW opt, NEW present, Select(c, opt, present)
      PROVE  IdInv'
  <2>1. /\ step[c] = "select" /\ step' = [step EXCEPT ![c] = "open"]
        /\ UNCHANGED <<ident, identity, twice, used>>
    BY <1>5 DEF Select, Go, ids, shared
  <2>2. \A d \in Clients : /\ Holding(d)' => Holding(d)
                           /\ Settled(d)' => Settled(d)
                           /\ Creating(d)' => Creating(d)
    BY <2>1 DEF ClientTypes, Typed, Holding, Settled, Creating
  <2>3. Named'
    BY <2>1, <2>2 DEF IdInv, Named
  <2>4. ~ twice => OneCreates' /\ Agreed'
    BY <2>1, <2>2 DEF IdInv, OneCreates, Agreed
  <2>5. QED
    BY <2>1, <2>3, <2>4 DEF IdInv
<1>6. ASSUME NEW c \in Clients, NEW present, Open(c, present) PROVE IdInv'
  <2>1. /\ step[c] = "open" /\ step' = [step EXCEPT ![c] = "shake"]
        /\ used' = used \cup {ident[c]} /\ ident' = [ident EXCEPT ![c] = 0]
        /\ UNCHANGED <<identity, twice>>
    BY <1>6 DEF Open, Go
  <2>2. /\ step'[c] = "shake"
        /\ \A d \in Clients : d # c => step'[d] = step[d] /\ ident'[d] = ident[d]
    BY <2>1 DEF ClientTypes, Typed
  <2>3. ident[c] # 0
    BY <2>1 DEF IdInv, Named, Holding
  <2>4. Named'
    BY <2>1, <2>2, <2>3 DEF IdInv, Named, Holding
  <2>5. ASSUME ~ twice' PROVE OneCreates' /\ Agreed'
    <3>1. OneCreates /\ Agreed
      BY <2>1, <2>5 DEF IdInv
    <3>2. identity = {ident[c]}
      BY <2>1, <3>1 DEF Agreed, Settled
    <3>3. OneCreates'
      BY <2>1, <2>2, <3>1 DEF OneCreates, Creating
    <3>4. Agreed'
      BY <2>1, <2>2, <3>1, <3>2 DEF Agreed, Settled
    <3>5. QED
      BY <3>3, <3>4
  <2>6. QED
    BY <2>4, <2>5 DEF IdInv
<1>7. ASSUME NEW c \in Clients, NEW r \in Requests, Start(c, r) PROVE IdInv'
  <2>1. Go(c, "id") /\ UNCHANGED <<ident, identity, twice, used>>
    BY <1>7 DEF Start, ids, shared
  <2>2. QED
    BY <2>1, IdQuiet DEF ClientSteps
<1>8. ASSUME NEW c \in Clients, Load(c) PROVE IdInv'
  <2>1. Go(c, "record") /\ UNCHANGED <<ident, identity, twice, used>>
    BY <1>8 DEF Load, ids, shared
  <2>2. QED
    BY <2>1, IdQuiet DEF ClientSteps
<1>9. ASSUME NEW c \in Clients, NEW h \in Hosts, Record(c, h) PROVE IdInv'
  <2>1. Go(c, "fill") /\ UNCHANGED <<ident, identity, twice, used>>
    BY <1>9 DEF Record, ids, shared
  <2>2. QED
    BY <2>1, IdQuiet DEF ClientSteps
<1>10. ASSUME NEW c \in Clients, Fill(c) \/ SaveFails(c) \/ NoAnswer(c) \/ End(c)
       PROVE  IdInv'
  <2>1. Leave(c) /\ UNCHANGED <<shared, used>>
    BY <1>10 DEF Fill, SaveFails, NoAnswer, End
  <2>2. Go(c, "off") /\ ident' = [ident EXCEPT ![c] = 0] /\ UNCHANGED <<identity, twice, used>>
    BY <2>1 DEF Leave, shared
  <2>3. QED
    BY <2>2, IdQuiet DEF ClientSteps
<1>11. CASE UNCHANGED clientVars
  BY <1>11 DEF clientVars, IdInv, Named, OneCreates, Agreed, Holding, Settled, Creating
<1>12. QED
  BY <1>1, <1>2, <1>3, <1>4, <1>5, <1>6, <1>7, <1>8, <1>9, <1>10, <1>11
     DEF ClientNext, ClientStep

LEMMA IdInvShows == ASSUME IdInv PROVE OneIdentity
<1>1. ASSUME ~ twice PROVE Cardinality(used) <= 1
  <2>1. \A u, v \in used : u = v
    BY <1>1 DEF IdInv, Agreed
  <2>2. CASE used = {}
    <3>1. Cardinality(used) = 0
      BY <2>2, FS_EmptySet
    <3>2. QED
      BY <3>1
  <2>3. CASE \E u : used = {u}
    <3>1. Cardinality(used) = 1
      BY <2>3, OneIdSize
    <3>2. QED
      BY <3>1
  <2>4. QED
    BY <2>1, <2>2, <2>3
<1>2. QED
  BY <1>1 DEF OneIdentity, IdInv, Named

(* A user announces one client id to all servers and for all time, for any *)
(* number of clients, killed wherever they are: two ids are seen only if   *)
(* clients created the file at the same time or could not write it         *)
(* (client.rs 124-150).                                                    *)
THEOREM SameIdentity == ClientSpec => []OneIdentity
<1>1. ClientTypes /\ IdInv /\ [ClientNext]_clientVars => ClientTypes' /\ IdInv'
  BY TypesStep, IdStep
<1>2. ClientInit => ClientTypes /\ IdInv
  BY TypesAtStart, IdAtStart
<1>3. IdInv => OneIdentity
  BY IdInvShows
<1>4. QED
  BY <1>1, <1>2, <1>3, PTL DEF ClientSpec

-----------------------------------------------------------------------------
(* The history of servers.  The file and every copy of it are ordered      *)
(* whatever happens; as long as no two clients save at once and no save    *)
(* breaks off, the file, or the copy that is being saved, is what is       *)
(* remembered of the connections that were recorded.                       *)
Listed(s) == Ordered(s) /\ \A i \in DOMAIN s : s[i].at <= Len(recorded)

OrderInv ==
  /\ Stamped(recorded)
  /\ Listed(history.entries)
  /\ \A c \in Clients : Listed(copy[c])

KeptInv ==
  /\ ~ history.torn
  /\ \A c, d \in Clients : Saving(c) /\ Saving(d) => c = d
  /\ \A c \in Clients : Saving(c) => copy[c] = Lasting(recorded)
  /\ \A c \in Clients : step[c] = "fill" => history = Void
  /\ (\A c \in Clients : step[c] # "fill") => history.entries = Lasting(recorded)

HistInv == OrderInv /\ (~ mixed => KeptInv)

LEMMA EmptyListed ==
  /\ Listed(<<>>) /\ Listed(<<>>)'
  /\ Stamped(<<>>) /\ Void.entries = <<>> /\ ~ Void.torn
BY DEF Listed, Ordered, Stamped, Void

LEMMA NothingLasts == Lasting(<<>>) = <<>>
<1>1. <<>> \in Seq(Entries) /\ Stamped(<<>>) /\ Ordered(<<>>) /\ Elements(<<>>) = {}
  BY NoEntries DEF Stamped, Ordered, Elements
<1>2. /\ Lasting(<<>>) \in Seq(Entries) /\ Ordered(Lasting(<<>>))
      /\ Elements(Lasting(<<>>)) = {e \in Elements(<<>>) : Lasts(<<>>, e)}
  BY <1>1, LastingProperties
<1>3. Elements(Lasting(<<>>)) = Elements(<<>>)
  BY <1>1, <1>2
<1>4. QED
  BY <1>1, <1>2, <1>3, SameList, OrderedDescends

LEMMA HistAtStart == ClientInit => HistInv
<1> SUFFICES ASSUME ClientInit PROVE HistInv
  OBVIOUS
<1>1. OrderInv
  BY EmptyListed DEF ClientInit, OrderInv
<1>2. KeptInv
  BY EmptyListed, NothingLasts DEF ClientInit, KeptInv, Saving
<1>3. QED
  BY <1>1, <1>2 DEF HistInv

(* The file and the copies stay as they are, but for a copy thrown away.   *)
LEMMA OrderKept ==
  ASSUME ClientTypes, HistInv, NEW c \in Clients, UNCHANGED <<history, recorded>>,
         copy' = copy \/ copy' = [copy EXCEPT ![c] = <<>>]
  PROVE  OrderInv'
<1>1. Stamped(recorded)' /\ Listed(history.entries)'
  BY DEF HistInv, OrderInv, Stamped, Listed
<1>2. \A d \in Clients : Listed(copy[d])'
  <2> TAKE d \in Clients
  <2>1. copy'[d] = copy[d] \/ copy'[d] = <<>>
    BY DEF ClientTypes, Typed
  <2>2. Listed(copy[d])
    BY DEF HistInv, OrderInv
  <2>3. QED
    BY <2>1, <2>2 DEF Listed, Ordered
<1>3. QED
  BY <1>1, <1>2 DEF OrderInv

(* A step of a client that is not saving then and not saving yet, or gives *)
(* up before it truncated the file.                                        *)
LEMMA HistQuiet ==
  ASSUME ClientTypes, HistInv, NEW c \in Clients, NEW s \in ClientSteps, Go(c, s),
         s \notin {"record", "fill"}, step[c] # "fill",
         copy' = copy \/ copy' = [copy EXCEPT ![c] = <<>>],
         UNCHANGED <<history, recorded, mixed>>
  PROVE  HistInv'
<1>1. OrderInv'
  BY OrderKept
<1>2. ASSUME ~ mixed' PROVE KeptInv'
  <2>1. KeptInv
    BY <1>2 DEF HistInv
  <2>2. /\ step'[c] = s
        /\ \A d \in Clients : d # c => step'[d] = step[d] /\ copy'[d] = copy[d]
    BY DEF Go, ClientTypes, Typed
  <2>3. (\A d \in Clients : step'[d] # "fill") => \A d \in Clients : step[d] # "fill"
    BY <2>2
  <2>4. QED
    BY <2>1, <2>2, <2>3 DEF KeptInv, Saving
<1>3. QED
  BY <1>1, <1>2 DEF HistInv

(* A client that ends before it could fill the file.                       *)
LEMMA HistLeave ==
  ASSUME ClientTypes, HistInv, NEW c \in Clients, Leave(c),
         mixed' = (mixed \/ step[c] = "fill"),
         UNCHANGED <<history, recorded>>
  PROVE  HistInv'
<1>1. /\ Go(c, "off") /\ copy' = [copy EXCEPT ![c] = <<>>]
  BY DEF Leave
<1>2. CASE step[c] = "fill"
  BY <1>1, <1>2, OrderKept DEF HistInv
<1>3. CASE step[c] # "fill"
  <2>1. mixed' = mixed
    BY <1>3 DEF ClientTypes, Typed
  <2>2. QED
    BY <1>1, <1>3, <2>1, HistQuiet DEF ClientSteps
<1>4. QED
  BY <1>2, <1>3

LEMMA HistLoad ==
  ASSUME ClientTypes, HistInv, NEW c \in Clients, Load(c)
  PROVE  HistInv'
<1>1. /\ step[c] = "shake" /\ step' = [step EXCEPT ![c] = "record"]
      /\ copy' = [copy EXCEPT ![c] = with_path]
      /\ mixed' = (mixed \/ \E other \in Clients : Saving(other))
      /\ UNCHANGED <<history, recorded>>
  BY DEF Load, Go
<1>2. /\ step'[c] = "record" /\ copy'[c] = with_path
      /\ \A d \in Clients : d # c => step'[d] = step[d] /\ copy'[d] = copy[d]
  BY <1>1 DEF ClientTypes, Typed
<1>3. OrderInv'
  <2>1. Stamped(recorded)' /\ Listed(history.entries)'
    BY <1>1 DEF HistInv, OrderInv, Stamped, Listed
  <2>2. \A d \in Clients : Listed(copy[d])'
    <3> TAKE d \in Clients
    <3>1. copy'[d] = copy[d] \/ copy'[d] = <<>> \/ copy'[d] = history.entries
      BY <1>2 DEF with_path
    <3>2. Listed(copy[d]) /\ Listed(history.entries)
      BY DEF HistInv, OrderInv
    <3>3. QED
      BY <1>1, <3>1, <3>2 DEF Listed, Ordered
  <2>3. QED
    BY <2>1, <2>2 DEF OrderInv
<1>4. ASSUME ~ mixed' PROVE KeptInv'
  <2>1. KeptInv /\ \A d \in Clients : ~ Saving(d)
    BY <1>1, <1>4 DEF HistInv
  <2>2. with_path = Lasting(recorded)
    BY <2>1 DEF KeptInv, Saving, with_path
  <2>3. (\A d \in Clients : step'[d] # "fill") => \A d \in Clients : step[d] # "fill"
    BY <1>1, <1>2
  <2>4. QED
    BY <1>1, <1>2, <2>1, <2>2, <2>3 DEF KeptInv, Saving
<1>5. QED
  BY <1>3, <1>4 DEF HistInv

LEMMA HistRecord ==
  ASSUME ClientTypes, HistInv, NEW c \in Clients, NEW h \in Hosts, Record(c, h)
  PROVE  HistInv'
<1> DEFINE n == Len(recorded) + 1
           t == raw[c]
<1>1. /\ step[c] = "record" /\ Len(recorded) < MaxRecords
      /\ recorded' = Append(recorded, Entry(h, t, n))
      /\ copy' = [copy EXCEPT ![c] = record_connection(copy[c], h, t, Len(recorded'))]
      /\ history' = Void /\ mixed' = mixed
      /\ step' = [step EXCEPT ![c] = "fill"]
  BY DEF Record, Go
<1>2. /\ t \in Texts /\ recorded \in Seq(Entries) /\ copy[c] \in Seq(Entries)
      /\ Stamped(recorded)
  BY <1>1 DEF ClientTypes, Typed, Aimed, HistInv, OrderInv
<1> HIDE DEF t
<1>3. /\ recorded' \in Seq(Entries) /\ Stamped(recorded') /\ Len(recorded') = n
      /\ n \in 1 .. MaxRecords
      /\ record_connection(Lasting(recorded), h, t, n) = Lasting(recorded')
  BY <1>1, <1>2, RecordRemembered
<1>4. /\ step'[c] = "fill" /\ copy'[c] = record_connection(copy[c], h, t, n)
      /\ \A d \in Clients : d # c => step'[d] = step[d] /\ copy'[d] = copy[d]
  BY <1>1, <1>3 DEF ClientTypes, Typed
<1>5. Len(recorded) \in Int /\ n \in Int
  BY <1>2
<1>6. \A d \in Clients : \A i \in DOMAIN copy[d] : copy[d][i].at < n
  <2> TAKE d \in Clients
  <2> TAKE i \in DOMAIN copy[d]
  <2>1. copy[d] \in Seq(Entries) /\ copy[d][i].at <= Len(recorded)
    BY DEF ClientTypes, Typed, HistInv, OrderInv, Listed
  <2>2. copy[d][i] \in Entries
    BY <2>1
  <2>3. copy[d][i].at \in Int
    BY <2>2, EntryType
  <2>4. QED
    BY <1>5, <2>1, <2>3
<1>7. Ordered(copy[c])
  BY DEF HistInv, OrderInv, Listed
<1>8. LET r == record_connection(copy[c], h, t, n)
      IN Ordered(r) /\ \A i \in DOMAIN r : r[i].at <= n
  <2> HIDE DEF n
  <2>1. QED
    BY <1>2, <1>3, <1>6, <1>7, RecordProperties
<1>9. OrderInv'
  <2>1. Listed(history.entries)'
    BY <1>1, EmptyListed DEF Listed, Ordered
  <2>2. \A d \in Clients : Listed(copy[d])'
    <3> TAKE d \in Clients
    <3>1. CASE d = c
      BY <1>3, <1>4, <1>8, <3>1 DEF Listed
    <3>2. CASE d # c
      <4>1. copy'[d] = copy[d] /\ Ordered(copy[d])
        BY <1>4, <3>2 DEF HistInv, OrderInv, Listed
      <4>2. \A i \in DOMAIN copy[d] : copy[d][i].at <= n
        <5> TAKE i \in DOMAIN copy[d]
        <5>1. copy[d] \in Seq(Entries)
          BY DEF ClientTypes, Typed
        <5>2. copy[d][i] \in Entries
          BY <5>1
        <5>3. copy[d][i].at \in Int
          BY <5>2, EntryType
        <5>4. QED
          BY <1>5, <1>6, <5>3
      <4>3. QED
        BY <1>3, <4>1, <4>2 DEF Listed
    <3>3. QED
      BY <3>1, <3>2
  <2>3. QED
    BY <1>3, <2>1, <2>2 DEF OrderInv
<1>10. ASSUME ~ mixed' PROVE KeptInv'
  <2>1. KeptInv
    BY <1>1, <1>10 DEF HistInv
  <2>2. copy[c] = Lasting(recorded) /\ \A d \in Clients : Saving(d) => d = c
    BY <1>1, <2>1 DEF KeptInv, Saving
  <2>3. copy'[c] = Lasting(recorded')
    BY <1>3, <1>4, <2>2
  <2>4. ~ history'.torn
    BY <1>1, EmptyListed
  <2>5. QED
    BY <1>1, <1>4, <2>2, <2>3, <2>4 DEF KeptInv, Saving
<1>11. QED
  BY <1>9, <1>10 DEF HistInv

LEMMA HistFill ==
  ASSUME ClientTypes, HistInv, NEW c \in Clients, Fill(c)
  PROVE  HistInv'
<1>1. /\ step[c] = "fill" /\ step' = [step EXCEPT ![c] = "off"]
      /\ copy' = [copy EXCEPT ![c] = <<>>] /\ UNCHANGED <<recorded, mixed>>
      /\ \/ history' = [torn |-> FALSE, entries |-> copy[c]]
         \/ history # Void /\ history' = [torn |-> TRUE, entries |-> <<>>]
  BY DEF Fill, Leave, Go
<1>2. /\ step'[c] = "off" /\ copy'[c] = <<>>
      /\ \A d \in Clients : d # c => step'[d] = step[d] /\ copy'[d] = copy[d]
  BY <1>1 DEF ClientTypes, Typed
<1>3. OrderInv'
  <2>1. history'.entries = copy[c] \/ history'.entries = <<>>
    BY <1>1
  <2>2. Listed(copy[c])
    BY DEF HistInv, OrderInv
  <2>3. Listed(history.entries)'
    BY <1>1, <2>1, <2>2 DEF Listed, Ordered
  <2>4. \A d \in Clients : Listed(copy[d])'
    <3> TAKE d \in Clients
    <3>1. copy'[d] = copy[d] \/ copy'[d] = <<>>
      BY <1>2
    <3>2. Listed(copy[d])
      BY DEF HistInv, OrderInv
    <3>3. QED
      BY <1>1, <3>1, <3>2 DEF Listed, Ordered
  <2>5. Stamped(recorded)'
    BY <1>1 DEF HistInv, OrderInv, Stamped
  <2>6. QED
    BY <2>3, <2>4, <2>5 DEF OrderInv
<1>4. ASSUME ~ mixed' PROVE KeptInv'
  <2>1. KeptInv
    BY <1>1, <1>4 DEF HistInv
  <2>2. /\ copy[c] = Lasting(recorded) /\ history = Void
        /\ \A d \in Clients : d # c => ~ Saving(d)
    BY <1>1, <2>1 DEF KeptInv, Saving
  <2>3. history' = [torn |-> FALSE, entries |-> Lasting(recorded)]
    BY <1>1, <2>2
  <2>4. ~ history'.torn /\ history'.entries = Lasting(recorded)
    BY <2>3
  <2>5. QED
    BY <1>1, <1>2, <2>2, <2>4 DEF KeptInv, Saving
<1>5. QED
  BY <1>3, <1>4 DEF HistInv

LEMMA HistStep ==
  ASSUME ClientTypes, HistInv, [ClientNext]_clientVars
  PROVE  HistInv'
<1>1. ASSUME NEW c \in Clients, NEW r \in Requests, Start(c, r) PROVE HistInv'
  <2>1. Go(c, "id") /\ step[c] # "fill" /\ UNCHANGED <<history, recorded, mixed, copy>>
    BY <1>1 DEF Start, files
  <2>2. QED
    BY <2>1, HistQuiet DEF ClientSteps
<1>2. ASSUME NEW c \in Clients,
             ReadId(c) \/ TruncateId(c) \/ FillId(c) \/ SaveIdFails(c)
      PROVE  HistInv'
  <2>1. /\ step[c] # "fill" /\ UNCHANGED <<history, recorded, mixed, copy>>
        /\ \E s \in {"select", "truncate id", "fill id"} : Go(c, s)
    BY <1>2 DEF ReadId, TruncateId, FillId, SaveIdFails, Creating, files
  <2>2. QED
    BY <2>1, HistQuiet DEF ClientSteps
<1>3. ASSUME NEW c \in Clients, NEW opt, NEW present, Select(c, opt, present)
      PROVE  HistInv'
  <2>1. Go(c, "open") /\ step[c] # "fill" /\ UNCHANGED <<history, recorded, mixed, copy>>
    BY <1>3 DEF Select, files
  <2>2. QED
    BY <2>1, HistQuiet DEF ClientSteps
<1>4. ASSUME NEW c \in Clients, NEW present, Open(c, present) PROVE HistInv'
  <2>1. Go(c, "shake") /\ step[c] # "fill" /\ UNCHANGED <<history, recorded, mixed, copy>>
    BY <1>4 DEF Open, files
  <2>2. QED
    BY <2>1, HistQuiet DEF ClientSteps
<1>5. ASSUME NEW c \in Clients, SaveFails(c) \/ End(c) PROVE HistInv'
  BY <1>5, HistLeave DEF SaveFails, End
<1>6. ASSUME NEW c \in Clients, NoAnswer(c) PROVE HistInv'
  <2>1. /\ step[c] # "fill" /\ Leave(c) /\ UNCHANGED <<history, recorded>>
        /\ mixed' = (mixed \/ step[c] = "fill")
    BY <1>6 DEF NoAnswer, files, ClientTypes, Typed
  <2>2. QED
    BY <2>1, HistLeave
<1>7. CASE UNCHANGED clientVars
  BY <1>7 DEF clientVars, HistInv, OrderInv, KeptInv, Listed, Saving
<1>8. QED
  BY <1>1, <1>2, <1>3, <1>4, <1>5, <1>6, <1>7, HistLoad, HistRecord, HistFill
     DEF ClientNext, ClientStep

LEMMA HistInvShows == ASSUME HistInv PROVE HistoryOrdered /\ HistoryKept
<1>1. HistoryOrdered
  <2>1. Listed(with_path) /\ \A c \in Clients : Listed(copy[c])
    BY EmptyListed DEF HistInv, OrderInv, with_path
  <2>2. QED
    BY <2>1 DEF HistoryOrdered, Listed, Ordered
<1>2. HistoryKept
  BY RememberedIs DEF HistoryKept, HistInv, KeptInv, with_path
<1>3. QED
  BY <1>1, <1>2

LEMMA HistoryFacts == ClientSpec => [](ClientTypes /\ HistInv)
<1>1. ClientTypes /\ HistInv /\ [ClientNext]_clientVars => ClientTypes' /\ HistInv'
  BY TypesStep, HistStep
<1>2. ClientInit => ClientTypes /\ HistInv
  BY TypesAtStart, HistAtStart
<1>3. QED
  BY <1>1, <1>2, PTL DEF ClientSpec

(* Wherever a list of servers is kept, the most recent connection is first *)
(* and no server or address is listed twice, for any number of clients     *)
(* saving at once or killed on the way (history.rs 68-93).                 *)
THEOREM ListsAreOrdered == ClientSpec => []HistoryOrdered
<1>1. HistInv => HistoryOrdered
  BY HistInvShows
<1>2. QED
  BY <1>1, HistoryFacts, PTL

(* A connection is forgotten only for a later one to the same server or    *)
(* address, for any number of connections and clients, unless clients save *)
(* at the same time or a save breaks off (history.rs 68-93).               *)
THEOREM ConnectionsKept == ClientSpec => []HistoryKept
<1>1. HistInv => HistoryKept
  BY HistInvShows
<1>2. QED
  BY <1>1, HistoryFacts, PTL

(* The first of an ordered list is the most recent, and the only such one. *)
LEMMA FirstIsLatest ==
  ASSUME NEW s \in Seq(Entries), Ordered(s), NEW N \in SUBSET DOMAIN s,
         NEW i \in N, \A j \in N : i <= j
  PROVE  (CHOOSE k \in N : \A j \in N : s[j].at <= s[k].at) = i
<1> DEFINE latest(k) == \A j \in N : s[j].at <= s[k].at
<1>1. /\ \A j \in DOMAIN s : s[j].at \in Int /\ j \in Int
      /\ \A j, k \in DOMAIN s : j < k => s[j].at > s[k].at
  <2>1. \A j \in DOMAIN s : s[j] \in Entries /\ j \in Int
    OBVIOUS
  <2>2. QED
    BY <2>1, EntryType DEF Ordered
<1>2. latest(i)
  <2> TAKE j \in N
  <2>1. i = j \/ i < j
    BY <1>1
  <2>2. QED
    BY <1>1, <2>1
<1>3. ASSUME NEW k \in N, latest(k) PROVE k = i
  <2>1. s[i].at <= s[k].at
    BY <1>3
  <2>2. ~ i < k
    BY <1>1, <2>1
  <2>3. QED
    BY <1>1, <2>2
<1> HIDE DEF latest
<1>4. (CHOOSE k \in N : latest(k)) = i
  BY <1>2, <1>3
<1>5. QED
  BY <1>4 DEF latest

LEMMA ResolvedIsLatest ==
  ASSUME ClientTypes, HistInv, ~ mixed, NEW c \in Clients, NEW r \in Requests,
         r.form \in {"name", "index"}, Start(c, r)
  PROVE  raw'[c] = LastReached(r)
<1>1. KeptInv
  BY DEF HistInv
<1>2. PICK t \in Resolve(r) : raw' = [raw EXCEPT ![c] = t]
  BY DEF Start
<1>3. raw'[c] = t
  BY <1>2 DEF ClientTypes, Typed
<1>4. with_path # <<>>
  BY <1>2 DEF Resolve, get_by_index, find_by_hostname
<1>5. with_path = Remembered
  BY <1>1, <1>4, RememberedIs DEF KeptInv, with_path, Void
<1>6. Remembered \in Seq(Entries) /\ Ordered(Remembered)
  BY RememberedIs, LastingProperties DEF HistInv, OrderInv, ClientTypes, Typed
<1>7. CASE r.form = "index"
  BY <1>2, <1>3, <1>5, <1>7 DEF Resolve, get_by_index, LastReached
<1>8. CASE r.form = "name"
  <2> DEFINE named == {i \in DOMAIN Remembered :
                         Lower[Remembered[i].host] = Lower[r.name]}
  <2>1. t \in find_by_hostname(Remembered, r.name)
    BY <1>2, <1>5, <1>8 DEF Resolve
  <2>2. PICK i \in named : t = Remembered[i].target /\ \A j \in named : i <= j
    BY <2>1 DEF find_by_hostname
  <2>3. named \in SUBSET DOMAIN Remembered
    OBVIOUS
  <2>4. LastReached(r)
          = Remembered[CHOOSE k \in named :
                         \A j \in named : Remembered[j].at <= Remembered[k].at].target
    BY <1>8 DEF LastReached
  <2> HIDE DEF named
  <2>5. (CHOOSE k \in named : \A j \in named : Remembered[j].at <= Remembered[k].at) = i
    BY <1>6, <2>2, <2>3, FirstIsLatest
  <2>6. QED
    BY <1>3, <2>2, <2>4, <2>5
<1>9. QED
  BY <1>7, <1>8

(* A client given the name or the number of a server goes to the address   *)
(* at which that server was last reached, for any number of servers with   *)
(* names alike and of clients that save or are killed in the meantime,     *)
(* unless saves overlapped or broke off (client.rs 153-220).               *)
THEOREM LatestResolved == ClientSpec => ResolvesLatest
<1>1. ClientTypes /\ HistInv =>
        [\A c \in Clients, r \in Requests :
           ~ mixed /\ r.form \in {"name", "index"} /\ Start(c, r)
             => raw'[c] = LastReached(r)]_clientVars
  BY ResolvedIsLatest
<1>2. QED
  BY <1>1, HistoryFacts, PTL DEF ResolvesLatest

-----------------------------------------------------------------------------
(* Devices: the order of their paths, and what is listed.                  *)

Prefix(p, q) == Len(p) < Len(q) /\ \A k \in 1 .. Len(p) : q[k] = p[k]
SplitAt(p, q, i) ==
  /\ i \in DOMAIN p /\ i \in DOMAIN q
  /\ p[i] < q[i] /\ \A j \in 1 .. i - 1 : p[j] = q[j]
Less(p, q) == Prefix(p, q) \/ \E i \in DOMAIN p : SplitAt(p, q, i)

Paths == Seq(0 .. 9)

LEMMA BeforeIsLess ==
  ASSUME NEW d, NEW e, d.path \in Paths, e.path \in Paths
  PROVE  Before(d, e) <=> Less(d.path, e.path)
<1> DEFINE p == d.path
           q == e.path
<1>1. p \in Seq(0 .. 9) /\ q \in Seq(0 .. 9) /\ Len(p) \in Nat /\ Len(q) \in Nat
  BY DEF Paths
<1>2. Before(d, e) <=> \/ Len(p) < Len(q) /\ SubSeq(q, 1, Len(p)) = p
                       \/ \E i \in DOMAIN p \cap DOMAIN q :
                            p[i] < q[i] /\ \A j \in 1 .. i - 1 : p[j] = q[j]
  BY DEF Before
<1> HIDE DEF p, q
<1>3. Len(p) < Len(q) => (SubSeq(q, 1, Len(p)) = p <=> \A k \in 1 .. Len(p) : q[k] = p[k])
  <2> SUFFICES ASSUME Len(p) < Len(q)
               PROVE  SubSeq(q, 1, Len(p)) = p <=> \A k \in 1 .. Len(p) : q[k] = p[k]
    OBVIOUS
  <2> DEFINE r == SubSeq(q, 1, Len(p))
  <2>1. r \in Seq(0 .. 9) /\ Len(r) = Len(p) /\ \A k \in 1 .. Len(p) : r[k] = q[k]
    BY <1>1
  <2> HIDE DEF r
  <2>2. r = p <=> \A k \in 1 .. Len(p) : r[k] = p[k]
    BY <1>1, <2>1
  <2>3. QED
    BY <2>1, <2>2 DEF r
<1>4. QED
  BY <1>2, <1>3 DEF Less, Prefix, SplitAt, p, q

LEMMA LeastPlace ==
  ASSUME NEW n \in Nat, NEW K \in SUBSET (1 .. n), K # {}
  PROVE  \E i \in K : \A j \in K : i <= j
<1>1. IsFiniteSet(K) /\ Cardinality(K) \in Nat
  BY InitialSegment
<1>2. Cardinality(K) # 0
  BY <1>1, FS_EmptySet
<1>3. 1 \in 1 .. Cardinality(K)
  BY <1>1, <1>2
<1>4. /\ \A i \in 1 .. Cardinality(K) : \E k \in K : Rank(K, k) = i
      /\ \A k \in K : Rank(K, k) \in 1 .. Cardinality(K)
      /\ \A k, l \in K : k < l => Rank(K, k) < Rank(K, l)
  BY RankProperties
<1>5. PICK k \in K : Rank(K, k) = 1
  BY <1>3, <1>4
<1>6. \A j \in K : ~ j < k
  <2> SUFFICES ASSUME NEW j \in K, j < k PROVE FALSE
    OBVIOUS
  <2>1. Rank(K, j) < 1 /\ Rank(K, j) \in 1 .. Cardinality(K)
    BY <1>4, <1>5
  <2>2. QED
    BY <1>1, <2>1
<1>7. K \subseteq Int
  OBVIOUS
<1>8. QED
  BY <1>6, <1>7

LEMMA SamePath ==
  ASSUME NEW p \in Paths, NEW q \in Paths, Len(p) = Len(q),
         \A i \in 1 .. Len(p) : p[i] = q[i]
  PROVE  p = q
BY SeqEqual DEF Paths

LEMMA LessTotal ==
  ASSUME NEW p \in Paths, NEW q \in Paths, p # q
  PROVE  Less(p, q) \/ Less(q, p)
<1>1. /\ Len(p) \in Nat /\ DOMAIN p = 1 .. Len(p) /\ Len(q) \in Nat /\ DOMAIN q = 1 .. Len(q)
      /\ \A i \in DOMAIN p : p[i] \in Int
      /\ \A i \in DOMAIN q : q[i] \in Int
  BY DEF Paths
<1> DEFINE K == {i \in 1 .. Len(p) : i <= Len(q) /\ p[i] # q[i]}
<1>2. CASE K = {}
  <2>1. \A i \in 1 .. Len(p) : i <= Len(q) => p[i] = q[i]
    BY <1>2
  <2> HIDE DEF K
  <2>2. Len(p) # Len(q)
    <3> SUFFICES ASSUME Len(p) = Len(q) PROVE p = q
      OBVIOUS
    <3>1. \A i \in 1 .. Len(p) : p[i] = q[i]
      BY <1>1, <2>1
    <3>2. QED
      BY <3>1, SamePath
  <2>3. Len(p) < Len(q) \/ Len(q) < Len(p)
    <3>1. Len(p) \in Nat /\ Len(q) \in Nat
      BY <1>1
    <3>2. \A m, n \in Nat : m # n => m < n \/ n < m
      OBVIOUS
    <3>3. QED
      BY <2>2, <3>1, <3>2
  <2>4. CASE Len(p) < Len(q)
    BY <1>1, <2>1, <2>4 DEF Less, Prefix
  <2>5. CASE Len(q) < Len(p)
    BY <1>1, <2>1, <2>5 DEF Less, Prefix
  <2>6. QED
    BY <2>3, <2>4, <2>5
<1>3. CASE K # {}
  <2>1. K \in SUBSET (1 .. Len(p))
    OBVIOUS
  <2>2. PICK i \in K : \A j \in K : i <= j
    <3> HIDE DEF K
    <3>1. QED
      BY <1>1, <1>3, <2>1, LeastPlace
  <2>3. i \in DOMAIN p /\ i \in DOMAIN q /\ (p[i] < q[i] \/ q[i] < p[i])
    BY <1>1, <2>2
  <2>4. \A j \in 1 .. i - 1 : p[j] = q[j]
    BY <1>1, <2>2
  <2>5. QED
    BY <1>1, <2>3, <2>4 DEF Less, SplitAt
<1>4. QED
  BY <1>2, <1>3

LEMMA LessTransitive ==
  ASSUME NEW p \in Paths, NEW q \in Paths, NEW r \in Paths, Less(p, q), Less(q, r)
  PROVE  Less(p, r)
<1>1. /\ Len(p) \in Nat /\ DOMAIN p = 1 .. Len(p) /\ Len(q) \in Nat /\ DOMAIN q = 1 .. Len(q)
      /\ Len(r) \in Nat /\ DOMAIN r = 1 .. Len(r)
      /\ \A i \in DOMAIN p : p[i] \in Int
      /\ \A i \in DOMAIN q : q[i] \in Int
      /\ \A i \in DOMAIN r : r[i] \in Int
  BY DEF Paths
<1>2. CASE Prefix(p, q) /\ Prefix(q, r)
  <2>1. Prefix(p, r)
    BY <1>1, <1>2 DEF Prefix
  <2>2. QED
    BY <2>1 DEF Less
<1>3. ASSUME Prefix(p, q), NEW i \in DOMAIN q, SplitAt(q, r, i) PROVE Less(p, r)
  <2>1. CASE i <= Len(p)
    <3>1. SplitAt(p, r, i) /\ i \in DOMAIN p
      BY <1>1, <1>3, <2>1 DEF Prefix, SplitAt
    <3>2. QED
      BY <3>1 DEF Less
  <2>2. CASE i > Len(p)
    <3>1. Prefix(p, r)
      BY <1>1, <1>3, <2>2 DEF Prefix, SplitAt
    <3>2. QED
      BY <3>1 DEF Less
  <2>3. QED
    BY <1>1, <2>1, <2>2
<1>4. ASSUME NEW i \in DOMAIN p, SplitAt(p, q, i), Prefix(q, r) PROVE Less(p, r)
  <2>1. SplitAt(p, r, i)
    BY <1>1, <1>4 DEF Prefix, SplitAt
  <2>2. QED
    BY <2>1 DEF Less
<1>5. ASSUME NEW i \in DOMAIN p, SplitAt(p, q, i), NEW j \in DOMAIN q, SplitAt(q, r, j)
      PROVE  Less(p, r)
  <2>1. CASE i <= j
    <3>1. SplitAt(p, r, i)
      BY <1>1, <1>5, <2>1 DEF SplitAt
    <3>2. QED
      BY <3>1 DEF Less
  <2>2. CASE j < i
    <3>1. SplitAt(p, r, j) /\ j \in DOMAIN p
      BY <1>1, <1>5, <2>2 DEF SplitAt
    <3>2. QED
      BY <3>1 DEF Less
  <2>3. QED
    BY <1>1, <2>1, <2>2
<1>6. QED
  BY <1>2, <1>3, <1>4, <1>5 DEF Less

LEMMA LessIrreflexive == ASSUME NEW p \in Paths PROVE ~ Less(p, p)
<1>1. Len(p) \in Nat /\ \A i \in DOMAIN p : p[i] \in Int
  BY DEF Paths
<1>2. QED
  BY <1>1 DEF Less, Prefix, SplitAt

(* What the input subsystem says of the devices that are present.          *)
Plausible(present) ==
  /\ IsFiniteSet(present)
  /\ \A d \in present : d.path \in Paths
  /\ \A d, e \in present : d.path = e.path => d = e

(* The list is made of the devices that pass, each once, by their paths.   *)
LEMMA ListProperties ==
  ASSUME NEW present, Plausible(present), NEW opt
  PROVE  LET list == list_devices_filtered(present, opt)
             listed == {d \in present : Passes(d, opt)}
         IN /\ list \in Seq(listed)
            /\ \A d \in listed : \E i \in DOMAIN list : list[i] = d
            /\ \A i, j \in DOMAIN list : i < j => Before(list[i], list[j])
<1> DEFINE S == {d \in present : Passes(d, opt)}
           list == list_devices_filtered(present, opt)
           u == [d \in S |-> {e \in S : ~ Before(d, e)}]
           n == Cardinality(S)
           at(i) == CHOOSE d \in S : Cardinality(u[d]) = i
<1>1. IsFiniteSet(S) /\ n \in Nat
  BY FS_Subset, FS_CardinalityType DEF Plausible
<1>2. \A d, e \in S : Before(d, e) <=> Less(d.path, e.path)
  BY BeforeIsLess DEF Plausible
<1>3. /\ \A d \in S : d.path \in Paths
      /\ \A d, e \in S : d.path = e.path => d = e
  BY DEF Plausible
<1> HIDE DEF S
<1>4. /\ \A d \in S : ~ Before(d, d)
      /\ \A d, e \in S : d # e => Before(d, e) \/ Before(e, d)
  BY <1>2, <1>3, LessTotal, LessIrreflexive
<1>5. \A d, e, f \in S : Before(d, e) /\ Before(e, f) => Before(d, f)
  BY <1>2, <1>3, LessTransitive
<1>6. \A d, e \in S : Before(d, e) => ~ Before(e, d) /\ d # e
  BY <1>4, <1>5
<1>7. u \in [S -> SUBSET S] /\ \A d \in S : d \in u[d]
  BY <1>4
<1>8. \A d, e \in S : Before(d, e) => u[d] \subseteq u[e] /\ e \in u[e] /\ e \notin u[d]
  <2> SUFFICES ASSUME NEW d \in S, NEW e \in S, Before(d, e)
               PROVE  u[d] \subseteq u[e] /\ e \in u[e] /\ e \notin u[d]
    OBVIOUS
  <2>1. ASSUME NEW f \in S, Before(e, f) PROVE Before(d, f)
    BY <1>5, <2>1
  <2>2. QED
    BY <1>4, <2>1
<1> HIDE DEF u
<1>9. \A d, e \in S : d # e => u[d] # u[e] /\ (u[d] \subseteq u[e] \/ u[e] \subseteq u[d])
  BY <1>4, <1>8
<1>10. /\ \A d, e \in S : d # e /\ u[d] \subseteq u[e] => Cardinality(u[d]) < Cardinality(u[e])
       /\ \A d \in S : Cardinality(u[d]) \in 1 .. n
       /\ \A d, e \in S : Cardinality(u[d]) = Cardinality(u[e]) => d = e
       /\ \A i \in 1 .. n : \E d \in S : Cardinality(u[d]) = i
  <2>1. Chain(S, u)
    BY <1>1, <1>7, <1>9 DEF Chain
  <2>2. QED
    BY <2>1, ChainSizes DEF Sized, n
<1>11. \A i \in 1 .. n : at(i) \in S /\ Cardinality(u[at(i)]) = i
  BY <1>10
<1>12. list = [i \in 1 .. n |-> at(i)]
  <2>1. list = [i \in 1 .. n |-> CHOOSE d \in S : Cardinality({e \in S : ~ Before(d, e)}) = i]
    BY DEF list_devices_filtered, S
  <2>2. \A i : at(i) = CHOOSE d \in S : Cardinality({e \in S : ~ Before(d, e)}) = i
    BY DEF u
  <2>3. QED
    BY <2>1, <2>2
<1> HIDE DEF list, at, n
<1>13. list \in Seq(S) /\ DOMAIN list = 1 .. n
  BY <1>1, <1>11, <1>12
<1>14. \A d \in S : \E i \in DOMAIN list : list[i] = d
  <2> TAKE d \in S
  <2>1. Cardinality(u[d]) \in 1 .. n
    BY <1>10
  <2>2. at(Cardinality(u[d])) = d
    BY <1>10, <1>11, <2>1
  <2>3. QED
    BY <1>12, <1>13, <2>1, <2>2
<1>15. \A i, j \in DOMAIN list : i < j => Before(list[i], list[j])
  <2> SUFFICES ASSUME NEW i \in 1 .. n, NEW j \in 1 .. n, i < j
               PROVE  Before(at(i), at(j))
    BY <1>12, <1>13
  <2>1. at(i) \in S /\ at(j) \in S /\ at(i) # at(j)
    BY <1>1, <1>11
  <2>2. ~ Before(at(j), at(i))
    <3>1. ASSUME Before(at(j), at(i)) PROVE j < i
      BY <1>6, <1>8, <1>10, <1>11, <2>1, <3>1
    <3>2. QED
      BY <1>1, <3>1
  <2>3. QED
    BY <1>4, <2>1, <2>2
<1>16. QED
  BY <1>13, <1>14, <1>15 DEF list, S

-----------------------------------------------------------------------------
(* A client has a choice only until it is approved, and the device it      *)
(* announces is one that was present.                                      *)
Present(d) == \E present \in Presences : d \in present

DeviceInv ==
  /\ choice = [c \in Clients |-> choice[c]]
  /\ \A c \in Clients :
       /\ step[c] \notin {"open", "shake"} => choice[c] = NoChoice
       /\ step[c] = "shake" => Present(choice[c].device)

LEMMA PresencePlausible == \A present \in Presences : Plausible(present)
BY PresenceAssumption DEF Plausible, Paths

LEMMA ListedPasses ==
  ASSUME NEW present \in Presences, NEW opt,
         NEW i \in DOMAIN list_devices_filtered(present, opt)
  PROVE  LET d == list_devices_filtered(present, opt)[i]
         IN d \in present /\ Present(d) /\ Passes(d, opt)
<1> DEFINE list == list_devices_filtered(present, opt)
           listed == {d \in present : Passes(d, opt)}
<1>1. list \in Seq(listed)
  BY PresencePlausible, ListProperties
<1> HIDE DEF list, listed
<1>2. list[i] \in listed
  BY <1>1 DEF list
<1>3. QED
  BY <1>2 DEF list, listed, Present

LEMMA DevicesAtStart == ClientInit => DeviceInv
BY DEF ClientInit, DeviceInv

(* A step of a client that has no device then, or ends.                    *)
LEMMA DevicesQuiet ==
  ASSUME ClientTypes, DeviceInv, NEW c \in Clients, NEW s \in ClientSteps, Go(c, s),
         s \notin {"open", "shake"},
         \/ choice' = choice /\ step[c] \notin {"open", "shake"}
         \/ choice' = [choice EXCEPT ![c] = NoChoice]
  PROVE  DeviceInv'
<1>1. /\ step'[c] = s /\ \A d \in Clients : d # c => step'[d] = step[d]
  BY DEF Go, ClientTypes, Typed
<1>2. choice = [d \in Clients |-> choice[d]]
  BY DEF DeviceInv
<1>3. /\ choice' = [d \in Clients |-> choice'[d]]
      /\ choice'[c] = NoChoice
      /\ \A d \in Clients : d # c => choice'[d] = choice[d]
  BY <1>2 DEF DeviceInv
<1>4. \A d \in Clients :
        /\ step'[d] \notin {"open", "shake"} => choice'[d] = NoChoice
        /\ step'[d] = "shake" => Present(choice'[d].device)
  BY <1>1, <1>3 DEF DeviceInv
<1>5. QED
  BY <1>3, <1>4 DEF DeviceInv

LEMMA DevicesSelect ==
  ASSUME ClientTypes, DeviceInv, NEW c \in Clients, NEW opt, NEW present \in Presences,
         Select(c, opt, present)
  PROVE  DeviceInv'
<1>1. /\ step'[c] = "open" /\ \A d \in Clients : d # c => step'[d] = step[d]
  BY DEF Select, Go, ClientTypes, Typed
<1>2. choice = [d \in Clients |-> choice[d]]
  BY DEF DeviceInv
<1>3. /\ choice' = [d \in Clients |-> choice'[d]]
      /\ \A d \in Clients : d # c => choice'[d] = choice[d]
  BY <1>2 DEF Select
<1>4. QED
  BY <1>1, <1>3 DEF DeviceInv

LEMMA InitialPresent ==
  ASSUME NEW c \in Clients, NEW present \in Presences,
         NEW d \in try_open_initial_device(c, present)
  PROVE  /\ Present(d)
         /\ choice[c].path = <<>> => Passes(d, choice[c].opt.filter)
<1> DEFINE list == list_devices_filtered(present, choice[c].opt.filter)
<1>1. \A i \in DOMAIN list : Present(list[i]) /\ Passes(list[i], choice[c].opt.filter)
  BY ListedPasses
<1>2. d \in IF choice[c].path # <<>> THEN {e \in present : e.path = choice[c].path}
           ELSE {list[i] : i \in {1} \cap DOMAIN list}
  BY DEF try_open_initial_device
<1> HIDE DEF list
<1>3. CASE choice[c].path # <<>>
  BY <1>2, <1>3 DEF Present
<1>4. CASE choice[c].path = <<>>
  BY <1>1, <1>2, <1>4
<1>5. QED
  BY <1>3, <1>4

LEMMA DevicesOpen ==
  ASSUME ClientTypes, DeviceInv, NEW c \in Clients, NEW present \in Presences,
         Open(c, present)
  PROVE  DeviceInv'
<1>1. /\ step'[c] = "shake" /\ \A d \in Clients : d # c => step'[d] = step[d]
  BY DEF Open, Go, ClientTypes, Typed
<1>2. choice = [d \in Clients |-> choice[d]]
  BY DEF DeviceInv
<1>3. PICK d \in try_open_initial_device(c, present) :
        choice' = [choice EXCEPT ![c] = [NoChoice EXCEPT !.device = d]]
  BY DEF Open
<1>4. Present(d)
  BY InitialPresent
<1>5. /\ choice' = [x \in Clients |-> choice'[x]]
      /\ choice'[c].device = d
      /\ \A x \in Clients : x # c => choice'[x] = choice[x]
  BY <1>2, <1>3 DEF NoChoice
<1>6. \A x \in Clients :
        /\ step'[x] \notin {"open", "shake"} => choice'[x] = NoChoice
        /\ step'[x] = "shake" => Present(choice'[x].device)
  BY <1>1, <1>4, <1>5 DEF DeviceInv
<1>7. QED
  BY <1>5, <1>6 DEF DeviceInv

LEMMA DevicesStep ==
  ASSUME ClientTypes, DeviceInv, [ClientNext]_clientVars
  PROVE  DeviceInv'
<1>1. ASSUME NEW c \in Clients, NEW r \in Requests, Start(c, r) PROVE DeviceInv'
  <2>1. Go(c, "id") /\ step[c] \notin {"open", "shake"} /\ choice' = choice
    BY <1>1 DEF Start
  <2>2. QED
    BY <2>1, DevicesQuiet DEF ClientSteps
<1>2. ASSUME NEW c \in Clients,
             ReadId(c) \/ TruncateId(c) \/ FillId(c) \/ SaveIdFails(c)
      PROVE  DeviceInv'
  <2>1. /\ step[c] \notin {"open", "shake"} /\ choice' = choice
        /\ \E s \in {"select", "truncate id", "fill id"} : Go(c, s)
    BY <1>2 DEF ReadId, TruncateId, FillId, SaveIdFails, Creating
  <2>2. QED
    BY <2>1, DevicesQuiet DEF ClientSteps
<1>3. ASSUME NEW c \in Clients, NEW h \in Hosts, Record(c, h) PROVE DeviceInv'
  <2>1. Go(c, "fill") /\ step[c] \notin {"open", "shake"} /\ choice' = choice
    BY <1>3 DEF Record
  <2>2. QED
    BY <2>1, DevicesQuiet DEF ClientSteps
<1>4. ASSUME NEW c \in Clients, Load(c) PROVE DeviceInv'
  <2>1. Go(c, "record") /\ choice' = [choice EXCEPT ![c] = NoChoice]
    BY <1>4 DEF Load
  <2>2. QED
    BY <2>1, DevicesQuiet DEF ClientSteps
<1>5. ASSUME NEW c \in Clients, Fill(c) \/ SaveFails(c) \/ NoAnswer(c) \/ End(c)
      PROVE  DeviceInv'
  <2>1. Go(c, "off") /\ choice' = [choice EXCEPT ![c] = NoChoice]
    BY <1>5 DEF Fill, SaveFails, NoAnswer, End, Leave
  <2>2. QED
    BY <2>1, DevicesQuiet DEF ClientSteps
<1>6. CASE UNCHANGED clientVars
  BY <1>6 DEF clientVars, DeviceInv
<1>7. QED
  BY <1>1, <1>2, <1>3, <1>4, <1>5, <1>6, DevicesSelect, DevicesOpen
     DEF ClientNext, ClientStep

LEMMA DeviceFacts == ClientSpec => []DeviceInv
<1>1. /\ ClientTypes /\ DeviceInv /\ [ClientNext]_clientVars => ClientTypes' /\ DeviceInv'
  BY TypesStep, DevicesStep
<1>2. ClientInit => ClientTypes /\ DeviceInv
  BY TypesAtStart, DevicesAtStart
<1>3. QED
  BY <1>1, <1>2, PTL DEF ClientSpec

(* What is made of what is announced has the codes and the types of events *)
(* of the device, so it is classified as the device is.                    *)
LEMMA MirrorAlike ==
  ASSUME NEW d, "REL" \in d.types => d.rel # {}
  PROVE  LET v == new_with_name(extract_metadata(d), ClientHost, d.path)
         IN /\ classify_device(v) = classify_device(d)
            /\ \A opt \in Options : Passes(v, opt) = Passes(d, opt)
<1> DEFINE v == new_with_name(extract_metadata(d), ClientHost, d.path)
<1>1. /\ v.keys = Keys(d) /\ v.name = d.name \cup ClientHost
      /\ "KEY" \in v.types <=> Keys(d) # {}
      /\ "REL" \in v.types <=> "REL" \in d.types
  <2> DEFINE m == extract_metadata(d)
  <2>1. /\ m.keys = Keys(d) /\ m.name = d.name
        /\ m.rel = IF "REL" \in d.types THEN d.rel ELSE {}
    BY DEF extract_metadata
  <2> HIDE DEF m
  <2>2. /\ v.keys = m.keys /\ v.name = m.name \cup ClientHost
        /\ v.types = (IF m.keys # {} THEN {"KEY"} ELSE {})
                       \cup (IF m.abs # {} THEN {"ABS"} ELSE {})
                       \cup (IF m.rel # {} THEN {"REL"} ELSE {})
    BY DEF new_with_name, m
  <2> HIDE DEF v
  <2>3. QED
    BY <2>1, <2>2
<1> HIDE DEF v
<1>2. Keys(v) = Keys(d)
  BY <1>1 DEF Keys
<1>3. classify_device(v) = classify_device(d)
  BY <1>1, <1>2 DEF classify_device, IsPointer
<1>4. is_noise_device(v.name) <=> is_noise_device(d.name)
  BY <1>1, HostAssumption DEF is_noise_device
<1>5. \A opt \in Options : Passes(v, opt) = Passes(d, opt)
  BY <1>3, <1>4 DEF Passes
<1>6. QED
  BY <1>3, <1>5 DEF v

(* The virtual device is listed as the controller it mirrors, whatever the *)
(* devices and their codes, as long as one with relative axes has some     *)
(* (device.rs 221-283).                                                    *)
THEOREM MirrorsAlike == ASSUME Furnished PROVE ClientSpec => []MirrorListedAlike
<1>1. DeviceInv => MirrorListedAlike
  <2> SUFFICES ASSUME DeviceInv, NEW c \in Clients, step[c] = "shake"
               PROVE  LET d == choice[c].device
                          v == new_with_name(extract_metadata(d), ClientHost, d.path)
                      IN /\ classify_device(v) = classify_device(d)
                         /\ \A opt \in Options : Passes(v, opt) = Passes(d, opt)
    BY DEF MirrorListedAlike
  <2>1. "REL" \in choice[c].device.types => choice[c].device.rel # {}
    BY DEF DeviceInv, Present, Furnished
  <2>2. QED
    BY <2>1, MirrorAlike
<1>2. QED
  BY <1>1, DeviceFacts, PTL

(* A client without --device that had none takes one that is present and   *)
(* in the list under its options, by a choice or at the open.              *)
Picks(c) ==
  choice[c].path = <<>> /\ choice[c].device = Nothing /\ choice'[c].device # Nothing
PickedUnder(c) == IF step[c] = "select" THEN choice'[c].opt ELSE choice[c].opt
Picked(c) ==
  Present(choice'[c].device) /\ Passes(choice'[c].device, PickedUnder(c).filter)

LEMMA PicksBySelect ==
  ASSUME DeviceInv, NEW c \in Clients, NEW opt, NEW present \in Presences,
         Select(c, opt, present), Picks(c)
  PROVE  Picked(c)
<1> DEFINE list == list_devices_filtered(present, opt.filter)
<1>1. choice = [d \in Clients |-> choice[d]] /\ step[c] = "select" /\ choice[c] = NoChoice
  BY DEF DeviceInv, Select
<1>2. \/ choice' = [choice EXCEPT ![c].opt = opt, ![c].path = opt.device]
      \/ \E i \in DOMAIN list :
           choice' = [choice EXCEPT ![c] = [opt |-> opt, path |-> list[i].path, device |-> list[i]]]
  BY DEF Select
<1>3. \A i \in DOMAIN list : Present(list[i]) /\ Passes(list[i], opt.filter)
  BY ListedPasses
<1> HIDE DEF list
<1>4. CASE choice' = [choice EXCEPT ![c].opt = opt, ![c].path = opt.device]
  <2>1. choice'[c].device = choice[c].device
    BY <1>1, <1>4 DEF NoChoice
  <2>2. QED
    BY <2>1 DEF Picks
<1>5. ASSUME NEW i \in DOMAIN list,
             choice' = [choice EXCEPT ![c] =
                          [opt |-> opt, path |-> list[i].path, device |-> list[i]]]
      PROVE  Picked(c)
  <2>1. choice'[c].device = list[i] /\ choice'[c].opt = opt
    BY <1>1, <1>5
  <2>2. QED
    BY <1>1, <1>3, <2>1 DEF Picked, PickedUnder
<1>6. QED
  BY <1>2, <1>4, <1>5

LEMMA PicksByOpen ==
  ASSUME DeviceInv, NEW c \in Clients, NEW present \in Presences, Open(c, present), Picks(c)
  PROVE  Picked(c)
<1>1. choice = [d \in Clients |-> choice[d]] /\ step[c] = "open"
  BY DEF DeviceInv, Open
<1>2. PICK d \in try_open_initial_device(c, present) :
        choice' = [choice EXCEPT ![c] = [NoChoice EXCEPT !.device = d]]
  BY DEF Open
<1>3. choice'[c].device = d
  BY <1>1, <1>2 DEF NoChoice
<1>4. Present(d) /\ Passes(d, choice[c].opt.filter)
  BY InitialPresent DEF Picks
<1>5. QED
  BY <1>1, <1>3, <1>4 DEF Picked, PickedUnder

(* Every other step, and every step of another client, leaves the client's *)
(* choice or takes it away.                                                *)
LEMMA NoPick ==
  ASSUME DeviceInv, NEW c \in Clients, NEW e \in Clients,
         \/ choice' = choice
         \/ choice' = [choice EXCEPT ![e] = NoChoice]
         \/ e # c /\ \E x : choice' = [choice EXCEPT ![e] = x]
  PROVE  ~ Picks(c)
<1>1. choice = [d \in Clients |-> choice[d]]
  BY DEF DeviceInv
<1>2. choice'[c] = choice[c] \/ choice'[c] = NoChoice
  BY <1>1
<1>3. QED
  BY <1>2 DEF Picks, NoChoice

LEMMA PickStep ==
  ASSUME DeviceInv, [ClientNext]_clientVars, NEW c \in Clients, Picks(c)
  PROVE  Picked(c)
<1>1. ASSUME NEW e \in Clients,
             \/ \E r \in Requests : Start(e, r)
             \/ ReadId(e) \/ TruncateId(e) \/ FillId(e) \/ SaveIdFails(e)
             \/ Load(e) \/ (\E h \in Hosts : Record(e, h)) \/ Fill(e)
             \/ SaveFails(e) \/ NoAnswer(e) \/ End(e)
      PROVE  FALSE
  <2>1. choice' = choice \/ choice' = [choice EXCEPT ![e] = NoChoice]
    BY <1>1 DEF Start, ReadId, TruncateId, FillId, SaveIdFails, Load, Record, Fill, SaveFails,
                NoAnswer, End, Leave
  <2>2. QED
    BY <2>1, NoPick
<1>2. ASSUME NEW e \in Clients, NEW present \in Presences,
             (\E opt \in OptionSets[e] : Select(e, opt, present)) \/ Open(e, present)
      PROVE  Picked(c)
  <2>1. CASE e = c
    BY <1>2, <2>1, PicksBySelect, PicksByOpen
  <2>2. CASE e # c
    <3>1. \E x : choice' = [choice EXCEPT ![e] = x]
      BY <1>2 DEF Select, Open
    <3>2. QED
      BY <2>2, <3>1, NoPick
  <2>3. QED
    BY <2>1, <2>2
<1>3. ~ UNCHANGED clientVars
  BY NoPick DEF clientVars
<1>4. QED
  BY <1>1, <1>2, <1>3 DEF ClientNext, ClientStep

(* Whatever devices are present when it chooses, or come while it waits,   *)
(* and under whatever options, a client without --device takes a           *)
(* controller or what its options ask for, as far as buttons and axes tell *)
(* what a device is (device.rs 48-148, client.rs 223-321).                 *)
THEOREM PicksWhatIsAskedFor == ASSUME ToldByCodes PROVE ClientSpec => PicksEligible
<1> DEFINE Allowed(c) == Picks(c) => Eligible(choice'[c].device, PickedUnder(c).filter)
<1>1. DeviceInv /\ [ClientNext]_clientVars => \A c \in Clients : Allowed(c)
  <2> SUFFICES ASSUME DeviceInv, [ClientNext]_clientVars, NEW c \in Clients, Picks(c)
               PROVE  Eligible(choice'[c].device, PickedUnder(c).filter)
    OBVIOUS
  <2> DEFINE d == choice'[c].device
             o == PickedUnder(c).filter
  <2>1. Present(d) /\ Passes(d, o)
    BY PickStep DEF Picked
  <2> HIDE DEF d, o
  <2>2. Eligible(d, o)
    BY <2>1 DEF Present, Passes, Wanted, Eligible, ToldByCodes
  <2>3. QED
    BY <2>2 DEF d, o
<1>2. DeviceInv /\ [ClientNext]_clientVars =>
        [\A c \in Clients :
           choice[c].path = <<>> /\ choice[c].device = Nothing /\ choice'[c].device # Nothing
             => LET opt == IF step[c] = "select" THEN choice'[c].opt ELSE choice[c].opt
                IN Eligible(choice'[c].device, opt.filter)]_clientVars
  BY <1>1 DEF Picks, PickedUnder
<1>3. QED
  BY <1>2, DeviceFacts, PTL DEF ClientSpec, PicksEligible
=============================================================================
