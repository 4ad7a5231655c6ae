----------------------------- MODULE BrowserProofs -----------------------------
(***************************************************************************)
(* Theorems about the two parts of the frontend that live in one browser   *)
(* tab: the rule builder page (RuleBuilder) and the session of its user    *)
(* (ClientSession).                                                        *)
(*                                                                         *)
(* RuleBuilder, for any block types, custom blocks, input fields and       *)
(* switches, and any bounds on ids, edits and nodes: first the array       *)
(* methods (Arrays), then what each handler makes of the groups and of the *)
(* canvas, then the inductive invariant, one lemma per event.              *)
(*                                                                         *)
(* ClientSession, for any organizations, number of requests and of         *)
(* sign-outs in flight, and any bounds on faults and reloads.              *)
(***************************************************************************)
EXTENDS ClientSession, RuleBuilder, FunctionTheorems, FiniteSetTheorems, SequenceTheorems,
        NaturalsInduction, WellFoundedInduction, TLAPS

-----------------------------------------------------------------------------
\* Arrays.

\* A set of naturals that is not empty has a least element.
LEMMA LeastNatural ==
    ASSUME NEW T \in SUBSET Nat, T # {}
    PROVE  \E n \in T : \A m \in T : n <= m
  <1>1. PICK n \in T : \A m \in T : <<m, n>> \notin OpToRel(<, Nat)
    BY WFMin, NatLessThanWellFounded, Zenon
  <1>2. ASSUME NEW m \in T
        PROVE  n <= m
    <2>1. m \in Nat /\ n \in Nat
      OBVIOUS
    <2>2. <<m, n>> \in Nat \X Nat /\ <<m, n>>[1] = m /\ <<m, n>>[2] = n
      BY <2>1
    <2>3. ~(m < n)
      BY <1>1, <2>2 DEF OpToRel
    <2>4. QED BY <2>1, <2>3
  <1>3. QED BY <1>2

\* Increasing(f, n): a function on 1..n whose values rise.
Increasing(f, n) == \A i, j \in 1..n : i < j => f[i] < f[j]

\* InOrder enumerates a finite set of naturals: its values rise and are all of it.
LEMMA InOrderEnumerates ==
    ASSUME NEW at \in SUBSET Nat, IsFiniteSet(at)
    PROVE  /\ Cardinality(at) \in Nat
           /\ InOrder(at) \in Bijection(1..Cardinality(at), at)
           /\ Increasing(InOrder(at), Cardinality(at))
  <1> DEFINE n == Cardinality(at)
             below(i) == {k \in at : k <= i}
             rank == [i \in at |-> Cardinality(below(i))]
  <1>1. n \in Nat /\ IsFiniteSet(1..n) /\ Cardinality(1..n) = n
    BY FS_CardinalityType, FS_Interval
  <1> HIDE DEF n
  <1>0. \A i \in at : i \in Nat
    OBVIOUS
  <1>2. ASSUME NEW i \in at
        PROVE  IsFiniteSet(below(i)) /\ Cardinality(below(i)) \in 1..n
    <2>1. IsFiniteSet(below(i)) /\ Cardinality(below(i)) <= n
      BY FS_Subset DEF n
    <2>2. i \in below(i)
      BY <1>0
    <2>3. Cardinality(below(i)) # 0
      BY <2>1, <2>2, FS_EmptySet
    <2>4. Cardinality(below(i)) \in Nat
      BY <2>1, FS_CardinalityType
    <2>5. QED BY <1>1, <2>1, <2>3, <2>4
  <1>3. ASSUME NEW i \in at, NEW j \in at, i < j
        PROVE  Cardinality(below(i)) < Cardinality(below(j))
    <2> DEFINE low == below(i)
               high == below(j)
    <2>1. low \subseteq high \ {j} /\ j \in high
      <3>1. i \in Nat /\ j \in Nat /\ \A k \in at : k \in Nat
        BY <1>0
      <3>2. ASSUME NEW k \in at, k <= i
            PROVE  k <= j /\ k # j
        BY <3>1, <3>2, <1>3
      <3>3. j <= j
        BY <3>1
      <3>4. QED BY <3>2, <3>3, Zenon
    <2>2. IsFiniteSet(high) /\ Cardinality(high) \in 1..n /\ Cardinality(low) \in 1..n
      BY <1>2
    <2> HIDE DEF low, high
    <2>3. /\ IsFiniteSet(high \ {j})
          /\ Cardinality(high \ {j}) = Cardinality(high) - 1
      BY <2>1, <2>2, FS_RemoveElement
    <2>4. Cardinality(low) <= Cardinality(high \ {j})
      BY <2>1, <2>3, FS_Subset
    <2>5. Cardinality(low) < Cardinality(high)
      BY <1>1, <2>2, <2>3, <2>4
    <2>6. QED BY <2>5 DEF low, high
  <1>4. rank \in [at -> 1..n] /\ \A i, j \in at : i < j => rank[i] < rank[j]
    BY <1>2, <1>3
  <1> HIDE DEF rank
  <1>5. rank \in Injection(at, 1..n)
    <2>1. ASSUME NEW i \in at, NEW j \in at, i # j
          PROVE  rank[i] # rank[j]
      <3>1. i \in Nat /\ j \in Nat /\ rank[i] \in 1..n /\ rank[j] \in 1..n
        BY <1>0, <1>4
      <3>2. i < j \/ j < i
        BY <2>1, <3>1
      <3>3. QED BY <1>1, <1>4, <3>1, <3>2
    <2>2. QED BY <1>4, <2>1 DEF Injection, IsInjective
  <1>6. rank \in Surjection(at, 1..n)
    BY <1>1, <1>5, FS_Injection DEF n
  <1> DEFINE nth == [m \in 1..n |-> CHOOSE i \in at : rank[i] = m]
  <1>7. nth \in [1..n -> at] /\ \A m \in 1..n : rank[nth[m]] = m
    BY <1>6 DEF Surjection
  <1> HIDE DEF nth
  <1>8. \A i, j \in 1..n : i < j => nth[i] < nth[j]
    <2> SUFFICES ASSUME NEW i \in 1..n, NEW j \in 1..n, i < j
                 PROVE  nth[i] < nth[j]
      OBVIOUS
    <2>1. nth[i] \in at /\ nth[j] \in at /\ rank[nth[i]] = i /\ rank[nth[j]] = j
      BY <1>7
    <2>2. nth[i] \in Nat /\ nth[j] \in Nat
      BY <1>0, <2>1
    <2>3. ~(nth[j] < nth[i])
      <3>1. ASSUME nth[j] < nth[i]
            PROVE  j < i
        BY <3>1, <1>4, <2>1, Zenon
      <3>2. QED BY <3>1, <1>1
    <2>4. nth[i] # nth[j]
      BY <1>1, <2>1
    <2>5. QED BY <2>2, <2>3, <2>4
  <1>9. InOrder(at) \in [1..n -> at] /\ \A i, j \in 1..n : i < j => InOrder(at)[i] < InOrder(at)[j]
    BY <1>7, <1>8 DEF InOrder, n
  <1> DEFINE f == InOrder(at)
  <1> HIDE DEF f
  <1>10. f \in [1..n -> at] /\ \A i, j \in 1..n : i < j => f[i] < f[j]
    BY <1>9 DEF f
  <1>11. f \in Injection(1..n, at)
    <2>1. ASSUME NEW i \in 1..n, NEW j \in 1..n, i # j
          PROVE  f[i] # f[j]
      <3>1. i < j \/ j < i
        BY <1>1, <2>1
      <3>2. f[i] \in Nat /\ f[j] \in Nat
        BY <1>0, <1>10
      <3>3. QED BY <1>10, <3>1, <3>2
    <2>2. QED BY <1>10, <2>1 DEF Injection, IsInjective
  <1>12. f \in Surjection(1..n, at)
    BY <1>1, <1>11, FS_Injection DEF n
  <1>13. QED BY <1>1, <1>10, <1>11, <1>12 DEF Bijection, Increasing, f, n

\* t is made of elements of s, each place of s used at most once.
Rearranged(t, s) ==
    \E n \in Nat : \E f \in Injection(1..n, DOMAIN s) : t = [i \in 1..n |-> s[f[i]]]

\* filter keeps the elements at the places it keeps, and each once.
LEMMA KeepRearranges ==
    ASSUME NEW S, NEW s \in Seq(S), NEW at \in SUBSET DOMAIN s
    PROVE  Rearranged(Keep(s, at), s) /\ ToSet(Keep(s, at)) = {s[i] : i \in at}
  <1>1. DOMAIN s = 1..Len(s) /\ Len(s) \in Nat
    BY LenProperties
  <1>2. at \in SUBSET Nat /\ IsFiniteSet(at)
    <2>1. IsFiniteSet(1..Len(s)) /\ at \in SUBSET (1..Len(s))
      BY <1>1, FS_Interval
    <2>2. IsFiniteSet(at)
      BY <2>1, FS_Subset
    <2>3. \A i \in 1..Len(s) : i \in Nat
      OBVIOUS
    <2>4. QED BY <2>1, <2>2, <2>3
  <1> DEFINE n == Cardinality(at)
             f == InOrder(at)
  <1>3. n \in Nat /\ f \in Bijection(1..n, at)
    BY <1>2, InOrderEnumerates
  <1>4. Keep(s, at) = [i \in 1..n |-> s[f[i]]]
    BY DEF Keep
  <1> HIDE DEF n, f
  <1>5. f \in Injection(1..n, DOMAIN s)
    BY <1>3 DEF Bijection, Injection
  <1>6. Rearranged(Keep(s, at), s)
    BY <1>3, <1>4, <1>5 DEF Rearranged
  <1>7. f \in [1..n -> at] /\ \A p \in at : \E i \in 1..n : f[i] = p
    BY <1>3 DEF Bijection, Surjection
  <1>8. ToSet(Keep(s, at)) = {s[f[i]] : i \in 1..n}
    BY <1>4 DEF ToSet
  <1>9. {s[f[i]] : i \in 1..n} = {s[p] : p \in at}
    BY <1>7
  <1>10. QED BY <1>6, <1>8, <1>9

LEMMA RearrangedTyped ==
    ASSUME NEW S, NEW s \in Seq(S), NEW t, Rearranged(t, s)
    PROVE  /\ t \in Seq(S) /\ ToSet(t) \subseteq ToSet(s)
           /\ \E f \in Injection(DOMAIN t, DOMAIN s) : \A i \in DOMAIN t : t[i] = s[f[i]]
  <1>1. PICK n \in Nat : \E f \in Injection(1..n, DOMAIN s) : t = [i \in 1..n |-> s[f[i]]]
    BY DEF Rearranged
  <1>2. PICK f \in Injection(1..n, DOMAIN s) : t = [i \in 1..n |-> s[f[i]]]
    BY <1>1
  <1>3. f \in [1..n -> DOMAIN s] /\ DOMAIN s = 1..Len(s) /\ \A i \in DOMAIN s : s[i] \in S
    BY <1>2, LenProperties, ElementOfSeq DEF Injection
  <1>4. DOMAIN t = 1..n /\ \A i \in 1..n : t[i] = s[f[i]] /\ t[i] \in S
    BY <1>2, <1>3
  <1>5. t \in [1..n -> S]
    BY <1>2, <1>3
  <1>6. t \in Seq(S)
    BY <1>5, SeqDef
  <1>7. QED BY <1>2, <1>3, <1>4, <1>6 DEF ToSet

\* No two elements have the same id.
IdsDistinct(s) == \A i, j \in DOMAIN s : s[i].id = s[j].id => i = j

LEMMA RearrangedDistinct ==
    ASSUME NEW S, NEW s \in Seq(S), NEW t, Rearranged(t, s), IdsDistinct(s)
    PROVE  IdsDistinct(t)
  <1>1. PICK f \in Injection(DOMAIN t, DOMAIN s) : \A i \in DOMAIN t : t[i] = s[f[i]]
    BY RearrangedTyped
  <1>2. f \in [DOMAIN t -> DOMAIN s] /\ \A i, j \in DOMAIN t : f[i] = f[j] => i = j
    BY <1>1 DEF Injection, IsInjective
  <1>3. QED BY <1>1, <1>2 DEF IdsDistinct

\* t is s with e at place k and what was there and behind moved up by one.
Inserted(t, s, k, e) ==
    /\ DOMAIN t = 1..(Len(s) + 1)
    /\ \A i \in 1..(Len(s) + 1) : t[i] = IF i < k THEN s[i] ELSE IF i = k THEN e ELSE s[i - 1]

LEMMA InsertAtProperties ==
    ASSUME NEW S, NEW s \in Seq(S), NEW e \in S, NEW k \in 1..(Len(s) + 1)
    PROVE  /\ InsertAt(s, k, e) \in Seq(S)
           /\ Len(InsertAt(s, k, e)) = Len(s) + 1
           /\ Inserted(InsertAt(s, k, e), s, k, e)
  <1> DEFINE a == SubSeq(s, 1, k - 1)
             b == SubSeq(s, k, Len(s))
             one == <<e>>
             ab == a \o one
             t == ab \o b
  <1>1. Len(s) \in Nat /\ k \in Int /\ 1 \in Int /\ k - 1 \in Int
    BY LenProperties
  <1>2. \A i \in 1..Len(s) : s[i] \in S
    BY ElementOfSeq
  <1>3. /\ a \in Seq(S) /\ Len(a) = k - 1
        /\ \A i \in 1..(k - 1) : a[i] = s[i]
    <2>1. \A i \in 1..(k - 1) : s[i] \in S
      BY <1>1, <1>2
    <2>2. /\ a \in Seq(S) /\ Len(a) = IF 1 <= k - 1 THEN (k - 1) - 1 + 1 ELSE 0
          /\ \A i \in 1 .. (k - 1) - 1 + 1 : a[i] = s[1 + i - 1]
      BY <1>1, <2>1, SubSeqProperties
    <2> HIDE DEF a
    <2>3. QED BY <1>1, <2>2
  <1>4. /\ b \in Seq(S) /\ Len(b) = Len(s) - k + 1
        /\ \A i \in 1..(Len(s) - k + 1) : b[i] = s[k + i - 1]
    <2>1. \A i \in k..Len(s) : s[i] \in S
      BY <1>1, <1>2
    <2>2. /\ b \in Seq(S) /\ Len(b) = IF k <= Len(s) THEN Len(s) - k + 1 ELSE 0
          /\ \A i \in 1 .. Len(s) - k + 1 : b[i] = s[k + i - 1]
      BY <1>1, <2>1, SubSeqProperties
    <2> HIDE DEF b
    <2>3. QED BY <1>1, <2>2
  <1>5. one \in Seq(S) /\ Len(one) = 1 /\ one[1] = e
    OBVIOUS
  <1> HIDE DEF a, b, one
  <1>6. /\ ab \in Seq(S) /\ Len(ab) = k
        /\ \A i \in 1..k : ab[i] = IF i < k THEN s[i] ELSE e
    <2>1. /\ ab \in Seq(S) /\ Len(ab) = Len(a) + Len(one)
          /\ \A i \in 1 .. Len(a) + Len(one) : ab[i] = IF i <= Len(a) THEN a[i] ELSE one[i - Len(a)]
      BY <1>3, <1>5, ConcatProperties
    <2> HIDE DEF ab
    <2>2. Len(ab) = k
      BY <1>1, <1>3, <1>5, <2>1
    <2>3. ASSUME NEW i \in 1..k
          PROVE  ab[i] = IF i < k THEN s[i] ELSE e
      <3>1. CASE i < k
        BY <3>1, <1>1, <1>3, <1>5, <2>1
      <3>2. CASE i = k
        <4>1. i - Len(a) = 1 /\ ~(i <= Len(a)) /\ i \in 1 .. Len(a) + Len(one)
          BY <3>2, <1>1, <1>3, <1>5
        <4>2. QED BY <4>1, <3>2, <1>5, <2>1
      <3>3. QED BY <3>1, <3>2, <1>1
    <2>4. QED BY <2>1, <2>2, <2>3
  <1> HIDE DEF ab
  <1>7. /\ t \in Seq(S) /\ Len(t) = Len(ab) + Len(b)
        /\ \A i \in 1 .. Len(ab) + Len(b) : t[i] = IF i <= Len(ab) THEN ab[i] ELSE b[i - Len(ab)]
    BY <1>4, <1>6, ConcatProperties
  <1>8. InsertAt(s, k, e) = t
    BY DEF InsertAt, ab, a, b, one
  <1> HIDE DEF t
  <1>9. Len(t) = Len(s) + 1
    BY <1>1, <1>4, <1>6, <1>7
  <1>10. DOMAIN t = 1..(Len(s) + 1)
    BY <1>7, <1>9, LenProperties
  <1>11. ASSUME NEW i \in 1..(Len(s) + 1)
         PROVE  t[i] = IF i < k THEN s[i] ELSE IF i = k THEN e ELSE s[i - 1]
    <2>1. CASE i <= k
      BY <2>1, <1>1, <1>4, <1>6, <1>7
    <2>2. CASE i > k
      <3>1. /\ i - k \in 1..(Len(s) - k + 1) /\ k + (i - k) - 1 = i - 1
            /\ i \in 1 .. Len(ab) + Len(b) /\ ~(i <= Len(ab)) /\ i - Len(ab) = i - k
            /\ ~(i < k) /\ i # k
        BY <2>2, <1>1, <1>4, <1>6
      <3>2. t[i] = b[i - k] /\ b[i - k] = s[i - 1]
        BY <3>1, <1>4, <1>7
      <3>3. QED BY <3>1, <3>2
    <2>3. QED BY <2>1, <2>2, <1>1
  <1>12. QED BY <1>7, <1>8, <1>9, <1>10, <1>11 DEF Inserted

LEMMA RemoveAtProperties ==
    ASSUME NEW S, NEW s \in Seq(S), NEW k \in 1..Len(s)
    PROVE  /\ RemoveAt(s, k) \in Seq(S)
           /\ Len(RemoveAt(s, k)) = Len(s) - 1
           /\ \A i \in 1..(Len(s) - 1) :
                RemoveAt(s, k)[i] = IF i < k THEN s[i] ELSE s[i + 1]
  <1> DEFINE a == SubSeq(s, 1, k - 1)
             b == SubSeq(s, k + 1, Len(s))
             t == a \o b
  <1>1. Len(s) \in Nat /\ k \in Int /\ 1 \in Int /\ k - 1 \in Int /\ k + 1 \in Int
    BY LenProperties
  <1>2. \A i \in 1..Len(s) : s[i] \in S
    BY ElementOfSeq
  <1>3. /\ a \in Seq(S) /\ Len(a) = k - 1
        /\ \A i \in 1..(k - 1) : a[i] = s[i]
    <2>1. \A i \in 1..(k - 1) : s[i] \in S
      BY <1>1, <1>2
    <2>2. /\ a \in Seq(S) /\ Len(a) = IF 1 <= k - 1 THEN (k - 1) - 1 + 1 ELSE 0
          /\ \A i \in 1 .. (k - 1) - 1 + 1 : a[i] = s[1 + i - 1]
      BY <1>1, <2>1, SubSeqProperties
    <2> HIDE DEF a
    <2>3. QED BY <1>1, <2>2
  <1>4. /\ b \in Seq(S) /\ Len(b) = Len(s) - k
        /\ \A i \in 1..(Len(s) - k) : b[i] = s[k + i]
    <2>1. \A i \in (k + 1)..Len(s) : s[i] \in S
      BY <1>1, <1>2
    <2>2. /\ b \in Seq(S) /\ Len(b) = IF k + 1 <= Len(s) THEN Len(s) - (k + 1) + 1 ELSE 0
          /\ \A i \in 1 .. Len(s) - (k + 1) + 1 : b[i] = s[(k + 1) + i - 1]
      BY <1>1, <2>1, SubSeqProperties
    <2> HIDE DEF b
    <2>3. QED BY <1>1, <2>2
  <1> HIDE DEF a, b
  <1>5. /\ t \in Seq(S) /\ Len(t) = Len(a) + Len(b)
        /\ \A i \in 1 .. Len(a) + Len(b) : t[i] = IF i <= Len(a) THEN a[i] ELSE b[i - Len(a)]
    BY <1>3, <1>4, ConcatProperties
  <1>6. RemoveAt(s, k) = t
    BY DEF RemoveAt, a, b
  <1> HIDE DEF t
  <1>7. Len(t) = Len(s) - 1
    BY <1>1, <1>3, <1>4, <1>5
  <1>8. ASSUME NEW i \in 1..(Len(s) - 1)
        PROVE  t[i] = IF i < k THEN s[i] ELSE s[i + 1]
    <2>1. CASE i < k
      <3>1. i \in 1..(k - 1) /\ i <= Len(a) /\ i \in 1 .. Len(a) + Len(b)
        BY <2>1, <1>1, <1>3, <1>4
      <3>2. t[i] = a[i] /\ a[i] = s[i]
        BY <3>1, <1>3, <1>5
      <3>3. QED BY <2>1, <3>2
    <2>2. CASE ~(i < k)
      <3>1. /\ i - Len(a) \in 1..(Len(s) - k) /\ k + (i - Len(a)) = i + 1
            /\ i \in 1 .. Len(a) + Len(b) /\ ~(i <= Len(a))
        BY <2>2, <1>1, <1>3, <1>4
      <3>2. t[i] = b[i - Len(a)] /\ b[i - Len(a)] = s[i + 1]
        BY <3>1, <1>4, <1>5
      <3>3. QED BY <2>2, <3>2
    <2>3. QED BY <2>1, <2>2
  <1>9. QED BY <1>5, <1>6, <1>7, <1>8

\* arrayMove only changes the order.
LEMMA ArrayMoveRearranges ==
    ASSUME NEW S, NEW s \in Seq(S), NEW from \in 1..Len(s), NEW to \in 1..Len(s)
    PROVE  /\ Rearranged(arrayMove(s, from, to), s)
           /\ Len(arrayMove(s, from, to)) = Len(s)
           /\ ToSet(arrayMove(s, from, to)) = ToSet(s)
  <1> DEFINE n == Len(s)
             r == RemoveAt(s, from)
             t == arrayMove(s, from, to)
             back(i) == IF i < from THEN i ELSE i + 1
             f == [i \in 1..n |-> IF i < to THEN back(i)
                                  ELSE IF i = to THEN from ELSE back(i - 1)]
  <1>1. n \in Nat /\ DOMAIN s = 1..n /\ s[from] \in S
    BY LenProperties, ElementOfSeq
  <1>2. /\ r \in Seq(S) /\ Len(r) = n - 1
        /\ \A i \in 1..(n - 1) : r[i] = IF i < from THEN s[i] ELSE s[i + 1]
    BY RemoveAtProperties
  <1>3. t = InsertAt(r, to, s[from])
    BY DEF arrayMove
  <1> HIDE DEF r, t, n
  <1>4. to \in 1..(Len(r) + 1) /\ Len(r) + 1 = n /\ from \in 1..n /\ to \in 1..n
    BY <1>1, <1>2 DEF n
  <1>5. /\ t \in Seq(S) /\ Len(t) = n
        /\ \A i \in 1..n : t[i] = IF i < to THEN r[i] ELSE IF i = to THEN s[from] ELSE r[i - 1]
    <2> DEFINE e == s[from]
    <2> HIDE DEF e
    <2>1. r \in Seq(S) /\ e \in S /\ to \in 1..(Len(r) + 1)
      BY <1>1, <1>2, <1>4 DEF e
    <2>2. t \in Seq(S) /\ Len(t) = Len(r) + 1 /\ Inserted(t, r, to, e)
      BY <1>3, <2>1, InsertAtProperties DEF e
    <2>3. QED BY <1>4, <2>2, Zenon DEF e, Inserted
  <1>6. ASSUME NEW i \in 1..n
        PROVE  f[i] \in 1..n /\ t[i] = s[f[i]]
    <2>1. CASE i < to
      <3>1. i \in 1..(n - 1) /\ back(i) \in 1..n /\ f[i] = back(i) /\ t[i] = r[i]
        BY <2>1, <1>1, <1>4, <1>5
      <3>2. r[i] = s[back(i)]
        BY <1>2, <3>1
      <3>3. QED BY <3>1, <3>2
    <2>2. CASE i = to
      BY <2>2, <1>1, <1>4, <1>5
    <2>3. CASE i > to
      <3>1. /\ i - 1 \in 1..(n - 1) /\ back(i - 1) \in 1..n
            /\ f[i] = back(i - 1) /\ t[i] = r[i - 1]
        <4>1. i \in Int /\ to \in Int /\ 1 <= to /\ i <= n /\ ~(i < to) /\ i # to
          BY <2>3, <1>1, <1>4
        <4>2. i - 1 \in 1..(n - 1)
          BY <4>1, <1>1
        <4>3. back(i - 1) \in 1..n
          BY <4>2, <1>1
        <4>4. f[i] = back(i - 1)
          BY <4>1
        <4>5. QED BY <4>1, <4>2, <4>3, <4>4, <1>5
      <3>2. r[i - 1] = s[back(i - 1)]
        BY <1>2, <3>1
      <3>3. QED BY <3>1, <3>2
    <2>4. QED BY <2>1, <2>2, <2>3, <1>1, <1>4
  <1>7. ASSUME NEW i \in 1..n, NEW j \in 1..n, f[i] = f[j]
        PROVE  i = j
    BY <1>1, <1>4, <1>7
  <1> HIDE DEF f
  <1>8. f \in [1..n -> 1..n]
    <2>1. f = [i \in 1..n |-> f[i]]
      BY DEF f
    <2>2. QED BY <2>1, <1>6
  <1>9. f \in Injection(1..n, 1..n)
    BY <1>7, <1>8 DEF Injection, IsInjective
  <1>10. f \in Surjection(1..n, 1..n)
    <2>1. IsFiniteSet(1..n)
      BY <1>1, FS_Interval
    <2>2. QED BY <1>9, <2>1, FS_Injection
  <1>11. t = [i \in 1..n |-> s[f[i]]]
    <2>1. DOMAIN t = 1..n
      BY <1>5, LenProperties
    <2>2. t = [i \in 1..n |-> t[i]]
      BY <2>1, <1>5, LenProperties
    <2>3. QED BY <2>2, <1>6
  <1>12. Rearranged(t, s)
    BY <1>1, <1>9, <1>11 DEF Rearranged
  <1>13. ToSet(t) = {s[f[i]] : i \in 1..n} /\ ToSet(s) = {s[j] : j \in 1..n}
    BY <1>1, <1>11 DEF ToSet
  <1>14. f \in [1..n -> 1..n] /\ \A j \in 1..n : \E i \in 1..n : f[i] = j
    BY <1>10 DEF Surjection
  <1>15. ToSet(t) = ToSet(s)
    <2>1. ASSUME NEW j \in 1..n
          PROVE  s[j] \in {s[f[i]] : i \in 1..n} /\ s[f[j]] \in {s[i] : i \in 1..n}
      <3>1. PICK i \in 1..n : f[i] = j
        BY <1>14
      <3>2. QED BY <3>1, <1>14
    <2>2. QED BY <1>13, <2>1
  <1>16. QED BY <1>5, <1>12, <1>15 DEF t, n

\* findIndex finds the one element with the id.
LEMMA IndexOfProperties ==
    ASSUME NEW S, NEW s \in Seq(S), IdsDistinct(s), NEW id,
           \E i \in DOMAIN s : s[i].id = id
    PROVE  IndexOf(s, id) \in DOMAIN s /\ s[IndexOf(s, id)].id = id
  <1>1. PICK i \in DOMAIN s : s[i].id = id
    OBVIOUS
  <1>2. DOMAIN s = 1..Len(s) /\ Len(s) \in Nat
    BY LenProperties
  <1>3. \A j \in 1..(i - 1) : s[j].id # id
    <2> TAKE j \in 1..(i - 1)
    <2>1. j \in DOMAIN s /\ j # i
      BY <1>2
    <2>2. QED BY <1>1, <2>1 DEF IdsDistinct
  <1>4. QED BY <1>1, <1>3 DEF IndexOf

LEMMA IndexOfElement ==
    ASSUME NEW S, NEW s \in Seq(S), IdsDistinct(s), NEW i \in DOMAIN s
    PROVE  IndexOf(s, s[i].id) = i
  BY IndexOfProperties DEF IdsDistinct

LEMMA AppendIsInsertAt ==
    ASSUME NEW S, NEW s \in Seq(S), NEW e \in S
    PROVE  Append(s, e) = InsertAt(s, Len(s) + 1, e)
  <1> DEFINE k == Len(s) + 1
             a == Append(s, e)
             t == InsertAt(s, k, e)
  <1>1. Len(s) \in Nat /\ k \in 1..k
    BY LenProperties
  <1>2. t \in Seq(S) /\ Len(t) = k /\ Inserted(t, s, k, e)
    BY <1>1, InsertAtProperties
  <1>3. a \in Seq(S) /\ Len(a) = k /\ a[k] = e /\ \A i \in 1..Len(s) : a[i] = s[i]
    BY AppendProperties
  <1> HIDE DEF a, t
  <1>4. \A i \in 1..k : a[i] = t[i]
    <2> TAKE i \in 1..k
    <2>1. CASE i < k
      <3>1. i \in 1..Len(s)
        BY <1>1, <2>1
      <3>2. QED BY <2>1, <3>1, <1>2, <1>3 DEF Inserted
    <2>2. CASE i = k
      BY <2>2, <1>1, <1>2, <1>3 DEF Inserted
    <2>3. QED BY <2>1, <2>2, <1>1
  <1>5. a = t
    BY <1>2, <1>3, <1>4, SeqEqual
  <1>6. QED BY <1>5 DEF a, t

-----------------------------------------------------------------------------
\* Groups.

\* The types of the invariant, with the ids generated as a parameter.
Sub(n) == [id : 1..n, type : DOMAIN Builtin, fields : SUBSET Fields,
           switches : SUBSET Switches]
Block(n) == [id : 1..n, type : DOMAIN Builtin \cup DefIds, fields : SUBSET Fields,
             switches : SUBSET Switches, subs : Seq(Sub(n))]
Group(n) == [id : 1..n, combinator : {"AND", "OR"}, collapsed : BOOLEAN,
             blocks : Seq(Block(n))]

\* Every part of a list of blocks has an id of its own.
BlocksOK(blocks) ==
    IdsDistinct(blocks) /\ \A k \in DOMAIN blocks : IdsDistinct(blocks[k].subs)

\* Every part of the groups has an id of its own, at most n, and there is a group.
GroupsOK(gs, n) ==
    /\ gs \in Seq(Group(n)) /\ gs # <<>>
    /\ IdsDistinct(gs)
    /\ \A i \in DOMAIN gs : BlocksOK(gs[i].blocks)
    /\ \A i, j \in DOMAIN gs : i # j => BlockIdsOf(gs[i]) \cap BlockIdsOf(gs[j]) = {}
    /\ BlockIds(gs) \cap GroupIds(gs) = {}

LEMMA TypesGrow ==
    ASSUME NEW n \in Nat, NEW m \in Nat, n <= m
    PROVE  Sub(n) \subseteq Sub(m) /\ Block(n) \subseteq Block(m) /\ Group(n) \subseteq Group(m)
  <1>1. 1..n \subseteq 1..m
    OBVIOUS
  <1>2. Sub(n) \subseteq Sub(m)
    BY <1>1, Zenon DEF Sub
  <1>3. Seq(Sub(n)) \subseteq Seq(Sub(m))
    BY <1>2, SeqMonotonic
  <1>4. Block(n) \subseteq Block(m)
    BY <1>1, <1>3, Zenon DEF Block
  <1>5. Seq(Block(n)) \subseteq Seq(Block(m))
    BY <1>4, SeqMonotonic
  <1>6. Group(n) \subseteq Group(m)
    BY <1>1, <1>5, Zenon DEF Group
  <1>7. QED BY <1>2, <1>4, <1>6

\* s with another element at one place.
Put(s, at, new) == [i \in DOMAIN s |-> IF i = at THEN new ELSE s[i]]

LEMMA PutTyped ==
    ASSUME NEW S, NEW s \in Seq(S), NEW at \in DOMAIN s, NEW new \in S
    PROVE  /\ Put(s, at, new) \in Seq(S) /\ DOMAIN Put(s, at, new) = DOMAIN s
           /\ Put(s, at, new)[at] = new
           /\ \A i \in DOMAIN s : i # at => Put(s, at, new)[i] = s[i]
  <1>1. DOMAIN s = 1..Len(s) /\ Len(s) \in Nat /\ \A i \in 1..Len(s) : s[i] \in S
    BY LenProperties, ElementOfSeq
  <1>2. Put(s, at, new) \in [1..Len(s) -> S]
    BY <1>1 DEF Put
  <1>3. Put(s, at, new) \in Seq(S)
    BY <1>1, <1>2, SeqDef
  <1>4. QED BY <1>3 DEF Put

\* A change of one element that keeps its id keeps the ids apart.
LEMMA PutDistinct ==
    ASSUME NEW s, NEW at \in DOMAIN s, NEW new, IdsDistinct(s), new.id = s[at].id
    PROVE  IdsDistinct(Put(s, at, new))
  BY DEF IdsDistinct, Put

\* An element with a new id keeps them apart too, wherever it is inserted.
LEMMA InsertDistinct ==
    ASSUME NEW S, NEW s \in Seq(S), IdsDistinct(s), NEW new \in S, NEW k \in 1..(Len(s) + 1),
           \A i \in DOMAIN s : s[i].id # new.id
    PROVE  IdsDistinct(InsertAt(s, k, new))
  <1> DEFINE n == Len(s)
             t == InsertAt(s, k, new)
             back(i) == IF i < k THEN i ELSE i - 1
  <1>1. n \in Nat /\ DOMAIN s = 1..n /\ k \in 1..(n + 1)
    BY LenProperties
  <1>2. /\ DOMAIN t = 1..(n + 1)
        /\ \A i \in 1..(n + 1) : t[i] = IF i < k THEN s[i] ELSE IF i = k THEN new ELSE s[i - 1]
    <2>1. Inserted(t, s, k, new)
      BY InsertAtProperties
    <2>2. QED BY <2>1, Zenon DEF Inserted
  <1> HIDE DEF n, t
  <1>3. t[k] = new /\ \A i \in 1..(n + 1) : i # k => back(i) \in 1..n /\ t[i] = s[back(i)]
    <2>1. t[k] = new
      BY <1>1, <1>2
    <2>2. ASSUME NEW i \in 1..(n + 1), i # k
          PROVE  back(i) \in 1..n /\ t[i] = s[back(i)]
      <3>1. CASE i < k
        BY <3>1, <1>1, <1>2
      <3>2. CASE ~(i < k)
        <4>1. i - 1 \in 1..n
          BY <3>2, <2>2, <1>1
        <4>2. QED BY <4>1, <3>2, <2>2, <1>2
      <3>3. QED BY <3>1, <3>2
    <2>3. QED BY <2>1, <2>2
  <1>4. ASSUME NEW i \in 1..(n + 1), NEW j \in 1..(n + 1), t[i].id = t[j].id
        PROVE  i = j
    <2>1. CASE i = k \/ j = k
      <3>1. \A l \in 1..(n + 1) : l # k => t[l].id # new.id
        BY <1>1, <1>3
      <3>2. QED BY <2>1, <3>1, <1>3, <1>4
    <2>2. CASE i # k /\ j # k
      <3>1. back(i) = back(j)
        BY <2>2, <1>1, <1>3, <1>4 DEF IdsDistinct
      <3>2. QED BY <2>2, <3>1, <1>1
    <2>3. QED BY <2>1, <2>2
  <1>5. QED BY <1>2, <1>4 DEF IdsDistinct, t

\* Ids that no part of the groups has.
Unused(gs, x) == x \notin BlockIds(gs) /\ x \notin GroupIds(gs)

LEMMA FreshIsUnused ==
    ASSUME NEW n \in Nat, NEW gs, GroupsOK(gs, n), NEW x \in Nat, n < x
    PROVE  Unused(gs, x)
  <1>1. DOMAIN gs = 1..Len(gs) /\ \A i \in DOMAIN gs : gs[i] \in Group(n)
    BY LenProperties, ElementOfSeq DEF GroupsOK
  <1>2. ASSUME NEW i \in DOMAIN gs
        PROVE  gs[i].id # x /\ x \notin BlockIdsOf(gs[i])
    <2>1. gs[i].id \in 1..n /\ gs[i].blocks \in Seq(Block(n))
      BY <1>1, <1>2, Zenon DEF Group
    <2> DEFINE bs == gs[i].blocks
    <2>2. \A k \in DOMAIN bs : bs[k] \in Block(n)
      BY <2>1, LenProperties, ElementOfSeq
    <2>3. \A k \in DOMAIN bs : bs[k].id \in 1..n
      BY <2>2, Zenon DEF Block
    <2>4. x \notin 1..n
      OBVIOUS
    <2>5. QED BY <2>1, <2>3, <2>4 DEF BlockIdsOf
  <1>3. QED BY <1>2 DEF Unused, BlockIds, GroupIds

\* One group gets other contents, whose blocks are its own or new.
LEMMA GroupChanges ==
    ASSUME NEW n \in Nat, NEW m \in Nat, n <= m, NEW gs, GroupsOK(gs, n),
           NEW at \in DOMAIN gs, NEW new \in Group(m), new.id = gs[at].id,
           BlocksOK(new.blocks),
           \A x \in BlockIdsOf(new) : x \in BlockIdsOf(gs[at]) \/ Unused(gs, x)
    PROVE  /\ GroupsOK(Put(gs, at, new), m)
           /\ GroupIds(Put(gs, at, new)) = GroupIds(gs)
           /\ BlockIds(Put(gs, at, new)) = (BlockIds(gs) \ BlockIdsOf(gs[at])) \cup BlockIdsOf(new)
  <1> DEFINE hs == Put(gs, at, new)
  <1>1. gs \in Seq(Group(m))
    <2>1. Group(n) \subseteq Group(m)
      BY TypesGrow
    <2>2. QED BY <2>1, SeqMonotonic DEF GroupsOK
  <1>2. /\ hs \in Seq(Group(m)) /\ DOMAIN hs = DOMAIN gs /\ hs[at] = new
        /\ \A i \in DOMAIN gs : i # at => hs[i] = gs[i]
    BY <1>1, PutTyped
  <1>3. IdsDistinct(hs)
    BY PutDistinct DEF GroupsOK
  <1> HIDE DEF hs
  <1>4. hs # <<>>
    <2>1. at \in DOMAIN hs
      BY <1>2
    <2>2. DOMAIN <<>> = {}
      OBVIOUS
    <2>3. QED BY <2>1, <2>2
  <1>5. \A i \in DOMAIN hs : BlocksOK(hs[i].blocks) /\ hs[i].id = gs[i].id
    BY <1>2 DEF GroupsOK
  <1>6. GroupIds(hs) = GroupIds(gs)
    BY <1>2, <1>5 DEF GroupIds
  <1>7. ASSUME NEW i \in DOMAIN gs, i # at
        PROVE  BlockIdsOf(hs[i]) = BlockIdsOf(gs[i]) /\ BlockIdsOf(hs[i]) \cap BlockIdsOf(new) = {}
    <2>1. BlockIdsOf(hs[i]) = BlockIdsOf(gs[i]) /\ BlockIdsOf(gs[i]) \cap BlockIdsOf(gs[at]) = {}
      BY <1>2, <1>7 DEF GroupsOK
    <2>2. BlockIdsOf(gs[i]) \subseteq BlockIds(gs)
      BY DEF BlockIds
    <2>3. QED BY <2>1, <2>2 DEF Unused
  <1>8. \A i, j \in DOMAIN hs : i # j => BlockIdsOf(hs[i]) \cap BlockIdsOf(hs[j]) = {}
    BY <1>2, <1>7 DEF GroupsOK
  <1>9. BlockIds(hs) = (BlockIds(gs) \ BlockIdsOf(gs[at])) \cup BlockIdsOf(new)
    <2>1. ASSUME NEW x
          PROVE  x \in BlockIds(hs) <=> \E i \in DOMAIN gs : x \in BlockIdsOf(hs[i])
      BY <1>2 DEF BlockIds
    <2>2. ASSUME NEW x
          PROVE  x \in BlockIds(gs) <=> \E i \in DOMAIN gs : x \in BlockIdsOf(gs[i])
      BY DEF BlockIds
    <2>3. ASSUME NEW x
          PROVE  x \in BlockIds(hs)
                   <=> (x \in BlockIds(gs) /\ x \notin BlockIdsOf(gs[at])) \/ x \in BlockIdsOf(new)
      <3>1. CASE x \in BlockIdsOf(new)
        BY <3>1, <2>1, <1>2
      <3>2. CASE x \notin BlockIdsOf(new)
        <4>1. ASSUME NEW i \in DOMAIN gs, x \in BlockIdsOf(hs[i])
              PROVE  x \in BlockIdsOf(gs[i]) /\ x \notin BlockIdsOf(gs[at])
          BY <4>1, <3>2, <1>2, <1>7 DEF GroupsOK
        <4>2. ASSUME NEW i \in DOMAIN gs, x \in BlockIdsOf(gs[i]), x \notin BlockIdsOf(gs[at])
              PROVE  x \in BlockIdsOf(hs[i])
          BY <4>2, <1>7
        <4>3. QED BY <3>2, <2>1, <2>2, <4>1, <4>2
      <3>3. QED BY <3>1, <3>2
    <2>4. QED BY <2>3
  <1>10. BlockIds(hs) \cap GroupIds(hs) = {}
    <2>1. BlockIdsOf(gs[at]) \subseteq BlockIds(gs)
      BY DEF BlockIds
    <2>2. BlockIds(gs) \cap GroupIds(gs) = {}
      BY DEF GroupsOK
    <2>3. QED BY <1>6, <1>9, <2>1, <2>2 DEF Unused
  <1>11. GroupsOK(hs, m)
    BY <1>2, <1>3, <1>4, <1>5, <1>8, <1>10 DEF GroupsOK, hs
  <1>12. QED BY <1>6, <1>9, <1>11 DEF hs

\* A group with other blocks.
WithBlocks(group, blocks) == [group EXCEPT !.blocks = blocks]

IdsOf(s) == {s[k].id : k \in DOMAIN s}

LEMMA WithBlocksTyped ==
    ASSUME NEW n \in Nat, NEW group \in Group(n), NEW blocks \in Seq(Block(n))
    PROVE  /\ WithBlocks(group, blocks) \in Group(n)
           /\ WithBlocks(group, blocks).id = group.id
           /\ WithBlocks(group, blocks).blocks = blocks
           /\ BlockIdsOf(WithBlocks(group, blocks)) = IdsOf(blocks)
  <1>1. /\ WithBlocks(group, blocks) \in Group(n)
        /\ WithBlocks(group, blocks).id = group.id
        /\ WithBlocks(group, blocks).blocks = blocks
    BY DEF WithBlocks, Group
  <1>2. QED BY <1>1 DEF BlockIdsOf, IdsOf

\* The group at a place, and what the invariant says of it.
LEMMA GroupAt ==
    ASSUME NEW n \in Nat, NEW gs, GroupsOK(gs, n), NEW at \in DOMAIN gs
    PROVE  /\ gs[at] \in Group(n) /\ gs[at].blocks \in Seq(Block(n))
           /\ BlocksOK(gs[at].blocks) /\ gs[at].id \in GroupIds(gs) /\ gs[at].id \in 1..n
           /\ BlockIdsOf(gs[at]) = IdsOf(gs[at].blocks) /\ BlockIdsOf(gs[at]) \subseteq BlockIds(gs)
  <1>1. gs \in Seq(Group(n)) /\ IdsDistinct(gs)
    BY DEF GroupsOK
  <1>2. gs[at] \in Group(n)
    BY <1>1, LenProperties, ElementOfSeq
  <1>3. gs[at].blocks \in Seq(Block(n)) /\ gs[at].id \in 1..n
    BY <1>2, Zenon DEF Group
  <1>6. BlocksOK(gs[at].blocks)
    BY DEF GroupsOK
  <1>7. gs[at].id \in GroupIds(gs) /\ BlockIdsOf(gs[at]) \subseteq BlockIds(gs)
    BY DEF GroupIds, BlockIds
  <1>8. BlockIdsOf(gs[at]) = IdsOf(gs[at].blocks)
    BY DEF BlockIdsOf, IdsOf
  <1>9. QED BY <1>2, <1>3, <1>6, <1>7, <1>8

LEMMA GroupFound ==
    ASSUME NEW n \in Nat, NEW gs, GroupsOK(gs, n), NEW at \in DOMAIN gs
    PROVE  /\ IndexOf(gs, gs[at].id) = at
           /\ \A i \in DOMAIN gs : gs[i].id = gs[at].id <=> i = at
  <1>1. gs \in Seq(Group(n)) /\ IdsDistinct(gs)
    BY DEF GroupsOK
  <1>2. IndexOf(gs, gs[at].id) = at
    BY <1>1, IndexOfElement
  <1>3. QED BY <1>1, <1>2 DEF IdsDistinct

\* One group gets another list of blocks, which are its own or new.
LEMMA BlocksChange ==
    ASSUME NEW n \in Nat, NEW m \in Nat, n <= m, NEW gs, GroupsOK(gs, n),
           NEW at \in DOMAIN gs, NEW blocks \in Seq(Block(m)), BlocksOK(blocks),
           \A x \in IdsOf(blocks) : x \in BlockIdsOf(gs[at]) \/ Unused(gs, x)
    PROVE  LET hs == Put(gs, at, WithBlocks(gs[at], blocks))
           IN  /\ GroupsOK(hs, m) /\ GroupIds(hs) = GroupIds(gs)
               /\ BlockIds(hs) = (BlockIds(gs) \ BlockIdsOf(gs[at])) \cup IdsOf(blocks)
  <1> DEFINE new == WithBlocks(gs[at], blocks)
  <1>1. gs[at] \in Group(m)
    BY GroupAt, TypesGrow
  <1>2. new \in Group(m) /\ new.id = gs[at].id /\ new.blocks = blocks /\ BlockIdsOf(new) = IdsOf(blocks)
    BY <1>1, WithBlocksTyped
  <1> HIDE DEF new
  <1>3. BlocksOK(new.blocks) /\ \A x \in BlockIdsOf(new) : x \in BlockIdsOf(gs[at]) \/ Unused(gs, x)
    BY <1>2
  <1>4. /\ GroupsOK(Put(gs, at, new), m)
        /\ GroupIds(Put(gs, at, new)) = GroupIds(gs)
        /\ BlockIds(Put(gs, at, new)) = (BlockIds(gs) \ BlockIdsOf(gs[at])) \cup BlockIdsOf(new)
    BY <1>2, <1>3, GroupChanges
  <1>5. QED BY <1>2, <1>4 DEF new

\* One block of one group changes and keeps its id.
LEMMA BlockChanges ==
    ASSUME NEW n \in Nat, NEW m \in Nat, n <= m, NEW gs, GroupsOK(gs, n),
           NEW at \in DOMAIN gs, NEW k \in DOMAIN gs[at].blocks, NEW new \in Block(m),
           new.id = gs[at].blocks[k].id, IdsDistinct(new.subs)
    PROVE  GroupsOK(Put(gs, at, WithBlocks(gs[at], Put(gs[at].blocks, k, new))), m)
  <1> DEFINE bs == gs[at].blocks
             cs == Put(bs, k, new)
  <1>1. bs \in Seq(Block(n)) /\ BlocksOK(bs) /\ BlockIdsOf(gs[at]) = IdsOf(bs)
    BY GroupAt
  <1>2. bs \in Seq(Block(m))
    BY <1>1, TypesGrow, SeqMonotonic
  <1> HIDE DEF bs
  <1>0. k \in DOMAIN bs /\ new.id = bs[k].id
    BY DEF bs
  <1>3. /\ cs \in Seq(Block(m)) /\ DOMAIN cs = DOMAIN bs /\ cs[k] = new
        /\ \A i \in DOMAIN bs : i # k => cs[i] = bs[i]
    BY <1>0, <1>2, PutTyped
  <1>4. IdsDistinct(cs)
    BY <1>0, <1>1, PutDistinct DEF BlocksOK
  <1> HIDE DEF cs
  <1>5. BlocksOK(cs)
    BY <1>1, <1>3, <1>4 DEF BlocksOK
  <1>6. \A i \in DOMAIN bs : cs[i].id = bs[i].id
    BY <1>0, <1>3
  <1>7. IdsOf(cs) = IdsOf(bs)
    BY <1>3, <1>6 DEF IdsOf
  <1>8. \A x \in IdsOf(cs) : x \in BlockIdsOf(gs[at]) \/ Unused(gs, x)
    BY <1>1, <1>7
  <1>9. GroupsOK(Put(gs, at, WithBlocks(gs[at], cs)), m)
    BY <1>3, <1>5, <1>8, BlocksChange
  <1>10. QED BY <1>9 DEF cs, bs

\* One group gets one block more, with an id that nothing has.
LEMMA BlockArrives ==
    ASSUME NEW n \in Nat, NEW m \in Nat, n <= m, NEW gs, GroupsOK(gs, n),
           NEW at \in DOMAIN gs, NEW k \in 1..(Len(gs[at].blocks) + 1), NEW new \in Block(m),
           Unused(gs, new.id), IdsDistinct(new.subs)
    PROVE  LET hs == Put(gs, at, WithBlocks(gs[at], InsertAt(gs[at].blocks, k, new)))
           IN  /\ GroupsOK(hs, m) /\ GroupIds(hs) = GroupIds(gs)
               /\ BlockIds(hs) = BlockIds(gs) \cup {new.id}
  <1> DEFINE bs == gs[at].blocks
             len == Len(bs)
             cs == InsertAt(bs, k, new)
  <1>0. BlockIdsOf(gs[at]) \subseteq BlockIds(gs)
    BY DEF BlockIds
  <1>1. bs \in Seq(Block(n)) /\ BlocksOK(bs) /\ BlockIdsOf(gs[at]) = IdsOf(bs)
    BY GroupAt
  <1>2. bs \in Seq(Block(m)) /\ len \in Nat /\ DOMAIN bs = 1..len /\ k \in 1..(len + 1)
    <2>1. bs \in Seq(Block(m))
      BY <1>1, TypesGrow, SeqMonotonic
    <2>2. len \in Nat /\ DOMAIN bs = 1..len
      BY <1>1, LenProperties
    <2>3. QED BY <2>1, <2>2
  <1> HIDE DEF bs
  <1>3. \A i \in DOMAIN bs : bs[i].id # new.id
    BY <1>0, <1>1 DEF Unused, IdsOf
  <1>4. IdsDistinct(cs)
    BY <1>1, <1>2, <1>3, InsertDistinct DEF BlocksOK
  <1>5. /\ cs \in Seq(Block(m)) /\ DOMAIN cs = 1..(len + 1)
        /\ \A i \in 1..(len + 1) : cs[i] = IF i < k THEN bs[i] ELSE IF i = k THEN new ELSE bs[i - 1]
    <2>1. cs \in Seq(Block(m)) /\ Inserted(cs, bs, k, new)
      BY <1>2, InsertAtProperties
    <2>2. QED BY <2>1, Zenon DEF Inserted
  <1> HIDE DEF cs, len
  <1>6. ASSUME NEW i \in DOMAIN cs
        PROVE  cs[i] = new \/ \E j \in DOMAIN bs : cs[i] = bs[j]
    <2>1. CASE i < k
      <3>1. i \in DOMAIN bs /\ cs[i] = bs[i]
        BY <2>1, <1>2, <1>5, SMTT(60)
      <3>2. QED BY <3>1
    <2>2. CASE i = k
      <3>1. cs[i] = new
        BY <2>2, <1>2, <1>5, SMTT(60)
      <3>2. QED BY <3>1
    <2>3. CASE ~(i < k) /\ i # k
      <3>1. i - 1 \in DOMAIN bs
        BY <2>3, <1>2, <1>5, SMTT(60)
      <3>2. cs[i] = bs[i - 1]
        BY <2>3, <1>2, <1>5, SMTT(60)
      <3>3. QED BY <3>1, <3>2
    <2>4. QED BY <1>2, <2>1, <2>2, <2>3
  <1>7. BlocksOK(cs)
    BY <1>1, <1>4, <1>6 DEF BlocksOK
  <1>8. ASSUME NEW j \in DOMAIN bs
        PROVE  bs[j].id \in IdsOf(cs)
    <2>1. CASE j < k
      BY <2>1, <1>2, <1>5 DEF IdsOf
    <2>2. CASE ~(j < k)
      <3>1. j + 1 \in 1..(len + 1) /\ ~(j + 1 < k) /\ j + 1 # k /\ (j + 1) - 1 = j
        BY <2>2, <1>2
      <3>2. cs[j + 1] = bs[j] /\ j + 1 \in DOMAIN cs
        BY <3>1, <1>5
      <3>3. QED BY <3>2 DEF IdsOf
    <2>3. QED BY <2>1, <2>2
  <1>9. new.id \in IdsOf(cs)
    <2>1. k \in DOMAIN cs /\ cs[k] = new
      BY <1>2, <1>5
    <2>2. QED BY <2>1 DEF IdsOf
  <1>10. IdsOf(cs) = IdsOf(bs) \cup {new.id}
    <2>1. IdsOf(cs) \subseteq IdsOf(bs) \cup {new.id}
      BY <1>6 DEF IdsOf
    <2>2. IdsOf(bs) \subseteq IdsOf(cs)
      BY <1>8 DEF IdsOf
    <2>3. QED BY <2>1, <2>2, <1>9
  <1>11. \A x \in IdsOf(cs) : x \in BlockIdsOf(gs[at]) \/ Unused(gs, x)
    BY <1>1, <1>10, Zenon
  <1>12. LET hs == Put(gs, at, WithBlocks(gs[at], cs))
         IN  /\ GroupsOK(hs, m) /\ GroupIds(hs) = GroupIds(gs)
             /\ BlockIds(hs) = (BlockIds(gs) \ BlockIdsOf(gs[at])) \cup IdsOf(cs)
    BY <1>5, <1>7, <1>11, BlocksChange
  <1>13. (BlockIds(gs) \ BlockIdsOf(gs[at])) \cup IdsOf(cs) = BlockIds(gs) \cup {new.id}
    BY <1>0, <1>1, <1>10
  <1>14. QED BY <1>12, <1>13 DEF cs, bs

\* Blocks that are taken out or change their order.
LEMMA BlocksRearranged ==
    ASSUME NEW n \in Nat, NEW gs, GroupsOK(gs, n), NEW at \in DOMAIN gs,
           NEW blocks, Rearranged(blocks, gs[at].blocks)
    PROVE  LET hs == Put(gs, at, WithBlocks(gs[at], blocks))
           IN  /\ GroupsOK(hs, n) /\ GroupIds(hs) = GroupIds(gs)
               /\ BlockIds(hs) = (BlockIds(gs) \ BlockIdsOf(gs[at])) \cup IdsOf(blocks)
  <1> DEFINE bs == gs[at].blocks
  <1>1. bs \in Seq(Block(n)) /\ BlocksOK(bs) /\ BlockIdsOf(gs[at]) = IdsOf(bs)
    BY GroupAt
  <1> HIDE DEF bs
  <1>2. Rearranged(blocks, bs)
    BY DEF bs
  <1>3. /\ blocks \in Seq(Block(n)) /\ ToSet(blocks) \subseteq ToSet(bs)
        /\ \E f \in Injection(DOMAIN blocks, DOMAIN bs) : \A i \in DOMAIN blocks : blocks[i] = bs[f[i]]
    BY <1>1, <1>2, RearrangedTyped
  <1>4. IdsDistinct(blocks)
    BY <1>1, <1>2, RearrangedDistinct DEF BlocksOK
  <1>5. \A i \in DOMAIN blocks : \E j \in DOMAIN bs : blocks[i] = bs[j]
    BY <1>3 DEF Injection
  <1>6. BlocksOK(blocks)
    BY <1>1, <1>4, <1>5 DEF BlocksOK
  <1>7. \A x \in IdsOf(blocks) : x \in BlockIdsOf(gs[at]) \/ Unused(gs, x)
    BY <1>1, <1>5 DEF IdsOf
  <1>8. n <= n
    OBVIOUS
  <1>9. QED BY <1>3, <1>6, <1>7, <1>8, BlocksChange

\* Groups that are taken out or change their order.
LEMMA GroupsRearranged ==
    ASSUME NEW n \in Nat, NEW gs, GroupsOK(gs, n), NEW hs, Rearranged(hs, gs), hs # <<>>
    PROVE  GroupsOK(hs, n)
  <1>1. gs \in Seq(Group(n)) /\ IdsDistinct(gs)
    BY DEF GroupsOK
  <1>2. hs \in Seq(Group(n)) /\ IdsDistinct(hs)
    BY <1>1, RearrangedTyped, RearrangedDistinct
  <1>3. PICK f \in Injection(DOMAIN hs, DOMAIN gs) : \A i \in DOMAIN hs : hs[i] = gs[f[i]]
    BY <1>1, RearrangedTyped
  <1>4. /\ \A i \in DOMAIN hs : f[i] \in DOMAIN gs
        /\ \A i, j \in DOMAIN hs : i # j => f[i] # f[j]
    BY <1>3 DEF Injection, IsInjective
  <1>5. \A i \in DOMAIN hs : BlocksOK(hs[i].blocks)
    BY <1>3, <1>4 DEF GroupsOK
  <1>6. \A i, j \in DOMAIN hs : i # j => BlockIdsOf(hs[i]) \cap BlockIdsOf(hs[j]) = {}
    BY <1>3, <1>4 DEF GroupsOK
  <1>7. BlockIds(hs) \subseteq BlockIds(gs) /\ GroupIds(hs) \subseteq GroupIds(gs)
    BY <1>3, <1>4 DEF BlockIds, GroupIds
  <1>8. BlockIds(hs) \cap GroupIds(hs) = {}
    BY <1>7 DEF GroupsOK
  <1>9. QED BY <1>2, <1>5, <1>6, <1>8 DEF GroupsOK

\* A group more, with new ids.
LEMMA GroupArrives ==
    ASSUME NEW n \in Nat, NEW m \in Nat, n < m, NEW gs, GroupsOK(gs, n),
           NEW k \in 1..(Len(gs) + 1), NEW new \in Group(m), n < new.id,
           BlocksOK(new.blocks), \A x \in BlockIdsOf(new) : x \in Nat /\ n < x /\ x # new.id
    PROVE  GroupsOK(InsertAt(gs, k, new), m)
  <1> DEFINE hs == InsertAt(gs, k, new)
             len == Len(gs)
  <1>0. new.id \in 1..m
    BY Zenon DEF Group
  <1>1. gs \in Seq(Group(m)) /\ len \in Nat /\ DOMAIN gs = 1..len /\ k \in 1..(len + 1)
    BY TypesGrow, SeqMonotonic, LenProperties DEF GroupsOK
  <1>2. \A i \in DOMAIN gs : gs[i].id # new.id /\ new.id \notin BlockIdsOf(gs[i])
    <2>1. Unused(gs, new.id)
      BY <1>0, FreshIsUnused
    <2>2. QED BY <2>1 DEF Unused, GroupIds, BlockIds
  <1>3. IdsDistinct(hs)
    BY <1>1, <1>2, InsertDistinct DEF GroupsOK
  <1>4. /\ hs \in Seq(Group(m)) /\ DOMAIN hs = 1..(len + 1)
        /\ \A i \in 1..(len + 1) : hs[i] = IF i < k THEN gs[i] ELSE IF i = k THEN new ELSE gs[i - 1]
    <2>1. hs \in Seq(Group(m)) /\ Inserted(hs, gs, k, new)
      BY <1>1, InsertAtProperties
    <2>2. QED BY <2>1, Zenon DEF Inserted
  <1> DEFINE back(i) == IF i < k THEN i ELSE i - 1
  <1> HIDE DEF hs, len
  <1>5. hs[k] = new /\ \A i \in DOMAIN hs : i # k => back(i) \in DOMAIN gs /\ hs[i] = gs[back(i)]
    <2>1. hs[k] = new
      BY <1>1, <1>4
    <2>2. ASSUME NEW i \in DOMAIN hs, i # k
          PROVE  back(i) \in DOMAIN gs /\ hs[i] = gs[back(i)]
      <3>1. CASE i < k
        BY <3>1, <1>1, <1>4
      <3>2. CASE ~(i < k)
        <4>1. i - 1 \in 1..len
          BY <3>2, <2>2, <1>1, <1>4
        <4>2. QED BY <4>1, <3>2, <2>2, <1>1, <1>4
      <3>3. QED BY <3>1, <3>2
    <2>3. QED BY <2>1, <2>2
  <1>6. \A i, j \in DOMAIN hs : i # k /\ j # k /\ i # j => back(i) # back(j)
    BY <1>1, <1>4
  <1> HIDE DEF back
  <1>7. \A i \in DOMAIN hs : BlocksOK(hs[i].blocks)
    BY <1>5 DEF GroupsOK
  <1>8. \A i \in DOMAIN gs :
          BlockIdsOf(gs[i]) \cap BlockIdsOf(new) = {} /\ gs[i].id \notin BlockIdsOf(new)
    <2>1. \A x \in BlockIdsOf(new) : Unused(gs, x)
      BY FreshIsUnused
    <2>2. QED BY <2>1 DEF Unused, BlockIds, GroupIds
  <1>9. \A i, j \in DOMAIN hs : i # j => BlockIdsOf(hs[i]) \cap BlockIdsOf(hs[j]) = {}
    <2> SUFFICES ASSUME NEW i \in DOMAIN hs, NEW j \in DOMAIN hs, i # j
                 PROVE  BlockIdsOf(hs[i]) \cap BlockIdsOf(hs[j]) = {}
      OBVIOUS
    <2>1. CASE i # k /\ j # k
      BY <2>1, <1>5, <1>6 DEF GroupsOK
    <2>2. CASE i = k
      BY <2>2, <1>5, <1>8
    <2>3. CASE j = k
      BY <2>3, <1>5, <1>8
    <2>4. QED BY <2>1, <2>2, <2>3
  <1>10. BlockIds(hs) \cap GroupIds(hs) = {}
    <2>1. ASSUME NEW i \in DOMAIN hs, NEW j \in DOMAIN hs
          PROVE  hs[j].id \notin BlockIdsOf(hs[i])
      <3>1. \A p, q \in DOMAIN gs : gs[q].id \notin BlockIdsOf(gs[p])
        BY DEF GroupsOK, BlockIds, GroupIds
      <3>2. new.id \notin BlockIdsOf(new)
        OBVIOUS
      <3>3. CASE i = k /\ j = k
        BY <3>2, <3>3, <1>5
      <3>4. CASE i = k /\ j # k
        BY <3>4, <1>5, <1>8
      <3>5. CASE i # k /\ j = k
        BY <3>5, <1>2, <1>5
      <3>6. CASE i # k /\ j # k
        BY <3>1, <3>6, <1>5
      <3>7. QED BY <3>3, <3>4, <3>5, <3>6
    <2>2. QED BY <2>1 DEF BlockIds, GroupIds
  <1>11. hs # <<>>
    <2>1. k \in DOMAIN hs
      BY <1>1, <1>4
    <2>2. DOMAIN <<>> = {}
      OBVIOUS
    <2>3. QED BY <2>1, <2>2
  <1>12. GroupsOK(hs, m)
    BY <1>3, <1>4, <1>7, <1>9, <1>10, <1>11 DEF GroupsOK
  <1>13. QED BY <1>12 DEF hs

-----------------------------------------------------------------------------
\* The handlers of groups.  Each lemma says that a handler keeps GroupsOK.

LEMMA MakeTyped ==
    ASSUME NEW n \in Nat, NEW id \in 1..n
    PROVE  /\ makeGroup(id) \in Group(n) /\ makeGroup(id).id = id
           /\ BlocksOK(makeGroup(id).blocks) /\ BlockIdsOf(makeGroup(id)) = {}
           /\ \A type \in DOMAIN Builtin \cup DefIds :
                /\ makeBlock(id, type) \in Block(n) /\ makeBlock(id, type).id = id
                /\ IdsDistinct(makeBlock(id, type).subs)
           /\ \A type \in DOMAIN Builtin :
                makeSubCondition(id, type) \in Sub(n) /\ makeSubCondition(id, type).id = id
  <1>1. \A S : <<>> \in Seq(S)
    OBVIOUS
  <1>2. DOMAIN <<>> = {}
    OBVIOUS
  <1>3. makeGroup(id) \in Group(n) /\ makeGroup(id).id = id /\ makeGroup(id).blocks = <<>>
    BY <1>1 DEF makeGroup, Group
  <1>4. BlocksOK(<<>>) /\ IdsDistinct(<<>>)
    BY <1>2 DEF BlocksOK, IdsDistinct
  <1>5. BlockIdsOf(makeGroup(id)) = {}
    BY <1>2, <1>3 DEF BlockIdsOf
  <1>6. ASSUME NEW type \in DOMAIN Builtin \cup DefIds
        PROVE  /\ makeBlock(id, type) \in Block(n) /\ makeBlock(id, type).id = id
               /\ makeBlock(id, type).subs = <<>>
    BY <1>1 DEF makeBlock, Block
  <1>7. ASSUME NEW type \in DOMAIN Builtin
        PROVE  makeSubCondition(id, type) \in Sub(n) /\ makeSubCondition(id, type).id = id
    BY DEF makeSubCondition, Sub
  <1>8. QED BY <1>3, <1>4, <1>5, <1>6, <1>7

LEMMA OneGroupOK ==
    ASSUME NEW n \in Nat, NEW id \in 1..n
    PROVE  GroupsOK(<<makeGroup(id)>>, n)
  <1> DEFINE group == makeGroup(id)
             gs == <<group>>
  <1>1. /\ group \in Group(n) /\ BlocksOK(group.blocks) /\ BlockIdsOf(group) = {}
    BY MakeTyped
  <1> HIDE DEF group
  <1>2. gs \in Seq(Group(n)) /\ gs # <<>> /\ DOMAIN gs = {1} /\ gs[1] = group
    BY <1>1
  <1> HIDE DEF gs
  <1>3. IdsDistinct(gs) /\ BlockIds(gs) = {}
    BY <1>1, <1>2 DEF IdsDistinct, BlockIds
  <1>4. GroupsOK(gs, n)
    BY <1>1, <1>2, <1>3 DEF GroupsOK
  <1>5. QED BY <1>4 DEF gs, group

LEMMA addGroupOK ==
    ASSUME NEW n \in Nat, NEW gs, GroupsOK(gs, n)
    PROVE  GroupsOK(addGroup(gs, n + 1), n + 1)
  <1> DEFINE new == makeGroup(n + 1)
  <1>1. new \in Group(n + 1) /\ new.id = n + 1 /\ BlocksOK(new.blocks) /\ BlockIdsOf(new) = {}
    BY MakeTyped
  <1> HIDE DEF new
  <1>2. gs \in Seq(Group(n + 1)) /\ Len(gs) + 1 \in 1..(Len(gs) + 1)
    <2>1. gs \in Seq(Group(n + 1))
      BY TypesGrow, SeqMonotonic DEF GroupsOK
    <2>2. Len(gs) \in Nat
      BY <2>1, LenProperties
    <2>3. QED BY <2>1, <2>2
  <1>3. Append(gs, new) = InsertAt(gs, Len(gs) + 1, new)
    BY <1>1, <1>2, AppendIsInsertAt
  <1>4. n + 1 \in Nat /\ n < n + 1
    OBVIOUS
  <1>5. GroupsOK(InsertAt(gs, Len(gs) + 1, new), n + 1)
    BY <1>1, <1>2, <1>4, GroupArrives
  <1>6. QED BY <1>3, <1>5 DEF addGroup, new

\* toggleGroupCombinator and toggleGroupCollapsed.
LEMMA toggleGroupOK ==
    ASSUME NEW n \in Nat, NEW gs, GroupsOK(gs, n), NEW at \in DOMAIN gs
    PROVE  /\ GroupsOK(toggleGroupCombinator(gs, gs[at].id), n)
           /\ GroupsOK(toggleGroupCollapsed(gs, gs[at].id), n)
  <1> DEFINE old == gs[at]
             turned == [old EXCEPT !.combinator = Flip(@)]
             folded == [old EXCEPT !.collapsed = ~@]
  <1>1. old \in Group(n) /\ BlocksOK(old.blocks)
    BY GroupAt
  <1>2. \A i \in DOMAIN gs : gs[i].id = gs[at].id <=> i = at
    BY GroupFound
  <1>3. toggleGroupCombinator(gs, gs[at].id) = Put(gs, at, turned)
    BY <1>2 DEF toggleGroupCombinator, MapId, Put
  <1>4. toggleGroupCollapsed(gs, gs[at].id) = Put(gs, at, folded)
    BY <1>2 DEF toggleGroupCollapsed, MapId, Put
  <1> HIDE DEF old
  <1>5. turned \in Group(n) /\ turned.id = old.id /\ turned.blocks = old.blocks
    BY <1>1 DEF Group, Flip
  <1>6. folded \in Group(n) /\ folded.id = old.id /\ folded.blocks = old.blocks
    BY <1>1 DEF Group
  <1> HIDE DEF turned, folded
  <1>7. BlockIdsOf(turned) = BlockIdsOf(old) /\ BlockIdsOf(folded) = BlockIdsOf(old)
    BY <1>5, <1>6 DEF BlockIdsOf
  <1>8. n <= n /\ old = gs[at]
    BY DEF old
  <1>9. GroupsOK(Put(gs, at, turned), n)
    BY <1>1, <1>5, <1>7, <1>8, GroupChanges
  <1>10. GroupsOK(Put(gs, at, folded), n)
    BY <1>1, <1>6, <1>7, <1>8, GroupChanges
  <1>11. QED BY <1>3, <1>4, <1>9, <1>10

LEMMA removeGroupOK ==
    ASSUME NEW n \in Nat, NEW gs, GroupsOK(gs, n), NEW at \in DOMAIN gs
    PROVE  GroupsOK(removeGroup(gs, gs[at].id), n)
  <1>1. \A i \in DOMAIN gs : gs[i].id = gs[at].id <=> i = at
    BY GroupFound
  <1>2. gs \in Seq(Group(n)) /\ Len(gs) \in Nat /\ DOMAIN gs = 1..Len(gs)
    BY LenProperties DEF GroupsOK
  <1>3. CASE Len(gs) <= 1
    <2>1. removeGroup(gs, gs[at].id) = Put(gs, at, WithBlocks(gs[at], <<>>))
      BY <1>1, <1>3 DEF removeGroup, MapId, Put, WithBlocks
    <2>2. <<>> \in Seq(Block(n)) /\ DOMAIN <<>> = {}
      OBVIOUS
    <2>3. BlocksOK(<<>>) /\ IdsOf(<<>>) = {}
      BY <2>2 DEF BlocksOK, IdsDistinct, IdsOf
    <2>4. n <= n
      OBVIOUS
    <2>5. GroupsOK(Put(gs, at, WithBlocks(gs[at], <<>>)), n)
      BY <2>2, <2>3, <2>4, BlocksChange
    <2>6. QED BY <2>1, <2>5
  <1>4. CASE ~(Len(gs) <= 1)
    <2> DEFINE kept == {i \in DOMAIN gs : gs[i].id # gs[at].id}
               hs == Keep(gs, kept)
    <2>1. removeGroup(gs, gs[at].id) = hs
      BY <1>4 DEF removeGroup, FilterId
    <2>2. kept \in SUBSET DOMAIN gs
      OBVIOUS
    <2>3. PICK other \in DOMAIN gs : other # at
      <3>1. 1 \in DOMAIN gs /\ 2 \in DOMAIN gs
        BY <1>2, <1>4
      <3>2. QED BY <3>1
    <2>4. other \in kept
      BY <1>1, <2>3
    <2> HIDE DEF kept
    <2>5. Rearranged(hs, gs) /\ ToSet(hs) = {gs[i] : i \in kept}
      BY <1>2, <2>2, KeepRearranges
    <2> HIDE DEF hs
    <2>6. hs # <<>>
      <3>1. gs[other] \in ToSet(hs)
        BY <2>4, <2>5
      <3>2. DOMAIN <<>> = {}
        OBVIOUS
      <3>3. QED BY <3>1, <3>2 DEF ToSet
    <2>7. QED BY <2>1, <2>5, <2>6, GroupsRearranged
  <1>5. QED BY <1>3, <1>4

\* arrayMove of groups.
LEMMA moveGroupOK ==
    ASSUME NEW n \in Nat, NEW gs, GroupsOK(gs, n), NEW i \in DOMAIN gs, NEW j \in DOMAIN gs
    PROVE  LET hs == arrayMove(gs, i, j)
           IN  /\ GroupsOK(hs, n) /\ GroupIds(hs) = GroupIds(gs) /\ BlockIds(hs) = BlockIds(gs)
  <1> DEFINE hs == arrayMove(gs, i, j)
  <1>1. gs \in Seq(Group(n)) /\ Len(gs) \in Nat /\ DOMAIN gs = 1..Len(gs)
    BY LenProperties DEF GroupsOK
  <1>2. Rearranged(hs, gs) /\ Len(hs) = Len(gs) /\ ToSet(hs) = ToSet(gs)
    BY <1>1, ArrayMoveRearranges
  <1>3. gs # <<>>
    BY DEF GroupsOK
  <1> HIDE DEF hs
  <1>4. hs # <<>>
    <2>1. gs[i] \in ToSet(hs)
      BY <1>2 DEF ToSet
    <2>2. DOMAIN <<>> = {}
      OBVIOUS
    <2>3. QED BY <2>1, <2>2 DEF ToSet
  <1>5. GroupsOK(hs, n)
    BY <1>2, <1>4, GroupsRearranged
  <1>6. /\ GroupIds(gs) = {x.id : x \in ToSet(gs)} /\ GroupIds(hs) = {x.id : x \in ToSet(hs)}
        /\ BlockIds(gs) = UNION {BlockIdsOf(x) : x \in ToSet(gs)}
        /\ BlockIds(hs) = UNION {BlockIdsOf(x) : x \in ToSet(hs)}
    BY DEF GroupIds, BlockIds, ToSet
  <1>7. GroupIds(hs) = GroupIds(gs) /\ BlockIds(hs) = BlockIds(gs)
    BY <1>2, <1>6
  <1>8. QED BY <1>5, <1>7 DEF hs

\* s with new ids, first + 1 and on.
Renumbered(s, first) == [i \in DOMAIN s |-> [s[i] EXCEPT !.id = first + i]]

LEMMA BlocksRenumbered ==
    ASSUME NEW n \in Nat, NEW bs \in Seq(Block(n)), \A k \in DOMAIN bs : IdsDistinct(bs[k].subs)
    PROVE  LET cs == Renumbered(bs, n + 1)
           IN  /\ cs \in Seq(Block(n + 1 + Len(bs))) /\ BlocksOK(cs)
               /\ \A x \in IdsOf(cs) : x \in Nat /\ n + 1 < x
  <1> DEFINE len == Len(bs)
             m == n + 1 + len
             cs == Renumbered(bs, n + 1)
  <1>1. len \in Nat /\ DOMAIN bs = 1..len
    BY LenProperties
  <1> HIDE DEF len
  <1>2. m \in Nat /\ n <= m
    BY <1>1
  <1>3. bs \in Seq(Block(m))
    BY <1>2, TypesGrow, SeqMonotonic
  <1>4. ASSUME NEW i \in DOMAIN bs
        PROVE  /\ cs[i] \in Block(m) /\ cs[i].id = n + 1 + i /\ cs[i].subs = bs[i].subs
               /\ n + 1 + i \in 1..m /\ n + 1 < n + 1 + i
    <2>1. bs[i] \in Block(m)
      BY <1>3, LenProperties, ElementOfSeq
    <2>2. n + 1 + i \in 1..m /\ n + 1 < n + 1 + i
      BY <1>1
    <2> HIDE DEF m
    <2>3. cs[i] = [bs[i] EXCEPT !.id = n + 1 + i]
      BY DEF Renumbered
    <2> DEFINE id == n + 1 + i
               b == bs[i]
    <2> HIDE DEF id, b
    <2>4. [b EXCEPT !.id = id] \in Block(m) /\ [b EXCEPT !.id = id].id = id
          /\ [b EXCEPT !.id = id].subs = b.subs
      BY <2>1, <2>2 DEF Block, id, b
    <2>5. QED BY <2>2, <2>3, <2>4 DEF id, b
  <1>5. DOMAIN cs = DOMAIN bs /\ cs = [i \in DOMAIN bs |-> cs[i]]
    BY DEF Renumbered
  <1> HIDE DEF cs, m
  <1>6. cs \in [1..len -> Block(m)]
    BY <1>1, <1>4, <1>5
  <1>7. cs \in Seq(Block(m))
    BY <1>1, <1>6, SeqDef
  <1>8. IdsDistinct(cs)
    <2>1. ASSUME NEW i \in DOMAIN cs, NEW j \in DOMAIN cs, cs[i].id = cs[j].id
          PROVE  i = j
      <3>1. n + 1 + i = n + 1 + j /\ i \in 1..len /\ j \in 1..len
        BY <1>1, <1>4, <1>5, <2>1
      <3>2. QED BY <3>1, <1>1
    <2>2. QED BY <2>1 DEF IdsDistinct
  <1>9. BlocksOK(cs)
    BY <1>4, <1>5, <1>8 DEF BlocksOK
  <1>10. \A x \in IdsOf(cs) : x \in Nat /\ n + 1 < x
    BY <1>4, <1>5 DEF IdsOf
  <1>11. QED BY <1>7, <1>9, <1>10 DEF cs, m, len

LEMMA duplicateGroupOK ==
    ASSUME NEW n \in Nat, NEW gs, GroupsOK(gs, n), NEW at \in DOMAIN gs
    PROVE  LET m == n + 1 + Len(gs[at].blocks)
           IN  m \in Nat /\ GroupsOK(duplicateGroup(gs, gs[at].id, n + 1), m)
  <1> DEFINE old == gs[at]
             bs == old.blocks
             cs == Renumbered(bs, n + 1)
             copy == [old EXCEPT !.id = n + 1, !.blocks = cs]
             len == Len(bs)
             m == n + 1 + len
  <1>1. IndexOf(gs, gs[at].id) = at
    BY GroupFound
  <1>2. duplicateGroup(gs, gs[at].id, n + 1) = InsertAt(gs, at + 1, copy)
    BY <1>1 DEF duplicateGroup, Renumbered
  <1>3. old \in Group(n) /\ bs \in Seq(Block(n)) /\ BlocksOK(bs)
    BY GroupAt
  <1>4. len \in Nat /\ Len(gs) \in Nat /\ at \in 1..Len(gs)
    BY <1>3, LenProperties DEF GroupsOK
  <1>5. at + 1 \in 1..(Len(gs) + 1)
    BY <1>4
  <1>6. cs \in Seq(Block(m)) /\ BlocksOK(cs) /\ \A x \in IdsOf(cs) : x \in Nat /\ n + 1 < x
    BY <1>3, BlocksRenumbered DEF BlocksOK
  <1> HIDE DEF len, cs, bs, old
  <1>7. m \in Nat /\ n < m /\ n <= m /\ n + 1 \in 1..m /\ n < n + 1
    BY <1>4
  <1> HIDE DEF m
  <1>13. old \in Group(m)
    BY <1>3, <1>7, TypesGrow
  <1>8. /\ copy \in Group(m) /\ copy.id = n + 1 /\ copy.blocks = cs
    BY <1>6, <1>7, <1>13 DEF Group
  <1>9. BlockIdsOf(copy) = IdsOf(cs)
    BY <1>8 DEF BlockIdsOf, IdsOf
  <1> HIDE DEF copy
  <1>10. \A x \in BlockIdsOf(copy) : x \in Nat /\ n < x /\ x # copy.id
    BY <1>6, <1>8, <1>9
  <1>11. GroupsOK(InsertAt(gs, at + 1, copy), m)
    <2>1. n < copy.id /\ BlocksOK(copy.blocks)
      BY <1>6, <1>7, <1>8
    <2>2. QED BY <1>5, <1>7, <1>8, <1>10, <2>1, GroupArrives
  <1>12. QED BY <1>2, <1>7, <1>11 DEF m, len, bs, old

-----------------------------------------------------------------------------
\* The handlers of blocks.

LEMMA addBlockToGroupOK ==
    ASSUME NEW n \in Nat, NEW m \in Nat, n <= m, NEW gs, GroupsOK(gs, n), NEW at \in DOMAIN gs,
           NEW new \in Block(m), Unused(gs, new.id), IdsDistinct(new.subs)
    PROVE  GroupsOK(addBlockToGroup(gs, gs[at].id, new), m)
  <1> DEFINE bs == gs[at].blocks
  <1>1. \A i \in DOMAIN gs : gs[i].id = gs[at].id <=> i = at
    BY GroupFound
  <1>2. addBlockToGroup(gs, gs[at].id, new) = Put(gs, at, WithBlocks(gs[at], Append(bs, new)))
    BY <1>1 DEF addBlockToGroup, MapId, Put, WithBlocks
  <1>3. bs \in Seq(Block(n))
    BY GroupAt
  <1>4. bs \in Seq(Block(m))
    BY <1>3, TypesGrow, SeqMonotonic
  <1>5. Append(bs, new) = InsertAt(bs, Len(bs) + 1, new)
    BY <1>4, AppendIsInsertAt
  <1>6. Len(bs) + 1 \in 1..(Len(bs) + 1)
    BY <1>4, LenProperties
  <1>7. GroupsOK(Put(gs, at, WithBlocks(gs[at], InsertAt(bs, Len(bs) + 1, new))), m)
    BY <1>6, BlockArrives
  <1>8. QED BY <1>2, <1>5, <1>7

LEMMA removeBlockOK ==
    ASSUME NEW n \in Nat, NEW gs, GroupsOK(gs, n), NEW at \in DOMAIN gs,
           NEW k \in DOMAIN gs[at].blocks
    PROVE  LET b == gs[at].blocks[k].id
               hs == removeBlock(gs, gs[at].id, b)
           IN  /\ GroupsOK(hs, n) /\ GroupIds(hs) = GroupIds(gs)
               /\ BlockIds(hs) = BlockIds(gs) \ {b}
               /\ DOMAIN hs = DOMAIN gs /\ \A i \in DOMAIN gs : i # at => hs[i] = gs[i]
  <1> DEFINE bs == gs[at].blocks
             b == bs[k].id
             kept == {i \in DOMAIN bs : bs[i].id # b}
             cs == Keep(bs, kept)
             hs == Put(gs, at, WithBlocks(gs[at], cs))
  <1>1. \A i \in DOMAIN gs : gs[i].id = gs[at].id <=> i = at
    BY GroupFound
  <1>2. removeBlock(gs, gs[at].id, b) = hs
    BY <1>1 DEF removeBlock, FilterId, MapId, Put, WithBlocks
  <1>3. bs \in Seq(Block(n)) /\ BlockIdsOf(gs[at]) = IdsOf(bs)
    BY GroupAt
  <1>4. kept \in SUBSET DOMAIN bs
    OBVIOUS
  <1>5. Rearranged(cs, bs) /\ ToSet(cs) = {bs[i] : i \in kept}
    BY <1>3, <1>4, KeepRearranges
  <1> HIDE DEF cs
  <1>6. IdsOf(cs) = {x.id : x \in ToSet(cs)}
    BY DEF IdsOf, ToSet
  <1>7. IdsOf(cs) = IdsOf(bs) \ {b}
    BY <1>5, <1>6 DEF IdsOf
  <1>8. /\ GroupsOK(hs, n) /\ GroupIds(hs) = GroupIds(gs)
        /\ BlockIds(hs) = (BlockIds(gs) \ BlockIdsOf(gs[at])) \cup IdsOf(cs)
    BY <1>5, BlocksRearranged
  <1>9. BlockIds(hs) = BlockIds(gs) \ {b}
    <2>1. b \in BlockIdsOf(gs[at]) /\ BlockIdsOf(gs[at]) \subseteq BlockIds(gs)
      BY <1>3, GroupAt DEF IdsOf
    <2>2. QED BY <1>3, <1>7, <1>8, <2>1
  <1>10. DOMAIN hs = DOMAIN gs /\ \A i \in DOMAIN gs : i # at => hs[i] = gs[i]
    BY DEF Put
  <1>11. QED BY <1>2, <1>8, <1>9, <1>10

\* The block at a place, and what the invariant says of it.
LEMMA BlockAt ==
    ASSUME NEW n \in Nat, NEW gs, GroupsOK(gs, n), NEW at \in DOMAIN gs,
           NEW k \in DOMAIN gs[at].blocks
    PROVE  /\ gs[at].blocks[k] \in Block(n) /\ IdsDistinct(gs[at].blocks[k].subs)
           /\ gs[at].blocks[k].subs \in Seq(Sub(n))
           /\ gs[at].blocks[k].id \in BlockIdsOf(gs[at])
  <1> DEFINE bs == gs[at].blocks
  <1>1. bs \in Seq(Block(n)) /\ BlocksOK(bs)
    BY GroupAt
  <1>2. bs[k].id \in BlockIdsOf(gs[at])
    BY DEF BlockIdsOf
  <1>3. bs[k] \in Block(n)
    BY <1>1, LenProperties, ElementOfSeq
  <1>4. bs[k].subs \in Seq(Sub(n))
    BY <1>3, Zenon DEF Block
  <1>5. IdsDistinct(bs[k].subs)
    BY <1>1 DEF BlocksOK
  <1>6. QED BY <1>2, <1>3, <1>4, <1>5

LEMMA BlockFound ==
    ASSUME NEW n \in Nat, NEW gs, GroupsOK(gs, n), NEW at \in DOMAIN gs,
           NEW k \in DOMAIN gs[at].blocks
    PROVE  /\ IndexOf(gs[at].blocks, gs[at].blocks[k].id) = k
           /\ \A i \in DOMAIN gs[at].blocks : gs[at].blocks[i].id = gs[at].blocks[k].id <=> i = k
  <1> DEFINE bs == gs[at].blocks
  <1>1. bs \in Seq(Block(n)) /\ IdsDistinct(bs)
    BY GroupAt DEF BlocksOK
  <1>2. IndexOf(bs, bs[k].id) = k
    BY <1>1, IndexOfElement
  <1>3. QED BY <1>1, <1>2 DEF IdsDistinct

\* updateBlock and toggleBlock.
LEMMA changeBlockOK ==
    ASSUME NEW n \in Nat, NEW gs, GroupsOK(gs, n), NEW at \in DOMAIN gs,
           NEW k \in DOMAIN gs[at].blocks
    PROVE  LET g == gs[at].id
               b == gs[at].blocks[k].id
           IN  /\ \A field \in Fields : GroupsOK(updateBlock(gs, g, b, field), n)
               /\ \A way \in Switches : GroupsOK(toggleBlock(gs, g, b, way), n)
  <1> DEFINE bs == gs[at].blocks
             old == bs[k]
  <1>1. \A i \in DOMAIN gs : gs[i].id = gs[at].id <=> i = at
    BY GroupFound
  <1>2. \A i \in DOMAIN bs : bs[i].id = bs[k].id <=> i = k
    BY BlockFound
  <1>3. old \in Block(n) /\ IdsDistinct(old.subs)
    BY BlockAt
  <1>4. n <= n
    OBVIOUS
  <1>5. ASSUME NEW field \in Fields
        PROVE  GroupsOK(updateBlock(gs, gs[at].id, bs[k].id, field), n)
    <2> DEFINE new == [old EXCEPT !.fields = Toggle(@, field)]
    <2>1. updateBlock(gs, gs[at].id, bs[k].id, field) = Put(gs, at, WithBlocks(gs[at], Put(bs, k, new)))
      BY <1>1, <1>2 DEF updateBlock, MapBlock, MapId, Put, WithBlocks
    <2> HIDE DEF old
    <2>2. new \in Block(n) /\ new.id = old.id /\ new.subs = old.subs
      BY <1>3 DEF Block, Toggle
    <2> HIDE DEF new
    <2>3. new \in Block(n) /\ new.id = bs[k].id /\ IdsDistinct(new.subs)
      BY <1>3, <2>2 DEF old
    <2>4. GroupsOK(Put(gs, at, WithBlocks(gs[at], Put(bs, k, new))), n)
      BY <1>4, <2>3, BlockChanges
    <2>5. QED BY <2>1, <2>4
  <1>6. ASSUME NEW way \in Switches
        PROVE  GroupsOK(toggleBlock(gs, gs[at].id, bs[k].id, way), n)
    <2> DEFINE new == [old EXCEPT !.switches = Toggle(@, way)]
    <2>1. toggleBlock(gs, gs[at].id, bs[k].id, way) = Put(gs, at, WithBlocks(gs[at], Put(bs, k, new)))
      BY <1>1, <1>2 DEF toggleBlock, MapBlock, MapId, Put, WithBlocks
    <2> HIDE DEF old
    <2>2. new \in Block(n) /\ new.id = old.id /\ new.subs = old.subs
      BY <1>3 DEF Block, Toggle
    <2> HIDE DEF new
    <2>3. new \in Block(n) /\ new.id = bs[k].id /\ IdsDistinct(new.subs)
      BY <1>3, <2>2 DEF old
    <2>4. GroupsOK(Put(gs, at, WithBlocks(gs[at], Put(bs, k, new))), n)
      BY <1>4, <2>3, BlockChanges
    <2>5. QED BY <2>1, <2>4
  <1>7. QED BY <1>5, <1>6

\* A block gets other sub-conditions.
LEMMA SubsChange ==
    ASSUME NEW n \in Nat, NEW m \in Nat, n <= m, NEW gs, GroupsOK(gs, n), NEW at \in DOMAIN gs,
           NEW k \in DOMAIN gs[at].blocks, NEW subs \in Seq(Sub(m)), IdsDistinct(subs)
    PROVE  GroupsOK(Put(gs, at, WithBlocks(gs[at],
                       Put(gs[at].blocks, k, [gs[at].blocks[k] EXCEPT !.subs = subs]))), m)
  <1> DEFINE old == gs[at].blocks[k]
             new == [old EXCEPT !.subs = subs]
  <1>1. old \in Block(n)
    BY BlockAt
  <1>2. old \in Block(m)
    BY <1>1, TypesGrow
  <1> HIDE DEF old
  <1>3. new \in Block(m) /\ new.id = old.id /\ new.subs = subs
    BY <1>2 DEF Block
  <1> HIDE DEF new
  <1>4. new.id = gs[at].blocks[k].id /\ IdsDistinct(new.subs)
    BY <1>3 DEF old
  <1>5. GroupsOK(Put(gs, at, WithBlocks(gs[at], Put(gs[at].blocks, k, new))), m)
    BY <1>3, <1>4, BlockChanges
  <1>6. QED BY <1>5 DEF new, old

LEMMA addSubConditionOK ==
    ASSUME NEW n \in Nat, NEW gs, GroupsOK(gs, n), NEW at \in DOMAIN gs,
           NEW k \in DOMAIN gs[at].blocks, NEW sub \in Sub(n + 1), sub.id = n + 1
    PROVE  GroupsOK(addSubCondition(gs, gs[at].id, gs[at].blocks[k].id, sub), n + 1)
  <1> DEFINE bs == gs[at].blocks
             ss == bs[k].subs
             ts == Append(ss, sub)
  <1>1. \A i \in DOMAIN gs : gs[i].id = gs[at].id <=> i = at
    BY GroupFound
  <1>2. \A i \in DOMAIN bs : bs[i].id = bs[k].id <=> i = k
    BY BlockFound
  <1>3. addSubCondition(gs, gs[at].id, bs[k].id, sub)
          = Put(gs, at, WithBlocks(gs[at], Put(bs, k, [bs[k] EXCEPT !.subs = ts])))
    BY <1>1, <1>2 DEF addSubCondition, MapBlock, MapId, Put, WithBlocks
  <1>4. ss \in Seq(Sub(n)) /\ IdsDistinct(ss)
    BY BlockAt
  <1> HIDE DEF ss
  <1>5. n + 1 \in Nat /\ n <= n + 1
    OBVIOUS
  <1>6. ss \in Seq(Sub(n + 1)) /\ Len(ss) \in Nat
    BY <1>4, <1>5, TypesGrow, SeqMonotonic, LenProperties
  <1>7. \A i \in DOMAIN ss : ss[i].id # sub.id
    <2>1. \A i \in DOMAIN ss : ss[i] \in Sub(n)
      BY <1>4, LenProperties, ElementOfSeq
    <2>2. \A i \in DOMAIN ss : ss[i].id \in 1..n
      BY <2>1, Zenon DEF Sub
    <2>3. n + 1 \notin 1..n
      OBVIOUS
    <2>4. QED BY <2>2, <2>3
  <1>8. ts = InsertAt(ss, Len(ss) + 1, sub) /\ ts \in Seq(Sub(n + 1))
    BY <1>6, AppendIsInsertAt, AppendProperties
  <1>9. IdsDistinct(ts)
    <2>1. Len(ss) + 1 \in 1..(Len(ss) + 1)
      BY <1>6
    <2>2. IdsDistinct(InsertAt(ss, Len(ss) + 1, sub))
      BY <1>4, <1>6, <1>7, <2>1, InsertDistinct
    <2>3. QED BY <1>8, <2>2
  <1> HIDE DEF ts
  <1>10. QED BY <1>3, <1>5, <1>8, <1>9, SubsChange

\* updateSubCondition, toggleSubLogic and removeSubCondition.
LEMMA changeSubOK ==
    ASSUME NEW n \in Nat, NEW gs, GroupsOK(gs, n), NEW at \in DOMAIN gs,
           NEW k \in DOMAIN gs[at].blocks, NEW j \in DOMAIN gs[at].blocks[k].subs
    PROVE  LET g == gs[at].id
               b == gs[at].blocks[k].id
               s == gs[at].blocks[k].subs[j].id
           IN  /\ \A field \in Fields : GroupsOK(updateSubCondition(gs, g, b, s, field), n)
               /\ GroupsOK(toggleSubLogic(gs, g, b, s), n)
               /\ GroupsOK(removeSubCondition(gs, g, b, s), n)
  <1> DEFINE bs == gs[at].blocks
             ss == bs[k].subs
             old == ss[j]
             With(subs) == Put(gs, at, WithBlocks(gs[at], Put(bs, k, [bs[k] EXCEPT !.subs = subs])))
  <1>1. \A i \in DOMAIN gs : gs[i].id = gs[at].id <=> i = at
    BY GroupFound
  <1>2. \A i \in DOMAIN bs : bs[i].id = bs[k].id <=> i = k
    BY BlockFound
  <1>3. ss \in Seq(Sub(n)) /\ IdsDistinct(ss)
    BY BlockAt
  <1>4. n <= n
    OBVIOUS
  <1>5. \A i \in DOMAIN ss : ss[i].id = ss[j].id <=> i = j
    BY <1>3 DEF IdsDistinct
  <1>6. ASSUME NEW subs \in Seq(Sub(n)), IdsDistinct(subs)
        PROVE  GroupsOK(With(subs), n)
    BY <1>4, <1>6, SubsChange
  <1>7. old \in Sub(n)
    BY <1>3, LenProperties, ElementOfSeq
  <1>8. ASSUME NEW new \in Sub(n), new.id = old.id
        PROVE  GroupsOK(With(Put(ss, j, new)), n)
    <2> HIDE DEF ss, With
    <2>1. j \in DOMAIN ss /\ new.id = ss[j].id
      BY <1>8 DEF ss
    <2>2. Put(ss, j, new) \in Seq(Sub(n)) /\ IdsDistinct(Put(ss, j, new))
      BY <1>3, <2>1, PutTyped, PutDistinct
    <2>3. QED BY <1>6, <2>2
  <1>9. ASSUME NEW field \in Fields
        PROVE  GroupsOK(updateSubCondition(gs, gs[at].id, bs[k].id, old.id, field), n)
    <2> DEFINE new == [old EXCEPT !.fields = Toggle(@, field)]
    <2>1. updateSubCondition(gs, gs[at].id, bs[k].id, old.id, field) = With(Put(ss, j, new))
      BY <1>1, <1>2, <1>5, SMTT(60) DEF updateSubCondition, MapBlock, MapId, Put, WithBlocks
    <2> HIDE DEF old, With
    <2>2. new \in Sub(n) /\ new.id = old.id
      BY <1>7 DEF Sub, Toggle
    <2> HIDE DEF new
    <2>3. QED BY <1>8, <2>1, <2>2
  <1>10. GroupsOK(toggleSubLogic(gs, gs[at].id, bs[k].id, old.id), n)
    <2> DEFINE new == [old EXCEPT !.switches = Toggle(@, "or")]
    <2>1. toggleSubLogic(gs, gs[at].id, bs[k].id, old.id) = With(Put(ss, j, new))
      BY <1>1, <1>2, <1>5, SMTT(60) DEF toggleSubLogic, MapBlock, MapId, Put, WithBlocks
    <2> HIDE DEF old, With
    <2>2. new \in Sub(n) /\ new.id = old.id
      BY <1>7 DEF Sub, Toggle, Switches
    <2> HIDE DEF new
    <2>3. QED BY <1>8, <2>1, <2>2
  <1>11. GroupsOK(removeSubCondition(gs, gs[at].id, bs[k].id, old.id), n)
    <2> DEFINE kept == {i \in DOMAIN ss : ss[i].id # old.id}
               subs == Keep(ss, kept)
    <2>1. FilterId(ss, old.id) = subs /\ kept \in SUBSET DOMAIN ss
      BY DEF FilterId
    <2> HIDE DEF kept, subs
    <2>2. removeSubCondition(gs, gs[at].id, bs[k].id, old.id) = With(subs)
      BY <1>1, <1>2, <2>1, SMTT(60) DEF removeSubCondition, MapBlock, MapId, Put, WithBlocks
    <2> HIDE DEF ss, With
    <2>3. Rearranged(subs, ss)
      BY <1>3, <2>1, KeepRearranges DEF subs
    <2>4. subs \in Seq(Sub(n)) /\ IdsDistinct(subs)
      BY <1>3, <2>3, RearrangedTyped, RearrangedDistinct
    <2>5. QED BY <1>6, <2>2, <2>4
  <1>12. QED BY <1>9, <1>10, <1>11

LEMMA SubsRenumbered ==
    ASSUME NEW n \in Nat, NEW ss \in Seq(Sub(n))
    PROVE  LET ts == Renumbered(ss, n + 1)
           IN  ts \in Seq(Sub(n + 1 + Len(ss))) /\ IdsDistinct(ts)
  <1> DEFINE len == Len(ss)
             m == n + 1 + len
             ts == Renumbered(ss, n + 1)
  <1>1. len \in Nat /\ DOMAIN ss = 1..len
    BY LenProperties
  <1> HIDE DEF len
  <1>2. m \in Nat /\ n <= m
    BY <1>1
  <1>3. ss \in Seq(Sub(m))
    BY <1>2, TypesGrow, SeqMonotonic
  <1>4. ASSUME NEW i \in DOMAIN ss
        PROVE  ts[i] \in Sub(m) /\ ts[i].id = n + 1 + i
    <2>1. ss[i] \in Sub(m)
      BY <1>3, LenProperties, ElementOfSeq
    <2>2. n + 1 + i \in 1..m
      BY <1>1
    <2> HIDE DEF m
    <2>3. ts[i] = [ss[i] EXCEPT !.id = n + 1 + i]
      BY DEF Renumbered
    <2> DEFINE id == n + 1 + i
               sub == ss[i]
    <2> HIDE DEF id, sub
    <2>4. [sub EXCEPT !.id = id] \in Sub(m) /\ [sub EXCEPT !.id = id].id = id
      BY <2>1, <2>2 DEF Sub, id, sub
    <2>5. QED BY <2>3, <2>4 DEF id, sub
  <1>5. DOMAIN ts = DOMAIN ss /\ ts = [i \in DOMAIN ss |-> ts[i]]
    BY DEF Renumbered
  <1> HIDE DEF ts, m
  <1>6. ts \in [1..len -> Sub(m)]
    BY <1>1, <1>4, <1>5
  <1>7. ts \in Seq(Sub(m))
    BY <1>1, <1>6, SeqDef
  <1>8. IdsDistinct(ts)
    <2>1. ASSUME NEW i \in DOMAIN ts, NEW j \in DOMAIN ts, ts[i].id = ts[j].id
          PROVE  i = j
      <3>1. n + 1 + i = n + 1 + j /\ i \in 1..len /\ j \in 1..len
        BY <1>1, <1>4, <1>5, <2>1
      <3>2. QED BY <3>1, <1>1
    <2>2. QED BY <2>1 DEF IdsDistinct
  <1>9. QED BY <1>7, <1>8 DEF ts, m, len

LEMMA duplicateBlockOK ==
    ASSUME NEW n \in Nat, NEW gs, GroupsOK(gs, n), NEW at \in DOMAIN gs,
           NEW k \in DOMAIN gs[at].blocks
    PROVE  LET m == n + 1 + Len(gs[at].blocks[k].subs)
           IN  /\ m \in Nat
               /\ GroupsOK(duplicateBlock(gs, gs[at].id, gs[at].blocks[k].id, n + 1), m)
  <1> DEFINE bs == gs[at].blocks
             old == bs[k]
             ss == old.subs
             ts == Renumbered(ss, n + 1)
             len == Len(ss)
             m == n + 1 + len
             new == [old EXCEPT !.id = n + 1, !.subs = ts]
  <1>1. \A i \in DOMAIN gs : gs[i].id = gs[at].id <=> i = at
    BY GroupFound
  <1>2. IndexOf(bs, bs[k].id) = k
    BY BlockFound
  <1>3. bs \in Seq(Block(n)) /\ Len(bs) \in Nat /\ k \in 1..Len(bs)
    BY GroupAt, LenProperties
  <1>4. k # 0 /\ k + 1 \in 1..(Len(bs) + 1)
    BY <1>3
  <1>5. duplicateBlock(gs, gs[at].id, old.id, n + 1)
          = Put(gs, at, WithBlocks(gs[at], InsertAt(bs, k + 1, new)))
    BY <1>1, <1>2, <1>4 DEF duplicateBlock, MapId, Put, WithBlocks, Renumbered
  <1>6. old \in Block(n) /\ ss \in Seq(Sub(n))
    BY BlockAt
  <1> HIDE DEF old, ss
  <1>7. len \in Nat /\ m \in Nat /\ n <= m /\ n < n + 1 /\ n + 1 \in 1..m /\ n + 1 \in Nat
    <2>1. len \in Nat
      BY <1>6, LenProperties
    <2> HIDE DEF len
    <2>2. QED BY <2>1
  <1>8. ts \in Seq(Sub(m)) /\ IdsDistinct(ts)
    BY <1>6, SubsRenumbered
  <1> HIDE DEF m, len, ts
  <1>9. old \in Block(m)
    BY <1>6, <1>7, TypesGrow
  <1>10. new \in Block(m) /\ new.id = n + 1 /\ new.subs = ts
    BY <1>7, <1>8, <1>9 DEF Block
  <1> HIDE DEF new
  <1>11. Unused(gs, new.id) /\ IdsDistinct(new.subs)
    BY <1>7, <1>8, <1>10, FreshIsUnused
  <1>12. GroupsOK(Put(gs, at, WithBlocks(gs[at], InsertAt(bs, k + 1, new))), m)
    BY <1>4, <1>7, <1>10, <1>11, BlockArrives
  <1>13. QED BY <1>5, <1>7, <1>12 DEF m, len, ss, old
-----------------------------------------------------------------------------
\* Drag and drop.

LEMMA GroupOfBlock ==
    ASSUME NEW gs, NEW b \in BlockIds(gs)
    PROVE  \E at \in DOMAIN gs : \E k \in DOMAIN gs[at].blocks :
             GroupOf(gs, b) = gs[at].id /\ gs[at].blocks[k].id = b
  <1>1. \E i \in DOMAIN gs : b \in BlockIdsOf(gs[i])
    BY DEF BlockIds
  <1> DEFINE at == CHOOSE i \in DOMAIN gs : b \in BlockIdsOf(gs[i])
  <1>2. at \in DOMAIN gs /\ b \in BlockIdsOf(gs[at]) /\ GroupOf(gs, b) = gs[at].id
    BY <1>1 DEF GroupOf
  <1> HIDE DEF at
  <1>3. QED BY <1>2 DEF BlockIdsOf

\* What a place under the pointer says of the groups.
Known(gs, over) ==
    /\ over.at \in {"zone", "group"} => over.id \in GroupIds(gs)
    /\ over.at = "block" => over.id \in BlockIds(gs)

LEMMA dropPaletteOK ==
    ASSUME NEW n \in Nat, NEW gs, GroupsOK(gs, n), NEW over, Known(gs, over),
           NEW new \in Block(n + 1), new.id = n + 1, IdsDistinct(new.subs)
    PROVE  GroupsOK(dropPalette(gs, new, over), n + 1)
  <1>1. n + 1 \in Nat /\ n <= n + 1 /\ n < n + 1
    OBVIOUS
  <1>2. Unused(gs, new.id)
    BY <1>1, FreshIsUnused
  <1>3. ASSUME NEW at \in DOMAIN gs
        PROVE  GroupsOK(addBlockToGroup(gs, gs[at].id, new), n + 1)
    BY <1>1, <1>2, addBlockToGroupOK
  <1>4. CASE over.at = "zone"
    <2>1. PICK at \in DOMAIN gs : over.id = gs[at].id
      BY <1>4 DEF Known, GroupIds
    <2>2. dropPalette(gs, new, over) = addBlockToGroup(gs, gs[at].id, new)
      BY <1>4, <2>1 DEF dropPalette
    <2>3. QED BY <1>3, <2>2
  <1>5. CASE over.at = "block"
    <2>1. over.id \in BlockIds(gs)
      BY <1>5 DEF Known
    <2>2. PICK at \in DOMAIN gs : \E k \in DOMAIN gs[at].blocks :
            GroupOf(gs, over.id) = gs[at].id /\ gs[at].blocks[k].id = over.id
      BY <2>1, GroupOfBlock
    <2> DEFINE bs == gs[at].blocks
    <2>3. PICK k \in DOMAIN bs : GroupOf(gs, over.id) = gs[at].id /\ bs[k].id = over.id
      BY <2>2
    <2>4. \A i \in DOMAIN gs : gs[i].id = gs[at].id <=> i = at
      BY GroupFound
    <2>5. IndexOf(bs, over.id) = k
      BY <2>3, BlockFound
    <2>6. dropPalette(gs, new, over)
            = MapId(gs, gs[at].id, LAMBDA group :
                 [group EXCEPT !.blocks = InsertAt(@, IndexOf(@, over.id) + 1, new)])
      BY <1>5, <2>1, <2>3 DEF dropPalette
    <2>7. dropPalette(gs, new, over) = Put(gs, at, WithBlocks(gs[at], InsertAt(bs, k + 1, new)))
      BY <2>4, <2>5, <2>6 DEF MapId, Put, WithBlocks
    <2>8. bs \in Seq(Block(n)) /\ k + 1 \in 1..(Len(bs) + 1)
      BY GroupAt, LenProperties
    <2>9. QED BY <1>1, <1>2, <2>7, <2>8, BlockArrives
  <1>6. CASE over.at \notin {"zone", "block"}
    <2>1. Len(gs) \in DOMAIN gs
      <3>1. gs \in Seq(Group(n)) /\ gs # <<>>
        BY DEF GroupsOK
      <3>2. QED BY <3>1, LenProperties, EmptySeq
    <2>2. dropPalette(gs, new, over) = addBlockToGroup(gs, gs[Len(gs)].id, new)
      BY <1>6 DEF dropPalette, LastGroup
    <2>3. QED BY <1>3, <2>1, <2>2
  <1>7. QED BY <1>4, <1>5, <1>6

LEMMA dropGroupOK ==
    ASSUME NEW n \in Nat, NEW gs, GroupsOK(gs, n), NEW over, Known(gs, over),
           NEW g
    PROVE  LET hs == dropGroup(gs, g, over)
           IN  GroupsOK(hs, n) /\ GroupIds(hs) = GroupIds(gs) /\ BlockIds(hs) = BlockIds(gs)
  <1>1. CASE over.at = "group" /\ over.id # g /\ g \in GroupIds(gs)
    <2>1. PICK i \in DOMAIN gs : gs[i].id = g
      BY <1>1 DEF GroupIds
    <2>2. PICK j \in DOMAIN gs : gs[j].id = over.id
      BY <1>1 DEF Known, GroupIds
    <2>3. IndexOf(gs, g) = i /\ IndexOf(gs, over.id) = j
      BY <2>1, <2>2, GroupFound
    <2>4. dropGroup(gs, g, over) = arrayMove(gs, i, j)
      BY <1>1, <2>3 DEF dropGroup
    <2>5. QED BY <2>4, moveGroupOK
  <1>2. CASE ~(over.at = "group" /\ over.id # g /\ g \in GroupIds(gs))
    <2>1. dropGroup(gs, g, over) = gs
      BY <1>2 DEF dropGroup
    <2>2. QED BY <2>1
  <1>3. QED BY <1>1, <1>2

LEMMA dropBlockOK ==
    ASSUME NEW n \in Nat, NEW gs, GroupsOK(gs, n), NEW over, Known(gs, over), NEW b
    PROVE  LET hs == dropBlock(gs, b, over)
           IN  GroupsOK(hs, n) /\ GroupIds(hs) = GroupIds(gs) /\ BlockIds(hs) = BlockIds(gs)
  <1> DEFINE hs == dropBlock(gs, b, over)
  <1>1. CASE over.at # "block" \/ over.id = b \/ b \notin BlockIds(gs)
    <2>1. hs = gs
      BY <1>1 DEF dropBlock
    <2>2. QED BY <2>1
  <1>2. CASE over.at = "block" /\ over.id # b /\ b \in BlockIds(gs)
    <2>1. over.id \in BlockIds(gs)
      BY <1>2 DEF Known
    <2>2. PICK at \in DOMAIN gs : \E k \in DOMAIN gs[at].blocks :
            GroupOf(gs, b) = gs[at].id /\ gs[at].blocks[k].id = b
      BY <1>2, GroupOfBlock
    <2>3. PICK to \in DOMAIN gs : \E l \in DOMAIN gs[to].blocks :
            GroupOf(gs, over.id) = gs[to].id /\ gs[to].blocks[l].id = over.id
      BY <2>1, GroupOfBlock
    <2> DEFINE bs == gs[at].blocks
               cs == gs[to].blocks
    <2>4. PICK k \in DOMAIN bs : GroupOf(gs, b) = gs[at].id /\ bs[k].id = b
      BY <2>2
    <2>5. PICK l \in DOMAIN cs : GroupOf(gs, over.id) = gs[to].id /\ cs[l].id = over.id
      BY <2>3
    <2>6. IndexOf(gs, gs[at].id) = at /\ \A i \in DOMAIN gs : gs[i].id = gs[at].id <=> i = at
      BY GroupFound
    <2>7. IndexOf(bs, b) = k
      BY <2>4, BlockFound
    <2>8. IndexOf(cs, over.id) = l
      BY <2>5, BlockFound
    <2>9. /\ bs \in Seq(Block(n)) /\ BlockIdsOf(gs[at]) = IdsOf(bs)
          /\ BlockIdsOf(gs[at]) \subseteq BlockIds(gs)
      BY GroupAt
    <2>10. hs = IF gs[at].id = gs[to].id
                THEN MapId(gs, gs[at].id, LAMBDA group :
                       [group EXCEPT !.blocks =
                           arrayMove(@, IndexOf(@, b), IndexOf(@, over.id))])
                ELSE MapId(removeBlock(gs, gs[at].id, b), gs[to].id, LAMBDA group :
                       [group EXCEPT !.blocks = InsertAt(@, IndexOf(@, over.id) + 1, bs[k])])
      BY <1>2, <2>4, <2>5, <2>6, <2>7 DEF dropBlock
    <2>11. CASE at = to
      <3> DEFINE moved == arrayMove(bs, k, l)
      <3>1. hs = Put(gs, at, WithBlocks(gs[at], moved))
        BY <2>6, <2>7, <2>8, <2>10, <2>11 DEF MapId, Put, WithBlocks
      <3>2. k \in 1..Len(bs) /\ l \in 1..Len(bs)
        BY <2>9, <2>11, LenProperties
      <3>3. Rearranged(moved, bs) /\ ToSet(moved) = ToSet(bs)
        BY <2>9, <3>2, ArrayMoveRearranges
      <3> HIDE DEF moved
      <3>4. IdsOf(moved) = {x.id : x \in ToSet(moved)} /\ IdsOf(bs) = {x.id : x \in ToSet(bs)}
        BY DEF IdsOf, ToSet
      <3>5. IdsOf(moved) = IdsOf(bs)
        BY <3>3, <3>4
      <3>6. /\ GroupsOK(hs, n) /\ GroupIds(hs) = GroupIds(gs)
            /\ BlockIds(hs) = (BlockIds(gs) \ BlockIdsOf(gs[at])) \cup IdsOf(moved)
        BY <3>1, <3>3, BlocksRearranged
      <3>7. BlockIds(hs) = BlockIds(gs)
        BY <2>9, <3>5, <3>6
      <3>8. QED BY <3>6, <3>7
    <2>12. CASE at # to
      <3> DEFINE less == removeBlock(gs, gs[at].id, b)
                 block == bs[k]
      <3>1. block.id = b /\ block \in Block(n) /\ IdsDistinct(block.subs)
        BY <2>4, BlockAt
      <3>2. /\ GroupsOK(less, n) /\ GroupIds(less) = GroupIds(gs)
            /\ BlockIds(less) = BlockIds(gs) \ {b}
            /\ DOMAIN less = DOMAIN gs /\ \A i \in DOMAIN gs : i # at => less[i] = gs[i]
        BY <2>4, removeBlockOK
      <3>3. gs[at].id # gs[to].id
        BY <2>6, <2>12
      <3>4. hs = MapId(less, gs[to].id, LAMBDA group :
                   [group EXCEPT !.blocks = InsertAt(@, IndexOf(@, over.id) + 1, block)])
        BY <2>10, <3>3
      <3> HIDE DEF less, block
      <3>5. to \in DOMAIN less /\ less[to] = gs[to]
        BY <2>12, <3>2
      <3>6. \A i \in DOMAIN less : less[i].id = less[to].id <=> i = to
        BY <3>2, <3>5, GroupFound
      <3>7. hs = Put(less, to, WithBlocks(less[to], InsertAt(less[to].blocks, l + 1, block)))
        BY <2>8, <3>4, <3>5, <3>6 DEF MapId, Put, WithBlocks
      <3>8. l + 1 \in 1..(Len(less[to].blocks) + 1)
        <4>1. cs \in Seq(Block(n))
          BY GroupAt
        <4>2. QED BY <3>5, <4>1, LenProperties
      <3>9. Unused(less, block.id)
        BY <1>2, <3>1, <3>2 DEF Unused, GroupsOK
      <3>10. n <= n
        OBVIOUS
      <3>11. /\ GroupsOK(hs, n) /\ GroupIds(hs) = GroupIds(less)
             /\ BlockIds(hs) = BlockIds(less) \cup {block.id}
        BY <3>1, <3>2, <3>5, <3>7, <3>8, <3>9, <3>10, BlockArrives
      <3>12. BlockIds(hs) = BlockIds(gs)
        BY <1>2, <3>1, <3>2, <3>11
      <3>13. QED BY <3>2, <3>11, <3>12
    <2>13. QED BY <2>11, <2>12
  <1>3. QED BY <1>1, <1>2
-----------------------------------------------------------------------------
\* What GroupsOK says of the page.

\* As many block ids as blocks.
LEMMA BlocksCounted ==
    ASSUME NEW n \in Nat, NEW gs, GroupsOK(gs, n)
    PROVE  Cardinality(BlockIds(gs)) = TotalBlocks(gs)
  <1> DEFINE I == BlockIds(gs)
             P == BlockPlaces(gs)
             id(p) == gs[p[1]].blocks[p[2]].id
             place == [x \in I |-> CHOOSE p \in P : id(p) = x]
  <1>1. ASSUME NEW p
        PROVE  p \in P <=> \E i \in DOMAIN gs : \E k \in DOMAIN gs[i].blocks : p = <<i, k>>
    BY DEF BlockPlaces
  <1>2. ASSUME NEW i \in DOMAIN gs, NEW k \in DOMAIN gs[i].blocks
        PROVE  <<i, k>> \in P /\ id(<<i, k>>) = gs[i].blocks[k].id /\ id(<<i, k>>) \in BlockIdsOf(gs[i])
    BY DEF BlockPlaces, BlockIdsOf
  <1>3. ASSUME NEW p \in P, NEW q \in P, id(p) = id(q)
        PROVE  p = q
    <2>1. PICK i \in DOMAIN gs : \E k \in DOMAIN gs[i].blocks : p = <<i, k>>
      BY <1>1
    <2>2. PICK k \in DOMAIN gs[i].blocks : p = <<i, k>>
      BY <2>1
    <2>3. PICK j \in DOMAIN gs : \E l \in DOMAIN gs[j].blocks : q = <<j, l>>
      BY <1>1
    <2>4. PICK l \in DOMAIN gs[j].blocks : q = <<j, l>>
      BY <2>3
    <2>5. i = j
      <3>1. id(p) \in BlockIdsOf(gs[i]) /\ id(p) \in BlockIdsOf(gs[j])
        BY <1>2, <1>3, <2>2, <2>4
      <3>2. QED BY <3>1 DEF GroupsOK
    <2>6. gs[i].blocks[k].id = gs[i].blocks[l].id
      BY <1>2, <1>3, <2>2, <2>4, <2>5
    <2>7. IdsDistinct(gs[i].blocks)
      BY DEF GroupsOK, BlocksOK
    <2>8. k = l
      BY <2>4, <2>5, <2>6, <2>7 DEF IdsDistinct
    <2>9. QED BY <2>2, <2>4, <2>5, <2>8
  <1>4. ASSUME NEW x \in I
        PROVE  \E p \in P : id(p) = x
    <2>1. PICK i \in DOMAIN gs : x \in BlockIdsOf(gs[i])
      BY DEF BlockIds
    <2>2. PICK k \in DOMAIN gs[i].blocks : x = gs[i].blocks[k].id
      BY <2>1 DEF BlockIdsOf
    <2>3. QED BY <1>2, <2>2
  <1>5. ASSUME NEW p \in P
        PROVE  id(p) \in I
    <2>1. PICK i \in DOMAIN gs : \E k \in DOMAIN gs[i].blocks : p = <<i, k>>
      BY <1>1
    <2>2. PICK k \in DOMAIN gs[i].blocks : p = <<i, k>>
      BY <2>1
    <2>3. id(p) \in BlockIdsOf(gs[i])
      BY <1>2, <2>2
    <2>4. QED BY <2>3 DEF BlockIds
  <1>6. IsFiniteSet(I)
    <2>1. ASSUME NEW x \in I
          PROVE  x \in 1..n
      <3>1. PICK i \in DOMAIN gs : x \in BlockIdsOf(gs[i])
        BY DEF BlockIds
      <3>2. PICK k \in DOMAIN gs[i].blocks : x = gs[i].blocks[k].id
        BY <3>1 DEF BlockIdsOf
      <3>3. gs[i].blocks[k] \in Block(n)
        BY BlockAt
      <3>4. QED BY <3>2, <3>3, Zenon DEF Block
    <2>2. IsFiniteSet(1..n)
      BY FS_Interval
    <2>3. I \in SUBSET (1..n)
      BY <2>1
    <2>4. QED BY <2>2, <2>3, FS_Subset
  <1> HIDE DEF I, P, id
  <1>7. place \in [I -> P] /\ \A x \in I : id(place[x]) = x
    BY <1>4
  <1> HIDE DEF place
  <1>8. \A p \in P : place[id(p)] = p
    <2> TAKE p \in P
    <2>1. place[id(p)] \in P /\ id(place[id(p)]) = id(p)
      BY <1>5, <1>7
    <2>2. QED BY <1>3, <2>1
  <1>9. place \in Surjection(I, P)
    BY <1>5, <1>7, <1>8 DEF Surjection
  <1>10. place \in Injection(I, P)
    BY <1>7 DEF Injection, IsInjective
  <1>11. Cardinality(P) = Cardinality(I)
    BY <1>6, <1>9, <1>10, FS_Surjection
  <1>12. QED BY <1>11 DEF TotalBlocks, P, I

\* The parts of the builder's type and of IdsUnique that are about the groups.
LEMMA GroupsOKMeans ==
    ASSUME ids \in Nat, GroupsOK(groups, ids)
    PROVE  groups \in Seq(GroupType) /\ AtLeastOneGroup /\ IdsUnique
  <1>1. groups \in Seq(GroupType)
    BY DEF GroupsOK, Group, Block, Sub, GroupType, BlockType, SubType
  <1>2. AtLeastOneGroup
    BY DEF GroupsOK, AtLeastOneGroup
  <1>3. \A i, j \in DOMAIN groups : groups[i].id = groups[j].id => i = j
    BY DEF GroupsOK, IdsDistinct
  <1>4. Cardinality(BlockIds(groups)) = TotalBlocks(groups)
    BY BlocksCounted
  <1>5. BlockIds(groups) \cap GroupIds(groups) = {}
    BY DEF GroupsOK
  <1>6. ASSUME NEW i \in DOMAIN groups, NEW b \in ToSet(groups[i].blocks)
        PROVE  \A j, k \in DOMAIN b.subs : b.subs[j].id = b.subs[k].id => j = k
    <2>1. PICK k \in DOMAIN groups[i].blocks : b = groups[i].blocks[k]
      BY DEF ToSet
    <2>2. IdsDistinct(b.subs)
      BY <2>1, BlockAt
    <2>3. QED BY <2>2 DEF IdsDistinct
  <1>7. IdsUnique
    BY <1>3, <1>4, <1>5, <1>6 DEF IdsUnique
  <1>8. QED BY <1>1, <1>2, <1>7
-----------------------------------------------------------------------------
\* The canvas.

Node(n) == [id : 1..n, type : {"condition", "group"}, fields : SUBSET Fields,
            blockType : DOMAIN Builtin \cup {"__group__"}, combinator : {"AND", "OR"}]
Edge(n) == [source : 1..n, target : 1..n]

CanvasOK(ns, es, n) == ns \in Seq(Node(n)) /\ es \in Seq(Edge(n))

\* find: the first edge of a node, when it has one.
LEMMA OutEdgeProperties ==
    ASSUME NEW S, NEW es \in Seq(S), NEW id, OutEdge(es, id) # NoTarget
    PROVE  \E i \in DOMAIN es : es[i].source = id /\ es[i].target = OutEdge(es, id)
  <1> DEFINE T == {i \in DOMAIN es : es[i].source = id}
             First(i) == es[i].source = id /\ \A j \in 1..(i - 1) : es[j].source # id
  <1>1. T # {}
    BY DEF OutEdge
  <1>2. DOMAIN es = 1..Len(es) /\ Len(es) \in Nat
    BY LenProperties
  <1>3. T \in SUBSET Nat
    BY <1>2
  <1>4. PICK i \in T : \A j \in T : i <= j
    BY <1>1, <1>3, LeastNatural
  <1>5. First(i)
    <2>1. ASSUME NEW j \in 1..(i - 1)
          PROVE  es[j].source # id
      <3>1. i \in 1..Len(es) /\ j \in DOMAIN es /\ ~(i <= j)
        BY <1>2
      <3>2. QED BY <1>4, <3>1
    <2>2. QED BY <2>1
  <1> DEFINE at == CHOOSE j \in DOMAIN es : First(j)
  <1>6. OutEdge(es, id) = es[at].target
    BY <1>1 DEF OutEdge
  <1>7. at \in DOMAIN es /\ First(at)
    BY <1>5
  <1>8. QED BY <1>6, <1>7

LEMMA ConditionsListed ==
    ASSUME ids \in Nat, CanvasOK(nodes, edges, ids)
    PROVE  GroupsListTheirConditions
  <1> DEFINE saved == serializeToRule(nodes, edges)
  <1> SUFFICES ASSUME NEW c \in ToSet(saved.conditions), NEW g \in ToSet(saved.groups),
                      c.groupId = g.nodeId
               PROVE  c.nodeId \in ToSet(g.conditionIds)
    BY DEF GroupsListTheirConditions
  <1> DEFINE cs == NodesOf(nodes, "condition")
             ns == NodesOf(nodes, "group")
             conditions == [i \in DOMAIN cs |->
                              [nodeId |-> cs[i].id, groupId |-> OutEdge(edges, cs[i].id)]]
             grouped == [i \in DOMAIN ns |->
                           [nodeId |-> ns[i].id, combinator |-> ns[i].combinator,
                            conditionIds |-> ConditionIds(edges, ns[i].id)]]
  <1>1. saved.conditions = conditions /\ saved.groups = grouped
    <2>1. CASE Len(cs) = 1 /\ ns = <<>>
      <3>1. saved.groups = <<>>
        BY <2>1 DEF serializeToRule
      <3>2. DOMAIN <<>> = {}
        OBVIOUS
      <3>3. QED BY <3>1, <3>2 DEF ToSet
    <2>2. CASE ~(Len(cs) = 1 /\ ns = <<>>)
      BY <2>2 DEF serializeToRule
    <2>3. QED BY <2>1, <2>2
  <1>2. \E i \in DOMAIN cs : c.nodeId = cs[i].id /\ c.groupId = OutEdge(edges, cs[i].id)
    BY <1>1 DEF ToSet
  <1>3. \E j \in DOMAIN ns : g.nodeId = ns[j].id /\ g.conditionIds = ConditionIds(edges, ns[j].id)
    BY <1>1 DEF ToSet
  <1>4. PICK j \in DOMAIN ns : g.nodeId = ns[j].id /\ g.conditionIds = ConditionIds(edges, ns[j].id)
    BY <1>3
  <1>5. nodes \in Seq(Node(ids)) /\ edges \in Seq(Edge(ids))
    BY DEF CanvasOK
  <1>6. ns[j] \in Node(ids)
    <2> DEFINE at == {i \in DOMAIN nodes : nodes[i].type = "group"}
    <2>1. at \in SUBSET DOMAIN nodes /\ ns = Keep(nodes, at)
      BY DEF NodesOf
    <2>2. ns \in Seq(Node(ids))
      BY <1>5, <2>1, KeepRearranges, RearrangedTyped
    <2>3. QED BY <2>2, LenProperties, ElementOfSeq
  <1>7. ns[j].id \in 1..ids
    BY <1>6, Zenon DEF Node
  <1>8. c.groupId = OutEdge(edges, c.nodeId) /\ c.groupId = g.nodeId /\ g.nodeId \in 1..ids
    BY <1>2, <1>4, <1>7
  <1>9. OutEdge(edges, c.nodeId) # NoTarget
    BY <1>8 DEF NoTarget
  <1>10. PICK i \in DOMAIN edges : edges[i].source = c.nodeId /\ edges[i].target = g.nodeId
    <2> DEFINE x == c.nodeId
    <2>1. edges \in Seq(Edge(ids)) /\ OutEdge(edges, x) # NoTarget
      BY <1>5, <1>9
    <2> HIDE DEF x
    <2>2. \E i \in DOMAIN edges : edges[i].source = x /\ edges[i].target = OutEdge(edges, x)
      BY <2>1, OutEdgeProperties
    <2>3. QED BY <1>8, <2>2, Zenon DEF x
  <1> DEFINE at == {k \in DOMAIN edges : edges[k].target = g.nodeId}
             incoming == Keep(edges, at)
  <1>11. g.conditionIds = [k \in DOMAIN incoming |-> incoming[k].source]
    BY <1>4 DEF ConditionIds
  <1>12. edges[i] \in ToSet(incoming)
    <2>1. at \in SUBSET DOMAIN edges /\ i \in at
      BY <1>10
    <2>2. ToSet(incoming) = {edges[k] : k \in at}
      BY <1>5, <2>1, KeepRearranges
    <2>3. QED BY <2>1, <2>2
  <1> HIDE DEF incoming
  <1>13. PICK k \in DOMAIN incoming : edges[i] = incoming[k]
    BY <1>12 DEF ToSet
  <1>14. QED BY <1>10, <1>11, <1>13 DEF ToSet

LEMMA CanvasGrows ==
    ASSUME NEW n \in Nat, NEW m \in Nat, n <= m, NEW ns, NEW es, CanvasOK(ns, es, n)
    PROVE  CanvasOK(ns, es, m)
  <1>1. 1..n \subseteq 1..m
    OBVIOUS
  <1>2. Node(n) \subseteq Node(m) /\ Edge(n) \subseteq Edge(m)
    BY <1>1, Zenon DEF Node, Edge
  <1>3. QED BY <1>2, SeqMonotonic DEF CanvasOK

\* The parts that filter leaves are of the same type.
LEMMA KeepTyped ==
    ASSUME NEW S, NEW s \in Seq(S), NEW at \in SUBSET DOMAIN s
    PROVE  Keep(s, at) \in Seq(S)
  BY KeepRearranges, RearrangedTyped

LEMMA addNodeOK ==
    ASSUME NEW n \in Nat, NEW ns, NEW es, CanvasOK(ns, es, n)
    PROVE  /\ CanvasOK(Append(ns, GroupNode(n + 1)), es, n + 1)
           /\ \A type \in DOMAIN Builtin :
                CanvasOK(Append(ns, ConditionNode(n + 1, type)), es, n + 1)
  <1>1. n + 1 \in Nat /\ n <= n + 1 /\ n + 1 \in 1..(n + 1)
    OBVIOUS
  <1>2. ns \in Seq(Node(n + 1)) /\ es \in Seq(Edge(n + 1))
    BY <1>1, CanvasGrows DEF CanvasOK
  <1>3. GroupNode(n + 1) \in Node(n + 1)
    BY <1>1 DEF GroupNode, Node
  <1>4. ASSUME NEW type \in DOMAIN Builtin
        PROVE  ConditionNode(n + 1, type) \in Node(n + 1)
    BY <1>1 DEF ConditionNode, Node
  <1>5. ASSUME NEW node \in Node(n + 1)
        PROVE  CanvasOK(Append(ns, node), es, n + 1)
    BY <1>2, AppendProperties DEF CanvasOK
  <1>6. QED BY <1>3, <1>4, <1>5

LEMMA onConnectOK ==
    ASSUME NEW n \in Nat, NEW ns, NEW es, CanvasOK(ns, es, n),
           NEW a \in NodeIds(ns), NEW b \in NodeIds(ns)
    PROVE  CanvasOK(ns, onConnect(es, a, b), n)
  <1> DEFINE edge == [source |-> a, target |-> b]
  <1>1. ns \in Seq(Node(n)) /\ es \in Seq(Edge(n))
    BY DEF CanvasOK
  <1>2. ASSUME NEW x \in NodeIds(ns)
        PROVE  x \in 1..n
    <2>1. PICK i \in DOMAIN ns : x = ns[i].id
      BY DEF NodeIds
    <2>2. ns[i] \in Node(n)
      BY <1>1, LenProperties, ElementOfSeq
    <2>3. QED BY <2>1, <2>2, Zenon DEF Node
  <1>3. edge \in Edge(n)
    BY <1>2 DEF Edge
  <1>4. onConnect(es, a, b) = IF edge \in ToSet(es) THEN es ELSE Append(es, edge)
    BY DEF onConnect
  <1> HIDE DEF edge
  <1>5. Append(es, edge) \in Seq(Edge(n))
    BY <1>1, <1>3, AppendProperties
  <1>6. onConnect(es, a, b) \in Seq(Edge(n))
    BY <1>1, <1>4, <1>5
  <1>7. QED BY <1>1, <1>6 DEF CanvasOK

\* toggleCombinator and updateNode.
LEMMA changeNodeOK ==
    ASSUME NEW n \in Nat, NEW ns, NEW es, CanvasOK(ns, es, n), NEW id
    PROVE  /\ CanvasOK(toggleCombinator(ns, id), es, n)
           /\ \A field \in Fields : CanvasOK(updateNode(ns, id, field), es, n)
  <1>1. ns \in Seq(Node(n)) /\ es \in Seq(Edge(n))
    BY DEF CanvasOK
  <1>2. DOMAIN ns = 1..Len(ns) /\ Len(ns) \in Nat /\ \A i \in DOMAIN ns : ns[i] \in Node(n)
    BY <1>1, LenProperties, ElementOfSeq
  <1>3. ASSUME NEW f, DOMAIN f = DOMAIN ns, f = [i \in DOMAIN f |-> f[i]],
               \A i \in DOMAIN ns : f[i] \in Node(n)
        PROVE  CanvasOK(f, es, n)
    <2>1. f \in [1..Len(ns) -> Node(n)]
      BY <1>2, <1>3
    <2>2. QED BY <1>1, <1>2, <2>1, SeqDef DEF CanvasOK
  <1>4. CanvasOK(toggleCombinator(ns, id), es, n)
    <2> DEFINE f == toggleCombinator(ns, id)
    <2>1. DOMAIN f = DOMAIN ns /\ f = [i \in DOMAIN f |-> f[i]]
      BY DEF toggleCombinator, MapId
    <2>2. ASSUME NEW i \in DOMAIN ns
          PROVE  f[i] \in Node(n)
      <3>1. f[i] = IF ns[i].id = id
                   THEN [ns[i] EXCEPT !.combinator = IF @ = "AND" THEN "OR" ELSE "AND"]
                   ELSE ns[i]
        BY DEF toggleCombinator, MapId
      <3> DEFINE node == ns[i]
      <3>2. node \in Node(n)
        BY <1>2
      <3> HIDE DEF node, f
      <3>3. [node EXCEPT !.combinator = IF @ = "AND" THEN "OR" ELSE "AND"] \in Node(n)
        BY <3>2 DEF Node
      <3>4. QED BY <3>1, <3>2, <3>3 DEF node
    <2> HIDE DEF f
    <2>3. QED BY <1>3, <2>1, <2>2 DEF f
  <1>5. ASSUME NEW field \in Fields
        PROVE  CanvasOK(updateNode(ns, id, field), es, n)
    <2> DEFINE f == updateNode(ns, id, field)
               other(fields) == IF field \in fields THEN fields \ {field} ELSE fields \cup {field}
    <2>1. DOMAIN f = DOMAIN ns /\ f = [i \in DOMAIN f |-> f[i]]
      BY DEF updateNode, MapId
    <2>2. ASSUME NEW i \in DOMAIN ns
          PROVE  f[i] \in Node(n)
      <3>1. f[i] = IF ns[i].id = id THEN [ns[i] EXCEPT !.fields = other(@)] ELSE ns[i]
        BY DEF updateNode, MapId
      <3> DEFINE node == ns[i]
      <3>2. node \in Node(n)
        BY <1>2
      <3> HIDE DEF node, f
      <3>3. [node EXCEPT !.fields = other(@)] \in Node(n)
        BY <3>2 DEF Node
      <3>4. QED BY <3>1, <3>2, <3>3 DEF node
    <2> HIDE DEF f
    <2>3. QED BY <1>3, <2>1, <2>2 DEF f
  <1>6. QED BY <1>4, <1>5

LEMMA removeNodeOK ==
    ASSUME NEW n \in Nat, NEW ns, NEW es, CanvasOK(ns, es, n), NEW id
    PROVE  /\ CanvasOK(removeNode(ns, id), es, n)
           /\ CanvasOK(removeNode(ns, id), WithoutEdgesOf(es, id), n)
  <1>1. ns \in Seq(Node(n)) /\ es \in Seq(Edge(n))
    BY DEF CanvasOK
  <1>2. removeNode(ns, id) \in Seq(Node(n))
    <2> DEFINE at == {i \in DOMAIN ns : ns[i].id # id}
    <2>1. removeNode(ns, id) = Keep(ns, at) /\ at \in SUBSET DOMAIN ns
      BY DEF removeNode, FilterId
    <2>2. QED BY <1>1, <2>1, KeepTyped
  <1>3. WithoutEdgesOf(es, id) \in Seq(Edge(n))
    <2> DEFINE at == {i \in DOMAIN es : es[i].source # id /\ es[i].target # id}
    <2>1. WithoutEdgesOf(es, id) = Keep(es, at) /\ at \in SUBSET DOMAIN es
      BY DEF WithoutEdgesOf
    <2>2. QED BY <1>1, <2>1, KeepTyped
  <1>4. QED BY <1>1, <1>2, <1>3 DEF CanvasOK

LEMMA removeEdgeOK ==
    ASSUME NEW n \in Nat, NEW ns, NEW es, CanvasOK(ns, es, n), NEW edge
    PROVE  CanvasOK(ns, removeEdge(es, edge), n)
  <1> DEFINE at == {i \in DOMAIN es : es[i] # edge}
  <1>1. removeEdge(es, edge) = Keep(es, at) /\ at \in SUBSET DOMAIN es
    BY DEF removeEdge
  <1>2. QED BY <1>1, KeepTyped DEF CanvasOK
-----------------------------------------------------------------------------
\* The inductive invariant.

\* Groups, canvas and the counter of their ids.
RuleOK ==
    /\ ids \in 1..MaxIds
    /\ GroupsOK(groups, ids) /\ CanvasOK(nodes, edges, ids)
    /\ groupCombinator \in {"AND", "OR"}

\* Block types, with the value kind of each.
DefsOK(f, types) == DOMAIN f \subseteq types /\ \A x \in DOMAIN f : f[x] \in Kinds

\* The custom blocks: the page and localStorage hold the same, and no built-in one.
PaletteOK ==
    /\ DefsOK(customBlockDefs, DefIds) /\ storage = customBlockDefs
    /\ registry = Merge(customBlockDefs, Builtin)
    /\ made \subseteq DefIds
    /\ dialog \in [open : BOOLEAN, editing : {"none"} \cup DefIds]

\* What is dragged need not be on the page any more when it is dropped.
DragOK ==
    drag \in [kind : {"none", "palette", "group", "block"}, id : 0..ids,
             type : {"none"} \cup DOMAIN Builtin \cup DefIds]

\* A timer that hides the alert stands for a save, and a save is an edit.
NoticesOK ==
    /\ mode \in {"simple", "flow"} /\ test \in {"none", "running", "shown"}
    /\ savedAlert \in BOOLEAN
    /\ hides \in Nat /\ edits \in Nat /\ hides <= edits /\ edits <= MaxEdits

BuilderInv == RuleOK /\ PaletteOK /\ DragOK /\ NoticesOK
LEMMA MergeOK ==
    ASSUME NEW f, NEW g, NEW T, DefsOK(f, T), DefsOK(g, T)
    PROVE  DefsOK(Merge(f, g), T)
  BY DEF DefsOK, Merge

\* What is registered before is no part of the result when it is registered again.
LEMMA MergeAgain ==
    ASSUME NEW f, NEW g, NEW h, DOMAIN g \subseteq DOMAIN f
    PROVE  Merge(f, Merge(g, h)) = Merge(f, h)
  BY DEF Merge

LEMMA PaletteTypes ==
    ASSUME PaletteOK
    PROVE  /\ DefsOK(customBlockDefs, DOMAIN Builtin \cup DefIds)
           /\ DefsOK(registry, DOMAIN Builtin \cup DefIds)
           /\ DOMAIN registry = DOMAIN Builtin \cup DOMAIN customBlockDefs
  <1> DEFINE all == DOMAIN Builtin \cup DefIds
  <1>1. DefsOK(customBlockDefs, all)
    BY DEF PaletteOK, DefsOK
  <1>2. DefsOK(Builtin, all)
    BY BuilderAssumption DEF DefsOK
  <1>3. registry = Merge(customBlockDefs, Builtin)
    BY DEF PaletteOK
  <1> HIDE DEF all
  <1>4. DefsOK(registry, all)
    BY <1>1, <1>2, <1>3, MergeOK
  <1>5. DOMAIN registry = DOMAIN Builtin \cup DOMAIN customBlockDefs
    BY <1>3 DEF Merge
  <1>6. QED BY <1>1, <1>4, <1>5 DEF all

LEMMA BuilderInvMeans ==
    ASSUME BuilderInv
    PROVE  BuilderTypeOK /\ RuleWellFormed /\ PaletteAgrees
  <1>1. ids \in 1..MaxIds /\ ids \in Nat /\ GroupsOK(groups, ids) /\ CanvasOK(nodes, edges, ids)
    BY BuilderAssumption DEF BuilderInv, RuleOK
  <1>2. groups \in Seq(GroupType) /\ AtLeastOneGroup /\ IdsUnique
    BY <1>1, GroupsOKMeans
  <1>3. nodes \in Seq(NodeType) /\ edges \in Seq([source : 1..ids, target : 1..ids])
    BY <1>1 DEF CanvasOK, Node, Edge, NodeType
  <1>4. PaletteAgrees
    BY DEF BuilderInv, PaletteOK, PaletteAgrees
  <1>5. \A f \in {customBlockDefs, storage, registry} :
          DOMAIN f \subseteq DOMAIN Builtin \cup DefIds /\ \A x \in DOMAIN f : f[x] \in Kinds
    BY PaletteTypes DEF BuilderInv, PaletteOK, DefsOK
  <1>6. /\ groupCombinator \in {"AND", "OR"} /\ mode \in {"simple", "flow"}
        /\ made \subseteq DefIds /\ dialog \in [open : BOOLEAN, editing : {"none"} \cup DefIds]
        /\ drag \in [kind : {"none", "palette", "group", "block"}, id : 0..ids,
                     type : {"none"} \cup DOMAIN Builtin \cup DefIds]
        /\ test \in {"none", "running", "shown"} /\ savedAlert \in BOOLEAN
    BY DEF BuilderInv, RuleOK, PaletteOK, DragOK, NoticesOK
  <1>7. hides \in 0..MaxEdits /\ edits \in 0..MaxEdits
    BY BuilderAssumption DEF BuilderInv, NoticesOK
  <1>8. BuilderTypeOK
    BY <1>1, <1>2, <1>3, <1>5, <1>6, <1>7, Zenon DEF BuilderTypeOK
  <1>9. RuleWellFormed
    BY <1>1, <1>2, <1>4, ConditionsListed DEF RuleWellFormed
  <1>10. QED BY <1>4, <1>8, <1>9

LEMMA BuilderInit_Inv ==
    ASSUME BuilderInit
    PROVE  BuilderInv
  <1>1. DOMAIN <<>> = {} /\ \A S : <<>> \in Seq(S)
    OBVIOUS
  <1>2. ids \in 1..MaxIds /\ ids \in Nat /\ 1 \in 1..ids
    BY BuilderAssumption DEF BuilderInit
  <1>3. GroupsOK(groups, ids)
    BY <1>2, OneGroupOK DEF BuilderInit
  <1>4. RuleOK
    BY <1>1, <1>2, <1>3 DEF RuleOK, CanvasOK, BuilderInit
  <1>5. PaletteOK
    <2>1. /\ customBlockDefs = <<>> /\ storage = <<>> /\ registry = Builtin /\ made = {}
          /\ dialog = NoDialog
      BY DEF BuilderInit
    <2>2. DefsOK(customBlockDefs, DefIds)
      BY <1>1, <2>1 DEF DefsOK
    <2>3. registry = Merge(customBlockDefs, Builtin)
      <3>1. Builtin = [t \in DOMAIN Builtin |-> Builtin[t]]
        BY BuilderAssumption
      <3>2. QED BY <1>1, <2>1, <3>1 DEF Merge
    <2>4. QED BY <2>1, <2>2, <2>3 DEF PaletteOK, NoDialog
  <1>6. DragOK
    BY <1>2 DEF DragOK, BuilderInit, NoDrag
  <1>7. NoticesOK
    <2>1. mode = "simple" /\ test = "none" /\ savedAlert = FALSE /\ hides = 0 /\ edits = 0
      BY DEF BuilderInit
    <2>2. 0 \in Nat /\ 0 <= 0 /\ 0 <= MaxEdits
      BY BuilderAssumption
    <2>3. QED BY <2>1, <2>2 DEF NoticesOK
  <1>8. QED BY <1>4, <1>5, <1>6, <1>7 DEF BuilderInv

\* What a step leaves alone stays as it was.
LEMMA RuleStays ==
    ASSUME RuleOK, UNCHANGED <<groups, groupCombinator, nodes, edges, ids>>
    PROVE  RuleOK'
  BY DEF RuleOK

LEMMA PaletteStays ==
    ASSUME PaletteOK, UNCHANGED <<customBlockDefs, storage, registry, made, dialog>>
    PROVE  PaletteOK'
  BY DEF PaletteOK

LEMMA DragStays ==
    ASSUME DragOK, ids \in Nat, ids' \in Nat, ids <= ids', drag' = drag
    PROVE  DragOK'
  <1>1. 0..ids \subseteq 0..ids'
    OBVIOUS
  <1>2. QED BY <1>1, Zenon DEF DragOK

LEMMA DragEnds ==
    ASSUME ids' \in Nat, drag' = NoDrag
    PROVE  DragOK'
  <1>1. 0 \in 0..ids'
    OBVIOUS
  <1>2. QED BY <1>1 DEF DragOK, NoDrag

LEMMA NoticesStay ==
    ASSUME NoticesOK, UNCHANGED <<mode, test, savedAlert, hides>>, edits' = edits \/ Edit
    PROVE  NoticesOK'
  BY BuilderAssumption DEF NoticesOK, Edit

LEMMA Drawn ==
    ASSUME BuilderInv, NEW n \in Nat, Draw(n)
    PROVE  /\ ids \in Nat /\ ids' = ids + n /\ ids' \in Nat
           /\ ids' \in 1..MaxIds /\ ids <= ids'
  BY BuilderAssumption DEF BuilderInv, RuleOK, Draw

\* An event that changes the groups: it ends a drag, or is an edit during one or none.
LEMMA GroupsStep ==
    ASSUME BuilderInv, drag' \in {drag, NoDrag}, ids' \in 1..MaxIds, ids <= ids', GroupsOK(groups', ids'),
           groupCombinator' \in {"AND", "OR"}, edits' = edits \/ Edit,
           UNCHANGED <<nodes, edges, mode, customBlockDefs, storage, registry, made, dialog,
                       test, savedAlert, hides>>
    PROVE  BuilderInv'
  <1>1. ids \in Nat /\ ids' \in Nat
    BY BuilderAssumption DEF BuilderInv, RuleOK
  <1>2. CanvasOK(nodes, edges, ids')
    BY <1>1, CanvasGrows DEF BuilderInv, RuleOK
  <1>3. RuleOK'
    BY <1>2 DEF RuleOK
  <1>4. PaletteOK' /\ NoticesOK'
    BY PaletteStays, NoticesStay DEF BuilderInv
  <1>5. DragOK'
    BY <1>1, DragEnds, DragStays DEF BuilderInv
  <1>6. QED BY <1>3, <1>4, <1>5 DEF BuilderInv

\* The same with no id drawn.
LEMMA GroupsStepNoDraw ==
    ASSUME BuilderInv, drag' \in {drag, NoDrag}, GroupsOK(groups', ids), edits' = edits \/ Edit,
           UNCHANGED <<groupCombinator, nodes, edges, mode, customBlockDefs, storage, registry,
                       made, dialog, test, savedAlert, hides, ids>>
    PROVE  BuilderInv'
  <1>1. ids' \in 1..MaxIds /\ ids <= ids' /\ GroupsOK(groups', ids')
    BY BuilderAssumption DEF BuilderInv, RuleOK
  <1>2. groupCombinator' \in {"AND", "OR"}
    BY DEF BuilderInv, RuleOK
  <1>3. QED BY <1>1, <1>2, GroupsStep

LEMMA ShownGroup ==
    ASSUME NEW group \in ShownGroups
    PROVE  \E at \in DOMAIN groups : group = groups[at]
  BY DEF ShownGroups

LEMMA ShownBlock ==
    ASSUME NEW group, NEW b, b \in ShownBlocks(group) \/ b \in OpenBodies(group)
    PROVE  \E k \in DOMAIN group.blocks : b = group.blocks[k]
  BY DEF ShownBlocks, OpenBodies, ToSet
-----------------------------------------------------------------------------
\* The events that change the groups.

LEMMA AddGroupInv ==
    ASSUME BuilderInv, AddGroup
    PROVE  BuilderInv'
  <1>1. ids \in Nat /\ ids' = ids + 1 /\ ids' \in 1..MaxIds /\ ids <= ids'
    BY Drawn DEF AddGroup
  <1>2. GroupsOK(groups', ids')
    BY <1>1, addGroupOK DEF AddGroup, Change, BuilderInv, RuleOK
  <1>3. groupCombinator' \in {"AND", "OR"}
    BY DEF AddGroup, BuilderInv, RuleOK
  <1>4. QED BY <1>1, <1>2, <1>3, GroupsStep DEF AddGroup, canvas, palette, notices

LEMMA RemoveGroupInv ==
    ASSUME BuilderInv, RemoveGroup
    PROVE  BuilderInv'
  <1>1. ids \in Nat /\ GroupsOK(groups, ids)
    BY BuilderAssumption DEF BuilderInv, RuleOK
  <1>2. PICK group \in ShownGroups : groups' = removeGroup(groups, group.id)
    BY DEF RemoveGroup, Change
  <1>3. PICK at \in DOMAIN groups : group = groups[at]
    BY ShownGroup
  <1>4. GroupsOK(groups', ids)
    BY <1>1, <1>2, <1>3, removeGroupOK
  <1>5. QED BY <1>4, GroupsStepNoDraw DEF RemoveGroup, canvas, palette, notices

LEMMA DuplicateGroupInv ==
    ASSUME BuilderInv, DuplicateGroup
    PROVE  BuilderInv'
  <1>1. ids \in Nat /\ GroupsOK(groups, ids)
    BY BuilderAssumption DEF BuilderInv, RuleOK
  <1>2. PICK group \in ShownGroups : Draw(1 + Len(group.blocks))
                                     /\ groups' = duplicateGroup(groups, group.id, ids + 1)
    BY DEF DuplicateGroup, Change
  <1>3. PICK at \in DOMAIN groups : group = groups[at]
    BY ShownGroup
  <1> DEFINE len == Len(groups[at].blocks)
  <1>4. len \in Nat
    BY <1>1, GroupAt, LenProperties
  <1>5. Draw(1 + len) /\ groups' = duplicateGroup(groups, groups[at].id, ids + 1)
    BY <1>2, <1>3
  <1>6. GroupsOK(groups', ids + 1 + len)
    BY <1>1, <1>5, duplicateGroupOK
  <1> HIDE DEF len
  <1>7. 1 + len \in Nat
    BY <1>4
  <1>8. ids' = ids + (1 + len) /\ ids' \in 1..MaxIds /\ ids <= ids'
    BY <1>5, <1>7, Drawn
  <1>9. ids' = ids + 1 + len
    BY <1>1, <1>4, <1>8
  <1>10. GroupsOK(groups', ids')
    BY <1>6, <1>9
  <1>11. groupCombinator' \in {"AND", "OR"}
    BY DEF DuplicateGroup, BuilderInv, RuleOK
  <1>12. QED BY <1>8, <1>10, <1>11, GroupsStep DEF DuplicateGroup, canvas, palette, notices

LEMMA ClearAllInv ==
    ASSUME BuilderInv, ClearAll
    PROVE  BuilderInv'
  <1>1. ids \in Nat /\ ids' = ids + 1 /\ ids' \in Nat /\ ids' \in 1..MaxIds /\ ids <= ids'
    BY Drawn DEF ClearAll
  <1>2. GroupsOK(groups', ids')
    BY <1>1, OneGroupOK DEF ClearAll, Change
  <1>3. groupCombinator' \in {"AND", "OR"}
    BY DEF ClearAll, BuilderInv, RuleOK
  <1>4. QED BY <1>1, <1>2, <1>3, GroupsStep DEF ClearAll, canvas, palette, notices

LEMMA ToggleGroupInv ==
    ASSUME BuilderInv, ToggleGroup
    PROVE  BuilderInv'
  <1>1. ids \in Nat /\ GroupsOK(groups, ids)
    BY BuilderAssumption DEF BuilderInv, RuleOK
  <1>2. PICK group \in ShownGroups : \/ groups' = toggleGroupCollapsed(groups, group.id)
                                     \/ groups' = toggleGroupCombinator(groups, group.id)
    BY DEF ToggleGroup, Change
  <1>3. PICK at \in DOMAIN groups : group = groups[at]
    BY ShownGroup
  <1>4. GroupsOK(groups', ids)
    BY <1>1, <1>2, <1>3, toggleGroupOK
  <1>5. QED BY <1>4, GroupsStepNoDraw DEF ToggleGroup, canvas, palette, notices

LEMMA ToggleGroupLogicInv ==
    ASSUME BuilderInv, ToggleGroupLogic
    PROVE  BuilderInv'
  <1>1. ids' \in 1..MaxIds /\ ids <= ids' /\ GroupsOK(groups', ids')
    BY BuilderAssumption DEF BuilderInv, RuleOK, ToggleGroupLogic
  <1>2. groupCombinator' \in {"AND", "OR"}
    BY DEF ToggleGroupLogic, Flip
  <1>3. QED BY <1>1, <1>2, GroupsStep DEF ToggleGroupLogic, canvas, palette, notices

LEMMA AddBlockInv ==
    ASSUME BuilderInv, AddBlock
    PROVE  BuilderInv'
  <1>1. /\ ids \in Nat /\ ids' = ids + 1 /\ ids' \in Nat /\ ids' \in 1..MaxIds /\ ids <= ids'
        /\ ids < ids' /\ GroupsOK(groups, ids)
    BY Drawn DEF AddBlock, BuilderInv, RuleOK
  <1>2. ASSUME NEW type \in DOMAIN Builtin \cup DefIds, NEW at \in DOMAIN groups
        PROVE  GroupsOK(addBlockToGroup(groups, groups[at].id, makeBlock(ids + 1, type)), ids')
    <2> DEFINE new == makeBlock(ids + 1, type)
    <2>1. ids + 1 \in 1..ids'
      BY <1>1
    <2>2. new \in Block(ids') /\ new.id = ids + 1 /\ IdsDistinct(new.subs)
      BY <1>1, <2>1, MakeTyped
    <2> HIDE DEF new
    <2>3. Unused(groups, new.id)
      BY <1>1, <2>2, FreshIsUnused
    <2>4. GroupsOK(addBlockToGroup(groups, groups[at].id, new), ids')
      BY <1>1, <2>2, <2>3, addBlockToGroupOK
    <2>5. QED BY <2>4 DEF new
  <1>3. ASSUME \E group \in ShownGroups :
                 groups' = addBlockToGroup(groups, group.id, makeBlock(ids + 1, "not_null"))
        PROVE  GroupsOK(groups', ids')
    <2>1. PICK group \in ShownGroups :
            groups' = addBlockToGroup(groups, group.id, makeBlock(ids + 1, "not_null"))
      BY <1>3
    <2>2. PICK at \in DOMAIN groups : group = groups[at]
      BY ShownGroup
    <2>3. "not_null" \in DOMAIN Builtin
      BY BuilderAssumption
    <2>4. QED BY <1>2, <2>1, <2>2, <2>3
  <1>4. ASSUME \E type \in DOMAIN Builtin \cup DOMAIN customBlockDefs :
                 groups' = addBlockToGroup(groups, LastGroup(groups), makeBlock(ids + 1, type))
        PROVE  GroupsOK(groups', ids')
    <2>1. PICK type \in DOMAIN Builtin \cup DOMAIN customBlockDefs :
            groups' = addBlockToGroup(groups, LastGroup(groups), makeBlock(ids + 1, type))
      BY <1>4
    <2>2. type \in DOMAIN Builtin \cup DefIds
      BY DEF BuilderInv, PaletteOK, DefsOK
    <2>3. Len(groups) \in DOMAIN groups
      <3>1. groups \in Seq(Group(ids)) /\ groups # <<>>
        BY <1>1 DEF GroupsOK
      <3>2. QED BY <3>1, LenProperties, EmptySeq
    <2>4. QED BY <1>2, <2>1, <2>2, <2>3 DEF LastGroup
  <1>5. GroupsOK(groups', ids')
    BY <1>3, <1>4 DEF AddBlock, Change
  <1>6. groupCombinator' \in {"AND", "OR"}
    BY DEF AddBlock, BuilderInv, RuleOK
  <1>7. QED BY <1>1, <1>5, <1>6, GroupsStep DEF AddBlock, canvas, palette, notices

\* RemoveBlock, ToggleBlock and UpdateBlock.
LEMMA ChangeBlockInv ==
    ASSUME BuilderInv, RemoveBlock \/ ToggleBlock \/ UpdateBlock
    PROVE  BuilderInv'
  <1>1. ids \in Nat /\ GroupsOK(groups, ids)
    BY BuilderAssumption DEF BuilderInv, RuleOK
  <1>2. ASSUME NEW group \in ShownGroups, NEW b, b \in ShownBlocks(group) \/ b \in OpenBodies(group)
        PROVE  \E at \in DOMAIN groups : \E k \in DOMAIN groups[at].blocks :
                 group = groups[at] /\ b = groups[at].blocks[k]
    <2>1. PICK at \in DOMAIN groups : group = groups[at]
      BY ShownGroup
    <2>2. PICK k \in DOMAIN group.blocks : b = group.blocks[k]
      BY <1>2, ShownBlock
    <2>3. QED BY <2>1, <2>2
  <1>3. CASE RemoveBlock
    <2>1. PICK group \in ShownGroups : \E b \in ShownBlocks(group) :
            groups' = removeBlock(groups, group.id, b.id)
      BY <1>3 DEF RemoveBlock, Change
    <2>2. PICK b \in ShownBlocks(group) : groups' = removeBlock(groups, group.id, b.id)
      BY <2>1
    <2>3. PICK at \in DOMAIN groups : \E k \in DOMAIN groups[at].blocks :
            group = groups[at] /\ b = groups[at].blocks[k]
      BY <1>2
    <2>4. GroupsOK(groups', ids)
      BY <1>1, <2>2, <2>3, removeBlockOK
    <2>5. QED BY <1>3, <2>4, GroupsStepNoDraw DEF RemoveBlock, canvas, palette, notices
  <1>4. CASE ToggleBlock
    <2>1. PICK group \in ShownGroups : \E b \in ShownBlocks(group) : \E way \in Flags :
            groups' = toggleBlock(groups, group.id, b.id, way)
      BY <1>4 DEF ToggleBlock, Change
    <2>2. PICK b \in ShownBlocks(group), way \in Flags :
            groups' = toggleBlock(groups, group.id, b.id, way)
      BY <2>1
    <2>3. PICK at \in DOMAIN groups : \E k \in DOMAIN groups[at].blocks :
            group = groups[at] /\ b = groups[at].blocks[k]
      BY <1>2
    <2>4. way \in Switches
      BY BuilderAssumption
    <2>5. GroupsOK(groups', ids)
      BY <1>1, <2>2, <2>3, <2>4, changeBlockOK
    <2>6. QED BY <1>4, <2>5, GroupsStepNoDraw DEF ToggleBlock, canvas, palette, notices
  <1>5. CASE UpdateBlock
    <2>1. PICK group \in ShownGroups : \E b \in OpenBodies(group) : \E field \in EditFields :
            groups' = updateBlock(groups, group.id, b.id, field)
      BY <1>5 DEF UpdateBlock, Change
    <2>2. PICK b \in OpenBodies(group), field \in EditFields :
            groups' = updateBlock(groups, group.id, b.id, field)
      BY <2>1
    <2>3. PICK at \in DOMAIN groups : \E k \in DOMAIN groups[at].blocks :
            group = groups[at] /\ b = groups[at].blocks[k]
      BY <1>2
    <2>4. field \in Fields
      BY BuilderAssumption
    <2>5. GroupsOK(groups', ids)
      BY <1>1, <2>2, <2>3, <2>4, changeBlockOK
    <2>6. QED BY <1>5, <2>5, GroupsStepNoDraw DEF UpdateBlock, canvas, palette, notices
  <1>6. QED BY <1>3, <1>4, <1>5

LEMMA DuplicateBlockInv ==
    ASSUME BuilderInv, DuplicateBlock
    PROVE  BuilderInv'
  <1>1. ids \in Nat /\ GroupsOK(groups, ids)
    BY BuilderAssumption DEF BuilderInv, RuleOK
  <1>2. PICK group \in ShownGroups : \E b \in ShownBlocks(group) :
          Draw(1 + Len(b.subs)) /\ groups' = duplicateBlock(groups, group.id, b.id, ids + 1)
    BY DEF DuplicateBlock, Change
  <1>3. PICK b \in ShownBlocks(group) :
          Draw(1 + Len(b.subs)) /\ groups' = duplicateBlock(groups, group.id, b.id, ids + 1)
    BY <1>2
  <1>4. PICK at \in DOMAIN groups : group = groups[at]
    BY ShownGroup
  <1>5. PICK k \in DOMAIN groups[at].blocks : b = groups[at].blocks[k]
    BY <1>4, ShownBlock
  <1> DEFINE len == Len(groups[at].blocks[k].subs)
  <1>6. len \in Nat
    BY <1>1, BlockAt, LenProperties
  <1>7. Draw(1 + len)
        /\ groups' = duplicateBlock(groups, groups[at].id, groups[at].blocks[k].id, ids + 1)
    BY <1>3, <1>4, <1>5
  <1>8. GroupsOK(groups', ids + 1 + len)
    BY <1>1, <1>7, duplicateBlockOK
  <1> HIDE DEF len
  <1>9. 1 + len \in Nat
    BY <1>6
  <1>10. ids' = ids + (1 + len) /\ ids' \in 1..MaxIds /\ ids <= ids'
    BY <1>7, <1>9, Drawn
  <1>11. ids' = ids + 1 + len
    BY <1>1, <1>6, <1>10
  <1>12. GroupsOK(groups', ids')
    BY <1>8, <1>11
  <1>13. groupCombinator' \in {"AND", "OR"}
    BY DEF DuplicateBlock, BuilderInv, RuleOK
  <1>14. QED BY <1>10, <1>12, <1>13, GroupsStep DEF DuplicateBlock, canvas, palette, notices

LEMMA AddSubConditionInv ==
    ASSUME BuilderInv, AddSubCondition
    PROVE  BuilderInv'
  <1>1. /\ ids \in Nat /\ ids' = ids + 1 /\ ids' \in Nat /\ ids' \in 1..MaxIds /\ ids <= ids'
        /\ GroupsOK(groups, ids)
    BY Drawn DEF AddSubCondition, BuilderInv, RuleOK
  <1> DEFINE sub == makeSubCondition(ids + 1, "not_null")
  <1>2. PICK group \in ShownGroups : \E b \in OpenBodies(group) :
          groups' = addSubCondition(groups, group.id, b.id, sub)
    BY DEF AddSubCondition, Change
  <1>3. PICK b \in OpenBodies(group) : groups' = addSubCondition(groups, group.id, b.id, sub)
    BY <1>2
  <1>4. PICK at \in DOMAIN groups : group = groups[at]
    BY ShownGroup
  <1>5. PICK k \in DOMAIN groups[at].blocks : b = groups[at].blocks[k]
    BY <1>4, ShownBlock
  <1>6. sub \in Sub(ids + 1) /\ sub.id = ids + 1
    <2>1. ids + 1 \in Nat /\ ids + 1 \in 1..(ids + 1) /\ "not_null" \in DOMAIN Builtin
      BY <1>1, BuilderAssumption
    <2>2. QED BY <2>1, MakeTyped
  <1> HIDE DEF sub
  <1>7. GroupsOK(groups', ids + 1)
    BY <1>1, <1>3, <1>4, <1>5, <1>6, addSubConditionOK
  <1>8. groupCombinator' \in {"AND", "OR"}
    BY DEF AddSubCondition, BuilderInv, RuleOK
  <1>9. QED BY <1>1, <1>7, <1>8, GroupsStep DEF AddSubCondition, canvas, palette, notices

LEMMA ChangeSubConditionInv ==
    ASSUME BuilderInv, ChangeSubCondition
    PROVE  BuilderInv'
  <1>1. ids \in Nat /\ GroupsOK(groups, ids)
    BY BuilderAssumption DEF BuilderInv, RuleOK
  <1> DEFINE Changed(g, b, s) ==
               \/ groups' = removeSubCondition(groups, g, b, s)
               \/ groups' = toggleSubLogic(groups, g, b, s)
               \/ \E field \in Fields : groups' = updateSubCondition(groups, g, b, s, field)
  <1>2. PICK group \in ShownGroups : \E b \in OpenBodies(group) : \E s \in ToSet(b.subs) :
          Changed(group.id, b.id, s.id)
    BY BuilderAssumption DEF ChangeSubCondition, Change
  <1>3. PICK b \in OpenBodies(group) : \E s \in ToSet(b.subs) : Changed(group.id, b.id, s.id)
    BY <1>2
  <1>4. PICK s \in ToSet(b.subs) : Changed(group.id, b.id, s.id)
    BY <1>3
  <1>5. PICK at \in DOMAIN groups : group = groups[at]
    BY ShownGroup
  <1>6. PICK k \in DOMAIN groups[at].blocks : b = groups[at].blocks[k]
    BY <1>5, ShownBlock
  <1>7. PICK j \in DOMAIN groups[at].blocks[k].subs : s = groups[at].blocks[k].subs[j]
    BY <1>6 DEF ToSet
  <1>8. Changed(groups[at].id, groups[at].blocks[k].id, groups[at].blocks[k].subs[j].id)
    BY <1>4, <1>5, <1>6, <1>7
  <1>9. GroupsOK(groups', ids)
    BY <1>1, <1>8, changeSubOK
  <1>10. QED BY <1>9, GroupsStepNoDraw DEF ChangeSubCondition, canvas, palette, notices
-----------------------------------------------------------------------------
\* The events of drag and drop.

LEMMA DragStartInv ==
    ASSUME BuilderInv, DragStart
    PROVE  BuilderInv'
  <1>1. ids \in Nat /\ ids' = ids /\ groups' = groups /\ GroupsOK(groups, ids)
    BY BuilderAssumption DEF DragStart, BuilderInv, RuleOK, rule
  <1>2. RuleOK' /\ PaletteOK' /\ NoticesOK'
    BY RuleStays, PaletteStays, NoticesStay
       DEF BuilderInv, DragStart, rule, canvas, palette, notices
  <1>3. DragOK'
    <2>1. CASE \E t \in DOMAIN Builtin \cup DOMAIN customBlockDefs :
                 drag' = [kind |-> "palette", id |-> 0, type |-> t]
      <3>1. PICK t \in DOMAIN Builtin \cup DOMAIN customBlockDefs :
              drag' = [kind |-> "palette", id |-> 0, type |-> t]
        BY <2>1
      <3>2. t \in DOMAIN Builtin \cup DefIds
        BY PaletteTypes DEF BuilderInv, DefsOK
      <3>3. 0 \in 0..ids
        BY <1>1
      <3>4. QED BY <1>1, <3>1, <3>2, <3>3 DEF DragOK
    <2>2. CASE \E group \in ShownGroups :
                 drag' = [kind |-> "group", id |-> group.id, type |-> "none"]
      <3>1. PICK group \in ShownGroups :
              drag' = [kind |-> "group", id |-> group.id, type |-> "none"]
        BY <2>2
      <3>2. PICK at \in DOMAIN groups : group = groups[at]
        BY ShownGroup
      <3>3. groups[at].id \in 1..ids
        BY <1>1, GroupAt
      <3>4. groups[at].id \in 0..ids
        BY <1>1, <3>3
      <3>5. QED BY <1>1, <3>1, <3>2, <3>3, <3>4 DEF DragOK
    <2>3. CASE \E b \in UNION {ShownBlocks(group) : group \in ShownGroups} :
                 drag' = [kind |-> "block", id |-> b.id, type |-> b.type]
      <3>1. PICK group \in ShownGroups : \E b \in ShownBlocks(group) :
              drag' = [kind |-> "block", id |-> b.id, type |-> b.type]
        BY <2>3
      <3>2. PICK b \in ShownBlocks(group) :
              drag' = [kind |-> "block", id |-> b.id, type |-> b.type]
        BY <3>1
      <3>3. PICK at \in DOMAIN groups : group = groups[at]
        BY ShownGroup
      <3>4. PICK k \in DOMAIN groups[at].blocks : b = groups[at].blocks[k]
        BY <3>3, ShownBlock
      <3>5. b \in Block(ids)
        BY <1>1, <3>4, BlockAt
      <3>6. b.id \in 1..ids /\ b.type \in DOMAIN Builtin \cup DefIds
        BY <3>5, Zenon DEF Block
      <3>7. b.id \in 0..ids
        BY <1>1, <3>6
      <3>8. QED BY <1>1, <3>2, <3>6, <3>7 DEF DragOK
    <2>4. QED BY <2>1, <2>2, <2>3 DEF DragStart
  <1>4. QED BY <1>2, <1>3 DEF BuilderInv

\* dnd-kit reports what the page shows.
LEMMA PlacesKnown ==
    ASSUME NEW over \in Places
    PROVE  Known(groups, over)
  <1>1. CASE over = Nowhere
    BY <1>1 DEF Known, Nowhere
  <1>2. ASSUME NEW group \in ShownGroups
        PROVE  group.id \in GroupIds(groups) /\ \A x \in ToSet(group.blocks) : x.id \in BlockIds(groups)
    <2>1. PICK at \in DOMAIN groups : group = groups[at]
      BY ShownGroup
    <2>2. QED BY <2>1 DEF GroupIds, BlockIds, BlockIdsOf, ToSet
  <1>3. CASE \E group \in ShownGroups : \/ over = [at |-> "group", id |-> group.id]
                                        \/ over = [at |-> "zone", id |-> group.id]
    BY <1>2, <1>3 DEF Known
  <1>4. CASE \E group \in ShownGroups : \E x \in ToSet(group.blocks) :
               over = [at |-> "block", id |-> x.id]
    BY <1>2, <1>4 DEF Known
  <1>5. over = Nowhere \/ (\E group \in ShownGroups : \/ over = [at |-> "group", id |-> group.id]
                                                     \/ over = [at |-> "zone", id |-> group.id])
        \/ \E group \in ShownGroups : \E x \in ToSet(group.blocks) :
             over = [at |-> "block", id |-> x.id]
    BY DEF Places
  <1>6. QED BY <1>1, <1>3, <1>4, <1>5

LEMMA DragEndInv ==
    ASSUME BuilderInv, NEW over \in Places, DragEnd(over)
    PROVE  BuilderInv'
  <1>1. ids \in Nat /\ GroupsOK(groups, ids) /\ Known(groups, over)
    BY BuilderAssumption, PlacesKnown DEF BuilderInv, RuleOK
  <1>2. CASE /\ drag.kind = "palette" /\ drag.type \in DOMAIN registry /\ Draw(1)
             /\ Change(dropPalette(groups, makeBlock(ids + 1, drag.type), over))
    <2> DEFINE new == makeBlock(ids + 1, drag.type)
    <2>1. ids' = ids + 1 /\ ids' \in 1..MaxIds /\ ids <= ids'
      BY <1>2, Drawn
    <2>2. drag.type \in DOMAIN Builtin \cup DefIds
      BY <1>2, PaletteTypes DEF BuilderInv, DragOK, DefsOK
    <2>3. ids + 1 \in Nat /\ ids + 1 \in 1..(ids + 1)
      BY <1>1
    <2>4. new \in Block(ids + 1) /\ new.id = ids + 1 /\ IdsDistinct(new.subs)
      BY <2>2, <2>3, MakeTyped
    <2>5. groups' = dropPalette(groups, new, over)
      BY <1>2 DEF Change
    <2> HIDE DEF new
    <2>6. GroupsOK(groups', ids')
      BY <1>1, <2>1, <2>4, <2>5, dropPaletteOK
    <2>7. groupCombinator' \in {"AND", "OR"}
      BY DEF DragEnd, BuilderInv, RuleOK
    <2>8. QED BY <2>1, <2>6, <2>7, GroupsStep DEF DragEnd, canvas, palette, notices
  <1>3. CASE drag.kind = "group" /\ UNCHANGED ids /\ Change(dropGroup(groups, drag.id, over))
    <2>1. GroupsOK(groups', ids)
      BY <1>1, <1>3, dropGroupOK DEF Change
    <2>2. QED BY <1>3, <2>1, GroupsStepNoDraw DEF DragEnd, canvas, palette, notices
  <1>4. CASE drag.kind = "block" /\ UNCHANGED ids /\ Change(dropBlock(groups, drag.id, over))
    <2>1. GroupsOK(groups', ids)
      BY <1>1, <1>4, dropBlockOK DEF Change
    <2>2. QED BY <1>4, <2>1, GroupsStepNoDraw DEF DragEnd, canvas, palette, notices
  <1>5. CASE drag.kind = "palette" /\ UNCHANGED <<groups, ids>>
    BY <1>1, <1>5, GroupsStepNoDraw DEF DragEnd, canvas, palette, notices
  <1>6. QED BY <1>2, <1>3, <1>4, <1>5 DEF DragEnd

LEMMA DragCancelInv ==
    ASSUME BuilderInv, DragCancel
    PROVE  BuilderInv'
  <1>1. ids' \in Nat
    BY BuilderAssumption DEF DragCancel, BuilderInv, RuleOK
  <1>2. RuleOK' /\ PaletteOK' /\ NoticesOK'
    BY RuleStays, PaletteStays, NoticesStay
       DEF BuilderInv, DragCancel, rule, canvas, palette, notices
  <1>3. DragOK'
    BY <1>1, DragEnds DEF DragCancel
  <1>4. QED BY <1>2, <1>3 DEF BuilderInv
-----------------------------------------------------------------------------
\* The events of the custom blocks.

LEMMA DialogInv ==
    ASSUME BuilderInv, OpenDialog \/ CancelDialog
    PROVE  BuilderInv'
  <1>1. ids \in Nat /\ ids' = ids
    BY BuilderAssumption DEF OpenDialog, CancelDialog, BuilderInv, RuleOK
  <1>2. RuleOK' /\ NoticesOK' /\ DragOK'
    <2>1. ids <= ids' /\ UNCHANGED <<groups, groupCombinator, nodes, edges, ids, drag, mode, test,
                                     savedAlert, hides, registry>>
      BY <1>1 DEF OpenDialog, CancelDialog, rule, canvas, palette, notices
    <2>2. edits' = edits \/ Edit
      BY DEF OpenDialog, CancelDialog
    <2>3. QED BY <1>1, <2>1, <2>2, RuleStays, NoticesStay, DragStays DEF BuilderInv
  <1>3. UNCHANGED <<customBlockDefs, storage, registry, made>>
    BY DEF OpenDialog, CancelDialog, palette
  <1>4. dialog' \in [open : BOOLEAN, editing : {"none"} \cup DefIds]
    <2>1. CASE OpenDialog
      <3>1. PICK d \in {"none"} \cup DOMAIN customBlockDefs : dialog' = [open |-> TRUE, editing |-> d]
        BY <2>1 DEF OpenDialog
      <3>2. d \in {"none"} \cup DefIds
        BY DEF BuilderInv, PaletteOK, DefsOK
      <3>3. QED BY <3>1, <3>2
    <2>2. CASE CancelDialog
      BY <2>2 DEF CancelDialog, BuilderInv, PaletteOK
    <2>3. QED BY <2>1, <2>2
  <1>5. PaletteOK'
    BY <1>3, <1>4 DEF BuilderInv, PaletteOK
  <1>6. QED BY <1>2, <1>5 DEF BuilderInv

LEMMA SaveCustomBlockInv ==
    ASSUME BuilderInv, NEW d \in DefIds, NEW kind \in Kinds, SaveCustomBlock(d, kind)
    PROVE  BuilderInv'
  <1>1. ids \in Nat /\ ids' = ids
    BY BuilderAssumption DEF SaveCustomBlock, BuilderInv, RuleOK
  <1> DEFINE new == [x \in {d} |-> kind]
  <1>2. DefsOK(new, DefIds)
    BY DEF DefsOK
  <1>3. /\ customBlockDefs' = Merge(new, customBlockDefs) /\ storage' = customBlockDefs'
        /\ registry' = Merge(customBlockDefs', registry)
        /\ made' = made \cup {d} /\ dialog' = NoDialog
    BY DEF SaveCustomBlock
  <1> HIDE DEF new
  <1>4. DefsOK(customBlockDefs', DefIds) /\ DOMAIN customBlockDefs \subseteq DOMAIN customBlockDefs'
    <2>1. DefsOK(customBlockDefs', DefIds)
      BY <1>2, <1>3, MergeOK DEF BuilderInv, PaletteOK
    <2>2. DOMAIN customBlockDefs' = DOMAIN new \cup DOMAIN customBlockDefs
      BY <1>3 DEF Merge
    <2>3. QED BY <2>1, <2>2
  <1>5. registry' = Merge(customBlockDefs', Builtin)
    <2>1. registry = Merge(customBlockDefs, Builtin)
      BY DEF BuilderInv, PaletteOK
    <2>2. QED BY <1>3, <1>4, <2>1, MergeAgain
  <1>6. made' \subseteq DefIds /\ dialog' \in [open : BOOLEAN, editing : {"none"} \cup DefIds]
    BY <1>3 DEF NoDialog, BuilderInv, PaletteOK
  <1>7. PaletteOK'
    BY <1>3, <1>4, <1>5, <1>6 DEF PaletteOK, DefsOK
  <1>8. RuleOK' /\ NoticesOK' /\ DragOK'
    <2>1. ids <= ids' /\ UNCHANGED <<groups, groupCombinator, nodes, edges, ids, drag, mode, test,
                                     savedAlert, hides, edits>>
      BY <1>1 DEF SaveCustomBlock, rule, canvas, notices
    <2>2. DOMAIN registry \subseteq DOMAIN registry'
      BY <1>3 DEF Merge
    <2>3. QED BY <1>1, <2>1, <2>2, RuleStays, NoticesStay, DragStays DEF BuilderInv
  <1>9. QED BY <1>7, <1>8 DEF BuilderInv

LEMMA DeleteCustomBlockInv ==
    ASSUME BuilderInv, NEW d \in DefIds, DeleteCustomBlock(d)
    PROVE  BuilderInv'
  <1>1. ids \in Nat /\ ids' = ids
    BY BuilderAssumption DEF DeleteCustomBlock, BuilderInv, RuleOK
  <1>2. RuleOK' /\ NoticesOK'
    <2>1. UNCHANGED <<groups, groupCombinator, nodes, edges, ids, mode, test, savedAlert, hides,
                      edits>>
      BY DEF DeleteCustomBlock, rule, canvas, notices
    <2>2. QED BY <2>1, RuleStays, NoticesStay DEF BuilderInv
  <1>3. DragOK'
    BY <1>1, DragStays DEF DeleteCustomBlock, BuilderInv
  <1>4. /\ customBlockDefs' = [x \in DOMAIN customBlockDefs \ {d} |-> customBlockDefs[x]]
        /\ registry' = [x \in DOMAIN registry \ {d} |-> registry[x]]
        /\ storage' = customBlockDefs' /\ UNCHANGED <<made, dialog>>
    BY DEF DeleteCustomBlock
  <1>5. DefsOK(customBlockDefs', DefIds)
    BY <1>4 DEF BuilderInv, PaletteOK, DefsOK
  <1>6. registry' = Merge(customBlockDefs', Builtin)
    <2>1. registry = Merge(customBlockDefs, Builtin) /\ d \notin DOMAIN Builtin
      BY BuilderAssumption DEF BuilderInv, PaletteOK
    <2>2. QED BY <1>4, <2>1 DEF Merge
  <1>7. PaletteOK'
    BY <1>4, <1>5, <1>6 DEF BuilderInv, PaletteOK, DefsOK
  <1>8. QED BY <1>2, <1>3, <1>7 DEF BuilderInv

\* Revisit and ReloadPage.
LEMMA OpenAgainInv ==
    ASSUME BuilderInv, Revisit \/ ReloadPage
    PROVE  BuilderInv'
  <1>1. PICK base \in {registry, Builtin} : OpenAgain(base)
    BY DEF Revisit, ReloadPage
  <1>2. base = Builtin \/ base = Merge(customBlockDefs, Builtin)
    BY DEF BuilderInv, PaletteOK
  <1>3. ids \in Nat /\ ids' = ids + 1 /\ ids' \in Nat /\ ids' \in 1..MaxIds
    BY <1>1, Drawn DEF OpenAgain
  <1>4. GroupsOK(groups', ids')
    <2>1. ids + 1 \in 1..ids'
      BY <1>3
    <2>2. groups' = <<makeGroup(ids + 1)>>
      BY <1>1 DEF OpenAgain
    <2>3. QED BY <1>3, <2>1, <2>2, OneGroupOK
  <1>5. RuleOK'
    <2>1. \A S : <<>> \in Seq(S)
      OBVIOUS
    <2>2. nodes' = <<>> /\ edges' = <<>> /\ groupCombinator' = "AND"
      BY <1>1 DEF OpenAgain
    <2>3. CanvasOK(nodes', edges', ids')
      BY <2>1, <2>2 DEF CanvasOK
    <2>4. QED BY <1>3, <1>4, <2>2, <2>3 DEF RuleOK
  <1>6. DragOK'
    BY <1>1, <1>3, DragEnds DEF OpenAgain
  <1>7. PaletteOK'
    <2>1. /\ customBlockDefs' = storage /\ registry' = Merge(storage, base)
          /\ dialog' = NoDialog /\ UNCHANGED <<storage, made>>
      BY <1>1 DEF OpenAgain
    <2>2. storage = customBlockDefs /\ DefsOK(storage, DefIds)
      BY DEF BuilderInv, PaletteOK
    <2>3. registry' = Merge(customBlockDefs', Builtin)
      BY <1>2, <2>1, <2>2, MergeAgain
    <2>4. made' \subseteq DefIds /\ dialog' \in [open : BOOLEAN, editing : {"none"} \cup DefIds]
      BY <2>1 DEF NoDialog, BuilderInv, PaletteOK
    <2>5. QED BY <2>1, <2>2, <2>3, <2>4 DEF PaletteOK, DefsOK
  <1>8. NoticesOK'
    <2>1. /\ mode' = "simple" /\ test' = "none" /\ savedAlert' = FALSE /\ hides' = 0
          /\ edits' = edits + 1 /\ edits < MaxEdits
      BY <1>1 DEF OpenAgain, Edit
    <2>2. edits \in Nat
      BY DEF BuilderInv, NoticesOK
    <2>3. edits + 1 \in Nat /\ 0 \in Nat /\ 0 <= edits + 1 /\ edits + 1 <= MaxEdits
      BY <2>1, <2>2, BuilderAssumption
    <2>4. QED BY <2>1, <2>3 DEF NoticesOK
  <1>9. QED BY <1>5, <1>6, <1>7, <1>8 DEF BuilderInv
-----------------------------------------------------------------------------
\* The events of the test and of the alert.

LEMMA NoticesInv ==
    ASSUME BuilderInv,
           RunTest \/ TestDone \/ DismissTest \/ Save \/ HideAlert \/ DismissAlert
    PROVE  BuilderInv'
  <1>1. /\ UNCHANGED <<groups, groupCombinator, nodes, edges, ids, drag, mode, customBlockDefs,
                       storage, registry, made, dialog>>
        /\ ids \in Nat /\ ids <= ids'
    BY BuilderAssumption
       DEF RunTest, TestDone, DismissTest, Save, HideAlert, DismissAlert, rule, canvas, palette,
           BuilderInv, RuleOK
  <1>2. RuleOK' /\ PaletteOK' /\ DragOK'
    BY <1>1, RuleStays, PaletteStays, DragStays DEF BuilderInv
  <1>3. hides \in Nat /\ edits \in Nat /\ hides <= edits /\ edits <= MaxEdits /\ MaxEdits \in Nat
    BY BuilderAssumption DEF BuilderInv, NoticesOK
  <1>4. test' \in {"none", "running", "shown"} /\ savedAlert' \in BOOLEAN
    BY DEF RunTest, TestDone, DismissTest, Save, HideAlert, DismissAlert, BuilderInv, NoticesOK
  <1>5. \/ hides' = hides /\ (edits' = edits \/ Edit)
        \/ hides' = hides + 1 /\ Edit
        \/ hides > 0 /\ hides' = hides - 1 /\ edits' = edits
    BY DEF RunTest, TestDone, DismissTest, Save, HideAlert, DismissAlert
  <1>6. hides' \in Nat /\ edits' \in Nat /\ hides' <= edits' /\ edits' <= MaxEdits
    BY <1>3, <1>5 DEF Edit
  <1>7. NoticesOK'
    BY <1>1, <1>4, <1>6 DEF BuilderInv, NoticesOK
  <1>8. QED BY <1>2, <1>7 DEF BuilderInv

-----------------------------------------------------------------------------
\* The events of the flow mode.

\* An event of the canvas.
LEMMA CanvasStep ==
    ASSUME BuilderInv, ids' \in 1..MaxIds, ids <= ids', CanvasOK(nodes', edges', ids'),
           UNCHANGED <<groups, groupCombinator, drag, customBlockDefs, storage, registry, made,
                       dialog, test, savedAlert, hides>>,
           mode' \in {"simple", "flow"}, edits' = edits \/ Edit
    PROVE  BuilderInv'
  <1>1. ids \in Nat /\ ids' \in Nat
    BY BuilderAssumption DEF BuilderInv, RuleOK
  <1>2. GroupsOK(groups', ids')
    <2>1. Group(ids) \subseteq Group(ids')
      BY <1>1, TypesGrow
    <2>2. groups \in Seq(Group(ids'))
      BY <2>1, SeqMonotonic DEF BuilderInv, RuleOK, GroupsOK
    <2>3. QED BY <2>2 DEF BuilderInv, RuleOK, GroupsOK
  <1>3. RuleOK'
    BY <1>2 DEF BuilderInv, RuleOK
  <1>4. PaletteOK' /\ DragOK'
    BY <1>1, PaletteStays, DragStays DEF BuilderInv
  <1>5. NoticesOK'
    BY BuilderAssumption DEF BuilderInv, NoticesOK, Edit
  <1>6. QED BY <1>3, <1>4, <1>5 DEF BuilderInv

LEMMA CanvasStepNoDraw ==
    ASSUME BuilderInv, CanvasOK(nodes', edges', ids),
           UNCHANGED <<groups, groupCombinator, drag, customBlockDefs, storage, registry, made,
                       dialog, test, savedAlert, hides, ids>>,
           mode' \in {"simple", "flow"}, edits' = edits \/ Edit
    PROVE  BuilderInv'
  <1>1. ids' \in 1..MaxIds /\ ids <= ids' /\ CanvasOK(nodes', edges', ids')
    BY BuilderAssumption DEF BuilderInv, RuleOK
  <1>2. QED BY <1>1, CanvasStep

LEMMA SwitchModeInv ==
    ASSUME BuilderInv, SwitchMode
    PROVE  BuilderInv'
  <1>1. \A S : <<>> \in Seq(S)
    OBVIOUS
  <1>2. CanvasOK(nodes', edges', ids)
    BY <1>1 DEF SwitchMode, CanvasOK
  <1>3. mode' \in {"simple", "flow"}
    BY DEF SwitchMode
  <1>4. QED BY <1>2, <1>3, CanvasStepNoDraw DEF SwitchMode, rule, palette, notices

LEMMA AddNodeInv ==
    ASSUME BuilderInv, AddNode
    PROVE  BuilderInv'
  <1>1. /\ ids \in Nat /\ ids' = ids + 1 /\ ids' \in 1..MaxIds /\ ids <= ids'
        /\ CanvasOK(nodes, edges, ids)
    BY Drawn DEF AddNode, BuilderInv, RuleOK
  <1>2. CanvasOK(nodes', edges', ids')
    BY <1>1, addNodeOK DEF AddNode
  <1>3. mode' \in {"simple", "flow"}
    BY DEF AddNode, BuilderInv, NoticesOK
  <1>4. QED BY <1>1, <1>2, <1>3, CanvasStep DEF AddNode, rule, palette, notices

\* Connect, ChangeNode, RemoveNode and RemoveEdge.
LEMMA ChangeCanvasInv ==
    ASSUME BuilderInv, Connect \/ ChangeNode \/ RemoveNode \/ RemoveEdge
    PROVE  BuilderInv'
  <1>1. ids \in Nat /\ CanvasOK(nodes, edges, ids)
    BY BuilderAssumption DEF BuilderInv, RuleOK
  <1>2. CASE Connect
    <2>1. CanvasOK(nodes', edges', ids)
      BY <1>1, <1>2, onConnectOK DEF Connect
    <2>2. mode' \in {"simple", "flow"}
      BY <1>2 DEF Connect, BuilderInv, NoticesOK
    <2>3. QED BY <1>2, <2>1, <2>2, CanvasStepNoDraw DEF Connect, rule, palette, notices
  <1>3. CASE ChangeNode
    <2>1. CanvasOK(nodes', edges', ids)
      <3>1. edges' = edges /\ EditFields \subseteq Fields
        BY <1>3, BuilderAssumption DEF ChangeNode
      <3>2. \E n \in ToSet(nodes) : \/ nodes' = toggleCombinator(nodes, n.id)
                                    \/ \E field \in Fields : nodes' = updateNode(nodes, n.id, field)
        BY <1>3, <3>1 DEF ChangeNode
      <3>3. QED BY <1>1, <3>1, <3>2, changeNodeOK
    <2>2. mode' \in {"simple", "flow"}
      BY <1>3 DEF ChangeNode, BuilderInv, NoticesOK
    <2>3. QED BY <1>3, <2>1, <2>2, CanvasStepNoDraw DEF ChangeNode, rule, palette, notices
  <1>4. CASE RemoveNode
    <2>1. CanvasOK(nodes', edges', ids)
      BY <1>1, <1>4, removeNodeOK DEF RemoveNode
    <2>2. mode' \in {"simple", "flow"}
      BY <1>4 DEF RemoveNode, BuilderInv, NoticesOK
    <2>3. QED BY <1>4, <2>1, <2>2, CanvasStepNoDraw DEF RemoveNode, rule, palette, notices
  <1>5. CASE RemoveEdge
    <2>1. CanvasOK(nodes', edges', ids)
      BY <1>1, <1>5, removeEdgeOK DEF RemoveEdge
    <2>2. mode' \in {"simple", "flow"}
      BY <1>5 DEF RemoveEdge, BuilderInv, NoticesOK
    <2>3. QED BY <1>5, <2>1, <2>2, CanvasStepNoDraw DEF RemoveEdge, rule, palette, notices
  <1>6. QED BY <1>2, <1>3, <1>4, <1>5

LEMMA BuilderStep ==
    ASSUME BuilderInv, [BuilderNext]_builderVars
    PROVE  BuilderInv'
  <1>1. CASE UNCHANGED builderVars
    <2>1. /\ UNCHANGED <<groups, groupCombinator, nodes, edges, mode, customBlockDefs, storage,
                         registry, made, dialog, drag, test, savedAlert, hides, ids, edits>>
      BY <1>1 DEF builderVars, rule, canvas, palette, notices
    <2>2. ids \in Nat /\ ids <= ids'
      BY <2>1, BuilderAssumption DEF BuilderInv, RuleOK
    <2>3. QED BY <2>1, <2>2, RuleStays, PaletteStays, DragStays, NoticesStay DEF BuilderInv
  <1>2. CASE \/ AddGroup \/ RemoveGroup \/ DuplicateGroup \/ ClearAll \/ ToggleGroup
             \/ ToggleGroupLogic
    BY <1>2, AddGroupInv, RemoveGroupInv, DuplicateGroupInv, ClearAllInv, ToggleGroupInv,
       ToggleGroupLogicInv
  <1>3. CASE \/ AddBlock \/ RemoveBlock \/ DuplicateBlock \/ ToggleBlock \/ UpdateBlock
             \/ AddSubCondition \/ ChangeSubCondition
    BY <1>3, AddBlockInv, ChangeBlockInv, DuplicateBlockInv, AddSubConditionInv,
       ChangeSubConditionInv
  <1>4. CASE DragStart \/ (\E over \in Places : DragEnd(over)) \/ DragCancel
    BY <1>4, DragStartInv, DragEndInv, DragCancelInv
  <1>5. CASE \/ OpenDialog \/ CancelDialog
             \/ \E d \in DefIds, kind \in Kinds : SaveCustomBlock(d, kind)
             \/ \E d \in DefIds : DeleteCustomBlock(d)
             \/ Revisit \/ ReloadPage
    BY <1>5, DialogInv, SaveCustomBlockInv, DeleteCustomBlockInv, OpenAgainInv
  <1>6. CASE RunTest \/ TestDone \/ DismissTest \/ Save \/ HideAlert \/ DismissAlert
    BY <1>6, NoticesInv
  <1>7. CASE SwitchMode \/ AddNode \/ Connect \/ ChangeNode \/ RemoveNode \/ RemoveEdge
    BY <1>7, SwitchModeInv, AddNodeInv, ChangeCanvasInv
  <1>8. QED BY <1>1, <1>2, <1>3, <1>4, <1>5, <1>6, <1>7 DEF BuilderNext
-----------------------------------------------------------------------------
\* The end of a drag.

\* Only its end and the page's are events that stop a drag.
LEMMA DragStops ==
    ASSUME BuilderInv, BuilderNext, drag # NoDrag, drag' = NoDrag, ids' = ids
    PROVE  (\E over \in Places : DragEnd(over)) \/ UNCHANGED groups
  <1>1. drag' # drag
    OBVIOUS
  <1>2. CASE \/ AddGroup \/ RemoveGroup \/ DuplicateGroup \/ ClearAll \/ ToggleGroup
             \/ ToggleGroupLogic
    BY <1>1, <1>2 DEF AddGroup, RemoveGroup, DuplicateGroup, ClearAll, ToggleGroup, ToggleGroupLogic
  <1>3. CASE \/ AddBlock \/ RemoveBlock \/ DuplicateBlock \/ ToggleBlock \/ UpdateBlock
             \/ AddSubCondition \/ ChangeSubCondition
    BY <1>1, <1>3 DEF AddBlock, RemoveBlock, DuplicateBlock, ToggleBlock, UpdateBlock,
                      AddSubCondition, ChangeSubCondition
  <1>4. CASE DragStart \/ (\E over \in Places : DragEnd(over)) \/ DragCancel
    BY <1>1, <1>4 DEF DragStart, DragCancel, rule
  <1>5. CASE \/ OpenDialog \/ CancelDialog
             \/ \E d \in DefIds, kind \in Kinds : SaveCustomBlock(d, kind)
             \/ \E d \in DefIds : DeleteCustomBlock(d)
    BY <1>1, <1>5 DEF OpenDialog, CancelDialog, SaveCustomBlock, DeleteCustomBlock
  <1>6. CASE Revisit \/ ReloadPage
    <2>1. Draw(1)
      BY <1>6 DEF Revisit, ReloadPage, OpenAgain
    <2>2. ids \in Nat /\ ids' = ids + 1
      BY <2>1, Drawn
    <2>3. QED BY <2>2
  <1>7. CASE RunTest \/ TestDone \/ DismissTest \/ Save \/ HideAlert \/ DismissAlert
    BY <1>7 DEF RunTest, TestDone, DismissTest, Save, HideAlert, DismissAlert
  <1>8. CASE SwitchMode \/ AddNode \/ Connect \/ ChangeNode \/ RemoveNode \/ RemoveEdge
    BY <1>8 DEF SwitchMode, AddNode, Connect, ChangeNode, RemoveNode, RemoveEdge
  <1>9. QED BY <1>2, <1>3, <1>4, <1>5, <1>6, <1>7, <1>8 DEF BuilderNext

LEMMA DragMoves ==
    ASSUME BuilderInv, BuilderInv', BuilderNext,
           drag.kind \in {"block", "group"}, drag' = NoDrag, ids' = ids
    PROVE  /\ BlockIds(groups') = BlockIds(groups)
           /\ TotalBlocks(groups') = TotalBlocks(groups)
           /\ GroupIds(groups') = GroupIds(groups)
  <1>1. ids \in Nat /\ GroupsOK(groups, ids) /\ GroupsOK(groups', ids)
    BY BuilderAssumption DEF BuilderInv, RuleOK
  <1>2. drag # NoDrag
    BY DEF NoDrag
  <1>3. BlockIds(groups') = BlockIds(groups) /\ GroupIds(groups') = GroupIds(groups)
    <2>1. CASE UNCHANGED groups
      BY <2>1
    <2>2. ASSUME NEW over \in Places, DragEnd(over)
          PROVE  BlockIds(groups') = BlockIds(groups) /\ GroupIds(groups') = GroupIds(groups)
      <3>1. Known(groups, over)
        BY PlacesKnown
      <3>2. CASE drag.kind = "group"
        <4>1. groups' = dropGroup(groups, drag.id, over)
          BY <2>2, <3>2 DEF DragEnd, Change
        <4>2. QED BY <1>1, <3>1, <4>1, dropGroupOK
      <3>3. CASE drag.kind = "block"
        <4>1. groups' = dropBlock(groups, drag.id, over)
          BY <2>2, <3>3 DEF DragEnd, Change
        <4>2. QED BY <1>1, <3>1, <4>1, dropBlockOK
      <3>4. QED BY <3>2, <3>3
    <2>3. QED BY <1>2, <2>1, <2>2, DragStops
  <1>4. TotalBlocks(groups) = Cardinality(BlockIds(groups))
        /\ TotalBlocks(groups') = Cardinality(BlockIds(groups'))
    BY <1>1, BlocksCounted
  <1>5. QED BY <1>3, <1>4

-----------------------------------------------------------------------------
\* The page keeps its invariant.
THEOREM BuilderInvariant == BuilderSpec => []BuilderInv
  <1>1. BuilderInit => BuilderInv
    BY BuilderInit_Inv
  <1>2. BuilderInv /\ [BuilderNext]_builderVars => BuilderInv'
    BY BuilderStep
  <1>3. QED BY <1>1, <1>2, PTL DEF BuilderSpec

\* The rule builder stays within its types (its state, with what localStorage and
\* the module variable BLOCK_TYPES hold).
THEOREM BuilderTypeCorrect == BuilderSpec => []BuilderTypeOK
  <1>1. BuilderInv => BuilderTypeOK
    BY BuilderInvMeans
  <1>2. QED BY <1>1, BuilderInvariant, PTL

\* Whatever the user adds, copies, drags, removes or saves, in either mode: there
\* is a group to drop into, no two parts of the rule share an id (the handlers
\* find everything by its id alone), a group of the saved rule lists every
\* condition that names it, and the copies of the custom blocks agree.
THEOREM RuleIsWellFormed == BuilderSpec => []RuleWellFormed
  <1>1. BuilderInv => RuleWellFormed
    BY BuilderInvMeans
  <1>2. QED BY <1>1, BuilderInvariant, PTL

\* What the page, localStorage and BLOCK_TYPES hold of the custom blocks agrees.
THEOREM PalettesAgree == BuilderSpec => []PaletteAgrees
  <1>1. BuilderInv => PaletteAgrees
    BY BuilderInvMeans
  <1>2. QED BY <1>1, BuilderInvariant, PTL

\* handleDragEnd moves a block or a group, or does nothing: it loses nothing and copies
\* nothing, also when the keyboard changed the groups during the drag.
THEOREM DragsKeepBlocks == BuilderSpec => DragKeepsBlocks
  <1>1. BuilderInv /\ BuilderInv' /\ [BuilderNext]_builderVars
          => [(drag.kind \in {"block", "group"} /\ drag' = NoDrag /\ ids' = ids) =>
                /\ BlockIds(groups') = BlockIds(groups)
                /\ TotalBlocks(groups') = TotalBlocks(groups)
                /\ GroupIds(groups') = GroupIds(groups)]_builderVars
    BY DragMoves
  <1>2. QED BY <1>1, BuilderInvariant, PTL DEF BuilderSpec, DragKeepsBlocks

--------------------------------------------------------------------------------
(***************************************************************************)
(* The session.                                                            *)
(***************************************************************************)

USE ConstantsAssumption

--------------------------------------------------------------------------------
(***************************************************************************)
(* Type correctness.                                                       *)
(***************************************************************************)

\* A new token gets the next number.
LEMMA Issued ==
    ASSUME TypeOK, NEW org \in Orgs \cup {Sandbox}, Issue(org)
    PROVE  /\ issued' \in Seq(Orgs \cup {Sandbox}) /\ Len(issued') = Len(issued) + 1
           /\ live' \subseteq Tokens'
<1>1. issued' \in Seq(Orgs \cup {Sandbox}) /\ Len(issued') = Len(issued) + 1
    BY DEF TypeOK, Issue
<1> QED
    BY <1>1 DEF TypeOK, Issue, Tokens

\* What the tab holds stays of its type when tokens are issued.
TabType ==
    /\ session \in 0..Len(issued) /\ apiToken \in 0..Len(issued)
    /\ loading \in BOOLEAN /\ handled \in BOOLEAN
    /\ path \in {"login", "app"}
    /\ hook \in Deps
    /\ timer \in [for : Deps, armed : BOOLEAN]
    /\ leaving \in [Handlers -> Phases]
    /\ requests \in [Slots -> [active : BOOLEAN, token : 0..Len(issued), tries : 0..MaxRetries]]
    /\ login \in {"idle", "reading", "checking"}
    /\ switch \in [phase : {"idle", "posting", "updating"}, token : 0..Len(issued), org : Orgs]

OutsideType ==
    /\ issued \in Seq(Orgs \cup {Sandbox}) /\ live \subseteq Tokens
    /\ guestRow \in {"none", "live", "expired"}
    /\ cookie \in 0..Len(issued)
    /\ faults \in 0..MaxFaults /\ reloads \in 0..MaxReloads

LEMMA TypeParts == TypeOK <=> OutsideType /\ TabType
    BY DEF TypeOK, OutsideType, TabType

LEMMA TabKept ==
    ASSUME TabType, issued \in Seq(Orgs \cup {Sandbox}), Len(issued') \in Nat, Len(issued') >= Len(issued),
           UNCHANGED <<react, client, effects, calls>>
    PROVE  TabType'
<1> USE DEF react, client, effects, calls
<1>1. 0..Len(issued) \subseteq 0..Len(issued')
    OBVIOUS
<1>2. Deps \subseteq Deps'
    BY <1>1 DEF Deps
<1>3. hook' \in Deps' /\ timer' \in [for : Deps', armed : BOOLEAN]
    BY <1>2 DEF TabType
<1>4. requests' \in [Slots -> [active : BOOLEAN, token : 0..Len(issued'), tries : 0..MaxRetries]]
    BY <1>1 DEF TabType
<1>5. switch' \in [phase : {"idle", "posting", "updating"}, token : 0..Len(issued'), org : Orgs]
    BY <1>1 DEF TabType
<1> QED
    BY <1>1, <1>3, <1>4, <1>5 DEF TabType, MaxRetries

LEMMA OutsideKept ==
    ASSUME OutsideType, UNCHANGED <<server, cookie>>,
           faults' \in 0..MaxFaults, reloads' \in 0..MaxReloads
    PROVE  OutsideType'
    BY DEF OutsideType, server, Tokens

\* A fault or a reload is counted up to its bound.
LEMMA Counted ==
    ASSUME OutsideType
    PROVE  /\ UNCHANGED bounds => faults' \in 0..MaxFaults /\ reloads' \in 0..MaxReloads
           /\ Lose => faults' \in 0..MaxFaults /\ reloads' \in 0..MaxReloads
           /\ CountReload => faults' \in 0..MaxFaults /\ reloads' \in 0..MaxReloads
    BY DEF OutsideType, bounds, Lose, CountReload

LEMMA TypeInit == Init => TypeOK
<1> SUFFICES ASSUME Init PROVE OutsideType /\ TabType
    BY TypeParts
<1> USE DEF Init
<1>1. Len(issued) = 0 /\ issued \in Seq(Orgs \cup {Sandbox})
    OBVIOUS
<1>2. OutsideType
    BY <1>1 DEF OutsideType, Tokens
<1>3. Unseen \in Deps
    BY <1>1 DEF Unseen, Deps, Statuses
<1>4. timer \in [for : Deps, armed : BOOLEAN]
    BY <1>3 DEF Disarmed
<1>5. leaving \in [Handlers -> Phases]
    BY DEF Phases
<1>6. requests \in [Slots -> [active : BOOLEAN, token : 0..Len(issued), tries : 0..MaxRetries]]
    BY <1>1 DEF NoRequest, MaxRetries
<1>7. switch \in [phase : {"idle", "posting", "updating"}, token : 0..Len(issued), org : Orgs]
    BY <1>1 DEF NoSwitch
<1>8. session \in 0..Len(issued) /\ apiToken \in 0..Len(issued)
    BY <1>1
<1>9. hook \in Deps
    BY <1>3
<1>10. /\ loading \in BOOLEAN /\ handled \in BOOLEAN
       /\ path \in {"login", "app"} /\ login \in {"idle", "reading", "checking"}
    OBVIOUS
<1> HIDE DEF Init
<1> QED
    BY <1>2, <1>4, <1>5, <1>6, <1>7, <1>8, <1>9, <1>10 DEF TabType

LEMMA SeenTyped == TabType => Seen \in Deps /\ Unseen \in Deps
    BY DEF TabType, Seen, Unseen, Deps, Status, Statuses

\* A tab that is loaded again starts with nothing.
LEMMA TabLoaded ==
    ASSUME LoadTab, issued' \in Seq(Orgs \cup {Sandbox}), path' \in {"login", "app"}
    PROVE  TabType'
<1> USE DEF LoadTab
<1>1. 0 \in 0..Len(issued')
    OBVIOUS
<1>2. Unseen \in Deps'
    BY <1>1 DEF Unseen, Deps, Statuses
<1>3. hook' \in Deps' /\ timer' \in [for : Deps', armed : BOOLEAN]
    BY <1>2 DEF Disarmed
<1>4. leaving' \in [Handlers -> Phases]
    BY DEF Phases
<1>5. requests' \in [Slots -> [active : BOOLEAN, token : 0..Len(issued'), tries : 0..MaxRetries]]
    BY <1>1 DEF NoRequest, MaxRetries
<1>6. switch' \in [phase : {"idle", "posting", "updating"}, token : 0..Len(issued'), org : Orgs]
    BY <1>1 DEF NoSwitch
<1>7. /\ session' \in 0..Len(issued') /\ apiToken' \in 0..Len(issued')
      /\ loading' \in BOOLEAN /\ handled' \in BOOLEAN /\ login' \in {"idle", "reading", "checking"}
    BY <1>1
<1> HIDE DEF LoadTab
<1> QED
    BY <1>3, <1>4, <1>5, <1>6, <1>7 DEF TabType, MaxRetries

\* An action of the tab that issues no token.
LEMMA TabStep ==
    ASSUME TabType, UNCHANGED issued,
           session' \in 0..Len(issued), apiToken' \in 0..Len(issued),
           loading' \in BOOLEAN, handled' \in BOOLEAN, path' \in {"login", "app"},
           hook' \in Deps, timer' \in [for : Deps, armed : BOOLEAN],
           leaving' \in [Handlers -> Phases],
           requests' \in [Slots -> [active : BOOLEAN, token : 0..Len(issued), tries : 0..MaxRetries]],
           login' \in {"idle", "reading", "checking"},
           switch' \in [phase : {"idle", "posting", "updating"}, token : 0..Len(issued), org : Orgs]
    PROVE  TabType'
    BY DEF TabType, Deps, MaxRetries

LEMMA LeavingStep ==
    ASSUME TabType, NEW h \in Handlers, NEW p \in Phases,
           leaving' = [leaving EXCEPT ![h] = p]
    PROVE  leaving' \in [Handlers -> Phases]
    BY DEF TabType

LEMMA FailureTyped ==
    ASSUME TabType, OutsideType, AuthenticationFails
    PROVE  apiToken' \in 0..Len(issued) /\ handled' \in BOOLEAN /\ leaving' \in [Handlers -> Phases]
<1>1. leaving' \in [Handlers -> Phases]
    BY LeavingStep DEF AuthenticationFails, StartLeaving, TabType, Phases
<1> QED
    BY <1>1 DEF AuthenticationFails, OutsideType

\* A sign-in or another tab's issues a token and puts it into the cookie.
LEMMA Authorized ==
    ASSUME OutsideType, TabType, NEW org \in {Home, Sandbox}, Authorize(org),
           faults' \in 0..MaxFaults, reloads' \in 0..MaxReloads
    PROVE  OutsideType' /\ Len(issued') \in Nat /\ Len(issued') >= Len(issued)
<1>1. /\ issued' \in Seq(Orgs \cup {Sandbox}) /\ Len(issued') = Len(issued) + 1
      /\ live' \subseteq Tokens'
    BY Issued, TypeParts DEF Authorize
<1>2. guestRow' \in {"none", "live", "expired"} /\ cookie' \in 0..Len(issued')
    BY <1>1 DEF Authorize, OutsideType
<1> QED
    BY <1>1, <1>2 DEF OutsideType

LEMMA ServerTypeStep ==
    ASSUME OutsideType, TabType,
           GuestExpires \/ GuestCleanup \/ \E t \in Tokens : TokenDies(t)
    PROVE  OutsideType' /\ TabType'
<1> USE DEF GuestExpires, GuestCleanup, TokenDies
<1>1. UNCHANGED <<issued, cookie, react, client, effects, calls, bounds>>
    OBVIOUS
<1>2. TabType'
    BY <1>1, TabKept DEF OutsideType
<1>3. live' \subseteq Tokens' /\ guestRow' \in {"none", "live", "expired"}
    BY <1>1 DEF OutsideType, Tokens
<1> QED
    BY <1>1, <1>2, <1>3, Counted DEF OutsideType

LEMMA ProviderTypeStep ==
    ASSUME OutsideType, TabType, ReadSession \/ RunEffects \/ GuardRedirect
    PROVE  OutsideType' /\ TabType'
<1> USE DEF react, client, effects, calls
<1>1. CASE ReadSession
  <2>1. OutsideType'
    BY <1>1, Counted, OutsideKept DEF ReadSession
  <2>2. session' \in 0..Len(issued)
    BY <1>1 DEF ReadSession, OutsideType
  <2> QED
    BY <1>1, <2>1, <2>2, TabStep DEF ReadSession, TabType, server
<1>2. CASE RunEffects
  <2>1. OutsideType'
    BY <1>2, Counted, OutsideKept DEF RunEffects
  <2>2. hook' \in Deps /\ timer' \in [for : Deps, armed : BOOLEAN]
    <3>1. CASE timer.for = Seen
      BY <1>2, <3>1, SeenTyped DEF RunEffects, TabType
    <3>2. CASE timer.for # Seen
      BY <1>2, <3>2, SeenTyped DEF RunEffects, TabType
    <3> QED
      BY <3>1, <3>2
  <2>3. apiToken' \in 0..Len(issued)
    <3>1. Status \in {"loading", "authenticated", "unauthenticated"}
      BY DEF Status
    <3>2. CASE hook' = hook \/ Status = "loading"
      BY <1>2, <3>2 DEF RunEffects, TabType
    <3>3. CASE hook' # hook /\ Status = "authenticated"
      BY <1>2, <3>3 DEF RunEffects, TabType
    <3>4. CASE hook' # hook /\ Status = "unauthenticated"
      BY <1>2, <3>4 DEF RunEffects, OutsideType
    <3> QED
      BY <3>1, <3>2, <3>3, <3>4
  <2> QED
    BY <1>2, <2>1, <2>2, <2>3, TabStep DEF RunEffects, TabType, server
<1>3. CASE GuardRedirect
  <2>1. OutsideType'
    BY <1>3, Counted, OutsideKept DEF GuardRedirect
  <2> QED
    BY <1>3, <2>1, SeenTyped, TabStep DEF GuardRedirect, TabType, server
<1> QED
    BY <1>1, <1>2, <1>3

LEMMA LeavingTypeStep ==
    ASSUME OutsideType, TabType, NEW h \in Handlers,
           TimerFires(h) \/ SignOutPosted(h) \/ SignOutLost(h) \/ SignedOut(h) \/ LeavePage(h)
    PROVE  OutsideType' /\ TabType'
<1> USE DEF react, client, effects, calls
<1>1. leaving' \in [Handlers -> Phases]
  <2>1. PICK p \in Phases : leaving' = [leaving EXCEPT ![h] = p]
    BY DEF TimerFires, StartLeaving, SignOutPosted, SignOutLost, SignedOut, LeavePage, Phases
  <2> QED
    BY <2>1, LeavingStep
<1>2. CASE TimerFires(h)
  <2>1. OutsideType'
    BY <1>2, Counted, OutsideKept DEF TimerFires
  <2>2. timer' \in [for : Deps, armed : BOOLEAN]
    <3>1. timer \in [for : Deps, armed : BOOLEAN] /\ timer' = [timer EXCEPT !.armed = FALSE]
      BY <1>2 DEF TimerFires, TabType
    <3> QED
      BY ONLY <3>1
  <2>3. apiToken' \in 0..Len(issued)
    BY <1>2 DEF TimerFires, OutsideType
  <2> QED
    BY <1>1, <1>2, <2>1, <2>2, <2>3, TabStep DEF TimerFires, TabType, server
<1>3. CASE SignOutPosted(h)
  <2>1. cookie' \in 0..Len(issued) /\ UNCHANGED server /\ UNCHANGED bounds
    BY <1>3 DEF SignOutPosted, OutsideType
  <2>2. OutsideType'
    BY <2>1, Counted DEF OutsideType, server, Tokens
  <2> QED
    BY <1>1, <1>3, <2>2, TabStep DEF SignOutPosted, TabType, server
<1>4. CASE SignOutLost(h)
  <2>1. OutsideType'
    BY <1>4, Counted, OutsideKept DEF SignOutLost
  <2> QED
    BY <1>1, <1>4, <2>1, TabStep DEF SignOutLost, TabType, server
<1>5. CASE SignedOut(h)
  <2>1. OutsideType'
    BY <1>5, Counted, OutsideKept DEF SignedOut
  <2>2. session' \in 0..Len(issued)
    BY <1>5 DEF SignedOut, OutsideType
  <2> QED
    BY <1>1, <1>5, <2>1, <2>2, TabStep DEF SignedOut, TabType, server
<1>6. CASE LeavePage(h)
  <2>1. OutsideType'
    BY <1>6, Counted, OutsideKept DEF LeavePage
  <2> QED
    BY <1>1, <1>6, <2>1, SeenTyped, TabStep DEF LeavePage, TabType, server
<1> QED
    BY <1>2, <1>3, <1>4, <1>5, <1>6

LEMMA RequestTypeStep ==
    ASSUME OutsideType, TabType,
           (\E s \in Slots : Send(s) \/ AnswerOk(s) \/ Answer401(s) \/ AnswerLost(s)) \/ HandledTimeout
    PROVE  OutsideType' /\ TabType'
<1> USE DEF react, client, effects, calls
<1> DEFINE Row == [active : BOOLEAN, token : 0..Len(issued), tries : 0..MaxRetries]
<1>0. 0 \in 0..Len(issued)
    BY DEF OutsideType
<1>1. NoRequest \in Row
    BY <1>0 DEF NoRequest, MaxRetries
<1>2. ASSUME NEW s \in Slots, NEW row \in Row, requests' = [requests EXCEPT ![s] = row]
      PROVE  requests' \in [Slots -> Row]
    BY <1>2 DEF TabType
<1>3. ASSUME NEW s \in Slots, Send(s) PROVE OutsideType' /\ TabType'
  <2>1. OutsideType'
    BY <1>3, Counted, OutsideKept DEF Send
  <2>2. [active |-> TRUE, token |-> apiToken, tries |-> 0] \in Row
    BY DEF TabType, MaxRetries
  <2>3. requests' \in [Slots -> Row]
    BY <1>2, <1>3, <2>2 DEF Send
  <2> QED
    BY <1>3, <2>1, <2>3, TabStep DEF Send, TabType, server
<1>4. ASSUME NEW s \in Slots, AnswerOk(s) PROVE OutsideType' /\ TabType'
  <2>1. OutsideType'
    BY <1>4, Counted, OutsideKept DEF AnswerOk
  <2>2. requests' \in [Slots -> Row]
    BY <1>1, <1>2, <1>4 DEF AnswerOk
  <2> QED
    BY <1>4, <2>1, <2>2, TabStep DEF AnswerOk, TabType, server
<1>5. ASSUME NEW s \in Slots, Answer401(s) PROVE OutsideType' /\ TabType'
  <2>1. OutsideType'
    BY <1>5, Counted, OutsideKept DEF Answer401
  <2>2. requests' \in [Slots -> Row]
    BY <1>1, <1>2, <1>5 DEF Answer401
  <2>3. apiToken' \in 0..Len(issued) /\ handled' \in BOOLEAN /\ leaving' \in [Handlers -> Phases]
    BY <1>5, FailureTyped DEF Answer401
  <2> QED
    BY <1>5, <2>1, <2>2, <2>3, TabStep DEF Answer401, TabType, server
<1>6. ASSUME NEW s \in Slots, AnswerLost(s) PROVE OutsideType' /\ TabType'
  <2>1. OutsideType'
    BY <1>6, Counted, OutsideKept DEF AnswerLost
  <2> DEFINE old == requests[s]
             sent == IF apiToken # 0 THEN apiToken ELSE old.token
             again == [old EXCEPT !.tries = old.tries + 1, !.token = sent]
  <2>2. old \in Row /\ sent \in 0..Len(issued)
    BY DEF TabType
  <2>3. old.tries < MaxRetries => again \in Row
    <3>1. old.tries < MaxRetries => old.tries + 1 \in 0..MaxRetries
      BY <2>2 DEF MaxRetries
    <3> HIDE DEF old, sent
    <3> QED
      BY ONLY <2>2, <3>1
  <2>4. requests' = [requests EXCEPT ![s] = IF old.tries < MaxRetries THEN again ELSE NoRequest]
    BY <1>6 DEF AnswerLost
  <2> HIDE DEF again, old
  <2>5. requests' \in [Slots -> Row]
    BY <1>1, <1>2, <2>3, <2>4
  <2> QED
    BY <1>6, <2>1, <2>5, TabStep DEF AnswerLost, TabType, server
<1>7. CASE HandledTimeout
  <2>1. OutsideType'
    BY <1>7, Counted, OutsideKept DEF HandledTimeout
  <2> QED
    BY <1>7, <2>1, TabStep DEF HandledTimeout, TabType, server
<1> QED
    BY <1>3, <1>4, <1>5, <1>6, <1>7

LEMMA SignInTypeStep ==
    ASSUME OutsideType, TabType,
           (\E org \in {Home, Sandbox} : SignIn(org)) \/ SignInReads \/ SignInEnters
    PROVE  OutsideType' /\ TabType'
<1>1. ASSUME NEW org \in {Home, Sandbox}, SignIn(org) PROVE OutsideType' /\ TabType'
  <2>1. OutsideType' /\ Len(issued') \in Nat /\ Len(issued') >= Len(issued)
    BY <1>1, Counted, Authorized DEF SignIn
  <2>2. \A x : x \in 0..Len(issued) => x \in 0..Len(issued')
    BY <2>1 DEF OutsideType
  <2>3. hook' \in Deps' /\ timer' \in [for : Deps', armed : BOOLEAN]
    <3>1. Deps \subseteq Deps'
      BY <2>2 DEF Deps
    <3> QED
      BY <1>1, <3>1 DEF SignIn, effects, TabType
  <2>4. requests' \in [Slots -> [active : BOOLEAN, token : 0..Len(issued'), tries : 0..MaxRetries]]
    BY <1>1, <2>2 DEF SignIn, TabType
  <2>5. switch' \in [phase : {"idle", "posting", "updating"}, token : 0..Len(issued'), org : Orgs]
    BY <1>1, <2>2 DEF SignIn, TabType
  <2>6. /\ session' \in 0..Len(issued') /\ apiToken' \in 0..Len(issued')
        /\ loading' \in BOOLEAN /\ handled' \in BOOLEAN /\ path' \in {"login", "app"}
        /\ leaving' \in [Handlers -> Phases] /\ login' \in {"idle", "reading", "checking"}
    BY <1>1, <2>2 DEF SignIn, react, client, TabType
  <2> QED
    BY <2>1, <2>3, <2>4, <2>5, <2>6 DEF TabType, MaxRetries
<1> USE DEF react, client, effects, calls
<1>2. CASE SignInReads
  <2>1. OutsideType'
    BY <1>2, Counted, OutsideKept DEF SignInReads
  <2>2. session' \in 0..Len(issued)
    BY <1>2 DEF SignInReads, OutsideType
  <2> QED
    BY <1>2, <2>1, <2>2, TabStep DEF SignInReads, TabType, server
<1>3. CASE SignInEnters
  <2>1. OutsideType'
    BY <1>3, Counted, OutsideKept DEF SignInEnters
  <2> QED
    BY <1>3, <2>1, TabStep DEF SignInEnters, TabType, server
<1> QED
    BY <1>1, <1>2, <1>3

LEMMA SwitchTypeStep ==
    ASSUME OutsideType, TabType,
           (\E org \in Orgs : AskSwitch(org)) \/ SwitchGranted \/ SwitchRefused \/ SwitchUpdated
    PROVE  OutsideType' /\ TabType'
<1>1. ASSUME NEW org \in Orgs, AskSwitch(org) PROVE OutsideType' /\ TabType'
  <2> USE DEF react, client, effects
  <2>1. OutsideType'
    BY <1>1, Counted, OutsideKept DEF AskSwitch
  <2>2. switch' \in [phase : {"idle", "posting", "updating"}, token : 0..Len(issued), org : Orgs]
    BY <1>1 DEF AskSwitch, TabType
  <2> QED
    BY <1>1, <2>1, <2>2, TabStep DEF AskSwitch, TabType, server
<1>2. CASE SwitchGranted
  <2>1. switch.org \in Orgs \cup {Sandbox}
    BY DEF TabType
  <2>2. /\ issued' \in Seq(Orgs \cup {Sandbox}) /\ Len(issued') = Len(issued) + 1
        /\ live' \subseteq Tokens'
    BY <1>2, <2>1, Issued, TypeParts DEF SwitchGranted
  <2>3. OutsideType'
    BY <1>2, <2>2, Counted DEF SwitchGranted, OutsideType
  <2>4. \A x : x \in 0..Len(issued) => x \in 0..Len(issued')
    BY <2>2 DEF OutsideType
  <2>5. hook' \in Deps' /\ timer' \in [for : Deps', armed : BOOLEAN]
    <3>1. Deps \subseteq Deps'
      BY <2>4 DEF Deps
    <3> QED
      BY <1>2, <3>1 DEF SwitchGranted, effects, TabType
  <2>6. requests' \in [Slots -> [active : BOOLEAN, token : 0..Len(issued'), tries : 0..MaxRetries]]
    BY <1>2, <2>4 DEF SwitchGranted, TabType
  <2>7. switch' \in [phase : {"idle", "posting", "updating"}, token : 0..Len(issued'), org : Orgs]
    BY <1>2, <2>4 DEF SwitchGranted, TabType
  <2>8. /\ session' \in 0..Len(issued') /\ apiToken' \in 0..Len(issued')
        /\ loading' \in BOOLEAN /\ handled' \in BOOLEAN /\ path' \in {"login", "app"}
        /\ leaving' \in [Handlers -> Phases] /\ login' \in {"idle", "reading", "checking"}
    BY <1>2, <2>2, <2>4 DEF SwitchGranted, OutsideType, TabType
  <2> QED
    BY <2>3, <2>5, <2>6, <2>7, <2>8 DEF TabType, MaxRetries
<1> USE DEF react, client, effects, calls
<1>3. NoSwitch \in [phase : {"idle", "posting", "updating"}, token : 0..Len(issued), org : Orgs]
    BY DEF NoSwitch, OutsideType
<1>4. CASE SwitchRefused
  <2>1. OutsideType'
    BY <1>4, Counted, OutsideKept DEF SwitchRefused
  <2>2. apiToken' \in 0..Len(issued) /\ handled' \in BOOLEAN /\ leaving' \in [Handlers -> Phases]
    BY <1>4, FailureTyped DEF SwitchRefused
  <2> QED
    BY <1>3, <1>4, <2>1, <2>2, TabStep DEF SwitchRefused, TabType, server
<1>5. CASE SwitchUpdated
  <2>1. OutsideType'
    BY <1>5, Counted, OutsideKept DEF SwitchUpdated
  <2>2. session' \in 0..Len(issued)
    BY <1>5 DEF SwitchUpdated, OutsideType, TabType
  <2> QED
    BY <1>3, <1>5, <2>1, <2>2, TabStep DEF SwitchUpdated, TabType, server
<1> QED
    BY <1>1, <1>2, <1>4, <1>5

LEMMA UserTypeStep ==
    ASSUME OutsideType, TabType,
           (\E to \in {"app", "login"} : OpenPage(to)) \/ Reload \/ Logout \/ OtherTab
    PROVE  OutsideType' /\ TabType'
<1>1. ASSUME NEW to \in {"app", "login"}, OpenPage(to) PROVE OutsideType' /\ TabType'
  <2> USE DEF client, calls
  <2>1. OutsideType'
    BY <1>1, Counted, OutsideKept DEF OpenPage
  <2> QED
    BY <1>1, <2>1, SeenTyped, TabStep DEF OpenPage, TabType, server
<1>2. CASE Reload
  <2>1. OutsideType'
    BY <1>2, Counted, OutsideKept DEF Reload
  <2> QED
    BY <1>2, <2>1, TabLoaded DEF Reload, OutsideType, TabType
<1>3. CASE Logout
  <2>1. cookie' \in 0..Len(issued') /\ UNCHANGED server
    BY <1>3 DEF Logout, OutsideType, server
  <2>2. OutsideType'
    BY <1>3, <2>1, Counted DEF Logout, OutsideType, server, Tokens
  <2> QED
    BY <1>3, <2>2, TabLoaded DEF Logout, OutsideType
<1>4. CASE OtherTab
  <2>1. OutsideType' /\ Len(issued') \in Nat /\ Len(issued') >= Len(issued)
    <3>1. CASE cookie' = 0 /\ UNCHANGED server
      BY <1>4, <3>1, Counted DEF OtherTab, OutsideType, server, Tokens
    <3>2. ASSUME NEW org \in {Home, Sandbox}, Authorize(org)
          PROVE  OutsideType' /\ Len(issued') \in Nat /\ Len(issued') >= Len(issued)
      BY <1>4, <3>2, Counted, Authorized DEF OtherTab
    <3> QED
      BY <1>4, <3>1, <3>2 DEF OtherTab
  <2> QED
    BY <1>4, <2>1, TabKept DEF OtherTab, OutsideType
<1> QED
    BY <1>1, <1>2, <1>3, <1>4

\* Tokens, effects, requests and forms keep to their values, and every token that
\* the tab, its cookie or a request holds was issued.
THEOREM TypeCorrect == Spec => []TypeOK
<1>1. OutsideType /\ TabType /\ [Next]_vars => (OutsideType /\ TabType)'
  <2> SUFFICES ASSUME OutsideType, TabType, [Next]_vars PROVE OutsideType' /\ TabType'
    OBVIOUS
  <2>1. CASE UNCHANGED vars
    <3>1. UNCHANGED <<server, cookie, react, client, effects, calls, bounds>>
      BY <2>1 DEF vars
    <3>2. UNCHANGED issued
      BY <3>1 DEF server
    <3> QED
      BY <3>1, <3>2, Counted, OutsideKept, TabKept DEF OutsideType
  <2> QED
    BY <2>1, ServerTypeStep, ProviderTypeStep, LeavingTypeStep, RequestTypeStep, SignInTypeStep,
       SwitchTypeStep, UserTypeStep DEF Next
<1>2. Init => OutsideType /\ TabType
    BY TypeInit, TypeParts
<1>3. OutsideType /\ TabType => TypeOK
    BY TypeParts
<1> QED
    BY <1>1, <1>2, <1>3, PTL DEF Spec

--------------------------------------------------------------------------------
(***************************************************************************)
(* The API client's token.                                                 *)
(***************************************************************************)

\* The hook belongs to a mounted page, so leaving the pages forgets what it saw.
HookOfPage ==
    /\ path \in {"login", "app"} /\ loading \in BOOLEAN
    /\ path = "login" => hook = Unseen

TokenInv == HookOfPage /\ TokenMatchesSession

\* No status that a page can show is that of an unmounted one.
LEMMA SeenIsMounted == Seen # Unseen
    BY DEF Seen, Unseen, Status

\* A new session arrives when the effects of the one before have run: if the hook
\* has seen it already, it is the same session, and the token is still right.
LEMMA SessionArrives ==
    ASSUME TokenInv, EffectsRan, loading' = FALSE, UNCHANGED <<path, apiToken, hook>>
    PROVE  TokenInv'
<1>1. HookOfPage'
    BY DEF TokenInv, HookOfPage, Unseen
<1>2. SUFFICES ASSUME path = "app", hook = Seen'
               PROVE  apiToken \in {0, session'}
    BY <1>1 DEF TokenInv, TokenMatchesSession
<1>3. hook = Seen
    BY <1>2 DEF EffectsRan
<1>4. session' = session
    BY <1>2, <1>3 DEF Seen
<1>5. Status' # "loading"
    BY DEF Status
<1>6. Status # "loading"
    BY <1>2, <1>3, <1>5 DEF Seen
<1>7. ~loading
    BY <1>6 DEF Status, TokenInv, HookOfPage
<1> QED
    BY <1>2, <1>3, <1>4, <1>7 DEF TokenInv, TokenMatchesSession

\* What neither hook nor session is concerned with leaves the token right, and so
\* does clearing it.
LEMMA TokenKept ==
    ASSUME TokenInv, UNCHANGED <<path, loading, session, hook>>, apiToken' \in {apiToken, 0}
    PROVE  TokenInv'
    BY DEF TokenInv, HookOfPage, TokenMatchesSession, Seen, Status, Unseen

\* A page that mounts has seen nothing yet.
LEMMA HookForgotten ==
    ASSUME TokenInv, hook' = Unseen, path' \in {"login", "app"}, loading' \in BOOLEAN
    PROVE  TokenInv'
<1>1. Seen' # Unseen
    BY DEF Seen, Unseen, Status
<1> QED
    BY <1>1 DEF TokenInv, HookOfPage, TokenMatchesSession, Unseen

LEMMA EffectsSetToken ==
    ASSUME TokenInv, RunEffects
    PROVE  TokenInv'
<1> USE DEF RunEffects, react
<1>1. HookOfPage'
    BY DEF TokenInv, HookOfPage, Unseen
<1>2. Seen' = Seen /\ Status' = Status
    BY DEF Seen, Status
<1>3. SUFFICES ASSUME path = "app", ~loading
               PROVE  apiToken' \in {0, session}
    BY <1>1 DEF TokenInv, TokenMatchesSession
<1>4. hook' = Seen
    BY <1>3
<1>5. Status \in {"authenticated", "unauthenticated"}
    BY <1>3 DEF Status
<1>6. CASE hook = Seen
    BY <1>3, <1>4, <1>6 DEF TokenInv, TokenMatchesSession
<1>7. CASE hook # Seen
    BY <1>4, <1>5, <1>7
<1> QED
    BY <1>6, <1>7

LEMMA TokenStep ==
    ASSUME TokenInv, [Next]_vars
    PROVE  TokenInv'
<1> USE DEF server, react, client, effects, calls, bounds
<1>1. CASE GuestExpires \/ GuestCleanup \/ \E t \in Tokens : TokenDies(t)
    BY <1>1, TokenKept DEF GuestExpires, GuestCleanup, TokenDies
<1>2. CASE ReadSession
    BY <1>2, SessionArrives DEF ReadSession
<1>3. CASE RunEffects
    BY <1>3, EffectsSetToken
<1>4. CASE GuardRedirect
    BY <1>4, HookForgotten DEF GuardRedirect, TokenInv, HookOfPage
<1>5. ASSUME NEW h \in Handlers, TimerFires(h) \/ SignOutPosted(h) \/ SignOutLost(h)
      PROVE  TokenInv'
    BY <1>5, TokenKept DEF TimerFires, SignOutPosted, SignOutLost
<1>6. ASSUME NEW h \in Handlers, SignedOut(h) PROVE TokenInv'
    BY <1>6, SessionArrives DEF SignedOut
<1>7. ASSUME NEW h \in Handlers, LeavePage(h) PROVE TokenInv'
    BY <1>7, HookForgotten DEF LeavePage, TokenInv, HookOfPage
<1>8. ASSUME NEW s \in Slots, Send(s) \/ AnswerOk(s) \/ Answer401(s) \/ AnswerLost(s)
      PROVE  TokenInv'
    BY <1>8, TokenKept DEF Send, AnswerOk, Answer401, AuthenticationFails, AnswerLost
<1>9. CASE HandledTimeout
    BY <1>9, TokenKept DEF HandledTimeout
<1>10. ASSUME NEW org \in {Home, Sandbox}, SignIn(org) PROVE TokenInv'
    BY <1>10, TokenKept DEF SignIn
<1>11. CASE SignInReads
    BY <1>11, SessionArrives DEF SignInReads
<1>12. CASE SignInEnters
  <2>1. CASE path = "login"
    BY <1>12, <2>1, HookForgotten DEF SignInEnters, TokenInv, HookOfPage
  <2>2. CASE path = "app"
    BY <1>12, <2>2, TokenKept DEF SignInEnters
  <2> QED
    BY <2>1, <2>2 DEF TokenInv, HookOfPage
<1>13. ASSUME NEW org \in Orgs, AskSwitch(org) PROVE TokenInv'
    BY <1>13, TokenKept DEF AskSwitch
<1>14. CASE SwitchGranted
    BY <1>14 DEF SwitchGranted, TokenInv, HookOfPage, TokenMatchesSession, Unseen
<1>15. CASE SwitchRefused
    BY <1>15, TokenKept DEF SwitchRefused, AuthenticationFails
<1>16. CASE SwitchUpdated
    BY <1>16, SessionArrives DEF SwitchUpdated
<1>17. ASSUME NEW to \in {"app", "login"}, OpenPage(to) PROVE TokenInv'
    BY <1>17, HookForgotten DEF OpenPage, TokenInv, HookOfPage
<1>18. CASE Reload \/ Logout
    BY <1>18, HookForgotten DEF Reload, Logout, LoadTab, TokenInv, HookOfPage
<1>19. CASE OtherTab
    BY <1>19, TokenKept DEF OtherTab
<1>20. CASE UNCHANGED vars
    BY <1>20, TokenKept DEF vars
<1> QED
    BY <1>1, <1>2, <1>3, <1>4, <1>5, <1>6, <1>7, <1>8, <1>9, <1>10, <1>11, <1>12, <1>13,
       <1>14, <1>15, <1>16, <1>17, <1>18, <1>19, <1>20 DEF Next

\* However sign-ins, switches, expiries, lost answers and reloads overlap, the
\* ApiClient sends the token of the session on display or none once the effects of
\* a page have run (useAuthenticatedApi).
THEOREM TokenIsOfSession == Spec => []TokenMatchesSession
<1>1. Init => TokenInv
    BY DEF Init, TokenInv, HookOfPage, TokenMatchesSession
<1>2. TokenInv /\ [Next]_vars => TokenInv'
    BY TokenStep
<1>3. TokenInv => TokenMatchesSession
    BY DEF TokenInv
<1> QED
    BY <1>1, <1>2, <1>3, PTL DEF Spec
================================================================================
