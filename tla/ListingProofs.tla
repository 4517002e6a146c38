---------------------------- MODULE ListingProofs ----------------------------
(***************************************************************************)
(* The list of accounts: what a filter finds, and what a walk through the  *)
(* pages shows while other requests commit.                                *)
(***************************************************************************)
EXTENDS Listing, FiniteSetTheorems, SequenceTheorems, TLAPS

-----------------------------------------------------------------------------
(* Numbers and counting.                                                   *)

\* A set of numbers has a least one: of counterexamples, the first.
LEMMA LeastNumber ==
  ASSUME NEW T \in SUBSET Nat, T # {}
  PROVE  \E n \in T : \A m \in T : n <= m
<1>1. IsWellFoundedOn(OpToRel(<, Nat), Nat)
  BY NatLessThanWellFounded
<1>2. PICK n \in T : \A m \in T : <<m, n>> \notin OpToRel(<, Nat)
  BY <1>1, WFMin, Zenon
<1>3. \A m \in T : ~(m < n)
  BY <1>2 DEF OpToRel
<1> QED
  BY <1>3

LEMMA MinOfTwo ==
  ASSUME NEW a \in Nat, NEW b \in Nat
  PROVE  Min({a, b}) = IF a <= b THEN a ELSE b
<1> DEFINE Least(x) == x \in {a, b} /\ \A y \in {a, b} : x <= y
<1>1. Least(IF a <= b THEN a ELSE b)
  OBVIOUS
<1>2. Min({a, b}) = CHOOSE x \in {a, b} : \A y \in {a, b} : x <= y
  BY DEF Min
<1>3. Least(Min({a, b}))
  BY <1>1, <1>2
<1> QED
  BY <1>1, <1>3

\* If every row of S lives on in T under its id, T has at least as many.
LEMMA AtLeastAsMany ==
  ASSUME NEW S, NEW T, IsFiniteSet(T),
         \A u, v \in S : u.id = v.id => u = v,
         \A u \in S : \E v \in T : v.id = u.id
  PROVE  IsFiniteSet(S) /\ Cardinality(S) <= Cardinality(T)
<1> DEFINE f == [u \in S |-> CHOOSE v \in T : v.id = u.id]
<1>1. \A u \in S : f[u] \in T /\ f[u].id = u.id
  OBVIOUS
<1>2. f \in Injection(S, T)
  BY <1>1 DEF Injection, IsInjective
<1> HIDE DEF f
<1> QED
  BY <1>2, FS_Injection

-----------------------------------------------------------------------------
(* ILIKE.                                                                  *)

\* f"%{x}%", character by character.
LEMMA PatternFacts ==
  ASSUME NEW x \in Text
  PROVE  LET q == <<"%">> \o x \o <<"%">>
         IN  /\ Len(q) = Len(x) + 2
             /\ q[1] = "%" /\ q[Len(x) + 2] = "%"
             /\ \A i \in 2 .. Len(x) + 1 : q[i] = x[i - 1]
  BY DEF Text

\* Without backslashes nothing is quoted.
LEMMA NothingQuoted ==
  ASSUME NEW x \in Text, "\\" \notin ToSet(x)
  PROVE  LET q == <<"%">> \o x \o <<"%">>
         IN  \A i \in 1 .. Len(q) : q[i] # "\\" /\ ~Quoted(q, i)
<1> DEFINE q == <<"%">> \o x \o <<"%">>
<1>1. /\ Len(q) = Len(x) + 2 /\ q[1] = "%" /\ q[Len(x) + 2] = "%"
      /\ \A i \in 2 .. Len(x) + 1 : q[i] = x[i - 1]
  BY PatternFacts
<1>2. Len(x) \in Nat /\ DOMAIN x = 1 .. Len(x)
  BY DEF Text
<1> HIDE DEF q
<1>3. \A i \in 1 .. Len(q) : q[i] # "\\"
  BY <1>1, <1>2 DEF ToSet
<1>4. \A i \in 1 .. Len(q) : ~Quoted(q, i)
  BY <1>1, <1>2, <1>3 DEF Quoted
<1> QED
  BY <1>3, <1>4 DEF q

\* A filter without backslashes finds every text that contains it: wildcards
\* in it match themselves, too.
LEMMA WithinPasses ==
  ASSUME NEW text \in Text, NEW x \in Text, "\\" \notin ToSet(x), Within(x, text)
  PROVE  TextPasses(text, x)
<1> DEFINE q == <<"%">> \o x \o <<"%">>
           n == Len(x)
           t == Len(text)
<1>1. /\ Len(q) = n + 2 /\ q[1] = "%" /\ q[n + 2] = "%"
      /\ \A i \in 2 .. n + 1 : q[i] = x[i - 1]
  BY PatternFacts
<1>2. \A i \in 1 .. n + 2 : q[i] # "\\" /\ ~Quoted(q, i)
  BY <1>1, NothingQuoted
<1>3. n \in Nat /\ t \in Nat
  BY DEF Text
<1>4. PICK k \in 0 .. t - n : SubSeq(text, k + 1, k + n) = x
  BY DEF Within
<1>5. \A i \in 1 .. n : text[k + i] = x[i]
  BY <1>3, <1>4 DEF Text
<1> DEFINE at == [i \in 1 .. n + 3 |->
                    IF i = 1 THEN 1 ELSE IF i = n + 3 THEN t + 1 ELSE k + i - 1]
<1>6. at \in [1 .. n + 3 -> 1 .. t + 1] /\ at[1] = 1 /\ at[n + 3] = t + 1
  BY <1>3, <1>4
<1>7. at[2] >= at[1] /\ at[n + 3] >= at[n + 2]
  BY <1>3, <1>4
<1>8. \A i \in 2 .. n + 1 : at[i] = k + i - 1 /\ at[i + 1] = at[i] + 1 /\ text[at[i]] = q[i]
  BY <1>1, <1>3, <1>4, <1>5
<1>9. Like(text, q)
 <2> HIDE DEF q, at
 <2>1. \A i \in 1 .. n + 2 :
         \/ q[i] = "%" /\ at[i + 1] >= at[i]
         \/ q[i] # "%" /\ at[i + 1] = at[i] + 1 /\ text[at[i]] = q[i]
   BY <1>1, <1>3, <1>6, <1>7, <1>8
 <2>2. at \in [1 .. Len(q) + 1 -> 1 .. Len(text) + 1] /\ at[Len(q) + 1] = Len(text) + 1
   BY <1>1, <1>3, <1>6
 <2>3. \A i \in 1 .. Len(q) : q[i] # "\\" /\ ~Quoted(q, i)
   BY <1>1, <1>2
 <2> QED
   BY <1>1, <1>6, <2>1, <2>2, <2>3 DEF Like
<1> QED
  BY <1>9 DEF TextPasses

\* A filter without any special character finds nothing else.
LEMMA PassesWithin ==
  ASSUME NEW text \in Text, NEW x \in Text, Plain(x), TextPasses(text, x)
  PROVE  Within(x, text)
<1> DEFINE q == <<"%">> \o x \o <<"%">>
           n == Len(x)
           t == Len(text)
<1>1. CASE x = <<>>
  BY <1>1 DEF Within, Text
<1>2. CASE x # <<>>
 <2>1. /\ Len(q) = n + 2 /\ q[1] = "%" /\ q[n + 2] = "%"
       /\ \A i \in 2 .. n + 1 : q[i] = x[i - 1]
   BY PatternFacts
 <2>2. \A i \in 1 .. n + 2 : q[i] # "\\" /\ ~Quoted(q, i)
   BY <2>1, NothingQuoted DEF Plain
 <2>3. n \in Nat /\ t \in Nat /\ DOMAIN x = 1 .. n
   BY DEF Text
 <2>4. \A i \in 2 .. n + 1 : q[i] # "%" /\ q[i] # "_"
  <3> SUFFICES ASSUME NEW i \in 2 .. n + 1 PROVE q[i] # "%" /\ q[i] # "_"
    OBVIOUS
  <3>1. i - 1 \in DOMAIN x /\ q[i] = x[i - 1]
    BY <2>1, <2>3
  <3> QED
    BY <3>1 DEF Plain, ToSet
 <2>5. Like(text, q)
   BY <1>2 DEF TextPasses
 <2> HIDE DEF q
 <2>6. PICK at \in [1 .. Len(q) + 1 -> 1 .. t + 1] :
         /\ at[Len(q) + 1] = t + 1
         /\ \A i \in 1 .. Len(q) :
              \/ q[i] = "%" /\ at[i + 1] >= at[i]
              \/ q[i] # "%" /\ at[i + 1] = at[i] + 1 /\ (q[i] = "_" \/ text[at[i]] = q[i])
   BY <2>1, <2>2, <2>5 DEF Like
 <2>7. /\ at \in [1 .. n + 3 -> 1 .. t + 1] /\ at[n + 3] = t + 1
        /\ at[n + 3] >= at[n + 2]
        /\ \A i \in 2 .. n + 1 : at[i + 1] = at[i] + 1 /\ text[at[i]] = q[i]
  <3>1. Len(q) = n + 2 /\ Len(q) + 1 = n + 3 /\ n + 2 \in 1 .. Len(q) /\ (n + 2) + 1 = n + 3
    BY <2>1, <2>3
  <3>2. at[n + 3] >= at[n + 2]
    BY <2>1, <2>6, <3>1
  <3>3. ASSUME NEW i \in 2 .. n + 1
        PROVE  at[i + 1] = at[i] + 1 /\ text[at[i]] = q[i]
   <4>1. i \in 1 .. Len(q)
     BY <2>3, <3>1
   <4>2. q[i] # "%" /\ q[i] # "_"
     BY <2>4
   <4> QED
     BY <2>6, <4>1, <4>2
  <3> QED
    BY <2>6, <3>1, <3>2, <3>3
 <2> DEFINE k == at[2] - 1
            Gaps == {i \in 2 .. n + 2 : at[i] # k + i - 1}
 <2>8. Gaps = {}
  <3> SUFFICES ASSUME Gaps # {} PROVE FALSE
    OBVIOUS
  <3>1. Gaps \in SUBSET Nat
    BY <2>3
  <3>2. PICK i \in Gaps : \A j \in Gaps : i <= j
    BY <3>1, LeastNumber
  <3>3. i # 2
    BY <2>3, <2>7, <3>2
  <3>4. i - 1 \in 2 .. n + 1 /\ i - 1 \notin Gaps
    BY <2>3, <3>2, <3>3
  <3>5. at[i - 1] = k + (i - 1) - 1 /\ at[(i - 1) + 1] = at[i - 1] + 1
    BY <2>3, <2>7, <3>4
  <3>6. (i - 1) + 1 = i /\ at[i] # k + i - 1 /\ k \in Int /\ i \in Int
   <4>1. i \in Nat /\ at[i] # k + i - 1
     BY <2>3, <3>2
   <4>2. at[2] \in 1 .. t + 1
     BY <2>3, <2>7
   <4> QED
     BY <2>3, <4>1, <4>2
  <3> QED
    BY <3>5, <3>6
 <2>9. \A i \in 2 .. n + 2 : at[i] = k + i - 1
   BY <2>8
 <2>10. k \in 0 .. t - n
  <3>1. at[2] \in 1 .. t + 1 /\ at[n + 2] \in 1 .. t + 1 /\ at[n + 2] = k + (n + 2) - 1
    BY <2>3, <2>7, <2>9
  <3> QED
    BY <2>3, <2>7, <3>1
 <2>11. \A i \in 1 .. n : text[k + i] = x[i]
  <3> SUFFICES ASSUME NEW i \in 1 .. n PROVE text[k + i] = x[i]
    OBVIOUS
  <3>1. i + 1 \in 2 .. n + 1 /\ i + 1 \in 2 .. n + 2
    BY <2>3
  <3>2. at[i + 1] = k + i /\ text[at[i + 1]] = q[i + 1] /\ q[i + 1] = x[i]
    BY <2>1, <2>3, <2>7, <2>9, <3>1
  <3> QED
    BY <3>2
 <2>12. SubSeq(text, k + 1, k + n) = x
   BY <2>3, <2>10, <2>11 DEF Text
 <2> QED
   BY <2>10, <2>12 DEF Within
<1> QED
  BY <1>1, <1>2

-----------------------------------------------------------------------------
(* Orders and pages.                                                       *)

\* Every row stands in every order, exactly once.
LEMMA OrderFacts ==
  ASSUME NEW rows, IsFiniteSet(rows), NEW s \in Orders(rows)
  PROVE  /\ s \in Seq(rows) /\ Len(s) = Cardinality(rows)
         /\ \A i, j \in 1 .. Len(s) : s[i] = s[j] => i = j
         /\ \A u \in rows : \E i \in 1 .. Len(s) : s[i] = u
         /\ \A i, j \in 1 .. Len(s) : Precedes(s[i], s[j]) => i < j
<1> DEFINE n == Cardinality(rows)
<1>1. n \in Nat
  BY FS_CardinalityType
<1>2. /\ s \in [1 .. n -> rows] /\ \A i, j \in 1 .. n : i # j => s[i] # s[j]
      /\ \A i, j \in DOMAIN s : Precedes(s[i], s[j]) => i < j
  BY DEF Orders, SetToSeqs
<1>3. s \in Seq(rows) /\ Len(s) = n
  BY <1>1, <1>2
<1>4. s \in Injection(1 .. n, rows)
  BY <1>2 DEF Injection, IsInjective
<1>5. IsFiniteSet(1 .. n) /\ Cardinality(1 .. n) = n
  BY <1>1, FS_Interval
<1>6. s \in Surjection(1 .. n, rows)
  BY <1>4, <1>5, FS_Injection
<1>7. \A u \in rows : \E i \in 1 .. n : s[i] = u
  BY <1>6 DEF Surjection
<1> QED
  BY <1>2, <1>3, <1>7

\* The rows in front of a steady account are those of a smaller index.
LEMMA PositionCounts ==
  ASSUME ListingTypeOK, NEW s \in Orders(Matching), NEW k \in 1 .. Len(s),
         Steady(s[k])
  PROVE  Cardinality(Before(s[k])) = k - 1
<1> DEFINE u == s[k]
           S == 1 .. k - 1
           f == [i \in S |-> s[i]]
<1>1. IsFiniteSet(Matching)
  BY FS_Subset DEF ListingTypeOK, Matching
<1>2. /\ s \in Seq(Matching)
      /\ \A i, j \in 1 .. Len(s) : s[i] = s[j] => i = j
      /\ \A v \in Matching : \E i \in 1 .. Len(s) : s[i] = v
      /\ \A i, j \in 1 .. Len(s) : Precedes(s[i], s[j]) => i < j
  BY <1>1, OrderFacts
<1>3. Len(s) \in Nat /\ \A i \in 1 .. Len(s) : s[i] \in Matching
  BY <1>2
<1>4. \A v \in Matching : v \in Account /\ v \in table
  BY DEF ListingTypeOK, Matching
<1>5. \A v \in Matching : v # u => Precedes(v, u) \/ Precedes(u, v)
 <2> SUFFICES ASSUME NEW v \in Matching, v # u PROVE Precedes(v, u) \/ Precedes(u, v)
   OBVIOUS
 <2>1. v \in Account /\ u \in Account /\ v \in table /\ u \in table
   BY <1>3, <1>4
 <2>2. v.id # u.id
   BY <2>1 DEF ListingTypeOK
 <2>3. v.created # u.created
   BY <2>1, <2>2 DEF Steady
 <2> QED
   BY <2>1, <2>3 DEF Precedes, Account
<1>6. \A i \in S : s[i] \in Before(u)
 <2> SUFFICES ASSUME NEW i \in S PROVE s[i] \in Before(u)
   OBVIOUS
 <2>1. i \in 1 .. Len(s) /\ i < k
   BY <1>3
 <2>2. s[i] # u /\ ~Precedes(u, s[i])
   BY <1>2, <1>3, <2>1
 <2> QED
   BY <1>3, <1>5, <2>1, <2>2 DEF Before
<1>7. \A v \in Before(u) : \E i \in S : s[i] = v
 <2> SUFFICES ASSUME NEW v \in Before(u) PROVE \E i \in S : s[i] = v
   OBVIOUS
 <2>1. PICK i \in 1 .. Len(s) : s[i] = v
   BY <1>2 DEF Before
 <2>2. i < k
   BY <1>2, <2>1 DEF Before
 <2> QED
   BY <1>3, <2>1, <2>2
<1>8. \A i, j \in S : s[i] = s[j] => i = j
 <2>1. \A i \in S : i \in 1 .. Len(s)
   BY <1>3
 <2> QED
   BY <1>2, <2>1
<1>9. f \in Bijection(S, Before(u))
  BY <1>6, <1>7, <1>8 DEF Bijection, Injection, IsInjective, Surjection
<1>10. IsFiniteSet(S) /\ Cardinality(S) = k - 1
 <2>1. 1 \in Int /\ k - 1 \in Int /\ (IF 1 > k - 1 THEN 0 ELSE k - 1 - 1 + 1) = k - 1
   BY <1>3
 <2> QED
   BY <2>1, FS_Interval
<1> HIDE DEF f, S
<1>11. Cardinality(Before(u)) = Cardinality(S)
  BY <1>9, <1>10, FS_Bijection DEF ExistsBijection
<1> QED
  BY <1>10, <1>11

\* LIMIT and OFFSET.
LEMMA SliceFacts ==
  ASSUME NEW rows, NEW s \in Seq(rows), NEW m \in Nat \ {0}, NEW n \in Nat, n <= Len(s)
  PROVE  /\ SubSeq(s, m, n) \in Seq(rows)
         /\ Len(SubSeq(s, m, n)) = IF m <= n THEN n - m + 1 ELSE 0
         /\ \A i \in 1 .. n - m + 1 : SubSeq(s, m, n)[i] = s[m + i - 1]
  OBVIOUS

LEMMA PageFacts ==
  ASSUME NEW rows, NEW s \in Seq(rows), NEW skip \in Nat, NEW n \in Nat
  PROVE  LET shown == SubSeq(s, skip + 1, Min({skip + n, Len(s)}))
         IN  /\ shown \in Seq(rows) /\ Len(shown) <= n
             /\ shown # <<>> => skip + Len(shown) <= Len(s)
             /\ \A k \in 1 .. Len(s) :
                  k > skip /\ k <= skip + n => \E i \in 1 .. Len(shown) : shown[i] = s[k]
<1> DEFINE last == Min({skip + n, Len(s)})
           first == skip + 1
           shown == SubSeq(s, first, last)
<1>1. Len(s) \in Nat
  OBVIOUS
<1>2. last = IF skip + n <= Len(s) THEN skip + n ELSE Len(s)
  BY <1>1, MinOfTwo
<1>3. last \in Nat /\ last <= Len(s) /\ last <= skip + n
  BY <1>1, <1>2
<1>4. first \in Nat \ {0} /\ first = skip + 1
  OBVIOUS
<1> HIDE DEF last, first
<1>5. /\ shown \in Seq(rows)
      /\ Len(shown) = IF first <= last THEN last - first + 1 ELSE 0
      /\ \A i \in 1 .. last - first + 1 : shown[i] = s[first + i - 1]
  BY <1>3, <1>4, SliceFacts
<1> HIDE DEF shown
<1>6. Len(shown) <= n
  BY <1>3, <1>4, <1>5
<1>7. ASSUME shown # <<>> PROVE skip + Len(shown) <= Len(s)
 <2>1. Len(shown) # 0
   BY <1>5, <1>7, EmptySeq
 <2>2. Len(shown) = last - first + 1
   BY <1>5, <2>1
 <2> QED
   BY <1>1, <1>3, <1>4, <2>2
<1>8. ASSUME NEW k \in 1 .. Len(s), k > skip, k <= skip + n
      PROVE  \E i \in 1 .. Len(shown) : shown[i] = s[k]
 <2>1. k <= last
   BY <1>1, <1>2, <1>8
 <2>2. k - skip \in 1 .. last - first + 1 /\ first + (k - skip) - 1 = k
   BY <1>3, <1>4, <1>8, <2>1
 <2>3. k - skip \in 1 .. Len(shown)
   BY <1>3, <1>4, <1>5, <1>8, <2>1
 <2> QED
   BY <1>5, <2>2, <2>3
<1> QED
  BY <1>5, <1>6, <1>7, <1>8 DEF shown, first, last

-----------------------------------------------------------------------------
(* The statements of the walk.                                             *)

LEMMA Counted ==
  ASSUME ListingTypeOK
  PROVE  /\ size \in Nat \ {0} /\ page \in Nat /\ Offset \in Nat /\ Passed \in Nat
         /\ IsFiniteSet(Matching) /\ Cardinality(Matching) \in Nat
         /\ Matching \subseteq Account
         /\ \A u : IsFiniteSet(Before(u)) /\ Cardinality(Before(u)) \in Nat
<1>1. size \in Nat \ {0} /\ page \in Nat
  BY ListingAssumption DEF ListingTypeOK
<1>2. Offset \in Nat
  BY <1>1 DEF Offset
<1>3. Passed \in Nat
  BY <1>1, <1>2 DEF Passed
<1>4. IsFiniteSet(Matching) /\ Matching \subseteq Account
  BY FS_Subset DEF ListingTypeOK, Matching
<1>5. \A u : IsFiniteSet(Before(u))
  BY <1>4, FS_Subset DEF Before
<1> QED
  BY <1>1, <1>2, <1>3, <1>4, <1>5, FS_CardinalityType

LEMMA InitFits == Init => ListingInv
<1> SUFFICES ASSUME Init PROVE ListingInv
  OBVIOUS
<1>1. ListingTypeOK
  BY ListingAssumption DEF Init, ListingTypeOK
<1>2. Passed = 0
  BY <1>1, Counted DEF Init, Passed, Offset
<1>3. StillAhead
  BY <1>1, <1>2, Counted DEF Init, StillAhead
<1> QED
  BY <1>1, <1>3 DEF Init, ListingInv, TotalCoversItems

LEMMA GetStep == ListingInv /\ GetFiltered => ListingInv'
<1> SUFFICES ASSUME ListingInv, GetFiltered PROVE ListingInv'
  OBVIOUS
<1>1. ListingTypeOK /\ StillAhead
  BY DEF ListingInv
<1>2. /\ stage = "get" /\ stage' = "count" /\ seen' = seen \cup {items'[i].id : i \in DOMAIN items'}
      /\ UNCHANGED <<table, filter, size, page, total, touched, calm, writes>>
  BY DEF GetFiltered, Statement
<1>3. PICK s \in Orders(Matching) :
        items' = SubSeq(s, Offset + 1, Min({Offset + Limit, Len(s)}))
  BY DEF GetFiltered
<1>4. /\ size \in Nat \ {0} /\ page \in Nat /\ Offset \in Nat
      /\ IsFiniteSet(Matching) /\ Cardinality(Matching) \in Nat
      /\ Matching \subseteq Account
  BY <1>1, Counted
<1>5. /\ s \in Seq(Matching) /\ Len(s) = Cardinality(Matching)
      /\ \A u \in Matching : \E k \in 1 .. Len(s) : s[k] = u
  BY <1>4, OrderFacts
<1>6. /\ items' \in Seq(Matching) /\ Len(items') <= size
      /\ items' # <<>> => Offset + Len(items') <= Len(s)
      /\ \A k \in 1 .. Len(s) :
           k > Offset /\ k <= Offset + size => \E i \in 1 .. Len(items') : items'[i] = s[k]
 <2>1. /\ s \in Seq(Matching) /\ Offset \in Nat /\ size \in Nat
       /\ items' = SubSeq(s, Offset + 1, Min({Offset + size, Len(s)}))
   BY <1>3, <1>4, <1>5 DEF Limit
 <2> QED
   BY <2>1, PageFacts, Zenon
<1>7. /\ Matching' = Matching /\ Offset' = Offset
      /\ \A u : Before(u)' = Before(u) /\ Steady(u)' = Steady(u)
  BY <1>2 DEF Matching, Offset, Before, Steady
<1>8. \A i \in DOMAIN items' : items'[i] \in Matching
  BY <1>6
<1>9. ListingTypeOK'
 <2>1. items' \in Seq(Account)
   BY <1>4, <1>6
 <2>2. \A i \in DOMAIN items' : items'[i].id \in DOMAIN EmailOf
   BY <1>4, <1>8 DEF Account
 <2>3. seen' \subseteq DOMAIN EmailOf
   BY <1>1, <1>2, <2>2 DEF ListingTypeOK
 <2> QED
   BY <1>1, <1>2, <1>6, <2>1, <2>3 DEF ListingTypeOK
<1>10. StillAhead'
 <2> SUFFICES ASSUME calm', NEW u \in table', Steady(u)', u.id \notin seen'
     PROVE  /\ stage' # "over" /\ Cardinality(Before(u)') >= Passed'
            /\ stage' = "turn" => Passed' < total'
   BY DEF StillAhead
 <2>1. calm /\ u \in table /\ Steady(u) /\ u.id \notin seen
   BY <1>2, <1>7
 <2>2. Cardinality(Before(u)) >= Offset
   BY <1>1, <1>2, <2>1 DEF StillAhead, Passed
 <2>3. u \in Matching
   BY <2>1 DEF Matching, Steady
 <2>4. PICK k \in 1 .. Len(s) : s[k] = u
   BY <1>5, <2>3
 <2>5. Cardinality(Before(u)) = k - 1
   BY <1>1, <2>1, <2>4, PositionCounts
 <2>6. ~(k > Offset /\ k <= Offset + size)
  <3> SUFFICES ASSUME k > Offset /\ k <= Offset + size PROVE FALSE
    OBVIOUS
  <3>1. PICK i \in 1 .. Len(items') : items'[i] = s[k]
    BY <1>6, <2>4
  <3>2. i \in DOMAIN items' /\ items'[i] = u
    BY <1>6, <2>4, <3>1
  <3> QED
    BY <1>2, <3>2
 <2>7. k \in Nat
   BY <2>4
 <2>8. Cardinality(Before(u)) >= Offset + size
   BY <1>4, <2>2, <2>5, <2>6, <2>7
 <2>9. Passed' = Offset + size
   BY <1>2, <1>7 DEF Passed
 <2> QED
   BY <1>2, <1>7, <2>8, <2>9
<1>11. \A i \in DOMAIN items' : Passes(items'[i], filter')
  BY <1>2, <1>8 DEF Matching
<1>12. items' # <<>> => Offset' + Len(items') <= Cardinality(Matching')
  BY <1>5, <1>6, <1>7
<1> QED
  BY <1>2, <1>9, <1>10, <1>11, <1>12 DEF ListingInv, TotalCoversItems

\* An account in the list is one row more than those in front of it.
LEMMA OneMore ==
  ASSUME ListingTypeOK, NEW u \in Matching
  PROVE  Cardinality(Before(u)) < Cardinality(Matching)
<1>1. /\ IsFiniteSet(Matching) /\ Cardinality(Matching) \in Nat /\ u \in Account
      /\ IsFiniteSet(Before(u)) /\ Cardinality(Before(u)) \in Nat
  BY Counted
<1>2. u \notin Before(u)
  BY <1>1 DEF Before, Precedes, Account
<1>3. Cardinality(Before(u) \cup {u}) = Cardinality(Before(u)) + 1
  BY <1>1, <1>2, FS_AddElement
<1>4. Before(u) \cup {u} \in SUBSET Matching
  BY DEF Before
<1>5. Cardinality(Before(u) \cup {u}) <= Cardinality(Matching)
  BY <1>1, <1>4, FS_Subset
<1> QED
  BY <1>1, <1>3, <1>5

LEMMA CountStep == ListingInv /\ CountFiltered => ListingInv'
<1> SUFFICES ASSUME ListingInv, CountFiltered PROVE ListingInv'
  OBVIOUS
<1>1. ListingTypeOK /\ StillAhead
  BY DEF ListingInv
<1>2. /\ stage = "count" /\ stage' = "turn" /\ total' = Cardinality(Matching)
      /\ UNCHANGED <<table, filter, size, page, items, seen, touched, calm, writes>>
  BY DEF CountFiltered, Statement
<1>3. /\ Matching' = Matching /\ Offset' = Offset /\ Passed' = Passed
      /\ \A u : Before(u)' = Before(u) /\ Steady(u)' = Steady(u)
  BY <1>2 DEF Matching, Offset, Before, Steady, Passed
<1>4. Cardinality(Matching) \in Nat /\ Passed \in Nat
  BY <1>1, Counted
<1>5. ListingTypeOK'
  BY <1>1, <1>2, <1>4 DEF ListingTypeOK
<1>6. StillAhead'
 <2> SUFFICES ASSUME calm', NEW u \in table', Steady(u)', u.id \notin seen'
     PROVE  /\ stage' # "over" /\ Cardinality(Before(u)') >= Passed'
            /\ stage' = "turn" => Passed' < total'
   BY DEF StillAhead
 <2>1. calm /\ u \in table /\ Steady(u) /\ u.id \notin seen
   BY <1>2, <1>3
 <2>2. Cardinality(Before(u)) >= Passed
   BY <1>1, <2>1 DEF StillAhead
 <2>3. u \in Matching
   BY <2>1 DEF Matching, Steady
 <2>4. Cardinality(Before(u)) < Cardinality(Matching) /\ Cardinality(Before(u)) \in Nat
   BY <1>1, <2>3, OneMore, Counted
 <2> QED
   BY <1>2, <1>3, <1>4, <2>2, <2>4
<1> QED
  BY <1>2, <1>3, <1>5, <1>6 DEF ListingInv, TotalCoversItems

LEMMA TurnStep == ListingInv /\ TurnPage => ListingInv'
<1> SUFFICES ASSUME ListingInv, TurnPage PROVE ListingInv'
  OBVIOUS
<1>1. ListingTypeOK /\ StillAhead
  BY DEF ListingInv
<1>2. /\ stage = "turn"
      /\ IF (page + 1) * size < total
         THEN page' = page + 1 /\ stage' = "get"
         ELSE page' = page /\ stage' = "over"
      /\ UNCHANGED <<table, filter, size, items, total, seen, touched, calm, writes>>
  BY DEF TurnPage
<1>3. \A u : Before(u)' = Before(u) /\ Steady(u)' = Steady(u)
  BY <1>2 DEF Matching, Before, Steady
<1>4. size \in Nat /\ page \in Nat /\ Passed \in Nat
  BY <1>1, Counted
<1>5. (page + 1) * size = page * size + size
  BY <1>4
<1>6. Passed = (page + 1) * size
  BY <1>2, <1>5 DEF Passed, Offset
<1>7. ListingTypeOK'
  BY <1>1, <1>2, <1>4 DEF ListingTypeOK
<1>8. StillAhead'
 <2> SUFFICES ASSUME calm', NEW u \in table', Steady(u)', u.id \notin seen'
     PROVE  /\ stage' # "over" /\ Cardinality(Before(u)') >= Passed'
            /\ stage' = "turn" => Passed' < total'
   BY DEF StillAhead
 <2>1. calm /\ u \in table /\ Steady(u) /\ u.id \notin seen
   BY <1>2, <1>3
 <2>2. Cardinality(Before(u)) >= Passed /\ Passed < total
   BY <1>1, <1>2, <2>1 DEF StillAhead
 <2>3. page' = page + 1 /\ stage' = "get"
   BY <1>2, <1>6, <2>2
 <2>4. Passed' = Passed
   BY <1>2, <1>6, <2>3 DEF Passed, Offset
 <2> QED
   BY <1>3, <2>2, <2>3, <2>4
<1>9. TotalCoversItems'
  BY <1>2 DEF ListingInv, TotalCoversItems, Offset
<1> QED
  BY <1>2, <1>7, <1>8, <1>9 DEF ListingInv

-----------------------------------------------------------------------------
(* Other requests commit.                                                  *)

\* While the walk is calm, the list gains accounts and loses none, and none falls
\* back in the order.
Keeps ==
  /\ calm /\ \A v \in table :
       \E w \in table' :
         /\ w.id = v.id /\ w.created = v.created
         /\ Passes(v, filter) => Passes(w, filter)
         /\ v.active => w.active
  /\ \A w \in table' : w.id \in touched' \/ w \in table

LEMMA WriteTypes ==
  ASSUME ListingTypeOK, NEW id \in DOMAIN EmailOf,
         NEW row \in Account, row.id = id, Write(id, {row}), calm' \in BOOLEAN
  PROVE  ListingTypeOK'
<1>1. IsFiniteSet({u \in table : u.id # id})
  BY FS_Subset DEF ListingTypeOK
<1>2. IsFiniteSet(table')
  BY <1>1, FS_AddElement DEF Write
<1>3. writes' \in 0 .. MaxWrites
  BY ListingAssumption DEF ListingTypeOK, Write
<1> QED
  BY <1>2, <1>3 DEF ListingTypeOK, Write

LEMMA KeptMatching ==
  ASSUME ListingTypeOK, ListingTypeOK', filter' = filter, Keeps
  PROVE  Cardinality(Matching) <= Cardinality(Matching')
<1>1. IsFiniteSet(Matching')
  BY FS_Subset DEF ListingTypeOK, Matching
<1>2. \A u, v \in Matching : u.id = v.id => u = v
  BY DEF Matching, ListingTypeOK
<1>3. \A u \in Matching : \E v \in Matching' : v.id = u.id
  BY DEF Matching, Keeps
<1> QED
  BY <1>1, <1>2, <1>3, AtLeastAsMany

LEMMA KeptBefore ==
  ASSUME ListingTypeOK, ListingTypeOK', filter' = filter, Keeps, NEW u \in table
  PROVE  Cardinality(Before(u)) <= Cardinality(Before(u)')
<1>1. IsFiniteSet(Before(u)')
  BY FS_Subset DEF ListingTypeOK, Before, Matching
<1>2. \A v, w \in Before(u) : v.id = w.id => v = w
  BY DEF Before, Matching, ListingTypeOK
<1>3. ASSUME NEW v \in Before(u) PROVE \E w \in Before(u)' : w.id = v.id
 <2>1. v \in table /\ Passes(v, filter) /\ Precedes(v, u)
   BY DEF Before, Matching
 <2>2. PICK w \in table' :
         /\ w.id = v.id /\ w.created = v.created /\ Passes(w, filter)
         /\ v.active => w.active
   BY <2>1 DEF Keeps
 <2>3. v \in Account /\ w \in Account /\ u \in Account
   BY <2>1, <2>2 DEF ListingTypeOK
 <2>4. Precedes(w, u)
   BY <2>1, <2>2, <2>3 DEF Precedes, Account
 <2> QED
   BY <2>2, <2>4 DEF Before, Matching
<1> QED
  BY <1>1, <1>2, <1>3, AtLeastAsMany

LEMMA WriteStep ==
  ASSUME ListingInv, ListingTypeOK', calm' => Keeps, touched \subseteq touched',
         UNCHANGED <<filter, size, page, stage, items, total, seen>>
  PROVE  ListingInv'
<1>1. ListingTypeOK /\ StillAhead
  BY DEF ListingInv
<1>2. Passed' = Passed /\ Offset' = Offset
  BY DEF Passed, Offset
<1>3. Passed \in Nat /\ Cardinality(Matching) \in Nat
  BY <1>1, Counted
<1>4. StillAhead'
 <2> SUFFICES ASSUME calm', NEW u \in table', Steady(u)', u.id \notin seen'
     PROVE  /\ stage' # "over" /\ Cardinality(Before(u)') >= Passed'
            /\ stage' = "turn" => Passed' < total'
   BY DEF StillAhead
 <2>1. Keeps /\ calm
   BY DEF Keeps
 <2>2. u \in table /\ u.id \notin touched /\ Passes(u, filter)
   BY <2>1 DEF Keeps, Steady
 <2>3. ASSUME NEW v \in table, v.created = u.created PROVE v.id = u.id
   BY <2>1, <2>3 DEF Keeps, Steady
 <2>4. Steady(u)
   BY <2>2, <2>3 DEF Steady
 <2>5. /\ stage # "over" /\ Cardinality(Before(u)) >= Passed
       /\ stage = "turn" => Passed < total
   BY <1>1, <2>1, <2>2, <2>4 DEF StillAhead
 <2>6. Cardinality(Before(u)) <= Cardinality(Before(u)')
   BY <1>1, <2>1, <2>2, KeptBefore
 <2>7. Cardinality(Before(u)) \in Nat /\ Cardinality(Before(u)') \in Nat
   BY <1>1, Counted, FS_Subset, FS_CardinalityType DEF ListingTypeOK, Before, Matching
 <2> QED
   BY <1>2, <1>3, <2>5, <2>6, <2>7
<1>5. ASSUME stage' = "count", calm', items' # <<>>
      PROVE  Offset' + Len(items') <= Cardinality(Matching')
 <2>1. Keeps /\ calm
   BY <1>5 DEF Keeps
 <2>2. Offset + Len(items) <= Cardinality(Matching)
   BY <1>5, <2>1 DEF ListingInv
 <2>3. Cardinality(Matching) <= Cardinality(Matching')
   BY <1>1, <2>1, KeptMatching
 <2>4. Cardinality(Matching') \in Nat
   BY FS_Subset, FS_CardinalityType DEF ListingTypeOK, Matching
 <2>5. Offset \in Nat /\ Len(items) \in Nat
   BY <1>1, Counted DEF ListingTypeOK
 <2> QED
   BY <1>2, <1>3, <2>2, <2>3, <2>4, <2>5
<1>6. TotalCoversItems'
  BY <1>2 DEF ListingInv, TotalCoversItems, Keeps
<1> QED
  BY <1>4, <1>5, <1>6 DEF ListingInv

LEMMA CreateStep ==
  ASSUME ListingInv, NEW id \in Late, Create(id)
  PROVE  ListingInv'
<1>1. PICK row \in Row(id, Time) : Write(id, {row})
  BY DEF Create
<1>2. id \in DOMAIN EmailOf /\ row \in Account /\ row.id = id
  BY ListingAssumption DEF Row, Account
<1>3. \A u \in table : u.id # id
  BY DEF Create
<1>4. ListingTypeOK'
  BY <1>1, <1>2, WriteTypes DEF Create, ListingInv, ListingTypeOK
<1>5. table' = table \cup {row} /\ touched' = touched \cup {id} /\ calm' = calm
  BY <1>1, <1>3 DEF Create, Write
<1>6. calm' => Keeps
  BY <1>2, <1>5 DEF Keeps
<1> QED
  BY <1>1, <1>4, <1>5, <1>6, WriteStep DEF Write

LEMMA ChangeStep ==
  ASSUME ListingInv, NEW u \in table, Change(u)
  PROVE  ListingInv'
<1>1. PICK row \in Row(u.id, {u.created}) :
        /\ Write(u.id, {row})
        /\ calm' = (calm /\ ~(Passes(u, filter) /\ ~Passes(row, filter))
                         /\ ~(u.active /\ ~row.active))
  BY DEF Change
<1>2. u \in Account /\ ListingTypeOK
  BY DEF ListingInv, ListingTypeOK
<1>3. u.id \in DOMAIN EmailOf /\ row \in Account /\ row.id = u.id /\ row.created = u.created
  BY <1>2, ListingAssumption DEF Row, Account
<1>4. ListingTypeOK'
  BY <1>1, <1>2, <1>3, WriteTypes
<1>5. table' = {v \in table : v.id # u.id} \cup {row} /\ touched' = touched \cup {u.id}
  BY <1>1 DEF Write
<1>6. ASSUME calm' PROVE Keeps
 <2>1. /\ calm
       /\ Passes(u, filter) => Passes(row, filter)
       /\ u.active => row.active
   BY <1>1, <1>6
 <2>2. ASSUME NEW v \in table
       PROVE  \E w \in table' :
                /\ w.id = v.id /\ w.created = v.created
                /\ Passes(v, filter) => Passes(w, filter)
                /\ v.active => w.active
  <3>1. CASE v = u
    BY <1>3, <1>5, <2>1, <3>1
  <3>2. CASE v # u
   <4>1. v.id # u.id
     BY <1>2, <3>2 DEF ListingTypeOK
   <4> QED
     BY <1>5, <4>1
  <3> QED
    BY <3>1, <3>2
 <2>3. \A w \in table' : w.id \in touched' \/ w \in table
   BY <1>3, <1>5
 <2> QED
   BY <2>1, <2>2, <2>3 DEF Keeps
<1> QED
  BY <1>1, <1>4, <1>5, <1>6, WriteStep DEF Write

-----------------------------------------------------------------------------
(* The list shows what was asked for, and all of it.                       *)

\* A steady account that the walk has not shown yet lies behind the pages so far,
\* and the page and the total of a request fit together although other requests
\* commit between the two statements (user_service.py:40-43).
THEOREM ListingFits == Spec => []ListingInv
<1>1. ListingInv /\ [Next]_vars => ListingInv'
 <2> SUFFICES ASSUME ListingInv, [Next]_vars PROVE ListingInv'
   OBVIOUS
 <2>1. CASE GetFiltered
   BY <2>1, GetStep
 <2>2. CASE CountFiltered
   BY <2>2, CountStep
 <2>3. CASE TurnPage
   BY <2>3, TurnStep
 <2>4. CASE \E id \in Late : Create(id)
   BY <2>4, CreateStep
 <2>5. CASE \E u \in table : Change(u)
   BY <2>5, ChangeStep
 <2>6. CASE UNCHANGED vars
   BY <2>6 DEF vars, ListingInv, ListingTypeOK, StillAhead, Steady, Before, Matching,
               Passed, Offset, TotalCoversItems
 <2> QED
   BY <2>1, <2>2, <2>3, <2>4, <2>5, <2>6 DEF Next
<1> QED
  BY <1>1, InitFits, PTL DEF Spec

\* Page.build finds no page longer than its size, and ids stay unique
\* (paginated.py:29): for any accounts, filters, page sizes and writers.
THEOREM ListingTypes == Spec => []ListingTypeOK
<1>1. ListingInv => ListingTypeOK
  BY DEF ListingInv
<1> QED
  BY <1>1, ListingFits, PTL

\* A page shows only accounts that contain what was asked for, character by
\* character, in every column named (user_repository.py:49-62).
THEOREM OnlyWantedIsShown == Spec => []OnlyWanted
<1>1. ASSUME ListingInv, Plain(filter.email), Plain(filter.name), NEW i \in DOMAIN items
      PROVE  Wanted(items[i])
 <2> DEFINE u == items[i]
            f == [filter EXCEPT !.email = <<>>, !.name = <<>>]
 <2>1. u \in Account /\ filter \in Filters /\ Passes(u, filter)
   BY <1>1 DEF ListingInv, ListingTypeOK
 <2>2. /\ u.email \in Text /\ u.name \in Text /\ filter.email \in Text /\ filter.name \in Text
       /\ f.email = <<>> /\ f.name = <<>> /\ f.role = filter.role
       /\ f.active = filter.active /\ f.from = filter.from /\ f.to = filter.to
   BY <2>1, ListingAssumption DEF Account
 <2>3. Within(filter.email, u.email) /\ Within(filter.name, u.name)
   BY <1>1, <2>1, <2>2, PassesWithin DEF Passes
 <2>4. Passes(u, f)
   BY <2>1, <2>2 DEF Passes, TextPasses
 <2> QED
   BY <2>3, <2>4 DEF Wanted
<1>2. ListingInv => OnlyWanted
  BY <1>1 DEF OnlyWanted
<1> QED
  BY <1>2, ListingFits, PTL

\* A wanted account passes the filter: ILIKE does not miss it.
LEMMA WantedPasses ==
  ASSUME ListingTypeOK, NEW u \in table, Wanted(u),
         "\\" \notin ToSet(filter.email) \cup ToSet(filter.name)
  PROVE  Passes(u, filter)
<1> DEFINE f == [filter EXCEPT !.email = <<>>, !.name = <<>>]
<1>1. u \in Account /\ filter \in Filters
  BY DEF ListingTypeOK
<1>2. /\ u.email \in Text /\ u.name \in Text /\ filter.email \in Text /\ filter.name \in Text
      /\ f.role = filter.role /\ f.active = filter.active
      /\ f.from = filter.from /\ f.to = filter.to
  BY <1>1, ListingAssumption DEF Account
<1>3. TextPasses(u.email, filter.email) /\ TextPasses(u.name, filter.name)
  BY <1>2, WithinPasses DEF Wanted
<1>4. Passes(u, f)
  BY DEF Wanted
<1> QED
  BY <1>2, <1>3, <1>4 DEF Passes

\* Whoever turns the pages to the end of a calm walk has seen every matching
\* account that nobody touched, whatever was created in front of it meanwhile
\* (user_service.py:40-43, user_repository.py:33, 51-53, paginated.py:13-18).
THEOREM NothingIsSkipped == Spec => []NothingSkipped
<1>1. ASSUME ListingInv, stage = "over", calm, NEW u \in table,
             Wanted(u), "\\" \notin ToSet(filter.email) \cup ToSet(filter.name),
             u.id \notin touched,
             \A v \in table : v.created = u.created => v.id = u.id
      PROVE  u.id \in seen
 <2>1. Passes(u, filter)
   BY <1>1, WantedPasses DEF ListingInv
 <2> QED
   BY <1>1, <2>1 DEF ListingInv, StillAhead, Steady
<1>2. ListingInv => NothingSkipped
  BY <1>1 DEF NothingSkipped
<1> QED
  BY <1>2, ListingFits, PTL

\* A page lies within its own total although the two come from two statements
\* (user_service.py:40-41).
THEOREM TotalsCover == Spec => []TotalCoversItems
<1>1. ListingInv => TotalCoversItems
  BY DEF ListingInv
<1> QED
  BY <1>1, ListingFits, PTL
=============================================================================
