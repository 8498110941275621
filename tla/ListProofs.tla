------------------------------ MODULE ListProofs ------------------------------
(***************************************************************************)
(* Facts about lists that the other proofs cite.  The induction theorems   *)
(* of the library take a predicate as a parameter, which the provers       *)
(* cannot instantiate; a set in its place they can: SetInduction is that   *)
(* form, and each recursive function gets its equation from it.            *)
(***************************************************************************)
EXTENDS Lists, SequencesExt, FiniteSetTheorems, FunctionTheorems, SequenceTheorems,
        WellFoundedInduction, TLAPS

LEMMA LeastNumber ==
  ASSUME NEW T \in SUBSET Nat, T # {}
  PROVE  \E x \in T : \A y \in T : x <= y
<1> DEFINE R == OpToRel(<, Nat)
<1>1. IsWellFoundedOn(R, Nat)
  BY NatLessThanWellFounded
<1>2. R = {ss \in Nat \X Nat : ss[1] < ss[2]}
  BY DEF OpToRel
<1> HIDE DEF R
<1>3. PICK x \in T : \A y \in T : ~ (<<y, x>> \in R)
  BY <1>1, WFMin
<1>4. \A y \in T : <<y, x>> \notin R => x <= y
  BY <1>2
<1> QED BY <1>3, <1>4

\* Induction over the natural numbers, with a set for the predicate.
LEMMA SetInduction ==
  ASSUME NEW S, 0 \in S, \A n \in Nat : n \in S => n + 1 \in S
  PROVE  \A n \in Nat : n \in S
<1> DEFINE T == Nat \ S
<1> SUFFICES ASSUME T # {} PROVE FALSE
  OBVIOUS
<1>1. T \in SUBSET Nat
  OBVIOUS
<1> HIDE DEF T
<1>2. PICK x \in T : \A y \in T : x <= y
  BY <1>1, LeastNumber
<1>3. x # 0 /\ x - 1 \in Nat
  BY <1>1, <1>2 DEF T
<1>4. x - 1 \in S
  BY <1>2, <1>3 DEF T
<1> QED BY <1>2, <1>3, <1>4 DEF T

\* Up to a bound: what the steps of a loop over a list need.
LEMMA StepInduction ==
  ASSUME NEW n \in Nat, NEW S, 0 \in S, \A i \in 1..n : i - 1 \in S => i \in S
  PROVE  \A i \in 0..n : i \in S
<1> DEFINE T == {i \in Nat : i <= n => i \in S}
<1>1. 0 \in T
  OBVIOUS
<1>2. ASSUME NEW i \in Nat, i \in T PROVE i + 1 \in T
  <2>1. CASE i + 1 <= n
    <3>1. i + 1 \in 1..n /\ (i + 1) - 1 = i
      BY <2>1
    <3> QED BY <1>2, <2>1, <3>1
  <2>2. CASE ~(i + 1 <= n)
    BY <2>2
  <2> QED BY <2>1, <2>2
<1> HIDE DEF T
<1>3. \A i \in Nat : i \in T
  BY <1>1, <1>2, SetInduction
<1> QED BY <1>3 DEF T

\* A loop from base, whose i-th step takes x to step[i][x], has a run.
LEMMA LoopRuns ==
  ASSUME NEW X, NEW base \in X, NEW n \in Nat, NEW step \in [1..n -> [X -> X]]
  PROVE  \E f \in [0..n -> X] : f[0] = base /\ \A i \in 1..n : f[i] = step[i][f[i - 1]]
<1> DEFINE Runs(f, m) == f[0] = base /\ \A i \in 1..m : f[i] = step[i][f[i - 1]]
           T == {m \in 0..n : \E f \in [0..m -> X] : Runs(f, m)}
<1>1. 0 \in T
  <2> DEFINE f == [i \in 0..0 |-> base]
  <2>1. f \in [0..0 -> X] /\ Runs(f, 0)
    OBVIOUS
  <2> HIDE DEF f, Runs
  <2> QED BY <2>1
<1>2. ASSUME NEW m \in 1..n, m - 1 \in T PROVE m \in T
  <2>1. PICK f \in [0..(m - 1) -> X] : Runs(f, m - 1)
    BY <1>2
  <2> DEFINE g == [i \in 0..m |-> IF i < m THEN f[i] ELSE step[m][f[m - 1]]]
  <2>2. f[m - 1] \in X
    OBVIOUS
  <2>3. g \in [0..m -> X]
    BY <2>2
  <2>4. Runs(g, m)
    <3>1. g[0] = base
      BY <2>1
    <3>2. ASSUME NEW i \in 1..m PROVE g[i] = step[i][g[i - 1]]
      <4>1. g[i - 1] = f[i - 1]
        OBVIOUS
      <4>2. CASE i = m
        BY <4>1, <4>2
      <4>3. CASE i # m
        <5>1. i \in 1..(m - 1) /\ g[i] = f[i]
          BY <4>3
        <5> QED BY <2>1, <4>1, <5>1
      <4> QED BY <4>2, <4>3
    <3> QED BY <3>1, <3>2
  <2> HIDE DEF g, Runs
  <2> QED BY <2>3, <2>4
<1> HIDE DEF T
<1>3. \A m \in 0..n : m \in T
  BY <1>1, <1>2, StepInduction
<1> QED BY <1>3 DEF T

-----------------------------------------------------------------------------
(* Kept *)

\* The function within Kept.
KeptPrefix(s, S) ==
  CHOOSE kept : kept = [i \in 0..Len(s) |->
    IF i = 0 THEN <<>>
    ELSE IF s[i] \in S THEN Append(kept[i - 1], s[i])
    ELSE kept[i - 1]]

LEMMA KeptIsPrefix == \A s, S : Kept(s, S) = KeptPrefix(s, S)[Len(s)]
BY DEF Kept, KeptPrefix

LEMMA KeptSteps ==
  ASSUME NEW M, NEW s \in Seq(M), NEW S
  PROVE  LET f == KeptPrefix(s, S)
         IN /\ f[0] = <<>>
            /\ \A i \in 1..Len(s) :
                 f[i] = IF s[i] \in S THEN Append(f[i - 1], s[i]) ELSE f[i - 1]
<1> DEFINE n == Len(s)
           Body(f) == [i \in 0..n |-> IF i = 0 THEN <<>>
                                      ELSE IF s[i] \in S THEN Append(f[i - 1], s[i])
                                      ELSE f[i - 1]]
           step == [i \in 1..n |-> [k \in Seq(M) |->
                      IF s[i] \in S THEN Append(k, s[i]) ELSE k]]
<1>1. step \in [1..n -> [Seq(M) -> Seq(M)]]
  <2>1. ASSUME NEW i \in 1..n, NEW k \in Seq(M) PROVE Append(k, s[i]) \in Seq(M)
    BY AppendProperties
  <2> QED BY <2>1
<1>2. n \in Nat
  OBVIOUS
<1>3. PICK f \in [0..n -> Seq(M)] : f[0] = <<>> /\ \A i \in 1..n : f[i] = step[i][f[i - 1]]
  <2> DEFINE X == Seq(M)
             base == <<>>
  <2>1. base \in X
    OBVIOUS
  <2>2. step \in [1..n -> [X -> X]]
    BY <1>1
  <2> HIDE DEF n, step, X, base
  <2>3. \E f \in [0..n -> X] : f[0] = base /\ \A i \in 1..n : f[i] = step[i][f[i - 1]]
    BY <1>2, <2>1, <2>2, LoopRuns
  <2> QED BY <2>3 DEF X, base
<1>4. ASSUME NEW i \in 1..n
      PROVE  f[i] = IF s[i] \in S THEN Append(f[i - 1], s[i]) ELSE f[i - 1]
  <2>1. i - 1 \in 0..n
    BY <1>2
  <2>2. f[i - 1] \in Seq(M)
    BY <2>1
  <2>3. step[i][f[i - 1]] = IF s[i] \in S THEN Append(f[i - 1], s[i]) ELSE f[i - 1]
    BY <2>2
  <2> QED BY <1>3, <2>3
<1>5. f = Body(f)
  <2>1. ASSUME NEW i \in 0..n PROVE f[i] = Body(f)[i]
    <3>1. CASE i = 0
      BY <1>3, <3>1
    <3>2. CASE i # 0
      <4>1. i \in 1..n
        BY <3>2
      <4>2. f[i] = IF s[i] \in S THEN Append(f[i - 1], s[i]) ELSE f[i - 1]
        BY <1>4, <4>1
      <4> QED BY <3>2, <4>2
    <3> QED BY <3>1, <3>2
  <2> HIDE DEF n
  <2> QED BY <2>1
<1> DEFINE g == KeptPrefix(s, S)
<1>6. g = Body(g)
  BY <1>5 DEF KeptPrefix
<1>7. g[0] = <<>> /\ \A i \in 1..n :
        g[i] = IF s[i] \in S THEN Append(g[i - 1], s[i]) ELSE g[i - 1]
  <2> HIDE DEF g, n
  <2>1. \A i \in 0..n : g[i] = Body(g)[i]
    BY <1>6
  <2>2. g[0] = <<>>
    BY <1>2, <2>1
  <2>3. ASSUME NEW i \in 1..n
        PROVE  g[i] = IF s[i] \in S THEN Append(g[i - 1], s[i]) ELSE g[i - 1]
    <3>1. i \in 0..n /\ i # 0
      BY <1>2
    <3> QED BY <2>1, <3>1
  <2> QED BY <2>2, <2>3
<1> QED BY <1>7

\* k lists the elements of s at the positions at, which are those whose element is
\* in S among the first n, in their order.
KeptAt(k, s, S, n, at) ==
  /\ at \in [1..Len(k) -> 1..n]
  /\ \A i \in 1..Len(k) : k[i] = s[at[i]] /\ s[at[i]] \in S
  /\ \A i, j \in 1..Len(k) : i < j => at[i] < at[j]
  /\ \A m \in 1..n : s[m] \in S => \E i \in 1..Len(k) : at[i] = m

LEMMA KeptPositions ==
  ASSUME NEW M, NEW s \in Seq(M), NEW S
  PROVE  /\ Kept(s, S) \in Seq(M)
         /\ \E at : KeptAt(Kept(s, S), s, S, Len(s), at)
<1> DEFINE f == KeptPrefix(s, S)
           n == Len(s)
           T == {m \in 0..n : f[m] \in Seq(M) /\ \E at : KeptAt(f[m], s, S, m, at)}
<1>1. /\ n \in Nat
      /\ f[0] = <<>>
      /\ \A i \in 1..n : f[i] = IF s[i] \in S THEN Append(f[i - 1], s[i]) ELSE f[i - 1]
  BY KeptSteps
<1> HIDE DEF f
<1>2. 0 \in T
  <2>1. KeptAt(<<>>, s, S, 0, [i \in 1..0 |-> i])
    BY DEF KeptAt
  <2>2. <<>> \in Seq(M) /\ 0 \in 0..n
    BY <1>1
  <2>3. f[0] \in Seq(M) /\ \E at : KeptAt(f[0], s, S, 0, at)
    BY <1>1, <2>1, <2>2
  <2> HIDE DEF n
  <2> QED BY <2>2, <2>3
<1>3. ASSUME NEW m \in 1..n, m - 1 \in T PROVE m \in T
  <2> DEFINE k == f[m - 1]
  <2>1. k \in Seq(M) /\ Len(k) \in Nat
    BY <1>3
  <2>2. PICK at : KeptAt(k, s, S, m - 1, at)
    BY <1>3
  <2> HIDE DEF k
  <2>3. CASE s[m] \in S
    <3> DEFINE l == Append(k, s[m])
               new == [i \in 1..Len(l) |-> IF i \in 1..Len(k) THEN at[i] ELSE m]
    <3>1. /\ l \in Seq(M) /\ Len(l) = Len(k) + 1
          /\ \A i \in 1..Len(k) : l[i] = k[i]
          /\ l[Len(k) + 1] = s[m]
      BY <2>1, AppendProperties
    <3>2. f[m] = l
      BY <1>1, <2>3 DEF k
    <3> HIDE DEF l
    <3>3. new \in [1..Len(l) -> 1..m]
      BY <2>1, <2>2, <3>1 DEF KeptAt
    <3>4. \A i \in 1..Len(l) : l[i] = s[new[i]] /\ s[new[i]] \in S
      BY <2>1, <2>2, <2>3, <3>1 DEF KeptAt
    <3>5. ASSUME NEW i \in 1..Len(l), NEW j \in 1..Len(l), i < j PROVE new[i] < new[j]
      <4>1. i \in 1..Len(k) /\ at[i] \in 1..(m - 1) /\ new[i] = at[i]
        BY <2>1, <2>2, <3>1, <3>5 DEF KeptAt
      <4>2. CASE j \in 1..Len(k)
        BY <2>2, <3>5, <4>1, <4>2 DEF KeptAt
      <4>3. CASE j \notin 1..Len(k)
        BY <4>1, <4>3
      <4> QED BY <4>2, <4>3
    <3>6. \A q \in 1..m : s[q] \in S => \E i \in 1..Len(l) : new[i] = q
      <4> SUFFICES ASSUME NEW q \in 1..m, s[q] \in S
                   PROVE  \E i \in 1..Len(l) : new[i] = q
        OBVIOUS
      <4>1. CASE q = m
        <5>1. Len(l) \in 1..Len(l) /\ Len(l) \notin 1..Len(k)
          BY <2>1, <3>1
        <5> QED BY <4>1, <5>1
      <4>2. CASE q # m
        <5>1. PICK i \in 1..Len(k) : at[i] = q
          BY <2>2, <4>2 DEF KeptAt
        <5>2. i \in 1..Len(l)
          BY <2>1, <3>1
        <5> QED BY <5>1, <5>2
      <4> QED BY <4>1, <4>2
    <3>7. KeptAt(l, s, S, m, new)
      <4> HIDE DEF new
      <4> QED BY <3>3, <3>4, <3>5, <3>6 DEF KeptAt
    <3> HIDE DEF new
    <3> QED BY <3>1, <3>2, <3>7
  <2>4. CASE s[m] \notin S
    <3>1. f[m] = k
      BY <1>1, <2>4 DEF k
    <3>2. KeptAt(k, s, S, m, at)
      <4>1. at \in [1..Len(k) -> 1..m]
        BY <2>1, <2>2 DEF KeptAt
      <4>2. \A q \in 1..m : s[q] \in S => q \in 1..(m - 1)
        BY <2>4
      <4> QED BY <2>2, <4>1, <4>2 DEF KeptAt
    <3> QED BY <2>1, <3>1, <3>2
  <2> QED BY <2>3, <2>4
<1> HIDE DEF T
<1>4. \A m \in 0..n : m \in T
  <2> HIDE DEF n
  <2> QED BY <1>1, <1>2, <1>3, StepInduction
<1>5. n \in T
  BY <1>1, <1>4
<1> QED BY <1>5, KeptIsPrefix DEF T, f

\* Kept has the members of s that are in S and no other.
LEMMA KeptMembers ==
  ASSUME NEW M, NEW s \in Seq(M), NEW S
  PROVE  LET k == Kept(s, S)
         IN /\ k \in Seq(M)
            /\ \A i \in 1..Len(k) : k[i] \in S /\ \E j \in 1..Len(s) : k[i] = s[j]
            /\ \A j \in 1..Len(s) : s[j] \in S => \E i \in 1..Len(k) : k[i] = s[j]
<1> DEFINE k == Kept(s, S)
<1>1. k \in Seq(M)
  BY KeptPositions
<1>2. PICK at : KeptAt(k, s, S, Len(s), at)
  BY KeptPositions
<1> HIDE DEF k
<1>3. \A i \in 1..Len(k) : k[i] \in S /\ \E j \in 1..Len(s) : k[i] = s[j]
  BY <1>2 DEF KeptAt
<1>4. \A j \in 1..Len(s) : s[j] \in S => \E i \in 1..Len(k) : k[i] = s[j]
  BY <1>2 DEF KeptAt
<1> QED BY <1>1, <1>3, <1>4 DEF k

\* What is listed once is kept once.
LEMMA KeptOnce ==
  ASSUME NEW M, NEW s \in Seq(M), NEW S,
         \A i, j \in 1..Len(s) : s[i] = s[j] => i = j
  PROVE  LET k == Kept(s, S)
         IN \A i, j \in 1..Len(k) : k[i] = k[j] => i = j
<1> DEFINE k == Kept(s, S)
<1>1. k \in Seq(M)
  BY KeptPositions
<1>2. PICK at : KeptAt(k, s, S, Len(s), at)
  BY KeptPositions
<1> HIDE DEF k
<1>3. ASSUME NEW i \in 1..Len(k), NEW j \in 1..Len(k), k[i] = k[j] PROVE i = j
  <2>1. at[i] \in 1..Len(s) /\ at[j] \in 1..Len(s) /\ s[at[i]] = s[at[j]]
    BY <1>2, <1>3 DEF KeptAt
  <2>2. at[i] = at[j]
    BY <2>1
  <2>3. ~(i < j) /\ ~(j < i)
    BY <1>2, <2>2 DEF KeptAt
  <2> QED BY <1>1, <2>3
<1> QED BY <1>3 DEF k

-----------------------------------------------------------------------------
(* The set a list stands for, and lists without a repetition.              *)

LEMMA ListIs ==
  ASSUME NEW M, NEW s \in Seq(M)
  PROVE  /\ Len(s) \in Nat /\ s \in [1..Len(s) -> M]
         /\ ToSet(s) = {s[i] : i \in 1..Len(s)} /\ ToSet(s) \subseteq M
         /\ IsInjective(s) <=> \A i, j \in 1..Len(s) : s[i] = s[j] => i = j
         /\ s = <<>> <=> ToSet(s) = {}
<1>1. Len(s) \in Nat /\ s \in [1..Len(s) -> M] /\ DOMAIN s = 1..Len(s)
  BY LenProperties
<1>2. ToSet(s) = {s[i] : i \in 1..Len(s)}
  BY <1>1 DEF ToSet
<1>3. ToSet(s) \subseteq M
  BY <1>1, <1>2
<1>4. IsInjective(s) <=> \A i, j \in 1..Len(s) : s[i] = s[j] => i = j
  BY <1>1 DEF IsInjective
<1>5. CASE s = <<>>
  BY <1>1, <1>2, <1>3, <1>4, <1>5
<1>6. CASE s # <<>>
  <2>1. Len(s) # 0
    BY <1>6
  <2>2. 1 \in 1..Len(s)
    BY <1>1, <2>1
  <2>3. s[1] \in ToSet(s)
    BY <1>2, <2>2
  <2> QED BY <1>1, <1>2, <1>3, <1>4, <1>6, <2>3
<1> QED BY <1>5, <1>6

\* A list without a repetition is no longer than one with all its members.
LEMMA NoLonger ==
  ASSUME NEW n \in Nat, NEW m \in Nat, NEW f \in [1..n -> 1..m],
         \A i, j \in 1..n : f[i] = f[j] => i = j
  PROVE  n <= m
<1>1. f \in Injection(1..n, 1..m)
  BY DEF Injection, IsInjective
<1>2. ExistsInjection(1..n, 1..m)
  BY <1>1 DEF ExistsInjection
<1> QED BY <1>2, Fun_NatInjLeq

LEMMA KeptSet ==
  ASSUME NEW M, NEW s \in Seq(M), NEW S
  PROVE  /\ Kept(s, S) \in Seq(M)
         /\ ToSet(Kept(s, S)) = ToSet(s) \cap S
         /\ Len(Kept(s, S)) <= Len(s)
         /\ IsInjective(s) => IsInjective(Kept(s, S))
<1> DEFINE k == Kept(s, S)
<1>1. k \in Seq(M)
  BY KeptPositions
<1>2. /\ \A i \in 1..Len(k) : k[i] \in S /\ \E j \in 1..Len(s) : k[i] = s[j]
      /\ \A j \in 1..Len(s) : s[j] \in S => \E i \in 1..Len(k) : k[i] = s[j]
  BY KeptMembers
<1>3. PICK at : KeptAt(k, s, S, Len(s), at)
  BY KeptPositions
<1>4. ASSUME IsInjective(s) PROVE \A i, j \in 1..Len(k) : k[i] = k[j] => i = j
  <2>1. \A i, j \in 1..Len(s) : s[i] = s[j] => i = j
    BY <1>4, ListIs
  <2> QED BY <2>1, KeptOnce
<1> HIDE DEF k
<1>5. ToSet(k) = ToSet(s) \cap S
  <2>1. ToSet(k) = {k[i] : i \in 1..Len(k)} /\ ToSet(s) = {s[i] : i \in 1..Len(s)}
    BY <1>1, ListIs
  <2> QED BY <1>2, <2>1
<1>6. Len(k) <= Len(s)
  <2>1. Len(k) \in Nat /\ Len(s) \in Nat
    BY <1>1, ListIs
  <2>2. at \in [1..Len(k) -> 1..Len(s)]
    BY <1>3 DEF KeptAt
  <2>3. \A i, j \in 1..Len(k) : at[i] = at[j] => i = j
    BY <1>3, <2>1, <2>2 DEF KeptAt
  <2> QED BY <2>1, <2>2, <2>3, NoLonger
<1>7. IsInjective(s) => IsInjective(k)
  BY <1>1, <1>4, ListIs
<1> QED BY <1>1, <1>5, <1>6, <1>7 DEF k

LEMMA ConcatSet ==
  ASSUME NEW M, NEW s \in Seq(M), NEW t \in Seq(M)
  PROVE  /\ s \o t \in Seq(M)
         /\ ToSet(s \o t) = ToSet(s) \cup ToSet(t)
         /\ IsInjective(s) /\ IsInjective(t) /\ ToSet(s) \cap ToSet(t) = {} => IsInjective(s \o t)
<1> DEFINE u == s \o t
<1>1. /\ u \in Seq(M) /\ Len(u) = Len(s) + Len(t)
      /\ \A i \in 1..Len(s) + Len(t) : u[i] = IF i <= Len(s) THEN s[i] ELSE t[i - Len(s)]
  BY ConcatProperties
<1> HIDE DEF u
<1>2. Len(s) \in Nat /\ Len(t) \in Nat
  BY ListIs
<1>3. /\ \A i \in 1..Len(s) : i \in 1..Len(u) /\ u[i] = s[i]
      /\ \A i \in 1..Len(t) : i + Len(s) \in 1..Len(u) /\ u[i + Len(s)] = t[i]
      /\ \A i \in 1..Len(u) : \/ i \in 1..Len(s) /\ u[i] = s[i]
                              \/ i - Len(s) \in 1..Len(t) /\ u[i] = t[i - Len(s)]
  BY <1>1, <1>2
<1>4. ToSet(u) = ToSet(s) \cup ToSet(t)
  <2>1. /\ ToSet(u) = {u[i] : i \in 1..Len(u)}
        /\ ToSet(s) = {s[i] : i \in 1..Len(s)} /\ ToSet(t) = {t[i] : i \in 1..Len(t)}
    BY <1>1, ListIs
  <2>2. ToSet(u) \subseteq ToSet(s) \cup ToSet(t)
    BY <1>3, <2>1
  <2>3. ToSet(s) \subseteq ToSet(u)
    BY <1>3, <2>1
  <2>4. ToSet(t) \subseteq ToSet(u)
    <3> SUFFICES ASSUME NEW i \in 1..Len(t) PROVE t[i] \in ToSet(u)
      BY <2>1
    <3> QED BY <1>3, <2>1
  <2> QED BY <2>2, <2>3, <2>4
<1>5. ASSUME IsInjective(s), IsInjective(t), ToSet(s) \cap ToSet(t) = {}
      PROVE  IsInjective(u)
  <2>1. /\ \A i, j \in 1..Len(s) : s[i] = s[j] => i = j
        /\ \A i, j \in 1..Len(t) : t[i] = t[j] => i = j
        /\ \A i \in 1..Len(s), j \in 1..Len(t) : s[i] # t[j]
    <3>1. ToSet(s) = {s[i] : i \in 1..Len(s)} /\ ToSet(t) = {t[i] : i \in 1..Len(t)}
      BY ListIs
    <3>2. \A i \in 1..Len(s), j \in 1..Len(t) : s[i] # t[j]
      BY <1>5, <3>1
    <3>3. /\ \A i, j \in 1..Len(s) : s[i] = s[j] => i = j
          /\ \A i, j \in 1..Len(t) : t[i] = t[j] => i = j
      BY <1>5, ListIs
    <3> QED BY <3>2, <3>3
  <2>2. ASSUME NEW i \in 1..Len(u), NEW j \in 1..Len(u), u[i] = u[j] PROVE i = j
    <3>1. CASE i \in 1..Len(s) /\ u[i] = s[i]
      <4>1. CASE j \in 1..Len(s) /\ u[j] = s[j]
        BY <2>1, <2>2, <3>1, <4>1
      <4>2. CASE j - Len(s) \in 1..Len(t) /\ u[j] = t[j - Len(s)]
        BY <2>1, <2>2, <3>1, <4>2
      <4> QED BY <1>3, <4>1, <4>2
    <3>2. CASE i - Len(s) \in 1..Len(t) /\ u[i] = t[i - Len(s)]
      <4>1. CASE j \in 1..Len(s) /\ u[j] = s[j]
        BY <2>1, <2>2, <3>2, <4>1
      <4>2. CASE j - Len(s) \in 1..Len(t) /\ u[j] = t[j - Len(s)]
        <5>1. i - Len(s) = j - Len(s)
          BY <2>1, <2>2, <3>2, <4>2
        <5> QED BY <1>2, <5>1
      <4> QED BY <1>3, <4>1, <4>2
    <3> QED BY <1>3, <3>1, <3>2
  <2> QED BY <1>1, <2>2, ListIs
<1> QED BY <1>1, <1>4, <1>5 DEF u

\* A part of a list.
LEMMA PartSet ==
  ASSUME NEW M, NEW s \in Seq(M), NEW a \in 1..(Len(s) + 1), NEW b \in 0..Len(s)
  PROVE  LET p == SubSeq(s, a, b)
         IN /\ p \in Seq(M)
            /\ Len(p) = IF a <= b THEN b - a + 1 ELSE 0
            /\ \A i \in 1..Len(p) : a + i - 1 \in 1..Len(s) /\ p[i] = s[a + i - 1]
            /\ ToSet(p) = {s[i] : i \in a..b}
            /\ IsInjective(s) => IsInjective(p)
<1> DEFINE p == SubSeq(s, a, b)
<1>1. Len(s) \in Nat /\ \A i \in 1..Len(s) : s[i] \in M
  BY ListIs
<1>2. /\ p \in Seq(M) /\ Len(p) = IF a <= b THEN b - a + 1 ELSE 0
      /\ \A i \in 1..(b - a + 1) : p[i] = s[a + i - 1]
  <2>1. a \in Int /\ b \in Int /\ \A i \in a..b : s[i] \in M
    BY <1>1
  <2> QED BY <2>1, SubSeqProperties
<1> HIDE DEF p
<1>3. \A i \in 1..Len(p) : a + i - 1 \in 1..Len(s) /\ a + i - 1 \in a..b /\ p[i] = s[a + i - 1]
  BY <1>1, <1>2
<1>4. ToSet(p) = {s[i] : i \in a..b}
  <2>1. ToSet(p) = {p[i] : i \in 1..Len(p)}
    BY <1>2, ListIs
  <2>2. ASSUME NEW i \in a..b PROVE s[i] \in ToSet(p)
    <3>1. i - a + 1 \in 1..Len(p) /\ p[i - a + 1] = s[i]
      <4>1. i - a + 1 \in 1..Len(p) /\ i - a + 1 \in 1..(b - a + 1)
        BY <1>1, <1>2
      <4>2. p[i - a + 1] = s[a + (i - a + 1) - 1]
        BY <1>2, <4>1
      <4>3. a + (i - a + 1) - 1 = i
        OBVIOUS
      <4> QED BY <4>1, <4>2, <4>3
    <3> QED BY <2>1, <3>1
  <2>3. ToSet(p) \subseteq {s[i] : i \in a..b}
    BY <1>3, <2>1
  <2> QED BY <2>2, <2>3
<1>5. ASSUME IsInjective(s) PROVE IsInjective(p)
  <2>1. \A i, j \in 1..Len(s) : s[i] = s[j] => i = j
    BY <1>5, ListIs
  <2>2. ASSUME NEW i \in 1..Len(p), NEW j \in 1..Len(p), p[i] = p[j] PROVE i = j
    <3>1. a + i - 1 = a + j - 1
      BY <1>3, <2>1, <2>2
    <3> QED BY <3>1
  <2> QED BY <1>2, <2>2, ListIs
<1> QED BY <1>2, <1>3, <1>4, <1>5 DEF p

\* The function within FlattenSeq.
FlatPrefix(ss) ==
  CHOOSE flatten : flatten = [i \in 1..Len(ss) |-> IF i = 1 THEN ss[i] ELSE flatten[i - 1] \o ss[i]]

\* f is a run of the loop of LoopRuns.
LoopRun(f, X, base, n, step) ==
  f \in [0..n -> X] /\ f[0] = base /\ \A i \in 1..n : f[i] = step[i][f[i - 1]]

LEMMA HasRun ==
  ASSUME NEW X, NEW base \in X, NEW n \in Nat, NEW step \in [1..n -> [X -> X]]
  PROVE  \E f : LoopRun(f, X, base, n, step)
BY LoopRuns DEF LoopRun

LEMMA FlatSteps ==
  ASSUME NEW M, NEW ss \in Seq(Seq(M))
  PROVE  LET f == FlatPrefix(ss)
         IN \A i \in 1..Len(ss) : f[i] = IF i = 1 THEN ss[i] ELSE f[i - 1] \o ss[i]
<1> DEFINE n == Len(ss)
           Body(f) == [i \in 1..n |-> IF i = 1 THEN ss[i] ELSE f[i - 1] \o ss[i]]
           step == [i \in 1..n |-> [k \in Seq(M) |-> IF i = 1 THEN ss[i] ELSE k \o ss[i]]]
<1>1. n \in Nat /\ \A i \in 1..n : ss[i] \in Seq(M)
  BY LenProperties
<1>2. n \in Nat
  BY <1>1
<1>3. step \in [1..n -> [Seq(M) -> Seq(M)]]
  <2>1. ASSUME NEW i \in 1..n, NEW k \in Seq(M) PROVE k \o ss[i] \in Seq(M)
    BY <1>1, ConcatProperties
  <2> HIDE DEF n
  <2> QED BY <1>1, <2>1
<1>4. PICK f : LoopRun(f, Seq(M), <<>>, n, step)
  <2> HIDE DEF n, step
  <2>1. <<>> \in Seq(M)
    OBVIOUS
  <2>2. \E f : LoopRun(f, Seq(M), <<>>, n, step)
    BY <1>2, <1>3, <2>1, HasRun
  <2> QED BY <2>2
<1> DEFINE h == [i \in 1..n |-> f[i]]
<1>5. ASSUME NEW i \in 1..n PROVE h[i] = IF i = 1 THEN ss[i] ELSE h[i - 1] \o ss[i]
  <2> HIDE DEF n
  <2>1. f[i - 1] \in Seq(M) /\ f[i] = step[i][f[i - 1]]
    <3>1. i - 1 \in 0..n
      BY <1>1
    <3> HIDE DEF step
    <3> QED BY <1>4, <3>1 DEF LoopRun
  <2>2. f[i] = IF i = 1 THEN ss[i] ELSE f[i - 1] \o ss[i]
    BY <2>1
  <2>3. i # 1 => h[i - 1] = f[i - 1]
    BY <1>1
  <2> QED BY <2>2, <2>3
<1>6. h = Body(h)
  <2>1. DOMAIN Body(h) = 1..n /\ DOMAIN h = 1..n
    OBVIOUS
  <2> HIDE DEF n, h
  <2>2. \A i \in 1..n : h[i] = Body(h)[i]
    BY <1>5
  <2>3. h = [i \in 1..n |-> h[i]]
    BY DEF h
  <2> QED BY <2>2, <2>3
<1> DEFINE g == FlatPrefix(ss)
<1>7. g = Body(g)
  <2> HIDE DEF h
  <2> QED BY <1>6 DEF FlatPrefix
<1>8. ASSUME NEW i \in 1..n PROVE g[i] = IF i = 1 THEN ss[i] ELSE g[i - 1] \o ss[i]
  <2> HIDE DEF g, n
  <2> QED BY <1>7
<1> QED BY <1>8

\* FlattenSeq has the members of the lists, once if they are listed once.
LEMMA FlatMembers ==
  ASSUME NEW M, NEW ss \in Seq(Seq(M))
  PROVE  /\ FlattenSeq(ss) \in Seq(M)
         /\ ToSet(FlattenSeq(ss)) = UNION {ToSet(ss[i]) : i \in 1..Len(ss)}
         /\ (/\ \A i \in 1..Len(ss) : IsInjective(ss[i])
             /\ \A i, j \in 1..Len(ss) : i # j => ToSet(ss[i]) \cap ToSet(ss[j]) = {})
            => IsInjective(FlattenSeq(ss))
<1> DEFINE n == Len(ss)
           g == FlatPrefix(ss)
           Apart == /\ \A i \in 1..n : IsInjective(ss[i])
                    /\ \A i, j \in 1..n : i # j => ToSet(ss[i]) \cap ToSet(ss[j]) = {}
           Flat(k, m) == k \in Seq(M) /\ ToSet(k) = UNION {ToSet(ss[i]) : i \in 1..m} /\ (Apart => IsInjective(k))
           T == {m \in 0..n : m = 0 \/ Flat(g[m], m)}
<1>1. n \in Nat /\ \A i \in 1..n : ss[i] \in Seq(M)
  BY LenProperties
<1>2. \A i \in 1..n : g[i] = IF i = 1 THEN ss[i] ELSE g[i - 1] \o ss[i]
  BY FlatSteps
<1>3. FlattenSeq(ss) = IF n = 0 THEN ss ELSE g[n]
  BY DEF FlattenSeq, FlatPrefix
<1> HIDE DEF g, n
<1>4. 0 \in T
  BY <1>1
<1>5. ASSUME NEW m \in 1..n, m - 1 \in T PROVE m \in T
  <2>1. CASE m = 1
    <3>1. g[1] = ss[1] /\ ss[1] \in Seq(M)
      BY <1>1, <1>2, <2>1
    <3>2. UNION {ToSet(ss[i]) : i \in 1..1} = ToSet(ss[1])
      <4>1. 1..1 = {1}
        OBVIOUS
      <4> QED BY <4>1
    <3>3. Apart => IsInjective(ss[1])
      BY <1>1, <2>1
    <3>4. Flat(g[1], 1)
      <4> HIDE DEF Apart
      <4> QED BY <3>1, <3>2, <3>3
    <3> HIDE DEF Flat
    <3> QED BY <2>1, <3>4
  <2>2. CASE m # 1
    <3> DEFINE k == g[m - 1]
    <3>1. Flat(k, m - 1)
      <4> HIDE DEF Flat
      <4> QED BY <1>5, <2>2
    <3>2. g[m] = k \o ss[m] /\ ss[m] \in Seq(M)
      BY <1>1, <1>2, <2>2
    <3> HIDE DEF k, Apart
    <3>3. /\ k \o ss[m] \in Seq(M) /\ ToSet(k \o ss[m]) = ToSet(k) \cup ToSet(ss[m])
          /\ IsInjective(k) /\ IsInjective(ss[m]) /\ ToSet(k) \cap ToSet(ss[m]) = {}
             => IsInjective(k \o ss[m])
      <4>1. k \in Seq(M) /\ ss[m] \in Seq(M)
        BY <3>1, <3>2
      <4> QED BY <4>1, ConcatSet
    <3>4. UNION {ToSet(ss[i]) : i \in 1..m}
            = (UNION {ToSet(ss[i]) : i \in 1..(m - 1)}) \cup ToSet(ss[m])
      <4>1. 1..m = 1..(m - 1) \cup {m}
        BY <1>1
      <4> QED BY <4>1
    <3>5. ASSUME Apart PROVE IsInjective(ss[m]) /\ ToSet(k) \cap ToSet(ss[m]) = {}
      <4>1. \A i \in 1..(m - 1) : ToSet(ss[i]) \cap ToSet(ss[m]) = {}
        <5>1. \A i \in 1..(m - 1) : i \in 1..n /\ i # m
          BY <1>1
        <5> QED BY <3>5, <5>1 DEF Apart
      <4> QED BY <3>1, <3>5, <4>1 DEF Apart
    <3>6. Flat(g[m], m)
      BY <3>1, <3>2, <3>3, <3>4, <3>5
    <3> HIDE DEF Flat
    <3> QED BY <3>6
  <2> QED BY <2>1, <2>2
<1> HIDE DEF T
<1>6. \A m \in 0..n : m \in T
  BY <1>1, <1>4, <1>5, StepInduction
<1>7. CASE n = 0
  <2>1. ss = <<>> /\ FlattenSeq(ss) = <<>> /\ 1..n = {}
    BY <1>3, <1>7 DEF n
  <2>2. <<>> \in Seq(M) /\ ToSet(<<>>) = {} /\ IsInjective(<<>>)
    BY DEF ToSet, IsInjective
  <2> QED BY <2>1, <2>2 DEF n
<1>8. CASE n # 0
  <2>1. Flat(g[n], n)
    <3> HIDE DEF Flat
    <3> QED BY <1>1, <1>6, <1>8 DEF T
  <2> QED BY <1>3, <1>8, <2>1 DEF n
<1> HIDE DEF Apart, Flat
<1> QED BY ONLY <1>7, <1>8

\* The greatest of some bounded numbers.
LEMMA GreatestNumber ==
  ASSUME NEW n \in Nat, NEW S \in SUBSET (0..n), S # {}
  PROVE  Max(S) \in S /\ \A y \in S : y <= Max(S)
<1> DEFINE T == {n - x : x \in S}
<1>1. T \in SUBSET Nat /\ T # {}
  <2>1. \A x \in S : n - x \in Nat
    OBVIOUS
  <2> QED BY <2>1
<1> HIDE DEF T
<1>2. PICK t \in T : \A y \in T : t <= y
  BY <1>1, LeastNumber
<1>3. PICK x \in S : t = n - x
  BY DEF T
<1>4. \A y \in S : x >= y
  <2> SUFFICES ASSUME NEW y \in S PROVE x >= y
    OBVIOUS
  <2>1. n - y \in T
    BY DEF T
  <2> QED BY <1>2, <1>3, <2>1
<1>5. \E z \in S : \A y \in S : z >= y
  BY <1>4
<1>6. Max(S) \in S /\ \A y \in S : Max(S) >= y
  BY <1>5 DEF Max
<1> QED BY <1>6

\* The longest of some lists.
LEMMA Longest ==
  ASSUME NEW M, NEW ss \in Seq(Seq(M)), ss # <<>>
  PROVE  LET lengths == {Len(ss[i]) : i \in 1..Len(ss)}
         IN Max(lengths) \in Nat /\ \A i \in 1..Len(ss) : Len(ss[i]) <= Max(lengths)
<1> DEFINE lengths == {Len(ss[i]) : i \in 1..Len(ss)}
           n == Len(ss)
           T == {m \in 0..n : \E b \in Nat : \A i \in 1..m : Len(ss[i]) <= b}
<1>1. n \in Nat /\ n # 0 /\ \A i \in 1..n : Len(ss[i]) \in Nat
  BY LenProperties
<1> HIDE DEF n
<1>2. 0 \in T
  BY <1>1
<1>3. ASSUME NEW m \in 1..n, m - 1 \in T PROVE m \in T
  <2>1. PICK b \in Nat : \A i \in 1..(m - 1) : Len(ss[i]) <= b
    BY <1>3
  <2> DEFINE c == b + Len(ss[m])
  <2>2. c \in Nat /\ \A i \in 1..m : Len(ss[i]) <= c
    <3>1. ASSUME NEW i \in 1..m PROVE Len(ss[i]) <= c
      <4>1. CASE i = m
        BY <1>1, <4>1
      <4>2. CASE i # m
        <5>1. i \in 1..(m - 1) /\ Len(ss[i]) \in Nat /\ Len(ss[m]) \in Nat
          BY <1>1, <4>2
        <5> QED BY <2>1, <5>1
      <4> QED BY <4>1, <4>2
    <3> QED BY <1>1, <3>1
  <2>3. m \in 0..n
    BY <1>1
  <2> HIDE DEF c
  <2> QED BY <2>2, <2>3
<1> HIDE DEF T
<1>4. n \in T
  <2>1. n \in Nat /\ n \in 0..n
    BY <1>1
  <2>2. \A m \in 0..n : m \in T
    BY <2>1, <1>2, <1>3, StepInduction
  <2> QED BY <2>1, <2>2
<1>5. PICK b \in Nat : \A i \in 1..n : Len(ss[i]) <= b
  BY <1>4 DEF T
<1>6. lengths \in SUBSET (0..b) /\ lengths # {}
  <2>1. 1 \in 1..n
    BY <1>1
  <2>2. \A i \in 1..n : Len(ss[i]) \in 0..b
    BY <1>1, <1>5
  <2> QED BY <2>1, <2>2 DEF n
<1>7. \A i \in 1..n : Len(ss[i]) \in lengths
  BY DEF n
<1> HIDE DEF lengths
<1>8. Max(lengths) \in lengths /\ \A y \in lengths : y <= Max(lengths)
  BY <1>6, GreatestNumber
<1>9. Max(lengths) \in Nat
  <2>1. \A x \in lengths : x \in Nat
    BY <1>6
  <2> QED BY <1>8, <2>1
<1>10. \A i \in 1..n : Len(ss[i]) <= Max(lengths)
  BY <1>7, <1>8
<1> QED BY <1>9, <1>10 DEF lengths, n

\* A list with e put in behind its first k members.
LEMMA InsertedSet ==
  ASSUME NEW M, NEW s \in Seq(M), NEW e \in M, NEW k \in 0..Len(s)
  PROVE  LET u == InsertAt(s, k + 1, e)
         IN /\ u \in Seq(M) /\ Len(u) = Len(s) + 1
            /\ \A i \in 1..Len(u) : u[i] = IF i <= k THEN s[i] ELSE IF i = k + 1 THEN e ELSE s[i - 1]
            /\ ToSet(u) = ToSet(s) \cup {e}
            /\ IsInjective(s) /\ e \notin ToSet(s) => IsInjective(u)
<1> DEFINE n == Len(s)
           p == SubSeq(s, 1, k)
           q == SubSeq(s, k + 1, n)
           one == <<e>>
           pe == p \o one
           u == pe \o q
<1>1. n \in Nat /\ k \in 0..n /\ \A i \in 1..n : s[i] \in M
  BY LenProperties
<1>2. p \in Seq(M) /\ Len(p) = k /\ \A i \in 1..k : p[i] = s[i]
  <2>1. 1 \in Int /\ k \in Int /\ \A i \in 1..k : s[i] \in M
    BY <1>1
  <2>2. /\ p \in Seq(M) /\ Len(p) = IF 1 <= k THEN k - 1 + 1 ELSE 0
        /\ \A i \in 1..(k - 1 + 1) : p[i] = s[1 + i - 1]
    BY <2>1, SubSeqProperties
  <2> HIDE DEF p
  <2> QED BY <1>1, <2>2
<1>3. q \in Seq(M) /\ Len(q) = n - k /\ \A i \in 1..(n - k) : q[i] = s[k + i]
  <2>1. k + 1 \in Int /\ n \in Int /\ \A i \in (k + 1)..n : s[i] \in M
    BY <1>1
  <2>2. /\ q \in Seq(M) /\ Len(q) = IF k + 1 <= n THEN n - (k + 1) + 1 ELSE 0
        /\ \A i \in 1..(n - (k + 1) + 1) : q[i] = s[(k + 1) + i - 1]
    <3> HIDE DEF n
    <3> QED BY <2>1, SubSeqProperties
  <2> HIDE DEF q, n
  <2>3. \A i \in 1..(n - k) : i \in 1..(n - (k + 1) + 1) /\ (k + 1) + i - 1 = k + i
    BY <1>1
  <2>4. \A i \in 1..(n - k) : q[i] = s[k + i]
    BY <2>2, <2>3
  <2> QED BY <1>1, <2>2, <2>4
<1>4. one \in Seq(M) /\ Len(one) = 1 /\ one[1] = e
  OBVIOUS
<1> HIDE DEF p, q, one, n
<1>5. /\ pe \in Seq(M) /\ Len(pe) = k + 1
      /\ \A i \in 1..(k + 1) : pe[i] = IF i <= k THEN s[i] ELSE e
  <2>1. /\ pe \in Seq(M) /\ Len(pe) = Len(p) + Len(one)
        /\ \A i \in 1..Len(p) + Len(one) : pe[i] = IF i <= Len(p) THEN p[i] ELSE one[i - Len(p)]
    BY <1>2, <1>4, ConcatProperties
  <2> HIDE DEF pe
  <2>2. ASSUME NEW i \in 1..(k + 1) PROVE pe[i] = IF i <= k THEN s[i] ELSE e
    <3>1. CASE i <= k
      BY <1>1, <1>2, <1>4, <2>1, <3>1
    <3>2. CASE ~(i <= k)
      <4>1. i = k + 1 /\ i - Len(p) = 1
        BY <1>1, <1>2, <3>2
      <4> QED BY <1>1, <1>2, <1>4, <2>1, <3>2, <4>1
    <3> QED BY <3>1, <3>2
  <2> QED BY <1>1, <1>2, <1>4, <2>1, <2>2
<1> HIDE DEF pe
<1>6. /\ u \in Seq(M) /\ Len(u) = n + 1
      /\ \A i \in 1..(n + 1) : u[i] = IF i <= k THEN s[i] ELSE IF i = k + 1 THEN e ELSE s[i - 1]
  <2>1. /\ u \in Seq(M) /\ Len(u) = Len(pe) + Len(q)
        /\ \A i \in 1..Len(pe) + Len(q) : u[i] = IF i <= Len(pe) THEN pe[i] ELSE q[i - Len(pe)]
    BY <1>3, <1>5, ConcatProperties
  <2> HIDE DEF u
  <2>2. Len(pe) + Len(q) = n + 1
    BY <1>1, <1>3, <1>5
  <2>3. ASSUME NEW i \in 1..(n + 1)
        PROVE  u[i] = IF i <= k THEN s[i] ELSE IF i = k + 1 THEN e ELSE s[i - 1]
    <3>1. CASE i <= k + 1
      <4>1. u[i] = pe[i] /\ i \in 1..(k + 1)
        BY <1>1, <1>5, <2>1, <2>2, <3>1
      <4> QED BY <1>1, <1>5, <3>1, <4>1
    <3>2. CASE ~(i <= k + 1)
      <4>1. i - (k + 1) \in 1..(n - k) /\ k + (i - (k + 1)) = i - 1
        BY <1>1, <3>2
      <4>2. u[i] = q[i - (k + 1)]
        BY <1>1, <1>5, <2>1, <2>2, <3>2
      <4>3. u[i] = s[i - 1]
        BY <1>3, <4>1, <4>2
      <4> QED BY <1>1, <3>2, <4>3
    <3> QED BY <1>1, <3>1, <3>2
  <2> QED BY <2>1, <2>2, <2>3
<1>7. u = InsertAt(s, k + 1, e)
  <2>1. (k + 1) - 1 = k
    BY <1>1
  <2> QED BY <2>1 DEF InsertAt, u, pe, p, q, one, n
<1> HIDE DEF u
<1>8. /\ ToSet(u) = {u[i] : i \in 1..(n + 1)} /\ ToSet(s) = {s[i] : i \in 1..n}
      /\ IsInjective(u) <=> \A i, j \in 1..(n + 1) : u[i] = u[j] => i = j
      /\ IsInjective(s) <=> \A i, j \in 1..n : s[i] = s[j] => i = j
  BY <1>6, ListIs DEF n
<1>9. /\ \A i \in 1..(n + 1) : i # k + 1 => /\ (IF i <= k THEN i ELSE i - 1) \in 1..n
                                            /\ u[i] = s[IF i <= k THEN i ELSE i - 1]
      /\ k + 1 \in 1..(n + 1) /\ u[k + 1] = e
      /\ \A i \in 1..n : /\ (IF i <= k THEN i ELSE i + 1) \in 1..(n + 1)
                         /\ u[IF i <= k THEN i ELSE i + 1] = s[i]
  <2>1. ASSUME NEW i \in 1..(n + 1), i # k + 1
        PROVE  /\ (IF i <= k THEN i ELSE i - 1) \in 1..n
               /\ u[i] = s[IF i <= k THEN i ELSE i - 1]
    <3>1. CASE i <= k
      BY <1>1, <1>6, <3>1
    <3>2. CASE ~(i <= k)
      <4>1. i - 1 \in 1..n /\ u[i] = s[i - 1]
        BY <1>1, <1>6, <2>1, <3>2
      <4> QED BY <3>2, <4>1
    <3> QED BY <3>1, <3>2
  <2>2. k + 1 \in 1..(n + 1) /\ u[k + 1] = e
    BY <1>1, <1>6
  <2>3. ASSUME NEW i \in 1..n
        PROVE  /\ (IF i <= k THEN i ELSE i + 1) \in 1..(n + 1)
               /\ u[IF i <= k THEN i ELSE i + 1] = s[i]
    <3>1. CASE i <= k
      BY <1>1, <1>6, <3>1
    <3>2. CASE ~(i <= k)
      <4>1. i + 1 \in 1..(n + 1) /\ (i + 1) - 1 = i /\ ~(i + 1 <= k) /\ i + 1 # k + 1
        BY <1>1, <3>2
      <4>2. u[i + 1] = s[(i + 1) - 1]
        BY <1>6, <4>1
      <4> QED BY <3>2, <4>1, <4>2
    <3> QED BY <3>1, <3>2
  <2> QED BY <2>1, <2>2, <2>3
<1>10. ToSet(u) = ToSet(s) \cup {e}
  <2>1. ToSet(u) \subseteq ToSet(s) \cup {e}
    <3> SUFFICES ASSUME NEW i \in 1..(n + 1) PROVE u[i] \in ToSet(s) \cup {e}
      BY <1>8
    <3>1. CASE i = k + 1
      BY <1>9, <3>1
    <3>2. CASE i # k + 1
      <4> DEFINE j == IF i <= k THEN i ELSE i - 1
      <4>1. j \in 1..n /\ u[i] = s[j]
        BY <1>9, <3>2
      <4> HIDE DEF j
      <4> QED BY <1>8, <4>1
    <3> QED BY <3>1, <3>2
  <2>2. e \in ToSet(u)
    BY <1>8, <1>9
  <2>3. ASSUME NEW i \in 1..n PROVE s[i] \in ToSet(u)
    <3> DEFINE j == IF i <= k THEN i ELSE i + 1
    <3>1. j \in 1..(n + 1) /\ u[j] = s[i]
      BY <1>9
    <3> HIDE DEF j
    <3> QED BY <1>8, <3>1
  <2>4. ToSet(s) \subseteq ToSet(u)
    <3> HIDE DEF n
    <3> QED BY ONLY <1>8, <2>3
  <2> QED BY ONLY <2>1, <2>2, <2>4
<1>11. ASSUME IsInjective(s), e \notin ToSet(s) PROVE IsInjective(u)
  <2>1. ASSUME NEW i \in 1..(n + 1), NEW j \in 1..(n + 1), u[i] = u[j] PROVE i = j
    <3> DEFINE a == IF i <= k THEN i ELSE i - 1
               b == IF j <= k THEN j ELSE j - 1
    <3>1. /\ i # k + 1 => a \in 1..n /\ u[i] = s[a]
          /\ j # k + 1 => b \in 1..n /\ u[j] = s[b]
      BY <1>9
    <3>2. CASE i = k + 1
      <4>1. u[j] = e
        BY <1>9, <2>1, <3>2
      <4> HIDE DEF a, b
      <4>2. j # k + 1 => e \in ToSet(s)
        BY <1>8, <3>1, <4>1
      <4> QED BY <1>11, <3>2, <4>2
    <3>3. CASE j = k + 1
      <4>1. u[i] = e
        BY <1>9, <2>1, <3>3
      <4> HIDE DEF a, b
      <4>2. i # k + 1 => e \in ToSet(s)
        BY <1>8, <3>1, <4>1
      <4> QED BY <1>11, <3>3, <4>2
    <3>4. CASE i # k + 1 /\ j # k + 1
      <4>1. a = b
        <5> HIDE DEF a, b
        <5> QED BY <1>8, <1>11, <2>1, <3>1, <3>4
      <4> QED BY <1>1, <3>4, <4>1
    <3> QED BY <3>2, <3>3, <3>4
  <2> QED BY <1>8, <2>1
<1> QED BY <1>6, <1>7, <1>10, <1>11 DEF n

\* A function on 1..n is a list.
LEMMA FunctionIsList ==
  ASSUME NEW M, NEW n \in Nat, NEW f \in [1..n -> M]
  PROVE  f \in Seq(M) /\ Len(f) = n
OBVIOUS

-----------------------------------------------------------------------------
(* Turns.                                                                  *)

LEMMA Remainder ==
  ASSUME NEW n \in Nat \ {0}, NEW q \in Nat, NEW r \in 0..(n - 1)
  PROVE  (n * q + r) % n = r
OBVIOUS

\* A turn through n places from s.
LEMMA TurnOf ==
  ASSUME NEW n \in Nat \ {0}, NEW s \in Nat, NEW x \in 0..(n - 1)
  PROVE  (s + x) % n = IF (s % n) + x < n THEN (s % n) + x ELSE (s % n) + x - n
<1> DEFINE q == s \div n
           r == s % n
<1>1. s = n * q + r /\ q \in Nat /\ r \in 0..(n - 1)
  <2>1. s = n * (s \div n) + (s % n)
    OBVIOUS
  <2>2. s \div n \in Nat
    OBVIOUS
  <2> QED BY <2>1, <2>2
<1> HIDE DEF q, r
<1>2. CASE r + x < n
  <2>1. s + x = n * q + (r + x) /\ r + x \in 0..(n - 1)
    BY <1>1, <1>2
  <2>2. (n * q + (r + x)) % n = r + x
    BY <1>1, <2>1, Remainder
  <2>3. (s + x) % n = r + x
    BY <2>1, <2>2
  <2> QED BY <1>2, <2>3 DEF r
<1>3. CASE ~(r + x < n)
  <2>1. s + x = n * (q + 1) + (r + x - n) /\ r + x - n \in 0..(n - 1) /\ q + 1 \in Nat
    BY <1>1, <1>3
  <2>2. (n * (q + 1) + (r + x - n)) % n = r + x - n
    BY <2>1, Remainder
  <2>3. (s + x) % n = r + x - n
    BY <2>1, <2>2
  <2> QED BY <1>3, <2>3 DEF r
<1> QED BY <1>2, <1>3

\* It comes to every place, and to none twice.
LEMMA Turns ==
  ASSUME NEW n \in Nat \ {0}, NEW s \in Nat
  PROVE  /\ \A x \in 0..(n - 1) : (s + x) % n \in 0..(n - 1)
         /\ \A x, y \in 0..(n - 1) : (s + x) % n = (s + y) % n => x = y
         /\ \A k \in 0..(n - 1) : \E x \in 0..(n - 1) : (s + x) % n = k
<1> DEFINE at(x) == (s + x) % n
           r == s % n
<1>1. r \in 0..(n - 1)
  OBVIOUS
<1>2. \A x \in 0..(n - 1) : at(x) = IF r + x < n THEN r + x ELSE r + x - n
  BY TurnOf
<1> HIDE DEF r, at
<1>3. \A x \in 0..(n - 1) : at(x) \in 0..(n - 1)
  BY <1>1, <1>2
<1>4. \A x, y \in 0..(n - 1) : at(x) = at(y) => x = y
  BY <1>1, <1>2
<1>5. ASSUME NEW k \in 0..(n - 1) PROVE \E x \in 0..(n - 1) : at(x) = k
  <2>1. CASE r <= k
    <3>1. k - r \in 0..(n - 1) /\ at(k - r) = k
      BY <1>1, <1>2, <2>1
    <3> QED BY <3>1
  <2>2. CASE ~(r <= k)
    <3>1. k - r + n \in 0..(n - 1) /\ at(k - r + n) = k
      BY <1>1, <1>2, <2>2
    <3> QED BY <3>1
  <2> QED BY <2>1, <2>2
<1> QED BY <1>3, <1>4, <1>5 DEF at
=============================================================================
