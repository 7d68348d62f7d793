---------------------------- MODULE BrowsingProofs ----------------------------
(***************************************************************************)
(* Browsing, for any catalogue, library, page size, number of clicks and   *)
(* imports.  Cards: a sum of weights with a positive value has a positive  *)
(* term, which is the reason a card gives; the rows of a ranking are the   *)
(* highest.  The discover page: the invariant says that as long as nothing *)
(* moves each page seen is one of what is found now, and the places of a   *)
(* list are shared out among its pages.  The page of a show: the invariant *)
(* says, of each control with a copy, what the requests in the queue will  *)
(* make of it.                                                             *)
(***************************************************************************)
EXTENDS Browsing, FiniteSetTheorems, FunctionTheorems, SequenceTheorems,
        WellFoundedInduction, TLAPS

----------------------------------------------------------------------------
(* Sums.                                                                   *)

\* The recursion by which the weights of the sets of things in S are summed.
Sums(w, S, sum) ==
  sum = [s \in SUBSET S |-> IF s = {} THEN 0
                            ELSE LET x == CHOOSE x \in s : TRUE IN w[x] + sum[s \ {x}]]

\* A sum is the last value of its recursion.
LEMMA SumIs ==
  ASSUME NEW w, NEW S
  PROVE  SumWeights(w, S) = (CHOOSE sum : Sums(w, S, sum))[S]
BY DEF SumWeights, MapThenSumSet, MapThenFoldSet, Sums

\* A set of numbers has a least.
LEMMA LeastOf ==
  ASSUME NEW S, S \subseteq Nat, S # {}
  PROVE  \E m \in S : \A n \in S : m <= n
<1> DEFINE R == {p \in Nat \X Nat : p[1] < p[2]}
<1>1. IsWellFoundedOn(R, Nat)
  BY NatLessThanWellFounded, Zenon DEF OpToRel
<1>2. PICK m \in S : \A n \in S : <<n, m>> \notin R
  <2> HIDE DEF R
  <2> QED BY <1>1, WFMin
<1>3. ASSUME NEW n \in S PROVE m <= n
  <2>1. m \in Nat /\ n \in Nat /\ <<n, m>> \notin R
    BY <1>2
  <2> QED BY <2>1
<1> QED BY <1>3

\* What holds of a finite set once it holds of its smaller subsets holds of all.
LEMMA SubsetsInduct ==
  ASSUME NEW S, IsFiniteSet(S), NEW Q,
         \A A \in SUBSET S : (\A B \in SUBSET A : B # A => B \in Q) => A \in Q
  PROVE  \A A \in SUBSET S : A \in Q
<1> SUFFICES ASSUME NEW A0 \in SUBSET S, A0 \notin Q PROVE FALSE
  OBVIOUS
<1> DEFINE bad == {A \in SUBSET S : A \notin Q}
           sizes == {Cardinality(A) : A \in bad}
<1>1. \A A \in SUBSET S : IsFiniteSet(A) /\ Cardinality(A) \in Nat
  BY FS_Subset, FS_CardinalityType
<1>2. sizes \subseteq Nat /\ sizes # {}
  BY <1>1
<1>3. PICK n \in sizes : \A m \in sizes : n <= m
  <2> HIDE DEF sizes
  <2> QED BY <1>2, LeastOf
<1>4. PICK A \in bad : Cardinality(A) = n
  BY <1>3
<1>5. ASSUME NEW B \in SUBSET A, B # A PROVE B \in Q
  <2>1. /\ Cardinality(B) <= Cardinality(A) /\ Cardinality(B) # Cardinality(A)
        /\ Cardinality(A) \in Nat /\ Cardinality(B) \in Nat /\ B \in SUBSET S
    BY <1>1, <1>5, FS_Subset
  <2>2. ASSUME B \in bad PROVE FALSE
    <3>1. n <= Cardinality(B)
      BY <1>3, <2>2
    <3> QED BY <3>1, <2>1, <1>4
  <2> QED BY <2>1, <2>2
<1> QED BY <1>4, <1>5

\* Two such recursions agree where they meet.
LEMMA SumsUnique ==
  ASSUME NEW w, NEW S, NEW T, IsFiniteSet(S), NEW f, Sums(w, S, f), NEW g, Sums(w, T, g)
  PROVE  \A A \in SUBSET (S \cap T) : f[A] = g[A]
<1> DEFINE C == S \cap T
           Q == {A \in SUBSET C : f[A] = g[A]}
<1>1. IsFiniteSet(C) /\ C \subseteq S /\ C \subseteq T
  BY FS_Subset
<1>2. ASSUME NEW A \in SUBSET C, \A B \in SUBSET A : B # A => f[B] = g[B]
      PROVE  f[A] = g[A]
  <2>1. /\ f[A] = IF A = {} THEN 0 ELSE LET x == CHOOSE x \in A : TRUE IN w[x] + f[A \ {x}]
        /\ g[A] = IF A = {} THEN 0 ELSE LET x == CHOOSE x \in A : TRUE IN w[x] + g[A \ {x}]
    BY <1>1 DEF Sums
  <2>2. CASE A = {}
    BY <2>1, <2>2
  <2>3. CASE A # {}
    <3> DEFINE x == CHOOSE x \in A : TRUE
    <3>1. x \in A
      BY <2>3
    <3>2. f[A] = w[x] + f[A \ {x}] /\ g[A] = w[x] + g[A \ {x}]
      BY <2>1, <2>3
    <3> HIDE DEF x
    <3>3. f[A \ {x}] = g[A \ {x}]
      BY <1>2, <3>1
    <3> QED BY <3>2, <3>3
  <2> QED BY <2>2, <2>3
<1> HIDE DEF C
<1>3. \A A \in SUBSET C : A \in Q
  <2>1. \A A \in SUBSET C : (\A B \in SUBSET A : B # A => B \in Q) => A \in Q
    BY <1>2
  <2> HIDE DEF Q
  <2> QED BY <1>1, <2>1, SubsetsInduct
<1> QED BY <1>3 DEF C

\* Over a finite set there is such a recursion.
LEMMA SumsExist ==
  ASSUME NEW w, NEW S, IsFiniteSet(S)
  PROVE  Sums(w, S, CHOOSE sum : Sums(w, S, sum))
<1> DEFINE Of(A) == CHOOSE sum : Sums(w, A, sum)
           Q == {A \in SUBSET S : \E sum : Sums(w, A, sum)}
<1>1. ASSUME NEW A \in SUBSET S, \A B \in SUBSET A : B # A => \E sum : Sums(w, B, sum)
      PROVE  \E sum : Sums(w, A, sum)
  <2> DEFINE f == [s \in SUBSET A |->
                     IF s = {} THEN 0
                     ELSE LET x == CHOOSE x \in s : TRUE IN w[x] + Of(s \ {x})[s \ {x}]]
  <2>1. ASSUME NEW B \in SUBSET A, B # A PROVE Sums(w, B, Of(B)) /\ IsFiniteSet(B)
    BY <1>1, <2>1, FS_Subset
  <2>2. ASSUME NEW B \in SUBSET A, B # A PROVE f[B] = Of(B)[B]
    <3>1. Sums(w, B, Of(B)) /\ IsFiniteSet(B)
      BY <2>1, <2>2
    <3> HIDE DEF Of
    <3>2. Of(B)[B] = IF B = {} THEN 0
                     ELSE LET x == CHOOSE x \in B : TRUE IN w[x] + Of(B)[B \ {x}]
      BY <3>1 DEF Sums
    <3>3. f[B] = IF B = {} THEN 0
                 ELSE LET x == CHOOSE x \in B : TRUE IN w[x] + Of(B \ {x})[B \ {x}]
      OBVIOUS
    <3> HIDE DEF f
    <3>4. CASE B = {}
      BY <3>2, <3>3, <3>4
    <3>5. CASE B # {}
      <4> DEFINE x == CHOOSE x \in B : TRUE
      <4>1. x \in B
        BY <3>5
      <4>2. Of(B)[B] = w[x] + Of(B)[B \ {x}] /\ f[B] = w[x] + Of(B \ {x})[B \ {x}]
        BY <3>2, <3>3, <3>5
      <4> HIDE DEF x
      <4>3. Sums(w, B \ {x}, Of(B \ {x}))
        BY <2>1, <2>2, <4>1
      <4>4. B \ {x} \in SUBSET (B \cap (B \ {x}))
        OBVIOUS
      <4>5. Of(B)[B \ {x}] = Of(B \ {x})[B \ {x}]
        BY <3>1, <4>3, <4>4, SumsUnique
      <4> QED BY <4>2, <4>5
    <3> QED BY <3>4, <3>5
  <2> HIDE DEF Of
  <2>3. ASSUME NEW s \in SUBSET A
        PROVE  f[s] = IF s = {} THEN 0
                      ELSE LET x == CHOOSE x \in s : TRUE IN w[x] + f[s \ {x}]
    <3>1. f[s] = IF s = {} THEN 0
                 ELSE LET x == CHOOSE x \in s : TRUE IN w[x] + Of(s \ {x})[s \ {x}]
      OBVIOUS
    <3> HIDE DEF f
    <3>2. CASE s = {}
      BY <3>1, <3>2
    <3>3. CASE s # {}
      <4> DEFINE x == CHOOSE x \in s : TRUE
      <4>1. x \in s
        BY <3>3
      <4>2. f[s] = w[x] + Of(s \ {x})[s \ {x}]
        BY <3>1, <3>3
      <4> HIDE DEF x
      <4>3. f[s \ {x}] = Of(s \ {x})[s \ {x}]
        BY <2>2, <4>1
      <4>4. f[s] = w[x] + f[s \ {x}]
        BY <4>2, <4>3
      <4> QED BY <3>3, <4>4 DEF x
    <3> QED BY <3>2, <3>3
  <2>4. f = [s \in SUBSET A |-> f[s]]
    OBVIOUS
  <2> HIDE DEF f
  <2>5. f = [s \in SUBSET A |-> IF s = {} THEN 0
                                ELSE LET x == CHOOSE x \in s : TRUE IN w[x] + f[s \ {x}]]
    BY <2>3, <2>4
  <2> QED BY <2>5 DEF Sums
<1>2. S \in Q
  <2>1. \A A \in SUBSET S : (\A B \in SUBSET A : B # A => B \in Q) => A \in Q
    BY <1>1
  <2> HIDE DEF Q
  <2> QED BY <2>1, SubsetsInduct
<1> QED BY <1>2

\* A sum of nothing, and a sum without the thing the fold takes first.
LEMMA SumChosen ==
  ASSUME NEW w, NEW S, IsFiniteSet(S)
  PROVE  /\ S = {} => SumWeights(w, S) = 0
         /\ S # {} => LET x == CHOOSE x \in S : TRUE
                      IN  SumWeights(w, S) = w[x] + SumWeights(w, S \ {x})
<1> DEFINE Of(A) == CHOOSE sum : Sums(w, A, sum)
<1>1. Sums(w, S, Of(S)) /\ SumWeights(w, S) = Of(S)[S]
  BY SumsExist, SumIs
<1> HIDE DEF Of
<1>2. Of(S)[S] = IF S = {} THEN 0
                 ELSE LET x == CHOOSE x \in S : TRUE IN w[x] + Of(S)[S \ {x}]
  BY <1>1 DEF Sums
<1>3. CASE S = {}
  BY <1>1, <1>2, <1>3
<1>4. CASE S # {}
  <2> DEFINE x == CHOOSE x \in S : TRUE
  <2>1. x \in S /\ IsFiniteSet(S \ {x})
    BY <1>4, FS_Subset
  <2>2. SumWeights(w, S) = w[x] + Of(S)[S \ {x}]
    BY <1>1, <1>2, <1>4
  <2> HIDE DEF x
  <2>3. Sums(w, S \ {x}, Of(S \ {x})) /\ SumWeights(w, S \ {x}) = Of(S \ {x})[S \ {x}]
    BY <2>1, SumsExist, SumIs DEF Of
  <2>a. S \ {x} \in SUBSET (S \cap (S \ {x}))
    OBVIOUS
  <2>4. Of(S)[S \ {x}] = Of(S \ {x})[S \ {x}]
    BY <1>1, <2>3, <2>a, SumsUnique, SMTT(30)
  <2>5. SumWeights(w, S) = w[x] + SumWeights(w, S \ {x})
    BY <2>2, <2>3, <2>4
  <2> QED BY <1>4, <2>5 DEF x
<1> QED BY <1>3, <1>4

\* Sums of whole numbers do not depend on the order.
LEMMA SumTakesOut ==
  ASSUME NEW w, NEW S, IsFiniteSet(S), \A x \in S : w[x] \in Int
  PROVE  \A A \in SUBSET S : /\ SumWeights(w, A) \in Int
                             /\ \A x \in A : SumWeights(w, A) = w[x] + SumWeights(w, A \ {x})
<1> DEFINE Good(A) == /\ SumWeights(w, A) \in Int
                      /\ \A x \in A : SumWeights(w, A) = w[x] + SumWeights(w, A \ {x})
           Q == {A \in SUBSET S : Good(A)}
<1>1. ASSUME NEW A \in SUBSET S, \A B \in SUBSET A : B # A => Good(B)
      PROVE  Good(A)
  <2>1. IsFiniteSet(A)
    BY FS_Subset
  <2>2. CASE A = {}
    <3>1. SumWeights(w, A) = 0
      BY <2>1, <2>2, SumChosen
    <3> QED BY <2>2, <3>1
  <2>3. CASE A # {}
    <3> DEFINE y == CHOOSE x \in A : TRUE
    <3>1. y \in A /\ w[y] \in Int
      BY <2>3
    <3>2. SumWeights(w, A) = w[y] + SumWeights(w, A \ {y})
      BY <2>1, <2>3, SumChosen
    <3> HIDE DEF y
    <3>3. Good(A \ {y})
      BY <1>1, <3>1
    <3>4. SumWeights(w, A) \in Int
      BY <3>1, <3>2, <3>3
    <3>5. ASSUME NEW x \in A PROVE SumWeights(w, A) = w[x] + SumWeights(w, A \ {x})
      <4>1. CASE x = y
        BY <3>2, <4>1
      <4>2. CASE x # y
        <5>1. Good(A \ {x}) /\ x \in A \ {y} /\ y \in A \ {x} /\ w[x] \in Int
          BY <1>1, <3>1, <4>2
        <5>2. SumWeights(w, A \ {y}) = w[x] + SumWeights(w, (A \ {y}) \ {x})
          BY <3>3, <5>1
        <5>3. SumWeights(w, A \ {x}) = w[y] + SumWeights(w, (A \ {x}) \ {y})
          BY <5>1
        <5>4. (A \ {y}) \ {x} = (A \ {x}) \ {y}
          OBVIOUS
        <5>5. Good((A \ {x}) \ {y})
          BY <1>1, <3>1
        <5> DEFINE rest == SumWeights(w, (A \ {x}) \ {y})
        <5>6. rest \in Int /\ SumWeights(w, A \ {x}) = w[y] + rest
          BY <5>3, <5>5
        <5>7. SumWeights(w, A) = w[y] + (w[x] + rest)
          BY <3>2, <5>2, <5>4
        <5> HIDE DEF rest
        <5> QED BY <3>1, <5>1, <5>6, <5>7
      <4> QED BY <4>1, <4>2
    <3> QED BY <3>4, <3>5
  <2> QED BY <2>2, <2>3
<1> HIDE DEF Good
<1>2. \A A \in SUBSET S : A \in Q
  <2>1. \A A \in SUBSET S : (\A B \in SUBSET A : B # A => B \in Q) => A \in Q
    BY <1>1
  <2> HIDE DEF Q
  <2> QED BY <2>1, SubsetsInduct
<1> QED BY <1>2 DEF Good

\* Nothing sums to nothing.
LEMMA SumOfNothing == ASSUME NEW w PROVE SumWeights(w, {}) = 0
BY FS_EmptySet, SumChosen

\* A positive sum has a positive term.
LEMMA SumPositive ==
  ASSUME NEW w, NEW S, IsFiniteSet(S), \A x \in S : w[x] \in Int, SumWeights(w, S) > 0
  PROVE  \E x \in S : w[x] > 0
<1> DEFINE Q == {A \in SUBSET S : SumWeights(w, A) > 0 => \E x \in A : w[x] > 0}
<1>1. ASSUME NEW A \in SUBSET S, \A B \in SUBSET A : B # A => B \in Q PROVE A \in Q
  <2> SUFFICES ASSUME SumWeights(w, A) > 0 PROVE \E x \in A : w[x] > 0
    OBVIOUS
  <2>1. A # {}
    BY SumOfNothing
  <2>2. PICK x \in A : TRUE
    BY <2>1
  <2>3. /\ SumWeights(w, A) = w[x] + SumWeights(w, A \ {x}) /\ w[x] \in Int
        /\ SumWeights(w, A \ {x}) \in Int /\ A \ {x} \in Q
    BY <1>1, SumTakesOut
  <2>4. w[x] > 0 \/ SumWeights(w, A \ {x}) > 0
    BY <2>3
  <2> QED BY <2>3, <2>4
<1>2. S \in Q
  <2> HIDE DEF Q
  <2> QED BY <1>1, SubsetsInduct
<1> QED BY <1>2

\* More terms, none of them negative, are no less.
LEMMA SumGrows ==
  ASSUME NEW w, NEW S, IsFiniteSet(S), \A x \in S : w[x] \in Nat
  PROVE  /\ \A A \in SUBSET S : SumWeights(w, A) \in Nat /\ SumWeights(w, A) <= SumWeights(w, S)
         /\ \A x \in S : w[x] <= SumWeights(w, S)
<1> DEFINE Good(B) == \A A \in SUBSET B : SumWeights(w, A) <= SumWeights(w, B)
           Q == {B \in SUBSET S : Good(B)}
<1>0. /\ \A A \in SUBSET S : SumWeights(w, A) \in Int
      /\ \A A \in SUBSET S : \A x \in A : SumWeights(w, A) = w[x] + SumWeights(w, A \ {x})
  BY SumTakesOut
<1>1. ASSUME NEW B \in SUBSET S, \A C \in SUBSET B : C # B => Good(C) PROVE Good(B)
  <2> SUFFICES ASSUME NEW A \in SUBSET B, A # B PROVE SumWeights(w, A) <= SumWeights(w, B)
    BY <1>0
  <2>1. PICK x \in B : x \notin A
    OBVIOUS
  <2>2. SumWeights(w, A) <= SumWeights(w, B \ {x})
    BY <1>1, <2>1
  <2>3. /\ SumWeights(w, B) = w[x] + SumWeights(w, B \ {x}) /\ w[x] \in Nat
        /\ SumWeights(w, A) \in Int /\ SumWeights(w, B \ {x}) \in Int
    BY <1>0
  <2> QED BY <2>2, <2>3
<1> HIDE DEF Good
<1>2. \A B \in SUBSET S : Good(B)
  <2>1. \A B \in SUBSET S : (\A C \in SUBSET B : C # B => C \in Q) => B \in Q
    BY <1>1
  <2> HIDE DEF Q
  <2>2. \A B \in SUBSET S : B \in Q
    BY <2>1, SubsetsInduct
  <2> QED BY <2>2 DEF Q
<1>3. \A A \in SUBSET S : 0 <= SumWeights(w, A) /\ SumWeights(w, A) <= SumWeights(w, S)
  <2>1. \A A \in SUBSET S : SumWeights(w, {}) <= SumWeights(w, A)
    BY <1>2 DEF Good
  <2> QED BY <1>2, <2>1, SumOfNothing DEF Good
<1>4. ASSUME NEW x \in S PROVE w[x] <= SumWeights(w, S)
  <2>1. SumWeights(w, S) = w[x] + SumWeights(w, S \ {x}) /\ w[x] \in Nat
    BY <1>0
  <2>2. 0 <= SumWeights(w, S \ {x}) /\ SumWeights(w, S \ {x}) \in Int
    BY <1>0, <1>3
  <2> QED BY <2>1, <2>2
<1> QED BY <1>0, <1>3, <1>4

----------------------------------------------------------------------------
(* Sorting.                                                                *)

StrictOrder(S, R) ==
  /\ \A s \in S : <<s, s>> \notin R
  /\ \A s, t \in S : s # t => <<s, t>> \in R \/ <<t, s>> \in R
  /\ \A s, t, u \in S : <<s, t>> \in R /\ <<t, u>> \in R => <<s, u>> \in R

InOrder(o, S, R) ==
  /\ o \in Seq(S) /\ Len(o) = Cardinality(S) /\ DOMAIN o = 1..Cardinality(S)
  /\ Cardinality(S) \in Nat
  /\ Range(o) = S
  /\ \A i, j \in DOMAIN o : o[i] = o[j] => i = j
  /\ \A i, j \in DOMAIN o : <<o[i], o[j]>> \in R => i < j

\* How many members of S come before s.
Ahead(S, R) == [s \in S |-> Cardinality({t \in S : <<t, s>> \in R})]

\* Whoever comes later has more before it.
LEMMA AheadGrows ==
  ASSUME NEW S, IsFiniteSet(S), NEW R, StrictOrder(S, R), NEW s \in S
  PROVE  /\ Ahead(S, R)[s] \in 0..Cardinality(S) - 1
         /\ \A t \in S : <<s, t>> \in R => Ahead(S, R)[s] < Ahead(S, R)[t]
<1> DEFINE before(t) == {u \in S : <<u, t>> \in R}
<1>1. \A t \in S : /\ IsFiniteSet(before(t)) /\ Cardinality(before(t)) \in Nat
                   /\ Ahead(S, R)[t] = Cardinality(before(t))
  BY FS_Subset, FS_CardinalityType DEF Ahead
<1>2. Cardinality(S) \in Nat
  BY FS_CardinalityType
<1>3. Cardinality(before(s)) < Cardinality(S)
  <2>1. before(s) \subseteq S /\ before(s) # S
    BY DEF StrictOrder
  <2> HIDE DEF before
  <2>2. Cardinality(before(s)) <= Cardinality(S) /\ Cardinality(before(s)) # Cardinality(S)
    BY <2>1, FS_Subset
  <2> QED BY <1>1, <1>2, <2>2
<1>4. ASSUME NEW t \in S, <<s, t>> \in R
      PROVE  Cardinality(before(s)) < Cardinality(before(t))
  <2>1. before(s) \subseteq before(t) /\ s \in before(t) /\ s \notin before(s)
    BY <1>4 DEF StrictOrder
  <2> HIDE DEF before
  <2>2. /\ Cardinality(before(s)) <= Cardinality(before(t))
        /\ Cardinality(before(s)) # Cardinality(before(t))
    BY <1>1, <2>1, FS_Subset
  <2> QED BY <1>1, <2>2
<1> HIDE DEF before
<1> QED BY <1>1, <1>2, <1>3, <1>4

\* What Sorted returns has each member once, and in order.
LEMMA SortedIs ==
  ASSUME NEW S, IsFiniteSet(S), NEW R, StrictOrder(S, R)
  PROVE  InOrder(Sorted(S, R), S, R)
<1> DEFINE n == Cardinality(S)
           ahead == Ahead(S, R)
           o == Sorted(S, R)
<1>1. n \in Nat /\ IsFiniteSet(0..n - 1) /\ Cardinality(0..n - 1) = n
  <2>1. n \in Nat
    BY FS_CardinalityType
  <2> HIDE DEF n
  <2>2. IsFiniteSet(0..n - 1) /\ Cardinality(0..n - 1) = IF 0 > n - 1 THEN 0 ELSE (n - 1) - 0 + 1
    BY <2>1, FS_Interval
  <2> QED BY <2>1, <2>2
<1>2. /\ ahead \in [S -> 0..n - 1]
      /\ \A s, t \in S : <<s, t>> \in R => ahead[s] < ahead[t]
  <2>1. \A s \in S : /\ ahead[s] \in 0..n - 1
                     /\ \A t \in S : <<s, t>> \in R => ahead[s] < ahead[t]
    BY AheadGrows
  <2>2. ahead = [s \in S |-> ahead[s]]
    BY DEF Ahead
  <2> HIDE DEF ahead, n
  <2> QED BY <2>1, <2>2
<1>3. \A s, t \in S : ahead[s] = ahead[t] => s = t
  <2> SUFFICES ASSUME NEW s \in S, NEW t \in S, ahead[s] = ahead[t], s # t PROVE FALSE
    OBVIOUS
  <2>1. <<s, t>> \in R \/ <<t, s>> \in R
    BY DEF StrictOrder
  <2> HIDE DEF ahead, n
  <2>2. ahead[s] \in Int /\ ahead[t] \in Int /\ (ahead[s] < ahead[t] \/ ahead[t] < ahead[s])
    BY <2>1, <1>1, <1>2
  <2> QED BY <2>2
<1>4. \A k \in 0..n - 1 : \E s \in S : ahead[s] = k
  <2>1. ahead \in Injection(S, 0..n - 1)
    BY <1>2, <1>3 DEF Injection, IsInjective
  <2>2. ahead \in Surjection(S, 0..n - 1)
    <3> HIDE DEF ahead
    <3> QED BY <1>1, <2>1, FS_Injection
  <2> QED BY <2>2 DEF Surjection
<1>5. o = [i \in 1..n |-> CHOOSE s \in S : ahead[s] = i - 1]
  BY DEF Sorted, Ahead
<1> HIDE DEF ahead, n, o
<1>6. \A i \in 1..n : o[i] \in S /\ ahead[o[i]] = i - 1
  BY <1>1, <1>4, <1>5
<1>7. o \in Seq(S) /\ Len(o) = n /\ DOMAIN o = 1..n
  BY <1>1, <1>5, <1>6
<1>8. Range(o) = S
  <2>1. ASSUME NEW s \in S PROVE \E i \in 1..n : o[i] = s
    <3>1. ahead[s] + 1 \in 1..n /\ (ahead[s] + 1) - 1 = ahead[s]
      BY <1>1, <1>2
    <3> QED BY <3>1, <1>3, <1>6
  <2>2. \A i \in DOMAIN o : o[i] \in S
    BY <1>6, <1>7
  <2>3. Range(o) = {o[i] : i \in DOMAIN o}
    BY DEF Range
  <2>4. \A s \in S : \E i \in DOMAIN o : o[i] = s
    BY <2>1, <1>7
  <2> QED BY <2>2, <2>3, <2>4
<1>9. \A i, j \in DOMAIN o : o[i] = o[j] => i = j
  BY <1>1, <1>6, <1>7
<1>10. \A i, j \in DOMAIN o : <<o[i], o[j]>> \in R => i < j
  BY <1>1, <1>2, <1>6, <1>7
<1> QED BY <1>1, <1>7, <1>8, <1>9, <1>10 DEF InOrder, n, o

\* The first few of a sequence are its beginning.
LEMMA FirstIs ==
  ASSUME NEW S, NEW q \in Seq(S), NEW n \in Nat
  PROVE  /\ First(n, q) \in Seq(S)
         /\ Len(First(n, q)) = IF n < Len(q) THEN n ELSE Len(q)
         /\ \A i \in DOMAIN First(n, q) : i \in DOMAIN q /\ First(n, q)[i] = q[i]
         /\ Range(First(n, q)) \subseteq Range(q)
<1> DEFINE m == IF n < Len(q) THEN n ELSE Len(q)
           p == First(n, q)
<1>1. m \in Nat /\ m <= Len(q) /\ DOMAIN q = 1..Len(q) /\ Len(q) \in Nat
  OBVIOUS
<1>2. p = SubSeq(q, 1, m)
  BY DEF First
<1> HIDE DEF m, p
<1>3. p \in Seq(S) /\ Len(p) = m /\ \A i \in 1..m : p[i] = q[i] /\ i \in DOMAIN q
  <2>1. \A i \in 1..m : q[i] \in S /\ i \in DOMAIN q
    BY <1>1
  <2>2. /\ SubSeq(q, 1, m) \in Seq(S)
        /\ Len(SubSeq(q, 1, m)) = IF 1 <= m THEN m - 1 + 1 ELSE 0
        /\ \A i \in 1 .. m - 1 + 1 : SubSeq(q, 1, m)[i] = q[1 + i - 1]
    BY <2>1, <1>1, SubSeqProperties
  <2> QED BY <2>1, <2>2, <1>1, <1>2
<1>4. DOMAIN p = 1..m
  BY <1>3
<1>5. \A i \in DOMAIN p : i \in DOMAIN q /\ p[i] = q[i]
  BY <1>3, <1>4
<1>6. Range(p) \subseteq Range(q)
  BY <1>5 DEF Range
<1> QED BY <1>3, <1>5, <1>6 DEF m, p

\* The orders in which the code sorts are strict.
LEMMA AboveIsStrict ==
  ASSUME NEW S, S \subseteq Nat, NEW key,
         \A s \in S : key[s][1] \in Int /\ key[s][2] \in Int
  PROVE  StrictOrder(S, {p \in S \X S : Above(key, p[1], p[2])})
<1> DEFINE R == {p \in S \X S : Above(key, p[1], p[2])}
<1>1. \A s, t \in S : <<s, t>> \in R <=> Above(key, s, t)
  OBVIOUS
<1> HIDE DEF R
<1>2. ASSUME NEW s \in S PROVE <<s, s>> \notin R
  BY <1>1 DEF Above
<1>3. ASSUME NEW s \in S, NEW t \in S, s # t PROVE <<s, t>> \in R \/ <<t, s>> \in R
  <2>1. s < t \/ t < s
    BY <1>3
  <2> QED BY <1>1, <2>1 DEF Above
<1>4. ASSUME NEW s \in S, NEW t \in S, NEW u \in S, <<s, t>> \in R, <<t, u>> \in R
      PROVE  <<s, u>> \in R
  <2>1. Above(key, s, t) /\ Above(key, t, u)
    BY <1>1, <1>4
  <2>2. s \in Nat /\ t \in Nat /\ u \in Nat
    OBVIOUS
  <2>3. Above(key, s, u)
    BY <2>1, <2>2 DEF Above
  <2> QED BY <1>1, <2>3
<1> QED BY <1>2, <1>3, <1>4 DEF StrictOrder, R

\* What Ranked returns is in the order of the keys, the older first of a tie.
LEMMA RankedIs ==
  ASSUME NEW S, S \subseteq Nat, IsFiniteSet(S), NEW key,
         \A s \in S : key[s][1] \in Int /\ key[s][2] \in Int
  PROVE  InOrder(Ranked(S, key), S, {p \in S \X S : Above(key, p[1], p[2])})
BY AboveIsStrict, SortedIs DEF Ranked

----------------------------------------------------------------------------
(* Pages.                                                                  *)

\* The less of two numbers.
LEMMA MinOfTwo ==
  ASSUME NEW a \in Int, NEW b \in Int
  PROVE  Min({a, b}) = IF a <= b THEN a ELSE b
BY DEF Min

\* The greater of two numbers.
LEMMA MaxOfTwo ==
  ASSUME NEW a \in Int, NEW b \in Int
  PROVE  Max({a, b}) = IF a >= b THEN a ELSE b
BY DEF Max

\* Page n of o: what o has from its place on.
LEMMA PageIs ==
  ASSUME NEW S, NEW o \in Seq(S), NEW n \in Nat \ {0}, PageSize \in Nat \ {0}
  PROVE  /\ PageOf(o, n) \in Seq(S)
         /\ (n - 1) * PageSize \in Nat
         /\ \A i \in DOMAIN PageOf(o, n) :
              /\ i \in 1..PageSize /\ (n - 1) * PageSize + i \in DOMAIN o
              /\ PageOf(o, n)[i] = o[(n - 1) * PageSize + i]
         /\ \A i \in 1..PageSize : (n - 1) * PageSize + i \in DOMAIN o =>
              i \in DOMAIN PageOf(o, n)
<1> DEFINE from == (n - 1) * PageSize
           k == Min({Len(o), from + PageSize}) - Min({Len(o), from})
           p == PageOf(o, n)
<1>1. from \in Nat
  OBVIOUS
<1>2. Len(o) \in Nat /\ DOMAIN o = 1..Len(o) /\ \A i \in DOMAIN o : o[i] \in S
  OBVIOUS
<1>3. p = [i \in 1..k |-> o[from + i]]
  BY DEF PageOf
<1> HIDE DEF from, p
<1>4. k = (IF Len(o) <= from + PageSize THEN Len(o) ELSE from + PageSize)
            - (IF Len(o) <= from THEN Len(o) ELSE from)
  <2>1. Len(o) \in Int /\ from \in Int /\ from + PageSize \in Int
    BY <1>1, <1>2
  <2>2. Min({Len(o), from + PageSize}) = IF Len(o) <= from + PageSize THEN Len(o) ELSE from + PageSize
    BY <2>1, MinOfTwo
  <2>3. Min({Len(o), from}) = IF Len(o) <= from THEN Len(o) ELSE from
    BY <2>1, MinOfTwo
  <2> QED BY <2>2, <2>3
<1> HIDE DEF k
<1>5. k \in Nat /\ \A i \in 1..k : i \in 1..PageSize /\ from + i \in 1..Len(o)
  BY <1>1, <1>2, <1>4
<1>6. \A i \in 1..PageSize : from + i \in 1..Len(o) => i \in 1..k
  BY <1>1, <1>2, <1>4
<1>7. p \in Seq(S) /\ DOMAIN p = 1..k
  BY <1>2, <1>3, <1>5
<1> QED BY <1>1, <1>2, <1>3, <1>5, <1>6, <1>7 DEF from, p

\* Every place of a list is on one page: its number, and the row on it.
LEMMA PlaceIs ==
  ASSUME NEW size \in Nat \ {0}, NEW k \in Nat \ {0}
  PROVE  LET n == (k - 1) \div size + 1
             i == ((k - 1) % size) + 1
         IN  /\ n \in Nat \ {0} /\ i \in 1..size /\ (n - 1) * size + i = k
             /\ \A total \in Nat : k <= total => n <= (total + size - 1) \div size
OBVIOUS

\* A place in the whole list is on one page only, and in one row of it.
LEMMA PlaceUnique ==
  ASSUME NEW size \in Nat \ {0}, NEW n \in Nat \ {0}, NEW m \in Nat \ {0},
         NEW i \in 1..size, NEW j \in 1..size,
         (n - 1) * size + i = (m - 1) * size + j
  PROVE  n = m /\ i = j
OBVIOUS

----------------------------------------------------------------------------
(* What a query finds.                                                     *)

Addresses ==
  [q : Queries, type : Types \cup {Every}, genre : Tags \cup {Every}, sort : Sorts,
   page : Nat \ {0}]

Stock == catalogue \subseteq Shows /\ members \in [Shows -> Nat]

\* The rows an address asks for, whatever its page.
Hits(a) == IF Guessing(a) THEN Range(Guesses(a)) ELSE Matches(a)

Aged(sort, S, older) ==
  {p \in S \X S : \/ Before(sort, p[1], p[2])
                  \/ /\ ~Before(sort, p[2], p[1])
                     /\ IF older THEN p[1] < p[2] ELSE p[1] > p[2]}

\* With the age deciding between rows that tie, every sort is a strict order.
LEMMA AgedIsStrict ==
  ASSUME ShelfAssumption, FactAssumption, Stock, NEW sort \in Sorts, NEW S \in SUBSET Shows,
         NEW older \in BOOLEAN
  PROVE  StrictOrder(S, Aged(sort, S, older))
<1> DEFINE w == [s \in S |-> IF sort = "popular" THEN Fact[s].popularity
                             ELSE IF sort = "members" THEN members[s] ELSE 0 - Fact[s].title]
           R == Aged(sort, S, older)
<1>1. /\ S \subseteq Nat /\ \A s \in S : members[s] \in Nat
      /\ \A s \in S : Fact[s].popularity \in Nat /\ Fact[s].title \in Nat
  BY ShelfAssumption, FactAssumption DEF Stock
<1>2. \A s \in S : w[s] \in Int
  BY <1>1
<1>3. \A s, t \in S : Before(sort, s, t) <=> w[s] > w[t]
  <2> TAKE s \in S, t \in S
  <2>1. CASE sort = "popular"
    BY <2>1 DEF Before
  <2>2. CASE sort = "members"
    BY <2>2 DEF Before
  <2>3. CASE sort = "title"
    <3>1. w[s] = 0 - Fact[s].title /\ w[t] = 0 - Fact[t].title
      BY <2>3
    <3>2. Before(sort, s, t) <=> Fact[s].title < Fact[t].title
      BY <2>3 DEF Before
    <3> QED BY <1>1, <3>1, <3>2
  <2> QED BY <2>1, <2>2, <2>3 DEF Sorts
<1> HIDE DEF w
<1>4. \A s, t \in S : <<s, t>> \in R <=>
         w[s] > w[t] \/ (~(w[t] > w[s]) /\ IF older THEN s < t ELSE s > t)
  BY <1>3 DEF Aged
<1> HIDE DEF R
<1>5. ASSUME NEW s \in S PROVE <<s, s>> \notin R
  <2>1. s \in Nat /\ w[s] \in Int
    BY <1>1, <1>2
  <2>2. ~(w[s] > w[s]) /\ ~(s < s) /\ ~(s > s)
    BY <2>1
  <2> QED BY <2>2, <1>4
<1>6. ASSUME NEW s \in S, NEW t \in S, s # t PROVE <<s, t>> \in R \/ <<t, s>> \in R
  <2>1. s \in Nat /\ t \in Nat /\ w[s] \in Int /\ w[t] \in Int
    BY <1>1, <1>2
  <2> QED BY <2>1, <1>4, <1>6
<1>7. ASSUME NEW s \in S, NEW t \in S, NEW u \in S, <<s, t>> \in R, <<t, u>> \in R
      PROVE  <<s, u>> \in R
  <2>1. /\ s \in Nat /\ t \in Nat /\ u \in Nat
        /\ w[s] \in Int /\ w[t] \in Int /\ w[u] \in Int
    BY <1>1, <1>2
  <2> QED BY <2>1, <1>4, <1>7
<1> QED BY <1>5, <1>6, <1>7 DEF StrictOrder, R

\* Whatever a query comes back in is the matches in order, either way of breaking ties.
LEMMA OrdersAre ==
  ASSUME ShelfAssumption, FactAssumption, Stock, NEW sort \in Sorts, NEW S \in SUBSET Shows,
         NEW o \in Orders(sort, S)
  PROVE  \E older \in BOOLEAN : /\ o = Sorted(S, Aged(sort, S, older))
                                /\ InOrder(o, S, Aged(sort, S, older))
<1>1. PICK older \in BOOLEAN : o = Sorted(S, Aged(sort, S, older))
  BY DEF Orders, Aged
<1>2. IsFiniteSet(S)
  BY ShelfAssumption, FS_Subset
<1>3. InOrder(o, S, Aged(sort, S, older))
  BY <1>1, <1>2, AgedIsStrict, SortedIs
<1> QED BY <1>1, <1>3

\* A list of rows of the catalogue, each once.
Listing(o, S) ==
  /\ S \subseteq catalogue /\ o \in Seq(S) /\ DOMAIN o = 1..Len(o)
  /\ Len(o) = Cardinality(S) /\ Len(o) \in Nat
  /\ Range(o) = S
  /\ \A i, j \in DOMAIN o : o[i] = o[j] => i = j

\* The guesses of the fuzzy search come each once.
LEMMA GuessesAre ==
  ASSUME ShelfAssumption, FactAssumption, DiscoverAssumption, Stock,
         NEW a \in Addresses, a.q # Every
  PROVE  Listing(Guesses(a), Range(Guesses(a)))
<1> DEFINE near == {s \in catalogue : s \in DOMAIN Resembles[a.q]}
           score == [s \in near |-> <<Resembles[a.q][s], Fact[s].popularity>>]
           best == Range(First(FuzzyLimit, Ranked(near, score)))
           kept == {s \in best : InScope(a, s)}
<1>1. /\ near \subseteq catalogue /\ near \subseteq Shows /\ near \subseteq Nat
      /\ IsFiniteSet(near) /\ a.q \in DOMAIN Resembles
  <2>1. near \subseteq Shows /\ a.q \in DOMAIN Resembles
    BY DiscoverAssumption DEF Stock, Addresses, Queries
  <2> QED BY <2>1, ShelfAssumption, FS_Subset
<1>2. \A s \in near : score[s][1] \in Int /\ score[s][2] \in Int
  <2>1. \A s \in near : Resembles[a.q][s] \in Nat /\ Fact[s].popularity \in Nat
    BY <1>1, DiscoverAssumption, FactAssumption
  <2> QED BY <2>1
<1>3. Guesses(a) = Ranked(kept, score)
  BY DEF Guesses
<1> HIDE DEF near, score
<1>4. InOrder(Ranked(near, score), near, {p \in near \X near : Above(score, p[1], p[2])})
  BY <1>1, <1>2, RankedIs
<1>5. best \subseteq near
  <2>1. Ranked(near, score) \in Seq(near) /\ Range(Ranked(near, score)) = near
    BY <1>4 DEF InOrder
  <2> QED BY <2>1, FirstIs, DiscoverAssumption
<1> HIDE DEF best
<1>6. kept \subseteq near /\ IsFiniteSet(kept) /\ kept \subseteq Nat
  <2>1. kept \subseteq near
    BY <1>5
  <2> QED BY <2>1, <1>1, FS_Subset
<1>7. \A s \in kept : score[s][1] \in Int /\ score[s][2] \in Int
  BY <1>2, <1>6
<1> HIDE DEF kept
<1>8. InOrder(Ranked(kept, score), kept, {p \in kept \X kept : Above(score, p[1], p[2])})
  BY <1>6, <1>7, RankedIs
<1> QED BY <1>1, <1>3, <1>6, <1>8 DEF InOrder, Listing

\* Whatever is found for an address lists what it hits, each once.
LEMMA FoundAre ==
  ASSUME ShelfAssumption, FactAssumption, DiscoverAssumption, Stock,
         NEW a \in Addresses, NEW o \in Found(a)
  PROVE  Listing(o, Hits(a))
<1>1. CASE Guessing(a)
  BY <1>1, GuessesAre DEF Guessing, Found, Hits
<1>2. CASE ~Guessing(a)
  <2>1. Matches(a) \subseteq catalogue /\ Matches(a) \in SUBSET Shows /\ a.sort \in Sorts
    BY DEF Matches, Stock, Addresses
  <2>2. o \in Orders(a.sort, Matches(a)) /\ Hits(a) = Matches(a)
    BY <1>2 DEF Found, Hits
  <2>3. PICK older \in BOOLEAN : InOrder(o, Matches(a), Aged(a.sort, Matches(a), older))
    BY <2>1, <2>2, OrdersAre
  <2> QED BY <2>1, <2>2, <2>3 DEF InOrder, Listing
<1> QED BY <1>1, <1>2

\* Nothing that is found depends on the page.
LEMMA PageDoesNotMatter ==
  ASSUME NEW a \in Addresses, NEW n \in Nat \ {0}
  PROVE  /\ [a EXCEPT !.page = n] \in Addresses
         /\ Found([a EXCEPT !.page = n]) = Found(a)
         /\ Hits([a EXCEPT !.page = n]) = Hits(a)
<1> DEFINE b == [a EXCEPT !.page = n]
<1>1. /\ b \in Addresses /\ b.q = a.q /\ b.type = a.type /\ b.genre = a.genre
      /\ b.sort = a.sort
  BY DEF Addresses
<1> HIDE DEF b
<1>2. \A s : InScope(b, s) <=> InScope(a, s)
  BY <1>1 DEF InScope
<1>3. Matches(b) = Matches(a)
  BY <1>1, <1>2 DEF Matches
<1>4. Guesses(b) = Guesses(a)
  BY <1>1, <1>2 DEF Guesses
<1>5. Guessing(b) <=> Guessing(a)
  BY <1>1, <1>3, <1>4 DEF Guessing
<1>6. Found(b) = Found(a) /\ Hits(b) = Hits(a)
  BY <1>1, <1>3, <1>4, <1>5 DEF Found, Hits
<1> QED BY <1>1, <1>6 DEF b

----------------------------------------------------------------------------
(* The discover page.                                                      *)

Works == {Fact[s].work : s \in Shows}

Remotes == SUBSET UNION {Listed[q] : q \in Queries}

ScreenType ==
  [at : Addresses, rows : Seq(Shows), total : Nat, pages : Nat, remote : Remotes,
   waiting : BOOLEAN]

WalkType ==
  [seen : UNION {[N -> Seq(Shows)] : N \in SUBSET (Nat \ {0})}, still : BOOLEAN, moves : Nat]

DiscoverTypes == Stock /\ screen \in ScreenType /\ walk \in WalkType

\* Only what searches waits for the other half, which is empty till then.
Patient == screen.waiting => screen.at.q # Every

\* What a page has shown is in the catalogue for good.
SeenIsStocked == \A n \in DOMAIN walk.seen : Range(walk.seen[n]) \subseteq catalogue

Pages(total) == Max({1, (total + PageSize - 1) \div PageSize})

\* As long as nothing moves, every page seen is one of what is found now.
SeenOf(a) ==
  /\ screen.total = Cardinality(Hits(a)) /\ screen.pages = Pages(screen.total)
  /\ \A n \in DOMAIN walk.seen : \E o \in Found(a) : walk.seen[n] = PageOf(o, n)

SeenIsFound == walk.still => \A a \in Addresses : a = screen.at => SeenOf(a)

DiscoverInv ==
  DiscoverTypes /\ Patient /\ SeenIsStocked /\ NoRowTwice /\ SeenIsFound

\* A screen the server sends.
Sent(a, s) ==
  /\ s \in ScreenType /\ s.at = a /\ s.remote = {} /\ (s.waiting => a.q # Every)
  /\ s.rows \in Seq(Shows) /\ Range(s.rows) \subseteq catalogue
  /\ s.total = Cardinality(Hits(a)) /\ s.pages = Pages(s.total)
  /\ \E o \in Found(a) : s.rows = PageOf(o, a.page)

\* There is a page, also of nothing.
LEMMA PagesType == ASSUME DiscoverAssumption, NEW n \in Nat PROVE Pages(n) \in Nat \ {0}
<1>1. (n + PageSize - 1) \div PageSize \in Int
  BY DiscoverAssumption
<1>2. Max({1, (n + PageSize - 1) \div PageSize}) =
        IF 1 >= (n + PageSize - 1) \div PageSize THEN 1 ELSE (n + PageSize - 1) \div PageSize
  BY <1>1, MaxOfTwo
<1> QED BY <1>1, <1>2 DEF Pages

\* What the server may send is as Sent says.
LEMMA ScreensAre ==
  ASSUME ShelfAssumption, FactAssumption, DiscoverAssumption, Stock,
         NEW a \in Addresses, NEW s \in Screens(a)
  PROVE  Sent(a, s)
<1>1. PICK o \in Found(a) :
        s = [at |-> a, rows |-> PageOf(o, a.page), total |-> Len(o),
             pages |-> Max({1, (Len(o) + PageSize - 1) \div PageSize}),
             remote |-> {}, waiting |-> a.q # Every]
  BY DEF Screens
<1>2. Listing(o, Hits(a)) /\ a.page \in Nat \ {0}
  BY FoundAre DEF Addresses
<1>3. Len(o) \in Nat /\ Len(o) = Cardinality(Hits(a)) /\ Hits(a) \subseteq Shows
      /\ Hits(a) \subseteq catalogue /\ o \in Seq(Hits(a))
  BY <1>2 DEF Listing, Stock
<1>4. Pages(Len(o)) \in Nat
  BY <1>3, PagesType
<1>5. PageOf(o, a.page) \in Seq(Hits(a))
  BY <1>2, <1>3, PageIs, DiscoverAssumption
<1>6. PageOf(o, a.page) \in Seq(Shows) /\ Range(PageOf(o, a.page)) \subseteq catalogue
  BY <1>3, <1>5 DEF Range
<1>7. {} \in Remotes /\ (a.q # Every) \in BOOLEAN
  BY DEF Remotes
<1>8. s \in ScreenType
  BY <1>1, <1>3, <1>4, <1>6, <1>7 DEF ScreenType, Pages
<1> QED BY <1>1, <1>3, <1>6, <1>8 DEF Sent, Pages

\* What is found stays while nothing moves.
LEMMA FoundStays ==
  ASSUME UNCHANGED <<catalogue, members>>, NEW a
  PROVE  Found(a)' = Found(a) /\ Hits(a)' = Hits(a)
<1>1. Matches(a)' = Matches(a)
  BY DEF Matches
<1>2. Guesses(a)' = Guesses(a)
  BY DEF Guesses
<1>3. Guessing(a)' <=> Guessing(a)
  BY <1>1, <1>2 DEF Guessing
<1>4. ASSUME NEW S PROVE Orders(a.sort, S)' = Orders(a.sort, S)
  BY DEF Orders, Before
<1>5. Orders(a.sort, Matches(a))' = Orders(a.sort, Matches(a))
  BY <1>1, <1>4 DEF Orders, Before
<1> QED BY <1>1, <1>2, <1>3, <1>5 DEF Found, Hits

\* Another page of the same search, or the first page of another.
Shown(a, seen, still, N) ==
  /\ UNCHANGED <<catalogue, members>>
  /\ screen' \in Screens(a)
  /\ walk' = [walk EXCEPT !.seen = seen, !.still = still]
  /\ N \subseteq Nat \ {0} /\ DOMAIN seen = N /\ seen = [n \in N |-> seen[n]]
  /\ \A n \in N : \/ n = a.page /\ seen[n] = screen'.rows
                  \/ /\ n \in DOMAIN walk.seen /\ seen[n] = walk.seen[n]
                     /\ still = walk.still /\ a = [screen.at EXCEPT !.page = a.page]

\* A page shown, and the pages remembered with it, keep the invariant.
LEMMA ShownKeeps ==
  ASSUME ShelfAssumption, FactAssumption, DiscoverAssumption, DiscoverInv,
         NEW a \in Addresses, NEW seen, NEW still \in BOOLEAN, NEW N, Shown(a, seen, still, N)
  PROVE  DiscoverInv'
<1> USE DEF Shown
<1>1. /\ Stock /\ screen \in ScreenType /\ walk \in WalkType /\ SeenIsStocked /\ SeenIsFound
      /\ a.page \in Nat \ {0} /\ screen.at \in Addresses
  BY DEF DiscoverInv, DiscoverTypes, ScreenType, Addresses
<1>2. Sent(a, screen')
  BY <1>1, ScreensAre
<1>3. /\ screen' \in ScreenType /\ screen'.at = a /\ screen'.remote = {}
      /\ (screen'.waiting => a.q # Every)
      /\ screen'.rows \in Seq(Shows) /\ Range(screen'.rows) \subseteq catalogue
      /\ screen'.total = Cardinality(Hits(a)) /\ screen'.pages = Pages(screen'.total)
  BY <1>2 DEF Sent
<1>4. \A n \in DOMAIN walk.seen : walk.seen[n] \in Seq(Shows) /\ Range(walk.seen[n]) \subseteq catalogue
  <2>1. walk.seen \in UNION {[M -> Seq(Shows)] : M \in SUBSET (Nat \ {0})}
    BY <1>1 DEF WalkType
  <2>2. PICK M \in SUBSET (Nat \ {0}) : walk.seen \in [M -> Seq(Shows)]
    BY <2>1
  <2>3. \A n \in DOMAIN walk.seen : walk.seen[n] \in Seq(Shows)
    BY <2>2
  <2> QED BY <1>1, <2>3 DEF SeenIsStocked
<1>5. \A n \in N : seen[n] \in Seq(Shows) /\ Range(seen[n]) \subseteq catalogue
  BY <1>3, <1>4
<1>6. seen \in [N -> Seq(Shows)]
  BY <1>5
<1>7. walk' \in WalkType /\ walk'.seen = seen /\ walk'.still = still
  <2>1. seen \in UNION {[M -> Seq(Shows)] : M \in SUBSET (Nat \ {0})}
    BY <1>6
  <2> QED BY <1>1, <2>1 DEF WalkType
<1>8. DiscoverTypes' /\ Patient' /\ SeenIsStocked' /\ NoRowTwice'
  <2>1. ScreenType' = ScreenType /\ WalkType' = WalkType /\ Stock'
    BY <1>1 DEF ScreenType, WalkType, Stock
  <2>2. DiscoverTypes'
    BY <2>1, <1>3, <1>7 DEF DiscoverTypes
  <2>3. Patient' /\ SeenIsStocked'
    BY <1>3, <1>5, <1>7 DEF Patient, SeenIsStocked
  <2>4. NoRowTwice'
    BY <1>3 DEF NoRowTwice
  <2> QED BY <2>2, <2>3, <2>4
<1>9. Found(a)' = Found(a) /\ Hits(a)' = Hits(a)
  BY FoundStays
<1>10. ASSUME still, NEW n \in N PROVE \E o \in Found(a) : seen[n] = PageOf(o, n)
  <2>1. CASE n = a.page /\ seen[n] = screen'.rows
    BY <1>2, <2>1 DEF Sent
  <2>2. CASE /\ n \in DOMAIN walk.seen /\ seen[n] = walk.seen[n]
             /\ still = walk.still /\ a = [screen.at EXCEPT !.page = a.page]
    <3>1. SeenOf(screen.at)
      BY <1>1, <1>10, <2>2 DEF SeenIsFound
    <3>2. Found(a) = Found(screen.at)
      BY <1>1, <2>2, PageDoesNotMatter
    <3> QED BY <2>2, <3>1, <3>2 DEF SeenOf
  <2> QED BY <2>1, <2>2
<1>11. SeenIsFound'
  <2> SUFFICES ASSUME still, NEW b \in Addresses, b = a PROVE SeenOf(b)'
    BY <1>3, <1>7 DEF SeenIsFound
  <2>1. screen'.total = Cardinality(Hits(b)') /\ screen'.pages = Pages(screen'.total)
    BY <1>3, <1>9
  <2>2. \A n \in DOMAIN walk'.seen : \E o \in Found(b)' : walk'.seen[n] = PageOf(o, n)
    BY <1>7, <1>9, <1>10
  <2> QED BY <2>1, <2>2 DEF SeenOf
<1> QED BY <1>8, <1>11 DEF DiscoverInv

\* The address bar opens any page of a search.
LEMMA DiscoverInitKeeps ==
  ASSUME ShelfAssumption, FactAssumption, DiscoverAssumption, catalogue = Stocked,
         members = Joined, NEW q \in Queries, NEW n \in Nat \ {0},
         screen \in Screens(Address(q, n)),
         walk = [seen |-> [k \in {screen.at.page} |-> screen.rows], still |-> TRUE, moves |-> 0]
  PROVE  DiscoverInv
<1> DEFINE a == Address(q, n)
<1>1. a \in Addresses /\ a.page = n
  BY DEF Address, Addresses, Sorts
<1>2. Stock
  BY DiscoverAssumption DEF Stock
<1> HIDE DEF a
<1>3. Sent(a, screen)
  BY <1>1, <1>2, ScreensAre DEF a
<1>4. /\ screen \in ScreenType /\ screen.at = a /\ screen.remote = {}
      /\ (screen.waiting => a.q # Every)
      /\ screen.rows \in Seq(Shows) /\ Range(screen.rows) \subseteq catalogue
      /\ screen.total = Cardinality(Hits(a)) /\ screen.pages = Pages(screen.total)
      /\ \E o \in Found(a) : screen.rows = PageOf(o, n)
  BY <1>1, <1>3 DEF Sent
<1>5. /\ walk.seen = [k \in {n} |-> screen.rows] /\ walk.still = TRUE /\ walk.moves = 0
      /\ DOMAIN walk.seen = {n} /\ walk.seen[n] = screen.rows
  BY <1>1, <1>4
<1>6. walk \in WalkType
  <2>1. [k \in {n} |-> screen.rows] \in [{n} -> Seq(Shows)] /\ {n} \in SUBSET (Nat \ {0})
    BY <1>4
  <2>2. [k \in {n} |-> screen.rows] \in UNION {[M -> Seq(Shows)] : M \in SUBSET (Nat \ {0})}
    BY <2>1
  <2>3. walk = [seen |-> [k \in {n} |-> screen.rows], still |-> TRUE, moves |-> 0]
    BY <1>1, <1>4
  <2>4. \A x \in UNION {[M -> Seq(Shows)] : M \in SUBSET (Nat \ {0})} :
          [seen |-> x, still |-> TRUE, moves |-> 0] \in WalkType
    BY DEF WalkType
  <2> QED BY <2>2, <2>3, <2>4
<1>7. DiscoverTypes /\ Patient /\ SeenIsStocked /\ NoRowTwice
  BY <1>2, <1>4, <1>5, <1>6 DEF DiscoverTypes, Patient, SeenIsStocked, NoRowTwice
<1>8. SeenIsFound
  BY <1>4, <1>5 DEF SeenIsFound, SeenOf
<1> QED BY <1>7, <1>8 DEF DiscoverInv

\* The provider's half arrives.
LEMMA StreamKeeps ==
  ASSUME DiscoverAssumption, DiscoverInv, Stream
  PROVE  DiscoverInv'
<1>1. /\ Stock /\ screen \in ScreenType /\ walk \in WalkType /\ SeenIsStocked /\ SeenIsFound
      /\ Patient /\ screen.waiting /\ screen.at \in Addresses
      /\ UNCHANGED <<catalogue, members, walk>>
  BY DEF DiscoverInv, DiscoverTypes, ScreenType, Stream
<1>2. PICK remote : /\ remote \in {{}, SearchRemote(screen.at)}
                    /\ screen' = [screen EXCEPT !.waiting = FALSE, !.remote = remote]
  BY DEF Stream
<1>3. screen.at.q \in Queries
  BY <1>1 DEF Addresses
<1>4. remote \in Remotes /\ remote \cap HeldWorks(catalogue) = {}
  BY <1>2, <1>3 DEF Remotes, SearchRemote
<1>5. /\ screen' \in ScreenType /\ screen'.waiting = FALSE /\ screen'.remote = remote
      /\ screen'.at = screen.at /\ screen'.total = screen.total /\ screen'.pages = screen.pages
  BY <1>1, <1>2, <1>4 DEF ScreenType
<1>6. DiscoverTypes' /\ Patient' /\ SeenIsStocked'
  <2>1. DiscoverTypes'
    BY <1>1, <1>5 DEF DiscoverTypes, Stock, ScreenType, WalkType
  <2> QED BY <2>1, <1>1, <1>5 DEF Patient, SeenIsStocked
<1>7. NoRowTwice'
  <2> SUFFICES ASSUME NEW n \in DOMAIN walk.seen
               PROVE  HeldWorks(Range(walk.seen[n])) \cap remote = {}
    BY <1>1, <1>5 DEF NoRowTwice
  <2>1. HeldWorks(Range(walk.seen[n])) \subseteq HeldWorks(catalogue)
    BY <1>1 DEF SeenIsStocked, HeldWorks
  <2> QED BY <2>1, <1>4
<1>8. SeenIsFound'
  <2> SUFFICES ASSUME walk.still, NEW b \in Addresses, b = screen.at PROVE SeenOf(b)'
    BY <1>1, <1>5 DEF SeenIsFound
  <2>1. Found(b)' = Found(b) /\ Hits(b)' = Hits(b)
    BY <1>1, FoundStays
  <2>2. SeenOf(b)
    BY <1>1 DEF SeenIsFound
  <2> QED BY <1>1, <1>5, <2>1, <2>2 DEF SeenOf
<1> QED BY <1>6, <1>7, <1>8 DEF DiscoverInv

\* The catalogue grows, or a show's members do.
LEMMA MovedKeeps ==
  ASSUME DiscoverInv, UNCHANGED screen, Stock', catalogue \subseteq catalogue', Moved
  PROVE  DiscoverInv'
<1>1. screen \in ScreenType /\ walk \in WalkType /\ SeenIsStocked /\ NoRowTwice /\ Patient
  BY DEF DiscoverInv, DiscoverTypes
<1>2. walk' \in WalkType /\ walk'.seen = walk.seen /\ walk'.still = FALSE
  <2>1. walk.moves + 1 \in Nat
    BY <1>1 DEF WalkType
  <2> QED BY <1>1, <2>1 DEF WalkType, Moved
<1>3. DiscoverTypes' /\ Patient'
  BY <1>1, <1>2 DEF DiscoverTypes, Patient, ScreenType, WalkType
<1>4. SeenIsStocked' /\ NoRowTwice'
  BY <1>1, <1>2 DEF SeenIsStocked, NoRowTwice
<1>5. SeenIsFound'
  BY <1>2 DEF SeenIsFound
<1> QED BY <1>3, <1>4, <1>5 DEF DiscoverInv

\* Every step of the discover page keeps what is said of it.
LEMMA DiscoverStepKeeps ==
  ASSUME ShelfAssumption, FactAssumption, DiscoverAssumption, DiscoverInv,
         [DiscoverNext]_discoverVars
  PROVE  DiscoverInv'
<1>1. /\ Stock /\ screen \in ScreenType /\ walk \in WalkType /\ screen.at \in Addresses
  BY DEF DiscoverInv, DiscoverTypes, ScreenType
<1>2. ASSUME NEW a \in Addresses, Apply(a) PROVE DiscoverInv'
  <2> DEFINE b == [a EXCEPT !.page = 1]
             seen == [n \in {1} |-> screen'.rows]
  <2>1. b \in Addresses /\ b.page = 1
    BY DEF Addresses
  <2>2. /\ screen' \in Screens(b) /\ walk' = [walk EXCEPT !.seen = seen, !.still = TRUE]
        /\ UNCHANGED <<catalogue, members>>
    BY <1>2 DEF Apply
  <2>3. DOMAIN seen = {1} /\ seen = [n \in {1} |-> seen[n]] /\ seen[1] = screen'.rows
        /\ {1} \in SUBSET (Nat \ {0})
    OBVIOUS
  <2> HIDE DEF b, seen
  <2>4. \A n \in {1} : n = b.page /\ seen[n] = screen'.rows
    BY <2>1, <2>3
  <2>5. Shown(b, seen, TRUE, {1})
    BY <2>1, <2>2, <2>3, <2>4 DEF Shown
  <2> QED BY <2>1, <2>5, ShownKeeps
<1>3. ASSUME NEW q \in Queries, Search(q) PROVE DiscoverInv'
  <2>1. [screen.at EXCEPT !.q = q] \in Addresses
    BY <1>1 DEF Addresses
  <2> QED BY <2>1, <1>2, <1>3 DEF Search
<1>4. ASSUME NEW t \in Types \cup {Every}, PickType(t) PROVE DiscoverInv'
  <2>1. [screen.at EXCEPT !.type = t] \in Addresses
    BY <1>1 DEF Addresses
  <2> QED BY <2>1, <1>2, <1>4 DEF PickType
<1>5. ASSUME NEW g \in Tags, PickGenre(g) PROVE DiscoverInv'
  <2>1. [screen.at EXCEPT !.genre = IF @ = g THEN Every ELSE g] \in Addresses
    BY <1>1 DEF Addresses
  <2> QED BY <2>1, <1>2, <1>5 DEF PickGenre
<1>6. ASSUME NEW o \in Sorts, PickSort(o) PROVE DiscoverInv'
  <2>1. [screen.at EXCEPT !.sort = o] \in Addresses
    BY <1>1 DEF Addresses
  <2> QED BY <2>1, <1>2, <1>6 DEF PickSort
<1>7. CASE ClearFilters
  <2>1. [screen.at EXCEPT !.q = Every, !.type = Every, !.genre = Every, !.sort = "popular"]
          \in Addresses
    BY <1>1 DEF Addresses, Sorts, Queries
  <2> QED BY <2>1, <1>2, <1>7 DEF ClearFilters
<1>8. ASSUME NEW n \in Nat \ {0}, Turn(n) PROVE DiscoverInv'
  <2> DEFINE b == [screen.at EXCEPT !.page = n]
             N == DOMAIN walk.seen \cup {n}
             seen == [k \in N |-> IF k = n THEN screen'.rows ELSE walk.seen[k]]
  <2>1. b \in Addresses /\ b.page = n /\ b = [screen.at EXCEPT !.page = b.page]
    BY <1>1 DEF Addresses
  <2>2. /\ screen' \in Screens(b) /\ walk' = [walk EXCEPT !.seen = seen]
        /\ UNCHANGED <<catalogue, members>>
    BY <1>8 DEF Turn
  <2>3. DOMAIN seen = N /\ seen = [k \in N |-> seen[k]]
        /\ \A k \in N : seen[k] = IF k = n THEN screen'.rows ELSE walk.seen[k]
    OBVIOUS
  <2>4. N \in SUBSET (Nat \ {0})
    <3>1. walk.seen \in UNION {[M -> Seq(Shows)] : M \in SUBSET (Nat \ {0})}
      BY <1>1 DEF WalkType
    <3>2. PICK M \in SUBSET (Nat \ {0}) : walk.seen \in [M -> Seq(Shows)]
      BY <3>1
    <3> QED BY <3>2
  <2> HIDE DEF seen
  <2>5. walk' = [walk EXCEPT !.seen = seen, !.still = walk.still] /\ walk.still \in BOOLEAN
    BY <1>1, <2>2 DEF WalkType
  <2> HIDE DEF b
  <2>6. \A k \in N : \/ k = b.page /\ seen[k] = screen'.rows
                     \/ /\ k \in DOMAIN walk.seen /\ seen[k] = walk.seen[k]
                        /\ walk.still = walk.still /\ b = [screen.at EXCEPT !.page = b.page]
    BY <2>1, <2>3
  <2> HIDE DEF N
  <2>7. Shown(b, seen, walk.still, N)
    BY <2>1, <2>2, <2>3, <2>4, <2>5, <2>6 DEF Shown
  <2> QED BY <2>1, <2>5, <2>7, ShownKeeps
<1>9. CASE Stream
  BY <1>9, StreamKeeps
<1>10. ASSUME NEW s \in Shows, Import(s) PROVE DiscoverInv'
  <2>1. UNCHANGED screen /\ catalogue \subseteq catalogue' /\ Moved
    BY <1>10 DEF Import
  <2>2. Stock'
    BY <1>1, <1>10 DEF Import, Stock
  <2> QED BY <2>1, <2>2, MovedKeeps
<1>11. ASSUME NEW s \in Shows, Join(s) PROVE DiscoverInv'
  <2>1. UNCHANGED screen /\ catalogue \subseteq catalogue' /\ Moved
    BY <1>11 DEF Join
  <2>2. Stock'
    <3>1. members[s] + 1 \in Nat
      BY <1>1 DEF Stock
    <3> QED BY <3>1, <1>1, <1>11 DEF Join, Stock
  <2> QED BY <2>1, <2>2, MovedKeeps
<1>12. CASE UNCHANGED discoverVars
  <2>1. UNCHANGED <<catalogue, members, screen, walk>>
    BY <1>12 DEF discoverVars
  <2>2. DiscoverTypes' /\ Patient' /\ SeenIsStocked' /\ NoRowTwice'
    BY <2>1 DEF DiscoverInv, DiscoverTypes, Stock, ScreenType, WalkType, Patient, SeenIsStocked,
                NoRowTwice
  <2>3. SeenIsFound'
    <3> SUFFICES ASSUME walk.still, NEW b \in Addresses, b = screen.at PROVE SeenOf(b)'
      BY <2>1 DEF SeenIsFound
    <3>1. Found(b)' = Found(b) /\ Hits(b)' = Hits(b)
      BY <2>1, FoundStays
    <3>2. SeenOf(b)
      BY DEF DiscoverInv, SeenIsFound
    <3> QED BY <2>1, <3>1, <3>2 DEF SeenOf
  <2> QED BY <2>2, <2>3 DEF DiscoverInv
<1>13. 1..(Cardinality(Shows) + MaxPage) \subseteq Nat \ {0}
  <2>1. Cardinality(Shows) \in Nat
    BY ShelfAssumption, FS_CardinalityType
  <2> QED BY <2>1, DiscoverAssumption
<1>14. CASE DiscoverNext
  <2>1. CASE \E n \in 1..(Cardinality(Shows) + MaxPage) : Turn(n)
    BY <2>1, <1>8, <1>13
  <2>2. CASE \/ \E q \in Queries : Search(q)
             \/ \E t \in Types \cup {Every} : PickType(t)
             \/ \E g \in Tags : PickGenre(g)
             \/ \E o \in Sorts : PickSort(o)
    BY <2>2, <1>3, <1>4, <1>5, <1>6
  <2>3. CASE ClearFilters \/ Stream
    BY <2>3, <1>7, <1>9
  <2>4. CASE (\E s \in Shows : Import(s)) \/ (\E s \in Shows : Join(s))
    BY <2>4, <1>10, <1>11
  <2> QED BY <1>14, <2>1, <2>2, <2>3, <2>4 DEF DiscoverNext
<1> QED BY <1>12, <1>14

\* Rows that do not tie come in one order.
Untied(a) ==
  Guessing(a) \/ \A s, t \in Matches(a) :
    s # t => Before(a.sort, s, t) \/ Before(a.sort, t, s)

\* Rows that do not tie come in one order.
LEMMA OneOrder ==
  ASSUME ShelfAssumption, FactAssumption, DiscoverAssumption, Stock, NEW a \in Addresses, Untied(a)
  PROVE  \E o : Found(a) = {o} /\ Listing(o, Hits(a))
<1>1. CASE Guessing(a)
  <2>1. Found(a) = {Guesses(a)}
    BY <1>1 DEF Found
  <2> QED BY <2>1, FoundAre
<1>2. CASE ~Guessing(a)
  <2> DEFINE S == Matches(a)
             one == Sorted(S, Aged(a.sort, S, TRUE))
  <2>1. Found(a) = {Sorted(S, Aged(a.sort, S, older)) : older \in BOOLEAN}
    BY <1>2 DEF Found, Orders, Aged
  <2>2. S \subseteq Nat /\ \A s, t \in S : s # t => Before(a.sort, s, t) \/ Before(a.sort, t, s)
    BY <1>2, ShelfAssumption DEF Matches, Stock, Untied
  <2> HIDE DEF S
  <2>3. ASSUME NEW p \in S \X S
        PROVE  p \in Aged(a.sort, S, TRUE) <=> p \in Aged(a.sort, S, FALSE)
    <3>1. CASE p[1] = p[2]
      <4>1. p[1] \in Nat /\ p[2] \in Nat
        BY <2>2
      <4>2. ~(p[1] < p[2]) /\ ~(p[1] > p[2])
        BY <4>1, <3>1
      <4> QED BY <4>2 DEF Aged
    <3>2. CASE p[1] # p[2]
      BY <2>2, <3>2 DEF Aged
    <3> QED BY <3>1, <3>2
  <2>4. Aged(a.sort, S, TRUE) = Aged(a.sort, S, FALSE)
    <3>1. Aged(a.sort, S, TRUE) \subseteq S \X S /\ Aged(a.sort, S, FALSE) \subseteq S \X S
      BY DEF Aged
    <3> QED BY <2>3, <3>1
  <2>5. Found(a) = {one}
    BY <2>1, <2>4
  <2> QED BY <2>5, FoundAre
<1> QED BY <1>1, <1>2

\* The place in the whole list of row i of page n.
Place(n, i) == (n - 1) * PageSize + i

\* The pages of a list have each of its places once, and nothing else.
LEMMA PlacesOnPages ==
  ASSUME DiscoverAssumption, NEW S, NEW o \in Seq(S)
  PROVE  /\ \A n \in Nat \ {0} : \A i \in DOMAIN PageOf(o, n) :
              /\ i \in 1..PageSize /\ Place(n, i) \in 1..Len(o)
              /\ PageOf(o, n)[i] = o[Place(n, i)]
         /\ \A n, m \in Nat \ {0} : \A i, j \in 1..PageSize :
              Place(n, i) = Place(m, j) => n = m /\ i = j
         /\ \A k \in 1..Len(o) : \E n \in 1..Pages(Len(o)) : \E i \in DOMAIN PageOf(o, n) :
              Place(n, i) = k
<1>1. PageSize \in Nat \ {0} /\ Len(o) \in Nat /\ DOMAIN o = 1..Len(o) /\ Pages(Len(o)) \in Nat
  BY DiscoverAssumption, PagesType
<1>2. ASSUME NEW n \in Nat \ {0}, NEW i \in DOMAIN PageOf(o, n)
      PROVE  /\ i \in 1..PageSize /\ Place(n, i) \in 1..Len(o)
             /\ PageOf(o, n)[i] = o[Place(n, i)]
  BY <1>1, PageIs, ZenonT(40) DEF Place
<1>3. ASSUME NEW n \in Nat \ {0}, NEW m \in Nat \ {0}, NEW i \in 1..PageSize,
             NEW j \in 1..PageSize, Place(n, i) = Place(m, j)
      PROVE  n = m /\ i = j
  <2>1. (n - 1) * PageSize + i = (m - 1) * PageSize + j
    BY <1>3 DEF Place
  <2> QED BY <1>1, <2>1, PlaceUnique
<1>4. ASSUME NEW k \in 1..Len(o)
      PROVE  \E n \in 1..Pages(Len(o)) : \E i \in DOMAIN PageOf(o, n) : Place(n, i) = k
  <2> DEFINE n == (k - 1) \div PageSize + 1
             i == ((k - 1) % PageSize) + 1
             e == (Len(o) + PageSize - 1) \div PageSize
  <2>1. k \in Nat \ {0} /\ k <= Len(o)
    BY <1>1
  <2>2. /\ n \in Nat \ {0} /\ i \in 1..PageSize /\ (n - 1) * PageSize + i = k
        /\ \A total \in Nat : k <= total => n <= (total + PageSize - 1) \div PageSize
    BY <1>1, <2>1, PlaceIs
  <2>3. n <= e
    BY <1>1, <2>1, <2>2
  <2>4. e \in Int
    BY <1>1
  <2>5. Pages(Len(o)) = IF 1 >= e THEN 1 ELSE e
    BY <2>4, MaxOfTwo DEF Pages
  <2> HIDE DEF n, i, e
  <2>6. n \in 1..Pages(Len(o))
    BY <1>1, <2>2, <2>3, <2>4, <2>5
  <2>7. i \in DOMAIN PageOf(o, n)
    BY <1>1, <2>2, PageIs
  <2> QED BY <2>2, <2>6, <2>7 DEF Place
<1> QED BY <1>2, <1>3, <1>4

\* So as many rows as the list has, and the same, are on its pages together.
LEMMA PlacesAre ==
  ASSUME DiscoverAssumption, NEW S, NEW o \in Seq(S), NEW pages,
         pages = Pages(Len(o)),
         NEW seen, seen = {p \in (1..pages) \X (1..PageSize) : p[2] \in DOMAIN PageOf(o, p[1])}
  PROVE  /\ IsFiniteSet(seen) /\ Cardinality(seen) = Len(o)
         /\ {PageOf(o, p[1])[p[2]] : p \in seen} = Range(o)
<1> DEFINE f == [p \in seen |-> Place(p[1], p[2])]
<1>1. /\ PageSize \in Nat \ {0} /\ Len(o) \in Nat /\ DOMAIN o = 1..Len(o)
      /\ pages \in Nat \ {0}
  BY DiscoverAssumption, PagesType
<1>2. ASSUME NEW p \in seen
      PROVE  /\ p = <<p[1], p[2]>> /\ p[1] \in Nat \ {0} /\ p[2] \in 1..PageSize
             /\ f[p] = Place(p[1], p[2]) /\ f[p] \in 1..Len(o)
             /\ PageOf(o, p[1])[p[2]] = o[f[p]]
  <2>1. p \in (1..pages) \X (1..PageSize) /\ p[2] \in DOMAIN PageOf(o, p[1])
    OBVIOUS
  <2>2. p = <<p[1], p[2]>> /\ p[1] \in Nat \ {0} /\ p[2] \in 1..PageSize
    BY <1>1, <2>1
  <2> QED BY <2>1, <2>2, PlacesOnPages
<1>3. ASSUME NEW p \in seen, NEW q \in seen, f[p] = f[q] PROVE p = q
  <2>1. p[1] = q[1] /\ p[2] = q[2]
    BY <1>2, <1>3, PlacesOnPages
  <2> QED BY <1>2, <2>1, SMTT(30)
<1>4. ASSUME NEW k \in 1..Len(o) PROVE \E p \in seen : f[p] = k
  <2>1. PICK n \in 1..Pages(Len(o)) : \E i \in DOMAIN PageOf(o, n) : Place(n, i) = k
    BY PlacesOnPages
  <2>2. PICK i \in DOMAIN PageOf(o, n) : Place(n, i) = k
    BY <2>1
  <2>3. n \in 1..pages /\ n \in Nat \ {0}
    BY <1>1
  <2>4. i \in 1..PageSize
    BY <2>3, PlacesOnPages
  <2>5. <<n, i>> \in seen
    BY <2>3, <2>4
  <2>6. f[<<n, i>>] = k
    BY <2>2, <2>5
  <2> QED BY <2>5, <2>6
<1>5. f \in Bijection(seen, 1..Len(o))
  <2> DEFINE L == Len(o)
  <2>1. f \in [seen -> 1..L]
    <3>1. f = [p \in seen |-> f[p]] /\ DOMAIN f = seen
      OBVIOUS
    <3> HIDE DEF f
    <3> QED BY <1>2, <3>1
  <2> HIDE DEF f
  <2> QED BY <1>3, <1>4, <2>1 DEF Bijection, Injection, Surjection, IsInjective
<1>6. IsFiniteSet(1..Len(o)) /\ Cardinality(1..Len(o)) = Len(o)
  <2> DEFINE L == Len(o)
  <2>1. L \in Nat
    OBVIOUS
  <2> HIDE DEF L
  <2>2. IsFiniteSet(1..L) /\ Cardinality(1..L) = L
    BY <2>1, FS_Interval
  <2> QED BY <2>2 DEF L
<1> HIDE DEF f
<1>7. IsFiniteSet(seen) /\ Cardinality(seen) = Len(o)
  <2>1. ExistsBijection(seen, 1..Len(o))
    BY <1>5 DEF ExistsBijection
  <2>2. ExistsBijection(1..Len(o), seen)
    BY <2>1, Fun_ExistsBijSymmetric
  <2> QED BY <1>6, <2>2, FS_Bijection
<1>8. {PageOf(o, p[1])[p[2]] : p \in seen} = {o[k] : k \in 1..Len(o)}
  <2>1. {PageOf(o, p[1])[p[2]] : p \in seen} = {o[f[p]] : p \in seen}
    BY <1>2
  <2>2. \A p \in seen : \E k \in 1..Len(o) : o[f[p]] = o[k]
    BY <1>2
  <2>3. \A k \in 1..Len(o) : \E p \in seen : o[k] = o[f[p]]
    BY <1>4
  <2>4. {o[f[p]] : p \in seen} = {o[k] : k \in 1..Len(o)}
    <3> DEFINE A == {o[f[p]] : p \in seen}
               B == {o[k] : k \in 1..Len(o)}
    <3>1. ASSUME NEW x \in A PROVE x \in B
      <4>1. PICK p \in seen : x = o[f[p]]
        BY <3>1
      <4> QED BY <4>1, <2>2
    <3>2. ASSUME NEW x \in B PROVE x \in A
      <4>1. PICK k \in 1..Len(o) : x = o[k]
        BY <3>2
      <4> QED BY <4>1, <2>3
    <3> HIDE DEF A, B
    <3>3. A = B
      BY <3>1, <3>2
    <3> QED BY <3>3 DEF A, B
  <2> QED BY <2>1, <2>4
<1> QED BY <1>1, <1>7, <1>8 DEF Range

\* A reader who has seen them all has seen every match once.
LEMMA InvCovers ==
  ASSUME ShelfAssumption, FactAssumption, DiscoverAssumption, DiscoverInv
  PROVE  PagesCover
<1> DEFINE a == screen.at
           seen == {p \in (1..screen.pages) \X (1..PageSize) : p[2] \in DOMAIN walk.seen[p[1]]}
<1> SUFFICES ASSUME walk.still, 1..screen.pages \subseteq DOMAIN walk.seen, Untied(a)
             PROVE  /\ Cardinality(seen) = screen.total
                    /\ {walk.seen[p[1]][p[2]] : p \in seen} = Hits(a)
                    /\ Cardinality(Hits(a)) = screen.total
  BY DEF PagesCover, Untied, Hits
<1>1. a \in Addresses /\ Stock
  BY DEF DiscoverInv, DiscoverTypes, ScreenType
<1>2. SeenOf(a)
  BY <1>1 DEF DiscoverInv, SeenIsFound
<1> HIDE DEF a
<1>3. PICK o : Found(a) = {o} /\ Listing(o, Hits(a))
  BY <1>1, OneOrder
<1>4. \A n \in 1..screen.pages : walk.seen[n] = PageOf(o, n)
  BY <1>2, <1>3 DEF SeenOf
<1>5. /\ screen.total = Cardinality(Hits(a)) /\ screen.pages = Pages(Len(o))
      /\ o \in Seq(Hits(a)) /\ Len(o) = Cardinality(Hits(a)) /\ Range(o) = Hits(a)
  BY <1>2, <1>3 DEF SeenOf, Listing
<1>6. seen = {p \in (1..screen.pages) \X (1..PageSize) : p[2] \in DOMAIN PageOf(o, p[1])}
  BY <1>4
<1>7. Cardinality(seen) = Len(o) /\ {PageOf(o, p[1])[p[2]] : p \in seen} = Range(o)
  BY <1>5, <1>6, PlacesAre
<1>8. \A p \in seen : walk.seen[p[1]][p[2]] = PageOf(o, p[1])[p[2]]
  BY <1>4
<1> HIDE DEF seen
<1>9. {walk.seen[p[1]][p[2]] : p \in seen} = {PageOf(o, p[1])[p[2]] : p \in seen}
  BY <1>8
<1> QED BY <1>5, <1>7, <1>9

----------------------------------------------------------------------------
(* Cards.                                                                  *)

\* Of finitely many weights one is the highest.
LEMMA HighestOf ==
  ASSUME NEW S, IsFiniteSet(S), S # {}, NEW w, \A x \in S : w[x] \in Int
  PROVE  \E t \in S : \A u \in S : w[u] <= w[t]
<1> DEFINE Good(A) == A # {} => \E t \in A : \A u \in A : w[u] <= w[t]
           Q == {A \in SUBSET S : Good(A)}
<1>1. ASSUME NEW A \in SUBSET S, \A B \in SUBSET A : B # A => Good(B), A # {}
      PROVE  \E t \in A : \A u \in A : w[u] <= w[t]
  <2>1. PICK x \in A : TRUE
    BY <1>1
  <2>2. Good(A \ {x})
    <3> HIDE DEF Good
    <3>1. A \ {x} \in SUBSET A /\ A \ {x} # A
      BY <2>1
    <3> QED BY <1>1, <3>1
  <2>3. CASE A \ {x} = {}
    BY <2>1, <2>3
  <2>4. CASE A \ {x} # {}
    <3>1. PICK t \in A \ {x} : \A u \in A \ {x} : w[u] <= w[t]
      BY <2>2, <2>4
    <3>2. \A u \in A : w[u] \in Int
      OBVIOUS
    <3>3. CASE w[t] <= w[x]
      <4>1. \A u \in A : w[u] <= w[x]
        BY <2>1, <3>1, <3>2, <3>3
      <4> QED BY <2>1, <4>1
    <3>4. CASE ~(w[t] <= w[x])
      <4>1. \A u \in A : w[u] <= w[t]
        BY <2>1, <3>1, <3>2, <3>4
      <4> QED BY <3>1, <4>1
    <3> QED BY <3>3, <3>4
  <2> QED BY <2>3, <2>4
<1>2. S \in Q
  <2>1. \A A \in SUBSET S : (\A B \in SUBSET A : B # A => B \in Q) => A \in Q
    <3> SUFFICES ASSUME NEW A \in SUBSET S, \A B \in SUBSET A : B # A => B \in Q
                 PROVE  Good(A)
      OBVIOUS
    <3>1. \A B \in SUBSET A : B # A => Good(B)
      <4> HIDE DEF Good
      <4> QED OBVIOUS
    <3> QED BY <1>1, <3>1
  <2> HIDE DEF Q
  <2> QED BY <2>1, SubsetsInduct
<1> QED BY <1>2

\* As many values as there are arguments are finitely many.
LEMMA ValuesFinite ==
  ASSUME NEW S, IsFiniteSet(S), NEW w
  PROVE  IsFiniteSet({w[x] : x \in S})
<1> DEFINE f == [x \in S |-> w[x]]
           T == {w[x] : x \in S}
<1>1. f \in [S -> T] /\ \A t \in T : \E x \in S : f[x] = t
  OBVIOUS
<1> HIDE DEF f, T
<1>2. f \in Surjection(S, T)
  BY <1>1 DEF Surjection
<1>3. IsFiniteSet(T)
  BY <1>2, FS_Surjection
<1> QED BY <1>3 DEF T

\* Rounding towards zero makes nothing positive that was not.
LEMMA ScaledIs ==
  ASSUME NEW a \in Int, NEW b \in Nat, NEW c \in Nat \ {0}
  PROVE  Scaled(a, b, c) \in Int /\ (Scaled(a, b, c) > 0 => a > 0)
<1>1. CASE a < 0
  <2>1. -a * b \in Nat
    BY <1>1
  <2> DEFINE n == -a * b
  <2> HIDE DEF n
  <2>2. n \div c \in Nat
    BY <2>1 DEF n
  <2>3. Scaled(a, b, c) = -(n \div c)
    BY <1>1 DEF Scaled, n
  <2> QED BY <2>2, <2>3
<1>2. CASE a >= 0
  <2>1. a * b \in Nat
    BY <1>2
  <2> DEFINE n == a * b
  <2> HIDE DEF n
  <2>2. n \div c \in Nat
    BY <2>1 DEF n
  <2>3. Scaled(a, b, c) = n \div c
    BY <1>2 DEF Scaled, n
  <2>4. a = 0 => n \div c = 0
    BY DEF n
  <2> QED BY <1>2, <2>2, <2>3, <2>4
<1> QED BY <1>1, <1>2

\* A positive product of a number that is not negative has two positive factors.
LEMMA SignOfProduct ==
  ASSUME NEW a \in Nat, NEW b \in Int, a * b > 0
  PROVE  a > 0 /\ b > 0
<1>1. a # 0
  OBVIOUS
<1>2. CASE b <= 0
  <2>1. a * (0 - b) >= 0
    BY <1>2
  <2>2. a * (0 - b) = 0 - a * b
    OBVIOUS
  <2>3. a * b \in Int
    OBVIOUS
  <2> QED BY <2>1, <2>2, <2>3
<1> QED BY <1>1, <1>2

\* An opinion split over the genres of its show keeps its sign.
LEMMA ShareIs ==
  ASSUME NEW b \in Int, NEW c \in Nat \ {0}
  PROVE  Scaled(12, b, c) \in Int /\ (Scaled(12, b, c) > 0 => b > 0)
<1>1. Scaled(12, b, c) = (12 * b) \div c
  BY DEF Scaled
<1>2. 12 * b \in Int /\ (12 * b) \div c \in Int
  OBVIOUS
<1>3. ASSUME b <= 0 PROVE (12 * b) \div c <= 0
  <2> DEFINE q == (12 * b) \div c
  <2>1. q \in Int /\ q * c <= 12 * b
    OBVIOUS
  <2>2. q * c <= 0
    BY <1>3, <2>1
  <2> HIDE DEF q
  <2>3. ~(q > 0)
    <3> SUFFICES ASSUME q > 0 PROVE FALSE
      OBVIOUS
    <3>1. q * c > 0
      BY <2>1
    <3> QED BY <2>1, <2>2, <3>1
  <2>4. q <= 0
    BY <2>1, <2>3
  <2> QED BY <2>4 DEF q
<1> QED BY <1>1, <1>2, <1>3

\* More divided by less is no less.
LEMMA QuotientGrows ==
  ASSUME NEW m \in Nat, NEW n \in Nat, m <= n, NEW c \in Nat \ {0}, NEW d \in Nat \ {0}, c <= d
  PROVE  m \div d <= n \div c
<1> DEFINE q == m \div d
<1>1. q \in Nat /\ q * d <= m
  OBVIOUS
<1> HIDE DEF q
<1>2. q * c <= q * d
  BY <1>1
<1>3. q * c <= n
  <2>1. q * c \in Nat /\ q * d \in Nat
    BY <1>1
  <2> QED BY <1>1, <1>2, <2>1
<1>4. q <= n \div c
  BY <1>1, <1>3
<1> QED BY <1>4 DEF q

\* So it is when it is scaled first.
LEMMA ScaledGrows ==
  ASSUME NEW a \in Nat, NEW e \in Nat, a <= e, NEW b \in Nat,
         NEW c \in Nat \ {0}, NEW d \in Nat \ {0}, c <= d
  PROVE  Scaled(a, b, d) <= Scaled(e, b, c)
<1>1. a * b \in Nat /\ e * b \in Nat /\ a * b <= e * b
  OBVIOUS
<1>2. (a * b) \div d <= (e * b) \div c
  BY <1>1, QuotientGrows
<1>3. Scaled(a, b, d) = (a * b) \div d /\ Scaled(e, b, c) = (e * b) \div c
  BY DEF Scaled
<1> QED BY <1>2, <1>3

----------------------------------------------------------------------------
TasteAssumption == ShelfAssumption /\ FactAssumption /\ TableAssumption

\* The rarity of a genre: none, if every show has it.
LEMMA IdfIs ==
  ASSUME TasteAssumption, NEW s \in Shows, NEW g \in Genres(s)
  PROVE  GenreIdf(g) \in Nat /\ (GenreIdf(g) > 0 => \E u \in Shows : g \notin Genres(u))
<1> DEFINE with == {u \in Shows : g \in Genres(u)}
           m == Cardinality(with)
           n == Cardinality(Shows)
<1>1. /\ with \subseteq Shows /\ s \in with /\ IsFiniteSet(Shows) /\ IsFiniteSet(with)
      /\ (with = Shows => \A u \in Shows : g \in Genres(u))
  <2>1. with \subseteq Shows /\ s \in with /\ (with = Shows => \A u \in Shows : g \in Genres(u))
    OBVIOUS
  <2> HIDE DEF with
  <2> QED BY <2>1, FS_Subset DEF TasteAssumption, ShelfAssumption
<1>2. GenreIdf(g) = Ln[n] - Ln[m]
  BY DEF GenreIdf
<1>w. with # Shows => \E u \in Shows : g \notin Genres(u)
  BY <1>1
<1> HIDE DEF with
<1>3. m \in Nat /\ n \in Nat /\ m <= n /\ m # 0 /\ (with = Shows => m = n)
  BY <1>1, FS_CardinalityType, FS_Subset, FS_EmptySet
<1> HIDE DEF m, n
<1>4. m \in 1..n /\ n \in 1..n
  BY <1>3
<1>5. Ln[m] \in Nat /\ Ln[n] \in Nat /\ Ln[m] <= Ln[n]
  BY <1>4 DEF TasteAssumption, TableAssumption, n
<1>6. GenreIdf(g) > 0 => with # Shows
  BY <1>2, <1>3, <1>5
<1> QED BY <1>w, <1>2, <1>5, <1>6

----------------------------------------------------------------------------
(* What a library says.                                                    *)

IsLibrary(lib) ==
  /\ DOMAIN lib \subseteq Shows
  /\ \A s \in DOMAIN lib : lib[s].status \in Statuses /\ lib[s].rating \in Nat

\* Whoever has a good opinion of an entry likes it by the entry itself.
LEMMA OpinionIs ==
  ASSUME NEW entry, entry.status \in Statuses, entry.rating \in Nat
  PROVE  Opinion(entry) \in Int /\ (Opinion(entry) > 0 => OwnLiking(entry))
BY DEF Opinion, StatusWeight, Statuses, OwnLiking, NoRating

\* A show with genres has some root of their number to be divided by.
LEMMA GenresAre ==
  ASSUME TasteAssumption, NEW s \in Shows, Genres(s) # {}
  PROVE  /\ IsFiniteSet(Genres(s)) /\ Cardinality(Genres(s)) \in Nat \ {0}
         /\ Sqrt[Cardinality(Genres(s))] \in Nat \ {0}
         /\ \A n \in Int : PerRoot(s, n) \in Int
<1>1. IsFiniteSet(Genres(s)) /\ Sqrt[Cardinality(Genres(s))] \in Nat \ {0}
  BY DEF TasteAssumption, FactAssumption, TableAssumption
<1>2. Cardinality(Genres(s)) \in Nat \ {0}
  BY <1>1, FS_CardinalityType, FS_EmptySet
<1>3. \A n \in Int : PerRoot(s, n) \in Int
  BY <1>1, ScaledIs DEF PerRoot
<1> QED BY <1>1, <1>2, <1>3

\* A genre is in favour because of a show held and liked, and does not run
\* through the whole catalogue.
LEMMA TotalIs ==
  ASSUME TasteAssumption, NEW lib, IsLibrary(lib), NEW s \in Shows, NEW g \in Genres(s)
  PROVE  /\ GenreTotal(lib, g) \in Int
         /\ GenreTotal(lib, g) > 0 =>
              GenreIdf(g) > 0 /\ \E t \in DOMAIN lib : g \in Genres(t) /\ Opinion(lib[t]) > 0
<1> DEFINE holding == {t \in DOMAIN lib : g \in Genres(t)}
           share == [t \in holding |-> Scaled(12, Opinion(lib[t]), Cardinality(Genres(t)))]
           sum == SumWeights(share, holding)
<1>1. GenreTotal(lib, g) = GenreIdf(g) * sum
  BY DEF GenreTotal
<1>2. IsFiniteSet(holding)
  <2>1. holding \subseteq Shows
    BY DEF IsLibrary
  <2> HIDE DEF holding
  <2> QED BY <2>1, FS_Subset DEF TasteAssumption, ShelfAssumption
<1>3. ASSUME NEW t \in holding
      PROVE  /\ t \in DOMAIN lib /\ g \in Genres(t) /\ share[t] \in Int
             /\ share[t] > 0 => Opinion(lib[t]) > 0
  <2>1. t \in DOMAIN lib /\ g \in Genres(t) /\ t \in Shows
    BY DEF IsLibrary
  <2>2. Opinion(lib[t]) \in Int
    BY <2>1, OpinionIs DEF IsLibrary
  <2>3. Cardinality(Genres(t)) \in Nat \ {0}
    BY <2>1, GenresAre
  <2>4. share[t] = Scaled(12, Opinion(lib[t]), Cardinality(Genres(t)))
    OBVIOUS
  <2> HIDE DEF share
  <2> QED BY <2>1, <2>2, <2>3, <2>4, ShareIs
<1> HIDE DEF share, holding
<1>4. sum \in Int /\ (sum > 0 => \E t \in holding : share[t] > 0)
  <2>1. \A t \in holding : share[t] \in Int
    BY <1>3
  <2> QED BY <1>2, <2>1, SumTakesOut, SumPositive
<1>5. GenreIdf(g) \in Nat
  BY IdfIs
<1> HIDE DEF sum
<1>6. GenreTotal(lib, g) \in Int
  BY <1>1, <1>4, <1>5
<1>7. ASSUME GenreTotal(lib, g) > 0 PROVE GenreIdf(g) > 0 /\ sum > 0
  BY <1>1, <1>4, <1>5, <1>7, SignOfProduct
<1> QED BY <1>3, <1>4, <1>6, <1>7

\* buildGenreAffinity keeps the sign.
LEMMA WeightIs ==
  ASSUME TasteAssumption, NEW lib, IsLibrary(lib), NEW s \in Shows, NEW g \in Genres(s)
  PROVE  /\ g \in DOMAIN GenreAffinity(lib) /\ GenreAffinity(lib)[g] \in Int
         /\ GenreAffinity(lib)[g] > 0 => GenreTotal(lib, g) > 0
<1> DEFINE known == UNION {Genres(t) : t \in Shows}
           total == [h \in known |-> GenreTotal(lib, h)]
           size(n) == IF n < 0 THEN -n ELSE n
           sizes == {size(total[h]) : h \in known} \cup {1}
           peak == Max(sizes)
<1>1. GenreAffinity(lib) = [h \in known |-> Scaled(total[h], 1000, peak)]
  BY DEF GenreAffinity
<1>2. \A h \in known : total[h] \in Int
  BY TotalIs
<1>3. g \in known /\ total[g] = GenreTotal(lib, g)
  OBVIOUS
<1>4. IsFiniteSet(known)
  <2> DEFINE sets == {Genres(t) : t \in Shows}
  <2>1. IsFiniteSet(sets)
    <3> DEFINE w == [t \in Shows |-> Genres(t)]
    <3>1. sets = {w[t] : t \in Shows}
      OBVIOUS
    <3> HIDE DEF w, sets
    <3> QED BY <3>1, ValuesFinite DEF TasteAssumption, ShelfAssumption
  <2>2. \A G \in sets : IsFiniteSet(G)
    BY DEF TasteAssumption, FactAssumption
  <2> HIDE DEF sets
  <2>3. IsFiniteSet(UNION sets)
    BY <2>1, <2>2, FS_UNION
  <2> QED BY <2>3 DEF sets
<1> HIDE DEF known, total
<1>5. IsFiniteSet(sizes) /\ sizes \subseteq Int /\ 1 \in sizes
  <2>1. IsFiniteSet({size(total[h]) : h \in known})
    <3> DEFINE w == [h \in known |-> size(total[h])]
    <3>1. {size(total[h]) : h \in known} = {w[h] : h \in known}
      OBVIOUS
    <3> HIDE DEF w
    <3>2. IsFiniteSet({w[h] : h \in known})
      BY <1>4, ValuesFinite
    <3> QED BY <3>1, <3>2
  <2>2. \A h \in known : size(total[h]) \in Int
    BY <1>2
  <2>3. IsFiniteSet(sizes)
    BY <2>1, FS_AddElement
  <2> QED BY <2>2, <2>3
<1> HIDE DEF sizes
<1>6. peak \in Nat \ {0}
  <2> DEFINE w == [x \in sizes |-> x]
  <2>1. \A x \in sizes : w[x] \in Int
    BY <1>5
  <2>2. sizes # {}
    BY <1>5
  <2> HIDE DEF w
  <2>3. PICK m \in sizes : \A u \in sizes : w[u] <= w[m]
    BY <1>5, <2>1, <2>2, HighestOf
  <2>4. \A u \in sizes : m >= u
    BY <1>5, <2>3 DEF w
  <2>5. \E x \in sizes : \A y \in sizes : x >= y
    BY <2>4
  <2>6. peak \in sizes /\ \A y \in sizes : peak >= y
    BY <2>5 DEF Max
  <2> HIDE DEF peak
  <2> QED BY <1>5, <2>6
<1> HIDE DEF peak
<1>7. Scaled(total[g], 1000, peak) \in Int /\ (Scaled(total[g], 1000, peak) > 0 => total[g] > 0)
  <2> DEFINE n == total[g]
  <2>1. n \in Int
    BY <1>2, <1>3
  <2> HIDE DEF n
  <2>2. Scaled(n, 1000, peak) \in Int /\ (Scaled(n, 1000, peak) > 0 => n > 0)
    BY <1>6, <2>1, ScaledIs
  <2> QED BY <2>2 DEF n
<1> QED BY <1>1, <1>3, <1>7

----------------------------------------------------------------------------
(* The shelf.                                                              *)

\* The first rows of a ranking: each once, and after all that rank above it.
RowsOf(rows, S, key) ==
  /\ rows \in Seq(S) /\ DOMAIN rows = 1..Len(rows)
  /\ \A i, j \in DOMAIN rows : rows[i] = rows[j] => i = j
  /\ \A i \in DOMAIN rows : \A t \in S :
       Above(key, t, rows[i]) => \E k \in 1..(i - 1) : rows[k] = t

\* The first of a ranking are as RowsOf says.
LEMMA FirstRanked ==
  ASSUME ShelfAssumption, NEW S \in SUBSET Shows, NEW n \in Nat, NEW key,
         \A s \in S : key[s][1] \in Int /\ key[s][2] \in Int
  PROVE  RowsOf(First(n, Ranked(S, key)), S, key)
<1> DEFINE all == Ranked(S, key)
           rows == First(n, all)
           R == {p \in S \X S : Above(key, p[1], p[2])}
<1>1. S \subseteq Nat /\ IsFiniteSet(S)
  BY FS_Subset DEF ShelfAssumption
<1>2. InOrder(all, S, R)
  BY <1>1, RankedIs
<1> HIDE DEF all
<1>3. /\ all \in Seq(S) /\ DOMAIN all = 1..Len(all) /\ Len(all) \in Nat /\ Range(all) = S
      /\ \A i, j \in DOMAIN all : all[i] = all[j] => i = j
      /\ \A i, j \in DOMAIN all : <<all[i], all[j]>> \in R => i < j
  BY <1>2 DEF InOrder
<1>4. /\ rows \in Seq(S) /\ Len(rows) = IF n < Len(all) THEN n ELSE Len(all)
      /\ \A i \in DOMAIN rows : i \in DOMAIN all /\ rows[i] = all[i]
  BY <1>3, FirstIs
<1> HIDE DEF rows
<1>5. DOMAIN rows = 1..Len(rows) /\ Len(rows) \in Nat
  BY <1>4
<1>6. ASSUME NEW i \in DOMAIN rows, NEW t \in S, Above(key, t, rows[i])
      PROVE  \E k \in 1..(i - 1) : rows[k] = t
  <2>1. PICK k \in DOMAIN all : all[k] = t
    BY <1>3 DEF Range
  <2>2. i \in DOMAIN all /\ rows[i] = all[i] /\ all[i] \in S
    BY <1>3, <1>4
  <2>3. <<all[k], all[i]>> \in R
    BY <1>6, <2>1, <2>2
  <2>4. k < i
    BY <1>3, <2>1, <2>2, <2>3
  <2>5. k \in 1..(i - 1) /\ k \in DOMAIN rows
    BY <1>3, <1>5, <2>1, <2>4
  <2> QED BY <1>4, <2>1, <2>5
<1>7. \A i, j \in DOMAIN rows : rows[i] = rows[j] => i = j
  BY <1>3, <1>4
<1> QED BY <1>4, <1>5, <1>6, <1>7 DEF RowsOf, rows, all

\* A source has strength only through a liked entry and a genre in common that not every
\* show has; and with a genre in common that is rare, it has.
LEMMA StrengthIs ==
  ASSUME TasteAssumption, NEW lib, IsLibrary(lib), NEW t \in DOMAIN lib, NEW s \in Shows
  PROVE  /\ Strength(lib, t, s) \in Int
         /\ Strength(lib, t, s) > 0 =>
              /\ Opinion(lib[t]) > 0
              /\ \E g \in Genres(s) \cap Genres(t) : \E u \in Shows : g \notin Genres(u)
         /\ Opinion(lib[t]) > 0 /\ (\E g \in Genres(s) \cap Genres(t) : GenreIdf(g) > 0) =>
              Strength(lib, t, s) > 0
<1> DEFINE common == Genres(t) \cap Genres(s)
           idf == [g \in Genres(s) |-> GenreIdf(g)]
           sum == SumWeights(idf, common)
           liking == Opinion(lib[t])
<1>1. Strength(lib, t, s) = liking * sum
  BY DEF Strength
<1>2. liking \in Int
  BY OpinionIs DEF IsLibrary
<1>3. IsFiniteSet(common)
  <2>1. IsFiniteSet(Genres(s))
    BY DEF TasteAssumption, FactAssumption
  <2> QED BY <2>1, FS_Subset
<1>4. \A g \in common : idf[g] = GenreIdf(g) /\ idf[g] \in Nat
  BY IdfIs
<1>5. \A g \in common : idf[g] > 0 => \E u \in Shows : g \notin Genres(u)
  BY IdfIs
<1>6. common = Genres(s) \cap Genres(t)
  OBVIOUS
<1> HIDE DEF idf, common, liking
<1>7. sum \in Nat /\ (\A g \in common : idf[g] <= sum)
  BY <1>3, <1>4, SumGrows
<1>8. sum > 0 => \E g \in common : idf[g] > 0
  <2>1. \A g \in common : idf[g] \in Int
    BY <1>4
  <2> QED BY <1>3, <2>1, SumPositive
<1> HIDE DEF sum
<1>9. liking * sum \in Int /\ (liking > 0 /\ sum > 0 => liking * sum > 0)
  BY <1>2, <1>7
<1>10. liking * sum > 0 => liking > 0 /\ sum > 0
  <2>1. liking * sum = sum * liking
    BY <1>2, <1>7
  <2> QED BY <1>2, <1>7, <2>1, SignOfProduct
<1>11. (\E g \in common : GenreIdf(g) > 0) => sum > 0
  BY <1>4, <1>7
<1> QED BY <1>1, <1>5, <1>6, <1>8, <1>9, <1>10, <1>11 DEF liking

\* The part of a score that the genres make is a number.
LEMMA GenreScoreType ==
  ASSUME TasteAssumption, NEW lib, IsLibrary(lib), NEW s \in Shows, Genres(s) # {},
         NEW G \in SUBSET Genres(s)
  PROVE  PerRoot(s, SumWeights(GenreAffinity(lib), G)) \in Int
<1> DEFINE weight == GenreAffinity(lib)
<1>1. \A g \in Genres(s) : weight[g] \in Int
  BY WeightIs
<1>2. IsFiniteSet(Genres(s))
  BY GenresAre
<1> HIDE DEF weight
<1>3. SumWeights(weight, G) \in Int
  BY <1>1, <1>2, SumTakesOut
<1> QED BY <1>3, GenresAre DEF weight

\* A candidate is not held, can be watched, and has a genre in favour.
LEMMA CandidatesAre ==
  ASSUME TasteAssumption, NEW lib, IsLibrary(lib)
  PROVE  LET weight == GenreAffinity(lib)
             pool == Candidates(lib, weight)
         IN  /\ pool \in Seq(Shows)
             /\ \A s \in Range(pool) : /\ s \in Shows \ DOMAIN lib /\ Fact[s].episodes > 0
                                       /\ Genres(s) \cap Liked(weight) # {}
<1> DEFINE weight == GenreAffinity(lib)
           sharing == {s \in Shows \ DOMAIN lib : /\ Genres(s) \cap Liked(weight) # {}
                                                  /\ Fact[s].episodes > 0}
           key == [s \in sharing |-> <<GenreScore(weight, s), Fact[s].popularity>>]
           pool == Candidates(lib, weight)
<1>1. pool = First(CandidatePool, Ranked(sharing, key))
  BY DEF Candidates
<1>2. \A s \in sharing : key[s][1] \in Int /\ key[s][2] \in Int
  <2> TAKE s \in sharing
  <2>1. GenreScore(weight, s) \in Int
    BY GenreScoreType DEF GenreScore
  <2>2. Fact[s].popularity \in Nat
    BY DEF TasteAssumption, FactAssumption
  <2>3. key[s] = <<GenreScore(weight, s), Fact[s].popularity>>
    OBVIOUS
  <2> HIDE DEF key
  <2> QED BY <2>1, <2>2, <2>3
<1>3. sharing \in SUBSET Shows
  OBVIOUS
<1>4. \A s \in sharing : /\ s \in Shows \ DOMAIN lib /\ Fact[s].episodes > 0
                         /\ Genres(s) \cap Liked(weight) # {}
  OBVIOUS
<1> HIDE DEF sharing, key
<1>5. CandidatePool \in Nat /\ ShelfAssumption
  BY DEF TasteAssumption, ShelfAssumption
<1>6. RowsOf(pool, sharing, key)
  BY <1>1, <1>2, <1>3, <1>5, FirstRanked
<1> HIDE DEF pool
<1>7. pool \in Seq(sharing) /\ pool \in Seq(Shows)
  BY <1>3, <1>6 DEF RowsOf
<1>8. Range(pool) \subseteq sharing
  BY <1>7 DEF Range
<1> QED BY <1>4, <1>7, <1>8 DEF pool

\* A score is a number.
LEMMA ScoreType ==
  ASSUME TasteAssumption, NEW lib, IsLibrary(lib), NEW s \in Shows, Genres(s) # {}
  PROVE  Score(lib, GenreAffinity(lib), s) \in Int
<1> DEFINE weight == GenreAffinity(lib)
           disliked == {g \in Genres(s) : weight[g] < 0}
<1>1. GenreScore(weight, s) \in Int
  BY GenreScoreType DEF GenreScore
<1>2. PerRoot(s, SumWeights(weight, disliked)) \in Int
  BY GenreScoreType
<1>s. ASSUME NEW a, a \in Int, NEW b, b \in Nat, NEW c, c \in Nat, c # 0
      PROVE  Scaled(a, b, c) \in Int
  BY <1>s, ScaledIs
<1>3. CoWatchScore(lib, s) \in Int
  <2> DEFINE near == {u \in DOMAIN Neighbours : DOMAIN Neighbours[u] \cap DOMAIN lib # {}}
             with == {u \in near : s \in DOMAIN Neighbours[u] /\ Neighbours[u][s] # "DROPPED"}
  <2>1. near \subseteq DOMAIN Neighbours /\ with \subseteq DOMAIN Neighbours
    OBVIOUS
  <2>2. CoWatchScore(lib, s) = IF near = {} THEN 0
                               ELSE (1000 * Cardinality(with)) \div Cardinality(near)
    BY DEF CoWatchScore
  <2> HIDE DEF near, with
  <2>3. IsFiniteSet(near) /\ IsFiniteSet(with)
    BY <2>1, FS_Subset DEF TasteAssumption, ShelfAssumption
  <2>4. Cardinality(near) \in Nat /\ Cardinality(with) \in Nat /\ (near # {} => Cardinality(near) # 0)
    BY <2>3, FS_CardinalityType, FS_EmptySet
  <2> QED BY <2>2, <2>4
<1>4. Quality(s) \in Int
  <2>1. Fact[s].rating - 70 \in Int
    BY DEF TasteAssumption, FactAssumption
  <2>2. 1000 \in Nat /\ 30 \in Nat /\ 30 # 0
    OBVIOUS
  <2> DEFINE m == Fact[s].rating - 70
  <2> HIDE DEF m
  <2>3. m \in Int
    BY <2>1 DEF m
  <2> DEFINE b == 1000
             c == 30
  <2>4. b \in Nat /\ c \in Nat \ {0}
    OBVIOUS
  <2> HIDE DEF b, c
  <2>5. Scaled(m, b, c) \in Int
    BY <2>3, <2>4, ScaledIs
  <2> QED BY <2>5 DEF Quality, m, b, c
<1>5. Popularity(s) \in Int
  <2> DEFINE n == Scaled(Ln[1 + Fact[s].popularity], 1000, Ln1001)
  <2>1. Ln[1 + Fact[s].popularity] \in Nat /\ Ln1001 \in Nat \ {0}
    BY DEF TasteAssumption, TableAssumption
  <2>a. Ln[1 + Fact[s].popularity] \in Int /\ 1000 \in Nat /\ Ln1001 \in Nat /\ Ln1001 # 0
    BY <2>1
  <2> DEFINE m == Ln[1 + Fact[s].popularity]
  <2>b. m \in Int
    BY <2>a
  <2> HIDE DEF m
  <2> DEFINE b == 1000
  <2>c. b \in Nat
    OBVIOUS
  <2> HIDE DEF b
  <2>d. Scaled(m, b, Ln1001) \in Int
    BY <2>1, <2>b, <2>c, ScaledIs
  <2>2. n \in Int
    BY <2>d DEF m, b
  <2> HIDE DEF n
  <2>3. Min({1000, n}) \in Int
    BY <2>2, MinOfTwo
  <2> QED BY <2>3 DEF Popularity, n
<1>6. /\ Scaled(CoWatchScore(lib, s), 35, 100) \in Int /\ Scaled(Quality(s), 25, 100) \in Int
      /\ Scaled(Popularity(s), 15, 100) \in Int
  <2>1. 35 \in Nat /\ 25 \in Nat /\ 15 \in Nat /\ 100 \in Nat /\ 100 # 0
    OBVIOUS
  <2> QED BY <2>1, <1>3, <1>4, <1>5, <1>s
<1>7. Score(lib, weight, s) =
        GenreScore(weight, s) + Scaled(CoWatchScore(lib, s), 35, 100)
          + Scaled(Quality(s), 25, 100) + Scaled(Popularity(s), 15, 100)
          + PerRoot(s, SumWeights(weight, disliked))
  BY DEF Score
<1> QED BY <1>1, <1>2, <1>6, <1>7

\* A show that shares a genre in favour has a show held and liked to thank.
LEMMA ReasonIs ==
  ASSUME TasteAssumption, NEW lib, IsLibrary(lib), NEW s \in Shows,
         Genres(s) \cap Liked(GenreAffinity(lib)) # {}
  PROVE  LET reason == Reason(lib, GenreAffinity(lib), s)
         IN  /\ reason.kind = "because you watched" /\ reason.show \in DOMAIN lib
             /\ Opinion(lib[reason.show]) > 0
             /\ \E g \in Genres(s) \cap Genres(reason.show) : \E u \in Shows : g \notin Genres(u)
<1> DEFINE weight == GenreAffinity(lib)
           sources == {t \in DOMAIN lib : Strength(lib, t, s) > 0}
           best == CHOOSE t \in sources : \A u \in sources : Strength(lib, u, s) <= Strength(lib, t, s)
           strength == [t \in sources |-> Strength(lib, t, s)]
<1>1. PICK g \in Genres(s) : g \in DOMAIN weight /\ weight[g] > 50
  BY DEF Liked
<1>2. weight[g] > 0 /\ weight[g] \in Int
  <2>1. weight[g] \in Int
    BY WeightIs
  <2> HIDE DEF weight
  <2> QED BY <1>1, <2>1
<1>3. GenreTotal(lib, g) > 0
  BY <1>2, WeightIs
<1>4. PICK t \in DOMAIN lib : GenreIdf(g) > 0 /\ g \in Genres(t) /\ Opinion(lib[t]) > 0
  BY <1>3, TotalIs
<1>5. t \in sources
  <2>1. g \in Genres(s) \cap Genres(t)
    BY <1>1, <1>4
  <2> QED BY <1>4, <2>1, StrengthIs
<1>6. IsFiniteSet(sources)
  <2>1. sources \subseteq Shows
    BY DEF IsLibrary
  <2> HIDE DEF sources
  <2> QED BY <2>1, FS_Subset DEF TasteAssumption, ShelfAssumption
<1>7. \A u \in sources : strength[u] = Strength(lib, u, s) /\ strength[u] \in Int
  BY StrengthIs
<1>8. best \in sources
  <2>1. \A u \in sources : strength[u] \in Int
    BY <1>7
  <2> HIDE DEF sources, strength
  <2>2. \E x \in sources : \A u \in sources : strength[u] <= strength[x]
    BY <1>5, <1>6, <2>1, HighestOf
  <2>3. \E x \in sources : \A u \in sources : Strength(lib, u, s) <= Strength(lib, x, s)
    BY <1>7, <2>2
  <2> QED BY <2>3
<1> DEFINE reason == Reason(lib, weight, s)
<1>9. PICK b : b = best
  OBVIOUS
<1>10. reason = [kind |-> "because you watched", show |-> b]
  BY <1>5, <1>9 DEF Reason
<1> HIDE DEF reason
<1>11. reason.kind = "because you watched" /\ reason.show = b
  BY <1>10
<1>12. b \in sources
  BY <1>8, <1>9
<1>13. /\ b \in DOMAIN lib /\ Opinion(lib[b]) > 0
       /\ \E h \in Genres(s) \cap Genres(b) : \E u \in Shows : h \notin Genres(u)
  BY <1>12, StrengthIs
<1>14. /\ reason.kind = "because you watched" /\ reason.show \in DOMAIN lib
       /\ Opinion(lib[reason.show]) > 0
       /\ \E h \in Genres(s) \cap Genres(reason.show) : \E u \in Shows : h \notin Genres(u)
  BY <1>11, <1>13
<1> QED BY <1>14 DEF reason

\* The shelf on the dashboard is honest, warm start or cold.
LEMMA ShelfIsHonest ==
  ASSUME TasteAssumption, IsLibrary(library)
  PROVE  HonestShelf(Recommendations(library))
<1> DEFINE lib == library
           row == Recommendations(lib)
           weight == GenreAffinity(lib)
           pool == Candidates(lib, weight)
<1>0. ShelfSize \in Nat /\ ShelfAssumption
  BY DEF TasteAssumption, ShelfAssumption
<1>1. CASE Liked(weight) = {} \/ pool = <<>>
  <2> DEFINE liked == {s \in Shows \ DOMAIN lib : Fact[s].episodes > 0 /\ Fact[s].rating >= 75}
             key == [s \in liked |-> <<Fact[s].popularity, 0>>]
             rows == First(ShelfSize, Ranked(liked, key))
  <2>1. row = [i \in DOMAIN rows |->
                 [show |-> rows[i], reason |-> [kind |-> "popular right now", show |-> NoShow]]]
    BY <1>1 DEF Recommendations, ColdStart
  <2>2. \A s \in liked : key[s][1] \in Int /\ key[s][2] \in Int
    <3> TAKE s \in liked
    <3>1. Fact[s].popularity \in Nat
      BY DEF TasteAssumption, FactAssumption
    <3>2. key[s] = <<Fact[s].popularity, 0>>
      OBVIOUS
    <3> HIDE DEF key
    <3> QED BY <3>1, <3>2
  <2>3. liked \in SUBSET Shows /\ \A s \in liked : s \notin DOMAIN lib /\ Fact[s].episodes > 0
    OBVIOUS
  <2> HIDE DEF liked, key
  <2>4. RowsOf(rows, liked, key)
    BY <1>0, <2>2, <2>3, FirstRanked
  <2> HIDE DEF rows
  <2>5. /\ \A i \in DOMAIN rows : rows[i] \in liked
        /\ \A i, j \in DOMAIN rows : rows[i] = rows[j] => i = j
    BY <2>4 DEF RowsOf
  <2> HIDE DEF row
  <2>6. /\ DOMAIN row = DOMAIN rows
        /\ \A i \in DOMAIN row : /\ row[i].show = rows[i]
                                 /\ row[i].reason.kind = "popular right now"
    BY <2>1
  <2>7. HonestShelf(row)
    BY <2>3, <2>5, <2>6, ZenonT(40) DEF HonestShelf
  <2> QED BY <2>7 DEF row
<1>2. CASE ~(Liked(weight) = {} \/ pool = <<>>)
  <2> DEFINE score == [s \in Range(pool) |-> <<Score(lib, weight, s), 0>>]
             best == First(ShelfSize, Ranked(Range(pool), score))
  <2>1. row = [i \in DOMAIN best |->
                 [show |-> best[i], reason |-> Reason(lib, weight, best[i])]]
    BY <1>2 DEF Recommendations
  <2>2. /\ pool \in Seq(Shows)
        /\ \A s \in Range(pool) : /\ s \in Shows \ DOMAIN lib /\ Fact[s].episodes > 0
                                  /\ Genres(s) \cap Liked(weight) # {}
    BY CandidatesAre
  <2>3. Range(pool) \in SUBSET Shows
    BY <2>2
  <2>4. \A s \in Range(pool) : score[s][1] \in Int /\ score[s][2] \in Int
    <3> TAKE s \in Range(pool)
    <3>1. s \in Shows /\ Genres(s) # {}
      BY <2>2
    <3>2. Score(lib, weight, s) \in Int
      BY <3>1, ScoreType
    <3>3. score[s] = <<Score(lib, weight, s), 0>>
      OBVIOUS
    <3> HIDE DEF score
    <3> QED BY <3>2, <3>3
  <2> HIDE DEF score, pool
  <2>5. RowsOf(best, Range(pool), score)
    BY <1>0, <2>3, <2>4, FirstRanked
  <2> HIDE DEF best
  <2>6. /\ \A i \in DOMAIN best : best[i] \in Range(pool)
        /\ \A i, j \in DOMAIN best : best[i] = best[j] => i = j
    BY <2>5 DEF RowsOf
  <2> HIDE DEF row, weight
  <2>7. /\ DOMAIN row = DOMAIN best
        /\ \A i \in DOMAIN row : /\ row[i].show = best[i]
                                 /\ row[i].reason = Reason(lib, weight, best[i])
    BY <2>1
  <2>8. ASSUME NEW i \in DOMAIN row
        PROVE  LET s == row[i].show
                   t == row[i].reason.show
               IN  /\ \A j \in DOMAIN row : row[j].show = s => i = j
                   /\ s \notin DOMAIN library /\ Fact[s].episodes > 0
                   /\ row[i].reason.kind = "because you watched"
                   /\ t \in DOMAIN library /\ OwnLiking(library[t])
                   /\ \E g \in Genres(s) \cap Genres(t) : \E u \in Shows : g \notin Genres(u)
    <3> DEFINE s == best[i]
               reason == Reason(lib, weight, s)
    <3>1. /\ s \in Shows \ DOMAIN lib /\ Fact[s].episodes > 0
          /\ Genres(s) \cap Liked(weight) # {}
      BY <2>2, <2>6, <2>7
    <3>2. row[i].show = s /\ row[i].reason = reason
      BY <2>7
    <3> HIDE DEF s
    <3>3. /\ reason.kind = "because you watched" /\ reason.show \in DOMAIN lib
          /\ Opinion(lib[reason.show]) > 0
          /\ \E g \in Genres(s) \cap Genres(reason.show) : \E u \in Shows : g \notin Genres(u)
      BY <3>1, ReasonIs DEF weight
    <3> HIDE DEF reason
    <3>4. OwnLiking(library[reason.show])
      BY <3>3, OpinionIs DEF IsLibrary
    <3>5. \A j \in DOMAIN row : row[j].show = s => i = j
      BY <2>6, <2>7 DEF s
    <3> QED BY <3>1, <3>2, <3>3, <3>4, <3>5
  <2>9. HonestShelf(row)
    BY <2>8 DEF HonestShelf
  <2> QED BY <2>9 DEF row
<1> QED BY <1>1, <1>2

\* More genres and credits in common and no broader: at least as like.
LEMMA RowIsHonest ==
  ASSUME TasteAssumption, NEW s \in Shows
  PROVE  HonestRow(s, SimilarShows(s))
<1> DEFINE idf == [g \in Genres(s) |-> GenreIdf(g)]
           shared(t) == SumWeights(idf, Genres(t) \cap Genres(s))
           credits(t) == Cardinality(Fact[t].credits \cap Fact[s].credits)
           likeness(t) == PerRoot(t, shared(t)) + 150 * credits(t)
           alike == {t \in Shows \ {s} : /\ Fact[t].episodes > 0
                                         /\ Fact[t].type = Fact[s].type
                                         /\ Genres(t) \cap Genres(s) # {}}
           key == [t \in alike |-> <<likeness(t), Fact[t].popularity>>]
           row == First(ShelfSize, Ranked(alike, key))
<1>1. row = SimilarShows(s)
  BY DEF SimilarShows
<1>2. IsFiniteSet(Genres(s)) /\ \A g \in Genres(s) : idf[g] \in Nat
  BY IdfIs DEF TasteAssumption, FactAssumption
<1>3. ASSUME NEW t \in alike
      PROVE  /\ shared(t) \in Nat /\ credits(t) \in Nat /\ Fact[t].popularity \in Nat
             /\ PerRoot(t, shared(t)) \in Int /\ Genres(t) # {} /\ t \in Shows
             /\ key[t][1] = likeness(t) /\ key[t][2] = Fact[t].popularity
  <2>1. shared(t) \in Nat
    <3> HIDE DEF idf
    <3> QED BY <1>2, SumGrows
  <2>2. credits(t) \in Nat
    <3>1. IsFiniteSet(Fact[s].credits)
      BY DEF TasteAssumption, FactAssumption
    <3>2. IsFiniteSet(Fact[t].credits \cap Fact[s].credits)
      BY <3>1, FS_Subset
    <3> QED BY <3>2, FS_CardinalityType
  <2>3. Genres(t) # {} /\ t \in Shows /\ Fact[t].popularity \in Nat
    BY DEF TasteAssumption, FactAssumption
  <2>4. PerRoot(t, shared(t)) \in Int
    BY <2>1, <2>3, GenresAre
  <2>5. key[t] = <<likeness(t), Fact[t].popularity>>
    OBVIOUS
  <2> HIDE DEF key, likeness
  <2> QED BY <2>1, <2>2, <2>3, <2>4, <2>5
<1>4. alike \in SUBSET Shows /\ \A t \in alike : key[t][1] \in Int /\ key[t][2] \in Int
  <2>1. alike \in SUBSET Shows
    OBVIOUS
  <2> HIDE DEF alike, key, shared, credits
  <2> QED BY <1>3, <2>1
<1>5. RowsOf(row, alike, key)
  <2>1. ShelfSize \in Nat /\ ShelfAssumption
    BY DEF TasteAssumption, ShelfAssumption
  <2> HIDE DEF alike, key
  <2> QED BY <1>4, <2>1, FirstRanked
<1> HIDE DEF row
<1>6. ASSUME NEW i \in DOMAIN row, NEW t \in Shows \ {s},
             Fact[t].type = Fact[s].type, Fact[t].episodes > 0,
             Genres(row[i]) \cap Genres(s) \subseteq Genres(t),
             Fact[row[i]].credits \cap Fact[s].credits \subseteq Fact[t].credits,
             Cardinality(Genres(t)) <= Cardinality(Genres(row[i])),
             Fact[t].popularity > Fact[row[i]].popularity
      PROVE  \E k \in 1..(i - 1) : row[k] = t
  <2> DEFINE u == row[i]
  <2>1. u \in alike
    <3> HIDE DEF alike, key
    <3> QED BY <1>5 DEF RowsOf
  <2> HIDE DEF u
  <2>2. u \in Shows /\ Genres(u) \cap Genres(s) \subseteq Genres(t) \cap Genres(s)
        /\ Fact[u].credits \cap Fact[s].credits \subseteq Fact[t].credits \cap Fact[s].credits
    BY <1>6, <2>1 DEF u
  <2>3. t \in alike
    BY <1>6, <2>1, <2>2
  <2> HIDE DEF alike
  <2>4. shared(u) <= shared(t)
    <3>1. IsFiniteSet(Genres(t) \cap Genres(s)) /\ \A g \in Genres(t) \cap Genres(s) : idf[g] \in Nat
      BY <1>2, FS_Subset
    <3> HIDE DEF idf
    <3> QED BY <2>2, <3>1, SumGrows
  <2>5. credits(u) <= credits(t)
    <3>1. IsFiniteSet(Fact[s].credits)
      BY DEF TasteAssumption, FactAssumption
    <3>2. IsFiniteSet(Fact[t].credits \cap Fact[s].credits)
      BY <3>1, FS_Subset
    <3> QED BY <2>2, <3>2, FS_Subset
  <2>6. PerRoot(u, shared(u)) <= PerRoot(t, shared(t))
    <3> DEFINE c == Sqrt[Cardinality(Genres(t))]
               d == Sqrt[Cardinality(Genres(u))]
               b == 1000
    <3>1. Genres(t) # {} /\ Genres(u) # {} /\ t \in Shows
      BY <1>3, <2>1, <2>3
    <3>2. c \in Nat \ {0} /\ d \in Nat \ {0} /\ c <= d
      BY <1>6, <2>2, <3>1 DEF TasteAssumption, TableAssumption, u
    <3>3. b \in Nat
      OBVIOUS
    <3>4. shared(u) \in Nat /\ shared(t) \in Nat
      BY <1>3, <2>1, <2>3
    <3> HIDE DEF c, d, b, shared
    <3>5. Scaled(shared(u), b, d) <= Scaled(shared(t), b, c)
      BY <2>4, <3>2, <3>3, <3>4, ScaledGrows
    <3> QED BY <3>5 DEF PerRoot, b, c, d
  <2>7. Above(key, t, u)
    <3> HIDE DEF key, shared, credits
    <3>1. key[t][1] >= key[u][1]
      BY <1>3, <2>1, <2>3, <2>5, <2>6
    <3>2. key[t][2] > key[u][2]
      BY <1>3, <1>6, <2>1, <2>3 DEF u
    <3>3. key[t][1] \in Int /\ key[u][1] \in Int
      BY <1>4, <2>1, <2>3
    <3> QED BY <3>1, <3>2, <3>3 DEF Above
  <2> HIDE DEF key
  <2> QED BY <1>5, <2>3, <2>7 DEF RowsOf, u
<1>7. HonestRow(s, row)
  BY <1>6 DEF HonestRow
<1> QED BY <1>1, <1>7

----------------------------------------------------------------------------
(* The page of a show.                                                     *)

Kinds == PanelKinds \cup ListKinds \cup
         {"save review", "delete review", "like", "follow", "unfollow", "refresh"}

Requests ==
  {r \in [does : Kinds, to : Nat, closure : Rows, risky : BOOLEAN,
          answered : BOOLEAN, ok : BOOLEAN, seen : Rows] :
     /\ r.does = "save review" => r.to \in Stars
     /\ r.does = "rate" => r.to \in Stars \cup {NoStars}
     /\ r.does \in ListKinds => r.to \in Episodes}

Tabs ==
  [props : Rows, rating : Stars \cup {NoStars}, liked : BOOLEAN, likes : Int,
   following : BOOLEAN, optimistic : Seq([episode : Episodes, on : BOOLEAN]),
   queue : Seq(Requests)]

Pasts ==
  [clicks : Nat, elsewhere : Nat, behind : BOOLEAN, unread : BOOLEAN, burst : BOOLEAN,
   astray : SUBSET {"rating", "like", "following", "none"}]

PageTypes ==
  /\ server \in Rows
  /\ tab \in Tabs
  /\ past \in Pasts

\* Requests are answered in order, and the ticks wait for the last of them.
Orderly ==
  /\ \A i \in DOMAIN tab.queue : i > 1 => ~tab.queue[i].answered
  /\ tab.queue = <<>> => tab.optimistic = <<>>

\* An answer the page has not shown yet was accepted.
Accepted(kinds) ==
  /\ ~Quiet
  /\ tab.queue[1].answered /\ tab.queue[1].ok /\ tab.queue[1].does \in kinds

Same(a, b) == /\ a.held = b.held /\ a.ticks = b.ticks
              /\ a.review = b.review /\ a.rating = b.rating

PropsFresh ==
  past.behind \/ Accepted(Kinds \ {"like"}) \/ Same(tab.props, server)

Follows == {"follow", "unfollow"}

FollowRow(r, rows) ==
  rows.following = ((r.does = "follow") = (r.answered /\ r.ok))

FollowShown ==
  /\ ~Pending(Follows) => tab.following = server.following
  /\ \A i \in DOMAIN tab.queue :
       tab.queue[i].does \in Follows => FollowRow(tab.queue[i], server)

FollowTold ==
  /\ \A i, j \in DOMAIN tab.queue :
       tab.queue[i].does \in Follows /\ tab.queue[j].does \in Follows => i = j
  /\ "following" \notin past.astray => FollowShown

SameLikes(a, b) == a.liked = b.liked /\ a.others = b.others

LikeShown ==
  /\ ~Quiet /\ tab.queue[1].answered => SameLikes(tab.queue[1].seen, server)
  /\ past.unread \/ Accepted({"like"}) \/ SameLikes(tab.props, server)
  /\ \A i \in DOMAIN tab.queue :
       tab.queue[i].does = "like" =>
         \/ tab.queue[i].risky \/ (tab.queue[i].answered /\ tab.queue[i].ok)
         \/ SameLikes(tab.queue[i].closure, server)
  /\ ~Pending({"like"}) => tab.liked = server.liked /\ tab.likes = Likes(server)

LikeTold ==
  /\ \A i, j \in DOMAIN tab.queue :
       tab.queue[i].does = "like" /\ tab.queue[j].does = "like" => i = j
  /\ "like" \notin past.astray => LikeShown

Steady == "rating" \notin past.astray /\ ~Pending({"remove", "save review"})

Rates(i) == tab.queue[i].does = "rate"

RatingShown ==
  /\ ~Quiet /\ tab.queue[1].answered => tab.queue[1].seen.rating = server.rating
  /\ Accepted({"rate"}) \/ tab.props.rating = server.rating
  /\ Accepted({"rate"}) => server.rating = tab.queue[1].to
  /\ ~Pending({"rate"}) => tab.rating = server.rating
  /\ \A i \in DOMAIN tab.queue :
       Rates(i) /\ (\A j \in DOMAIN tab.queue : j > i => ~Rates(j)) =>
         tab.rating = tab.queue[i].to
  /\ ~past.burst =>
       /\ \A i, j \in DOMAIN tab.queue : Rates(i) /\ Rates(j) => i = j
       /\ \A i \in DOMAIN tab.queue :
            Rates(i) => \/ tab.queue[i].answered /\ tab.queue[i].ok
                        \/ tab.queue[i].closure.rating = server.rating

RatingTold == Steady => RatingShown

PageInv == PageTypes /\ Orderly /\ PropsFresh /\ FollowTold /\ LikeTold /\ RatingTold

\* With nothing under way the list shows the ticks of the props.
LEMMA NothingOptimistic ==
  ASSUME PageTypes, tab.optimistic = <<>> PROVE ShownTicks = tab.props.ticks
<1>1. tab.props.ticks \subseteq Episodes
  BY DEF PageTypes, Tabs, Rows
<1>2. \A e \in Episodes : {i \in DOMAIN tab.optimistic : tab.optimistic[i].episode = e} = {}
  OBVIOUS
<1> QED BY <1>1, <1>2 DEF ShownTicks

\* What the server may make of a request, by the kind of the request.
EffectTold(rows, r, new) ==
  /\ new \in Rows
  /\ r.does # "like" => SameLikes(new, rows)
  /\ r.does \notin Follows => new.following = rows.following
  /\ r.does \notin {"rate", "remove", "save review"} => new.rating = rows.rating
  /\ r.does = "like" => Same(new, rows)

\* What a service call makes of the rows is as EffectTold says.
LEMMA EffectIs ==
  ASSUME PageAssumption, NEW rows \in Rows, NEW r \in Requests
  PROVE  /\ EffectTold(rows, r, Effect(rows, r))
         /\ r.does = "rate" => Effect(rows, r).rating = r.to
         /\ r.does = "follow" => Effect(rows, r).following = TRUE
         /\ r.does = "unfollow" => Effect(rows, r).following = FALSE
<1> USE DEF EffectTold, SameLikes, Same, Follows, Rows
<1>0. /\ r.does \in Kinds /\ Stars \subseteq Nat /\ NoStars \notin Stars
      /\ NoStars \in Stars \cup {NoStars}
  BY PageAssumption DEF Requests, NoStars
<1>e. LastEpisode \in Nat
  BY PageAssumption
<1>t. rows.ticks \subseteq Episodes
  OBVIOUS
<1>1. CASE r.does = "tick"
  BY <1>1 DEF Effect, Ticked, Requests, ListKinds
<1>2. CASE r.does = "untick"
  BY <1>2 DEF Effect
<1>3. CASE r.does \in {"up to", "season"}
  <2>1. r.to \in Episodes
    BY <1>3 DEF Requests, ListKinds
  <2>2. 1..r.to \subseteq Episodes
    BY <2>1, <1>e DEF Episodes
  <2> QED BY <1>3, <2>2 DEF Effect, Ticked
<1>4. CASE r.does = "continue"
  <2> DEFINE left == Episodes \ rows.ticks
             next == CHOOSE e \in left : \A d \in left : e <= d
             new == Ticked(rows, {next})
  <2>1. Effect(rows, r) = IF rows.ticks = Episodes THEN rows ELSE new
    BY <1>4 DEF Effect
  <2>2. ASSUME rows.ticks # Episodes PROVE next \in Episodes
    <3>a. left \subseteq Nat
      BY <1>e DEF Episodes
    <3>b. left # {}
      BY <2>2, <1>t, Zenon
    <3>1. left \subseteq Nat /\ left # {}
      BY <3>a, <3>b
    <3>2. \E e \in left : \A d \in left : e <= d
      <4> HIDE DEF left
      <4> QED BY <3>1, LeastOf
    <3> QED BY <3>2
  <2> HIDE DEF next
  <2>4. CASE rows.ticks # Episodes
    <3>1. new = [rows EXCEPT !.held = TRUE, !.ticks = @ \cup {next}]
      BY DEF Ticked
    <3>a. new.ticks = rows.ticks \cup {next}
      BY <3>1
    <3>2. new.ticks \in SUBSET Episodes
      <4> HIDE DEF new, next
      <4> QED BY <2>2, <2>4, <1>t, <3>a
    <3> QED BY <1>4, <2>1, <2>4, <3>1, <3>2, ZenonT(40)
  <2>5. CASE rows.ticks = Episodes
    BY <1>4, <2>1, <2>5
  <2> QED BY <2>4, <2>5
<1>5. CASE r.does = "add"
  BY <1>5 DEF Effect
<1>6. CASE r.does = "remove"
  BY <1>6, <1>0 DEF Effect
<1>7. CASE r.does = "rate"
  BY <1>7, <1>0 DEF Effect, Requests
<1>8. CASE r.does = "save review"
  BY <1>8, <1>0 DEF Effect, Requests
<1>9. CASE r.does = "delete review"
  BY <1>9, <1>0 DEF Effect
<1>10. CASE r.does = "like"
  BY <1>10 DEF Effect
<1>11. CASE r.does = "follow"
  BY <1>11 DEF Effect
<1>12. CASE r.does = "unfollow"
  BY <1>12 DEF Effect
<1>13. CASE r.does = "refresh"
  BY <1>13 DEF Effect
<1> QED
  BY <1>0, <1>1, <1>2, <1>3, <1>4, <1>5, <1>6, <1>7, <1>8, <1>9, <1>10, <1>11, <1>12,
     <1>13 DEF Kinds, PanelKinds, ListKinds

\* What an answer says of the rows it leaves.
OutcomeTold(rows, r, out) ==
  /\ out.ok \in BOOLEAN
  /\ EffectTold(rows, r, out.rows)
  /\ out.ok /\ r.does = "rate" => out.rows.rating = r.to
  /\ out.ok /\ r.does = "follow" => out.rows.following = TRUE
  /\ out.ok /\ r.does = "unfollow" => out.rows.following = FALSE
  /\ ~out.ok => /\ SameLikes(out.rows, rows) /\ out.rows.following = rows.following
                /\ out.rows.rating = rows.rating

\* So is what the server may answer, accepted, rejected or half of both.
LEMMA OutcomeIs ==
  ASSUME PageAssumption, NEW rows \in Rows, NEW r \in Requests,
         NEW out \in Outcomes(rows, r)
  PROVE  OutcomeTold(rows, r, out)
<1>1. CASE out = [ok |-> TRUE, rows |-> Effect(rows, r)]
  BY <1>1, EffectIs DEF OutcomeTold
<1>2. CASE out = [ok |-> FALSE, rows |-> rows]
  BY <1>2 DEF OutcomeTold, EffectTold, SameLikes, Same
<1>3. CASE r.does = "save review" /\ out = [ok |-> FALSE, rows |-> [rows EXCEPT !.review = r.to]]
  BY <1>3 DEF OutcomeTold, EffectTold, SameLikes, Same, Rows, Requests, Follows
<1> QED BY <1>1, <1>2, <1>3 DEF Outcomes

\* A click and what it sets at once: nothing but the control it is of.
Clicked(does, to, change) ==
  /\ Click(does, to, change)
  /\ change \in Tabs /\ change.props = tab.props /\ change.queue = tab.queue
  /\ does \in Kinds \ {"refresh"} /\ to \in Nat
  /\ does = "save review" => to \in Stars
  /\ does = "rate" => to \in Stars \cup {NoStars}
  /\ does \in ListKinds => to \in Episodes
  /\ does \in Follows => ~Pending(Follows) /\ ((does = "follow") <=> ~tab.following)
  /\ change.following = IF does \in Follows THEN ~tab.following ELSE tab.following
  /\ does = "like" => ~Pending({"like"})
  /\ does # "like" => change.liked = tab.liked /\ change.likes = tab.likes
  /\ change.rating = IF does = "rate" THEN to ELSE tab.rating

\* A click keeps what is said of the page.
LEMMA ClickKeeps ==
  ASSUME PageAssumption, PageInv, NEW does, NEW to, NEW change, Clicked(does, to, change)
  PROVE  PageInv'
<1> DEFINE q == tab.queue
           new == Request(does, to)
           n == Len(q) + 1
<1>1. /\ server \in Rows /\ tab \in Tabs /\ q \in Seq(Requests) /\ Len(q) \in Nat
      /\ past \in Pasts
  BY DEF PageInv, PageTypes, Tabs
<1>2. /\ new \in Requests /\ new.does = does /\ new.to = to /\ new.closure = tab.props
      /\ new.risky = past.unread /\ ~new.answered
  <2>1. tab.props \in Rows /\ past.unread \in BOOLEAN
    BY <1>1 DEF Tabs, Pasts
  <2> QED BY <2>1 DEF Clicked, Request, Requests
<1> HIDE DEF new
<1>3. /\ server' = server
      /\ tab' = [change EXCEPT !.queue = Append(q, new)]
      /\ past' = [past EXCEPT !.clicks = @ + 1,
                     !.burst = @ \/ (does = "rate" /\ Pending({"rate"}))]
  BY DEF Clicked, Click, new
<1>4. /\ tab' \in Tabs /\ tab'.queue = Append(q, new)
      /\ tab'.props = tab.props /\ tab'.rating = change.rating
      /\ tab'.liked = change.liked /\ tab'.likes = change.likes
      /\ tab'.following = change.following /\ tab'.optimistic = change.optimistic
  <2>1. Append(q, new) \in Seq(Requests) /\ change \in Tabs
    <3>1. change \in Tabs
      BY DEF Clicked
    <3> HIDE DEF q
    <3> QED BY <3>1, <1>1, <1>2
  <2> HIDE DEF q
  <2> QED BY <2>1, <1>3 DEF Clicked, Tabs
<1>5. /\ n \in Nat /\ DOMAIN q = 1..Len(q) /\ DOMAIN tab'.queue = 1..n
      /\ \A i \in DOMAIN q : tab'.queue[i] = q[i]
      /\ tab'.queue[n] = new
  BY <1>1, <1>2, <1>4
<1>6. PageTypes'
  <2>1. past' \in Pasts
    <3> DEFINE burst == past.burst \/ (does = "rate" /\ Pending({"rate"}))
    <3>1. burst \in BOOLEAN
      BY <1>1, Zenon DEF Pasts
    <3> DEFINE clicks == past.clicks + 1
    <3>2. past' = [past EXCEPT !.clicks = clicks, !.burst = burst]
      BY <1>3
    <3>3. clicks \in Nat
      BY <1>1 DEF Pasts
    <3> HIDE DEF burst, clicks
    <3> QED BY <3>1, <3>2, <3>3, <1>1 DEF Pasts
  <2> QED BY <2>1, <1>1, <1>3, <1>4 DEF PageTypes
<1>7. Orderly'
  BY <1>1, <1>2, <1>4, <1>5 DEF PageInv, Orderly
<1>8. PropsFresh'
  <2>1. past'.behind = past.behind
    BY <1>1, <1>3 DEF Pasts
  <2>2. Accepted(Kinds \ {"like"}) => Accepted(Kinds \ {"like"})'
    BY <1>1, <1>5 DEF Accepted, Quiet
  <2> QED BY <2>1, <2>2, <1>3, <1>4 DEF PageInv, PropsFresh, Same
<1>a. past'.astray = past.astray /\ past'.unread = past.unread
  BY <1>1, <1>3 DEF Pasts
<1>9. FollowTold'
  <2>1. \A i, j \in DOMAIN tab'.queue :
          tab'.queue[i].does \in Follows /\ tab'.queue[j].does \in Follows => i = j
    <3>1. \A i, j \in DOMAIN q : q[i].does \in Follows /\ q[j].does \in Follows => i = j
      BY DEF PageInv, FollowTold
    <3>2. does \in Follows => \A i \in DOMAIN q : q[i].does \notin Follows
      BY DEF Clicked, Pending
    <3> HIDE DEF q
    <3> QED BY <3>1, <3>2, <1>2, <1>5
  <2>2. ASSUME "following" \notin past'.astray PROVE FollowShown'
    <3>1. CASE does \in Follows
      <4>1. Pending(Follows)'
        BY <1>2, <1>5, <3>1 DEF Pending
      <4>2. ~Pending(Follows) /\ ((does = "follow") <=> ~tab.following)
        BY <3>1 DEF Clicked
      <4>3. server.following = tab.following /\ server.following \in BOOLEAN
        BY <4>2, <2>2, <1>a, <1>1 DEF PageInv, FollowTold, FollowShown, Rows
      <4>4. FollowRow(new, server)
        BY <4>2, <4>3, <1>2 DEF FollowRow
      <4>5. ASSUME NEW i \in DOMAIN tab'.queue, tab'.queue[i].does \in Follows
            PROVE  tab'.queue[i] = new
        <5>1. \A j \in DOMAIN q : q[j].does \notin Follows
          BY <4>2 DEF Pending
        <5> HIDE DEF q
        <5> QED BY <5>1, <4>5, <1>5
      <4> QED BY <4>1, <4>4, <4>5, <1>2, <1>3 DEF FollowShown, FollowRow
    <3>2. CASE does \notin Follows
      <4>1. Pending(Follows) <=> Pending(Follows)'
        BY <1>2, <1>5, <3>2, SMTT(30) DEF Pending
      <4>2. tab'.following = tab.following
        BY <3>2, <1>4 DEF Clicked
      <4>3. FollowShown
        BY <2>2, <1>a DEF PageInv, FollowTold
      <4>4. ASSUME NEW i \in DOMAIN tab'.queue, tab'.queue[i].does \in Follows
            PROVE  FollowRow(tab'.queue[i], server')
        <5>1. i \in DOMAIN q /\ tab'.queue[i] = q[i]
          BY <4>4, <1>2, <1>5, <3>2
        <5> QED BY <5>1, <4>3, <4>4, <1>3 DEF FollowShown, FollowRow
      <4> QED BY <4>1, <4>2, <4>3, <4>4, <1>3 DEF FollowShown
    <3> QED BY <3>1, <3>2
  <2> QED BY <2>1, <2>2 DEF FollowTold
<1>10. LikeTold'
  <2>1. \A i, j \in DOMAIN tab'.queue :
          tab'.queue[i].does = "like" /\ tab'.queue[j].does = "like" => i = j
    <3>1. \A i, j \in DOMAIN q : q[i].does = "like" /\ q[j].does = "like" => i = j
      BY DEF PageInv, LikeTold
    <3>2. does = "like" => \A i \in DOMAIN q : q[i].does # "like"
      BY DEF Clicked, Pending
    <3> HIDE DEF q
    <3> QED BY <3>1, <3>2, <1>2, <1>5
  <2> SUFFICES ASSUME "like" \notin past'.astray
               PROVE  LikeShown'
    BY <2>1 DEF LikeTold
  <2>2. LikeShown
    BY <1>a DEF PageInv, LikeTold
  <2>3. ~Quiet' /\ tab'.queue[1].answered => ~Quiet /\ tab'.queue[1] = q[1]
    BY <1>1, <1>2, <1>5 DEF Quiet
  <2>4. ~Quiet' /\ tab'.queue[1].answered => SameLikes(tab'.queue[1].seen, server')
    BY <2>2, <2>3, <1>3 DEF LikeShown, SameLikes
  <2>5. Accepted({"like"}) => Accepted({"like"})'
    BY <1>1, <1>5 DEF Accepted, Quiet
  <2>6. past'.unread \/ Accepted({"like"})' \/ SameLikes(tab'.props, server')
    BY <2>2, <2>5, <1>3, <1>4, <1>a DEF LikeShown, SameLikes
  <2>7. ASSUME NEW i \in DOMAIN tab'.queue, tab'.queue[i].does = "like"
        PROVE  \/ tab'.queue[i].risky \/ (tab'.queue[i].answered /\ tab'.queue[i].ok)
               \/ SameLikes(tab'.queue[i].closure, server')
    <3>1. CASE i \in DOMAIN q
      <4>1. tab'.queue[i] = q[i]
        BY <3>1, <1>5
      <4> QED BY <3>1, <4>1, <2>2, <2>7, <1>3 DEF LikeShown, SameLikes
    <3>2. CASE i \notin DOMAIN q
      <4>1. tab'.queue[i] = new
        <5> HIDE DEF q
        <5> QED BY <3>2, <1>5
      <4>2. ~Pending({"like"})
        BY <4>1, <2>7, <1>2 DEF Clicked
      <4>3. ~Accepted({"like"})
        BY <4>2, <1>1 DEF Accepted, Pending, Quiet
      <4> QED BY <4>1, <4>3, <2>2, <1>2, <1>3 DEF LikeShown, SameLikes
    <3> QED BY <3>1, <3>2
  <2>8. ASSUME ~Pending({"like"})'
        PROVE  tab'.liked = server'.liked /\ tab'.likes = Likes(server')
    <3>1. ~Pending({"like"}) /\ does # "like"
      BY <2>8, <1>2, <1>5 DEF Pending
    <3> QED BY <3>1, <2>2, <1>3, <1>4 DEF LikeShown, Clicked
  <2> QED BY <2>4, <2>6, <2>7, <2>8 DEF LikeShown
<1>11. RatingTold'
  <2> SUFFICES ASSUME Steady' PROVE RatingShown'
    BY DEF RatingTold
  <2>1. Steady
    <3>1. Pending({"remove", "save review"}) => Pending({"remove", "save review"})'
      <4>1. ASSUME NEW i \in DOMAIN q PROVE i \in DOMAIN tab'.queue /\ tab'.queue[i] = q[i]
        <5> HIDE DEF q
        <5> QED BY <1>1, <1>5
      <4> QED BY <4>1 DEF Pending
    <3> QED BY <3>1, <1>a DEF Steady
  <2>2. RatingShown
    BY <2>1 DEF PageInv, RatingTold
  <2>3. \A i \in DOMAIN tab'.queue : Rates(i)' <=> \/ i \in DOMAIN q /\ Rates(i)
                                                   \/ i = n /\ does = "rate"
    <3> HIDE DEF q
    <3> QED BY <1>2, <1>5 DEF Rates, q
  <2>4. ~Quiet' /\ tab'.queue[1].answered => ~Quiet /\ tab'.queue[1] = q[1]
    BY <1>1, <1>2, <1>5 DEF Quiet
  <2>5. ~Quiet' /\ tab'.queue[1].answered => tab'.queue[1].seen.rating = server'.rating
    BY <2>2, <2>4, <1>3 DEF RatingShown
  <2>6. Accepted({"rate"}) <=> Accepted({"rate"})'
    BY <1>1, <1>2, <1>5 DEF Accepted, Quiet
  <2>7. Accepted({"rate"})' \/ tab'.props.rating = server'.rating
    BY <2>2, <2>6, <1>3, <1>4 DEF RatingShown
  <2>8. Accepted({"rate"})' => server'.rating = tab'.queue[1].to
    BY <2>2, <2>4, <2>6, <1>3 DEF RatingShown, Accepted
  <2>9. ASSUME ~Pending({"rate"})' PROVE tab'.rating = server'.rating
    <3>1. ~Pending({"rate"}) /\ does # "rate"
      BY <2>9, <1>2, <1>5 DEF Pending
    <3> QED BY <3>1, <2>2, <1>3, <1>4 DEF RatingShown, Clicked
  <2>10. ASSUME NEW i \in DOMAIN tab'.queue, Rates(i)',
                \A j \in DOMAIN tab'.queue : j > i => ~Rates(j)'
         PROVE  tab'.rating = tab'.queue[i].to
    <3>1. CASE does = "rate"
      <4>1. i = n
        <5> HIDE DEF q
        <5> QED BY <3>1, <2>3, <2>10, <1>1, <1>5 DEF q
      <4> QED BY <4>1, <3>1, <1>2, <1>4, <1>5 DEF Clicked
    <3>2. CASE does # "rate"
      <4>1. i \in DOMAIN q /\ Rates(i)
        BY <3>2, <2>3, <2>10
      <4>2. \A j \in DOMAIN q : j > i => ~Rates(j)
        BY <2>3, <2>10, <1>1, <1>5
      <4> QED BY <4>1, <4>2, <3>2, <2>2, <1>4, <1>5 DEF RatingShown, Clicked
    <3> QED BY <3>1, <3>2
  <2>11. ASSUME ~past'.burst
         PROVE  /\ \A i, j \in DOMAIN tab'.queue : Rates(i)' /\ Rates(j)' => i = j
                /\ \A i \in DOMAIN tab'.queue :
                     Rates(i)' => \/ tab'.queue[i].answered /\ tab'.queue[i].ok
                                  \/ tab'.queue[i].closure.rating = server'.rating
    <3>1. ~past.burst /\ (does = "rate" => ~Pending({"rate"}))
      BY <2>11, <1>1, <1>3 DEF Pasts
    <3>2. does = "rate" => \A i \in DOMAIN q : ~Rates(i)
      BY <3>1 DEF Pending, Rates
    <3>3. \A i, j \in DOMAIN q : Rates(i) /\ Rates(j) => i = j
      BY <3>1, <2>2 DEF RatingShown
    <3>4. \A i, j \in DOMAIN tab'.queue : Rates(i)' /\ Rates(j)' => i = j
      BY <3>2, <3>3, <2>3
    <3>5. ASSUME NEW i \in DOMAIN tab'.queue, Rates(i)'
          PROVE  \/ tab'.queue[i].answered /\ tab'.queue[i].ok
                 \/ tab'.queue[i].closure.rating = server'.rating
      <4>1. CASE i \in DOMAIN q /\ Rates(i)
        BY <4>1, <3>1, <2>2, <1>3, <1>5 DEF RatingShown
      <4>2. CASE i = n /\ does = "rate"
        <5>1. ~Accepted({"rate"})
          BY <4>2, <3>1, <1>1 DEF Accepted, Pending, Quiet
        <5> QED BY <5>1, <4>2, <2>2, <1>2, <1>3, <1>5 DEF RatingShown
      <4> QED BY <4>1, <4>2, <3>5, <2>3
    <3> QED BY <3>4, <3>5
  <2> QED BY <2>5, <2>7, <2>8, <2>9, <2>10, <2>11 DEF RatingShown
<1> QED BY <1>6, <1>7, <1>8, <1>9, <1>10, <1>11 DEF PageInv

\* Every click of the page sets no more than the control it is of.
LEMMA ClicksAre ==
  ASSUME PageAssumption, PageInv,
         \/ \E e \in Episodes : ToggleEpisode(e) \/ UpToHere(e)
         \/ MarkSeason \/ AddToLibrary \/ RemoveShow \/ WatchNext
         \/ \E v \in Stars : Rate(v) \/ SaveReview(v)
         \/ DeleteReview \/ ToggleLike \/ ToggleFollow
  PROVE  \E does, to, change : Clicked(does, to, change)
<1>1. tab \in Tabs /\ Stars \subseteq Nat /\ LastEpisode \in Nat \ {0}
  BY PageAssumption DEF PageInv, PageTypes
<1>2. ASSUME NEW does \in Kinds \ ({"refresh", "rate", "like"} \cup Follows), NEW to \in Nat,
             does = "save review" => to \in Stars, does \in ListKinds => to \in Episodes,
             Click(does, to, tab)
      PROVE  Clicked(does, to, tab)
  BY <1>1, <1>2 DEF Clicked
<1>3. ASSUME NEW e \in Episodes, ToggleEpisode(e)
      PROVE  \E does, to, change : Clicked(does, to, change)
  <2> DEFINE on == e \notin ShownTicks
             does == IF on THEN "tick" ELSE "untick"
             one == [episode |-> e, on |-> on]
             change == [tab EXCEPT !.optimistic = Append(@, one)]
  <2>1. Click(does, e, change)
    BY <1>3 DEF ToggleEpisode
  <2>2. one \in [episode : Episodes, on : BOOLEAN]
    OBVIOUS
  <2>3. change \in Tabs /\ change.props = tab.props /\ change.queue = tab.queue
        /\ change.following = tab.following /\ change.rating = tab.rating
        /\ change.liked = tab.liked /\ change.likes = tab.likes
    <3>1. Append(tab.optimistic, one) \in Seq([episode : Episodes, on : BOOLEAN])
      <4> HIDE DEF one
      <4> QED BY <1>1, <2>2 DEF Tabs
    <3> HIDE DEF one
    <3> QED BY <1>1, <3>1 DEF Tabs
  <2>4. does \in ListKinds /\ e \in Nat
    BY <1>1 DEF ListKinds, Episodes
  <2> HIDE DEF does, change
  <2>5. Clicked(does, e, change)
    BY <2>1, <2>3, <2>4 DEF Clicked, Kinds, ListKinds, Follows
  <2> QED BY <2>5
<1>4. ASSUME NEW e \in Episodes, UpToHere(e)
      PROVE  Clicked("up to", e, tab)
  <2>1. e \in Nat /\ "up to" \in Kinds \ ({"refresh", "rate", "like"} \cup Follows)
    BY <1>1 DEF Episodes, Kinds, ListKinds, Follows
  <2> QED BY <1>2, <1>4, <2>1 DEF UpToHere
<1>5. ASSUME MarkSeason PROVE Clicked("season", LastEpisode, tab)
  <2>1. /\ LastEpisode \in Nat /\ LastEpisode \in Episodes
        /\ "season" \in Kinds \ ({"refresh", "rate", "like"} \cup Follows)
    BY <1>1 DEF Episodes, Kinds, ListKinds, Follows
  <2> QED BY <1>2, <1>5, <2>1 DEF MarkSeason
<1>6. ASSUME AddToLibrary PROVE Clicked("add", 0, tab)
  BY <1>1, <1>2, <1>6 DEF AddToLibrary, Kinds, ListKinds, PanelKinds, Follows
<1>7. ASSUME RemoveShow PROVE Clicked("remove", 0, tab)
  BY <1>1, <1>2, <1>7 DEF RemoveShow, Kinds, ListKinds, PanelKinds, Follows
<1>8. ASSUME WatchNext PROVE Clicked("continue", 0, tab)
  BY <1>1, <1>2, <1>8 DEF WatchNext, Kinds, ListKinds, PanelKinds, Follows
<1>9. ASSUME NEW v \in Stars, Rate(v)
      PROVE  \E does, to, change : Clicked(does, to, change)
  <2> DEFINE next == IF tab.rating = v THEN NoStars ELSE v
             change == [tab EXCEPT !.rating = next]
  <2>1. Click("rate", next, change)
    BY <1>9 DEF Rate
  <2>2. next \in Stars \cup {NoStars} /\ next \in Nat
    BY <1>1 DEF NoStars
  <2>3. change \in Tabs /\ change.props = tab.props /\ change.queue = tab.queue
        /\ change.following = tab.following /\ change.rating = next
        /\ change.liked = tab.liked /\ change.likes = tab.likes
    <3> HIDE DEF next
    <3> QED BY <1>1, <2>2 DEF Tabs
  <2> HIDE DEF next, change
  <2>4. Clicked("rate", next, change)
    BY <2>1, <2>2, <2>3 DEF Clicked, Kinds, PanelKinds, ListKinds, Follows
  <2> QED BY <2>4
<1>10. ASSUME NEW v \in Stars, SaveReview(v) PROVE Clicked("save review", v, tab)
  BY <1>1, <1>2, <1>10 DEF SaveReview, Kinds, ListKinds, Follows
<1>11. ASSUME DeleteReview PROVE Clicked("delete review", 0, tab)
  BY <1>1, <1>2, <1>11 DEF DeleteReview, Kinds, ListKinds, Follows
<1>12. ASSUME ToggleLike PROVE \E does, to, change : Clicked(does, to, change)
  <2> DEFINE change == [tab EXCEPT !.liked = ~@,
                                   !.likes = IF tab.liked THEN @ - 1 ELSE @ + 1]
  <2>1. Click("like", 0, change) /\ ~Pending({"like"})
    BY <1>12 DEF ToggleLike
  <2>2. change \in Tabs /\ change.props = tab.props /\ change.queue = tab.queue
        /\ change.following = tab.following /\ change.rating = tab.rating
    <3> DEFINE liked == ~tab.liked
               likes == IF tab.liked THEN tab.likes - 1 ELSE tab.likes + 1
    <3>1. liked \in BOOLEAN /\ likes \in Int
      BY <1>1 DEF Tabs
    <3>2. change = [tab EXCEPT !.liked = liked, !.likes = likes]
      OBVIOUS
    <3> HIDE DEF liked, likes, change
    <3> QED BY <1>1, <3>1, <3>2 DEF Tabs
  <2> HIDE DEF change
  <2>3. Clicked("like", 0, change)
    BY <2>1, <2>2 DEF Clicked, Kinds, ListKinds, Follows
  <2> QED BY <2>3
<1>13. ASSUME ToggleFollow PROVE \E does, to, change : Clicked(does, to, change)
  <2> DEFINE does == IF tab.following THEN "unfollow" ELSE "follow"
             following == ~tab.following
             change == [tab EXCEPT !.following = following]
  <2>1. Click(does, 0, change) /\ ~Pending(Follows)
    BY <1>13 DEF ToggleFollow, Follows
  <2>2. following \in BOOLEAN /\ (following <=> ~tab.following) /\ following = ~tab.following
    OBVIOUS
  <2>3. change \in Tabs /\ change.props = tab.props /\ change.queue = tab.queue
        /\ change.following = following /\ change.rating = tab.rating
        /\ change.liked = tab.liked /\ change.likes = tab.likes
    <3> HIDE DEF following
    <3> QED BY <1>1, <2>2 DEF Tabs
  <2>4. does \in Follows /\ ((does = "follow") <=> ~tab.following)
    BY DEF Follows
  <2> HIDE DEF does, change, following
  <2>5. Clicked(does, 0, change)
    BY <2>1, <2>2, <2>3, <2>4 DEF Clicked, Kinds, ListKinds, Follows
  <2> QED BY <2>5
<1> QED
  BY <1>3, <1>4, <1>5, <1>6, <1>7, <1>8, <1>9, <1>10, <1>11, <1>12, <1>13

\* The request at the head is answered: nothing else of the tab changes.
LEMMA ServeKeeps ==
  ASSUME PageAssumption, PageInv, Serve
  PROVE  PageInv'
<1> DEFINE q == tab.queue
           r == tab.queue[1]
<1>1. /\ server \in Rows /\ tab \in Tabs /\ q \in Seq(Requests) /\ past \in Pasts
      /\ q # <<>> /\ Len(q) \in Nat \ {0} /\ DOMAIN q = 1..Len(q) /\ 1 \in DOMAIN q
      /\ r \in Requests /\ ~r.answered
  <2>1. tab \in Tabs /\ q \in Seq(Requests)
    BY DEF PageInv, PageTypes, Tabs
  <2>2. q # <<>> /\ ~Head(q).answered
    BY DEF Serve, Quiet
  <2> HIDE DEF q
  <2>3. Head(q) = q[1] /\ Len(q) \in Nat \ {0} /\ DOMAIN q = 1..Len(q) /\ 1 \in DOMAIN q
    BY <2>1, <2>2
  <2> QED BY <2>1, <2>2, <2>3 DEF PageInv, PageTypes, q
<1>2. PICK out \in Outcomes(server, r) :
        /\ server' = out.rows
        /\ tab' = [tab EXCEPT !.queue[1].answered = TRUE, !.queue[1].ok = out.ok,
                              !.queue[1].seen = out.rows]
        /\ past' = IF out.ok \/ out.rows = server THEN past
                   ELSE [past EXCEPT !.behind = TRUE]
  <2>1. Head(q) = r
    BY <1>1
  <2> QED BY <2>1 DEF Serve
<1>3. OutcomeTold(server, r, out)
  BY <1>1, OutcomeIs
<1> DEFINE new == [r EXCEPT !.answered = TRUE, !.ok = out.ok, !.seen = out.rows]
<1>4. /\ new \in Requests /\ new.does = r.does /\ new.to = r.to
      /\ new.closure = r.closure /\ new.risky = r.risky
      /\ new.answered /\ new.ok = out.ok /\ new.seen = out.rows
  <2>1. out.ok \in BOOLEAN /\ out.rows \in Rows
    BY <1>3 DEF OutcomeTold, EffectTold
  <2> QED BY <2>1, <1>1 DEF Requests
<1>5. tab' = [tab EXCEPT !.queue = [q EXCEPT ![1] = new]]
  BY <1>1, <1>2 DEF Tabs
<1> HIDE DEF new
<1>6. /\ [q EXCEPT ![1] = new] \in Seq(Requests) /\ tab' \in Tabs
      /\ tab'.queue = [q EXCEPT ![1] = new]
      /\ tab'.props = tab.props /\ tab'.rating = tab.rating
      /\ tab'.liked = tab.liked /\ tab'.likes = tab.likes
      /\ tab'.following = tab.following /\ tab'.optimistic = tab.optimistic
  <2>1. [q EXCEPT ![1] = new] \in Seq(Requests)
    <3> HIDE DEF q
    <3> QED BY <1>1, <1>4
  <2> HIDE DEF q
  <2> QED BY <2>1, <1>1, <1>5 DEF Tabs
<1>7. /\ DOMAIN tab'.queue = DOMAIN q /\ tab'.queue[1] = new
      /\ \A i \in DOMAIN q : i # 1 => tab'.queue[i] = q[i]
      /\ \A i \in DOMAIN q : /\ tab'.queue[i].does = q[i].does /\ tab'.queue[i].to = q[i].to
                             /\ tab'.queue[i].closure = q[i].closure
                             /\ tab'.queue[i].risky = q[i].risky
      /\ tab'.queue # <<>>
  <2> HIDE DEF q
  <2> QED BY <1>1, <1>4, <1>6 DEF q
<1>8. /\ past' \in Pasts /\ past'.astray = past.astray /\ past'.burst = past.burst
      /\ past'.unread = past.unread
      /\ ~past'.behind => ~past.behind /\ (out.ok \/ out.rows = server)
  BY <1>1, <1>2 DEF Pasts
<1>9. out.rows \in Rows
  BY <1>3 DEF OutcomeTold, EffectTold
<1>10. \A kinds : /\ Pending(kinds)' <=> Pending(kinds)
                  /\ ~Accepted(kinds)
                  /\ Accepted(kinds)' <=> out.ok /\ r.does \in kinds
  BY <1>1, <1>4, <1>7 DEF Pending, Accepted, Quiet
<1>11. PageTypes'
  BY <1>2, <1>6, <1>8, <1>9 DEF PageTypes
<1>12. Orderly'
  <2>1. \A i \in DOMAIN q : i > 1 => ~q[i].answered
    BY DEF PageInv, Orderly
  <2> HIDE DEF q
  <2> QED BY <2>1, <1>1, <1>7 DEF Orderly
<1>13. PropsFresh'
  <2> SUFFICES ASSUME ~past'.behind, ~Accepted(Kinds \ {"like"})'
               PROVE  Same(tab'.props, server')
    BY DEF PropsFresh
  <2>1. ~past.behind /\ (out.ok \/ out.rows = server)
    BY <1>8
  <2>2. Same(tab.props, server)
    BY <2>1, <1>10 DEF PageInv, PropsFresh
  <2>3. ~out.ok \/ r.does = "like"
    BY <1>1, <1>10 DEF Requests
  <2>4. Same(out.rows, server)
    BY <2>1, <2>3, <1>3 DEF OutcomeTold, EffectTold, Same
  <2> QED BY <2>2, <2>4, <1>2, <1>6 DEF Same
<1>14. FollowTold'
  <2>1. \A i, j \in DOMAIN q : q[i].does \in Follows /\ q[j].does \in Follows => i = j
    BY DEF PageInv, FollowTold
  <2>2. \A i, j \in DOMAIN tab'.queue :
          tab'.queue[i].does \in Follows /\ tab'.queue[j].does \in Follows => i = j
    <3> HIDE DEF q
    <3> QED BY <2>1, <1>7
  <2> SUFFICES ASSUME "following" \notin past'.astray PROVE FollowShown'
    BY <2>2 DEF FollowTold
  <2>3. FollowShown
    BY <1>8 DEF PageInv, FollowTold
  <2>4. r.does \notin Follows => out.rows.following = server.following
    BY <1>3 DEF OutcomeTold, EffectTold
  <2>5. ASSUME ~Pending(Follows)' PROVE tab'.following = server'.following
    <3>1. ~Pending(Follows) /\ r.does \notin Follows
      BY <2>5, <1>1, <1>10 DEF Pending
    <3> QED BY <3>1, <2>3, <2>4, <1>2, <1>6 DEF FollowShown
  <2>6. ASSUME NEW i \in DOMAIN tab'.queue, tab'.queue[i].does \in Follows
        PROVE  FollowRow(tab'.queue[i], server')
    <3>1. i \in DOMAIN q /\ q[i].does \in Follows /\ FollowRow(q[i], server)
      BY <2>3, <2>6, <1>7 DEF FollowShown
    <3>2. CASE i = 1
      <4>1. CASE ~out.ok
        <5>1. out.rows.following = server.following
          BY <4>1, <1>3 DEF OutcomeTold
        <5> QED BY <5>1, <4>1, <3>1, <3>2, <1>1, <1>2, <1>4, <1>7 DEF FollowRow
      <4>2. CASE out.ok /\ r.does = "follow"
        BY <4>2, <3>2, <1>2, <1>3, <1>4, <1>7 DEF FollowRow, OutcomeTold
      <4>3. CASE out.ok /\ r.does = "unfollow"
        BY <4>3, <3>2, <1>2, <1>3, <1>4, <1>7 DEF FollowRow, OutcomeTold
      <4> QED BY <4>1, <4>2, <4>3, <3>1, <3>2 DEF Follows
    <3>3. CASE i # 1
      <4>1. r.does \notin Follows
        BY <2>1, <3>1, <3>3, <1>1
      <4> QED BY <4>1, <2>4, <3>1, <3>3, <1>2, <1>7 DEF FollowRow
    <3> QED BY <3>2, <3>3
  <2> QED BY <2>5, <2>6 DEF FollowShown
<1>15. LikeTold'
  <2>1. \A i, j \in DOMAIN q : q[i].does = "like" /\ q[j].does = "like" => i = j
    BY DEF PageInv, LikeTold
  <2>2. \A i, j \in DOMAIN tab'.queue :
          tab'.queue[i].does = "like" /\ tab'.queue[j].does = "like" => i = j
    <3> HIDE DEF q
    <3> QED BY <2>1, <1>7
  <2> SUFFICES ASSUME "like" \notin past'.astray PROVE LikeShown'
    BY <2>2 DEF LikeTold
  <2>3. LikeShown
    BY <1>8 DEF PageInv, LikeTold
  <2>4. ~out.ok \/ r.does # "like" => SameLikes(out.rows, server)
    BY <1>3 DEF OutcomeTold, EffectTold
  <2>5. ~Quiet' /\ tab'.queue[1].answered => SameLikes(tab'.queue[1].seen, server')
    BY <1>2, <1>4, <1>7 DEF SameLikes
  <2>6. past'.unread \/ Accepted({"like"})' \/ SameLikes(tab'.props, server')
    BY <2>3, <2>4, <1>2, <1>6, <1>8, <1>10 DEF LikeShown, SameLikes
  <2>7. ASSUME NEW i \in DOMAIN tab'.queue, tab'.queue[i].does = "like"
        PROVE  \/ tab'.queue[i].risky \/ (tab'.queue[i].answered /\ tab'.queue[i].ok)
               \/ SameLikes(tab'.queue[i].closure, server')
    <3>1. /\ i \in DOMAIN q /\ q[i].does = "like"
          /\ \/ q[i].risky \/ (q[i].answered /\ q[i].ok) \/ SameLikes(q[i].closure, server)
      BY <2>3, <2>7, <1>7 DEF LikeShown
    <3>2. CASE i = 1
      BY <3>1, <3>2, <2>4, <1>1, <1>2, <1>4, <1>7 DEF SameLikes
    <3>3. CASE i # 1
      <4>1. r.does # "like"
        BY <2>1, <3>1, <3>3, <1>1
      <4> QED BY <4>1, <2>4, <3>1, <3>3, <1>2, <1>7 DEF SameLikes
    <3> QED BY <3>2, <3>3
  <2>8. ASSUME ~Pending({"like"})'
        PROVE  tab'.liked = server'.liked /\ tab'.likes = Likes(server')
    <3>1. ~Pending({"like"}) /\ r.does # "like"
      BY <2>8, <1>1, <1>10 DEF Pending
    <3> QED BY <3>1, <2>3, <2>4, <1>2, <1>6 DEF LikeShown, SameLikes, Likes
  <2> QED BY <2>5, <2>6, <2>7, <2>8 DEF LikeShown
<1>16. RatingTold'
  <2> SUFFICES ASSUME Steady' PROVE RatingShown'
    BY DEF RatingTold
  <2>1. Steady /\ r.does \notin {"remove", "save review"}
    BY <1>1, <1>8, <1>10 DEF Steady, Pending
  <2>2. RatingShown
    BY <2>1 DEF PageInv, RatingTold
  <2>3. \A i \in DOMAIN q : Rates(i)' <=> Rates(i)
    <3> HIDE DEF q
    <3> QED BY <1>7 DEF Rates, q
  <2>4. ~out.ok \/ r.does # "rate" => out.rows.rating = server.rating
    BY <2>1, <1>3 DEF OutcomeTold, EffectTold
  <2>5. ~Quiet' /\ tab'.queue[1].answered => tab'.queue[1].seen.rating = server'.rating
    BY <1>2, <1>4, <1>7
  <2>6. Accepted({"rate"})' \/ tab'.props.rating = server'.rating
    BY <2>2, <2>4, <1>2, <1>6, <1>10 DEF RatingShown
  <2>7. Accepted({"rate"})' => server'.rating = tab'.queue[1].to
    <3>1. Accepted({"rate"})' => out.ok /\ r.does = "rate"
      BY <1>10
    <3>2. out.ok /\ r.does = "rate" => out.rows.rating = r.to
      BY <1>3 DEF OutcomeTold
    <3>3. tab'.queue[1].to = r.to /\ server' = out.rows
      BY <1>2, <1>4, <1>7
    <3> QED BY <3>1, <3>2, <3>3
  <2>8. ASSUME ~Pending({"rate"})' PROVE tab'.rating = server'.rating
    <3>1. ~Pending({"rate"}) /\ r.does # "rate"
      BY <2>8, <1>1, <1>10 DEF Pending
    <3> QED BY <3>1, <2>2, <2>4, <1>2, <1>6 DEF RatingShown
  <2>9. ASSUME NEW i \in DOMAIN tab'.queue, Rates(i)',
               \A j \in DOMAIN tab'.queue : j > i => ~Rates(j)'
        PROVE  tab'.rating = tab'.queue[i].to
    BY <2>2, <2>3, <2>9, <1>6, <1>7 DEF RatingShown
  <2>10. ASSUME ~past'.burst
         PROVE  /\ \A i, j \in DOMAIN tab'.queue : Rates(i)' /\ Rates(j)' => i = j
                /\ \A i \in DOMAIN tab'.queue :
                     Rates(i)' => \/ tab'.queue[i].answered /\ tab'.queue[i].ok
                                  \/ tab'.queue[i].closure.rating = server'.rating
    <3>1. \A i, j \in DOMAIN q : Rates(i) /\ Rates(j) => i = j
      BY <2>2, <2>10, <1>8 DEF RatingShown
    <3>2. \A i, j \in DOMAIN tab'.queue : Rates(i)' /\ Rates(j)' => i = j
      BY <3>1, <2>3, <1>7
    <3>3. ASSUME NEW i \in DOMAIN tab'.queue, Rates(i)'
          PROVE  \/ tab'.queue[i].answered /\ tab'.queue[i].ok
                 \/ tab'.queue[i].closure.rating = server'.rating
      <4>1. i \in DOMAIN q /\ Rates(i)
        BY <3>3, <2>3, <1>7
      <4>2. \/ q[i].answered /\ q[i].ok
            \/ q[i].closure.rating = server.rating
        BY <4>1, <2>2, <2>10, <1>8 DEF RatingShown
      <4>3. CASE i = 1
        BY <4>2, <4>3, <2>4, <1>1, <1>2, <1>4, <1>7, ZenonT(40)
      <4>4. CASE i # 1
        <5>1. r.does # "rate"
          BY <3>1, <4>1, <4>4, <1>1 DEF Rates
        <5> QED BY <5>1, <4>2, <4>4, <2>4, <1>2, <1>7
      <4> QED BY <4>3, <4>4
    <3> QED BY <3>2, <3>3
  <2> QED BY <2>5, <2>6, <2>7, <2>8, <2>9, <2>10 DEF RatingShown
<1> QED BY <1>11, <1>12, <1>13, <1>14, <1>15, <1>16 DEF PageInv

\* What an answer does to the copies: nothing but to the control it is of.
AnsweredTold(r, t) ==
  /\ t \in Tabs
  /\ t.props = tab.props /\ t.queue = tab.queue /\ t.optimistic = tab.optimistic
  /\ r.does \notin Follows => t.following = tab.following
  /\ r.does \in Follows => t.following = ((r.does = "follow") = r.ok)
  /\ r.does # "like" => t.liked = tab.liked /\ t.likes = tab.likes
  /\ r.does = "like" /\ r.ok => t.liked = r.seen.liked /\ t.likes = Likes(r.seen)
  /\ r.does = "like" /\ ~r.ok => t.liked = r.closure.liked /\ t.likes = Likes(r.closure)
  /\ r.does # "rate" \/ r.ok => t.rating = tab.rating
  /\ r.does = "rate" /\ ~r.ok => t.rating = r.closure.rating

\* A count of likes is a number.
LEMMA LikesAre == ASSUME NEW rows \in Rows PROVE Likes(rows) \in Int
BY DEF Rows, Likes

\* What a handler makes of the copies when its answer arrives.
LEMMA AnsweredIs ==
  ASSUME tab \in Tabs, NEW r \in Requests
  PROVE  AnsweredTold(r, Answered(tab, r))
<1>1. r.ok \in BOOLEAN /\ r.seen \in Rows /\ r.closure \in Rows
  BY DEF Requests
<1>2. CASE r.does = "rate" /\ ~r.ok
  <2>1. Answered(tab, r) = [tab EXCEPT !.rating = r.closure.rating]
    BY <1>2 DEF Answered
  <2>2. r.closure.rating \in Stars \cup {NoStars}
    BY <1>1 DEF Rows
  <2> QED BY <1>2, <2>1, <2>2 DEF AnsweredTold, Tabs, Follows
<1>3. CASE r.does = "like"
  <2> DEFINE liked == IF r.ok THEN r.seen.liked ELSE r.closure.liked
             likes == IF r.ok THEN Likes(r.seen) ELSE Likes(r.closure)
  <2>1. Answered(tab, r) = [tab EXCEPT !.liked = liked, !.likes = likes]
    BY <1>3 DEF Answered
  <2>2. liked \in BOOLEAN /\ likes \in Int
    <3>1. r.seen.liked \in BOOLEAN /\ r.closure.liked \in BOOLEAN
      BY <1>1 DEF Rows
    <3> QED BY <3>1, <1>1, LikesAre
  <2>3. [tab EXCEPT !.liked = liked, !.likes = likes] \in Tabs
    <3> HIDE DEF liked, likes
    <3> QED BY <2>2 DEF Tabs
  <2> QED BY <1>3, <2>1, <2>3 DEF AnsweredTold, Tabs, Follows
<1>4. CASE r.does \in Follows
  <2> DEFINE following == (r.does = "follow") = r.ok
  <2>1. Answered(tab, r) = [tab EXCEPT !.following = following]
    BY <1>4 DEF Answered, FollowAnswered, Follows
  <2>2. following \in BOOLEAN
    OBVIOUS
  <2> HIDE DEF following
  <2>3. [tab EXCEPT !.following = following] \in Tabs
    BY <2>2 DEF Tabs
  <2>4. [tab EXCEPT !.following = following].following = following
    BY DEF Tabs
  <2> QED BY <1>4, <2>1, <2>3, <2>4 DEF AnsweredTold, Tabs, Follows, following
<1>5. CASE ~(r.does = "rate" /\ ~r.ok) /\ r.does # "like" /\ r.does \notin Follows
  <2>1. Answered(tab, r) = tab
    BY <1>5 DEF Answered, Follows
  <2> QED BY <1>5, <2>1 DEF AnsweredTold
<1> QED BY <1>2, <1>3, <1>4, <1>5

\* Elsewhere changes the rows and owns up to it.
LEMMA ElsewhereKeeps ==
  ASSUME PageAssumption, PageInv, Elsewhere
  PROVE  PageInv'
<1>1. server \in Rows /\ past \in Pasts /\ tab' = tab /\ Stars \subseteq Nat
  BY PageAssumption DEF PageInv, PageTypes, Elsewhere
<1>2. PICK change :
        /\ \/ change = <<[server EXCEPT !.held = TRUE, !.ticks = Episodes], {}>>
           \/ change = <<[server EXCEPT !.liked = ~@], {"like"}>>
           \/ change = <<[server EXCEPT !.others = @ + 1], {"like"}>>
           \/ change = <<[server EXCEPT !.following = ~@], {"following"}>>
           \/ \E v \in Stars : change = <<[server EXCEPT !.rating = v], {"rating"}>>
        /\ server' = change[1]
        /\ past' = [past EXCEPT !.elsewhere = @ + 1, !.behind = TRUE,
                               !.astray = @ \cup change[2]]
  BY DEF Elsewhere
<1>a. \/ server' = [server EXCEPT !.held = TRUE, !.ticks = Episodes] /\ change[2] = {}
      \/ server' = [server EXCEPT !.liked = ~@] /\ change[2] = {"like"}
      \/ server' = [server EXCEPT !.others = @ + 1] /\ change[2] = {"like"}
      \/ server' = [server EXCEPT !.following = ~@] /\ change[2] = {"following"}
      \/ \E v \in Stars : server' = [server EXCEPT !.rating = v] /\ change[2] = {"rating"}
  BY <1>2
<1>b. /\ server'.following = server.following \/ change[2] = {"following"}
      /\ SameLikes(server', server) \/ change[2] = {"like"}
      /\ server'.rating = server.rating \/ change[2] = {"rating"}
  BY <1>1, <1>a DEF Rows, SameLikes
<1> DEFINE astray == past.astray \cup change[2]
           elsewhere == past.elsewhere + 1
<1>3. change[2] \subseteq {"like", "following", "rating"}
  BY <1>2
<1>4. /\ past' \in Pasts /\ past'.astray = astray /\ past'.behind
      /\ past'.unread = past.unread /\ past'.burst = past.burst
  <2>1. /\ past' = [past EXCEPT !.elsewhere = elsewhere, !.behind = TRUE, !.astray = astray]
    BY <1>2
  <2>2. elsewhere \in Nat /\ astray \subseteq {"rating", "like", "following", "none"}
    BY <1>1, <1>3 DEF Pasts
  <2> HIDE DEF astray, elsewhere
  <2> QED BY <1>1, <2>1, <2>2 DEF Pasts
<1>5. server' \in Rows
  <2> DEFINE liked == ~server.liked
             others == server.others + 1
             following == ~server.following
  <2>1. others \in Nat /\ liked \in BOOLEAN /\ following \in BOOLEAN
    BY <1>1 DEF Rows
  <2>2. CASE server' = [server EXCEPT !.held = TRUE, !.ticks = Episodes]
    BY <1>1, <2>2 DEF Rows
  <2>3. CASE server' = [server EXCEPT !.liked = liked]
    <3> HIDE DEF liked
    <3> QED BY <1>1, <2>1, <2>3 DEF Rows
  <2>4. CASE server' = [server EXCEPT !.others = others]
    <3> HIDE DEF others
    <3> QED BY <1>1, <2>1, <2>4 DEF Rows
  <2>5. CASE server' = [server EXCEPT !.following = following]
    <3> HIDE DEF following
    <3> QED BY <1>1, <2>1, <2>5 DEF Rows
  <2>6. CASE \E v \in Stars : server' = [server EXCEPT !.rating = v]
    BY <1>1, <2>6 DEF Rows
  <2> QED BY <1>a, <2>2, <2>3, <2>4, <2>5, <2>6
<1>6. "following" \notin astray => /\ "following" \notin past.astray
                                  /\ server'.following = server.following
  BY <1>b
<1>7. "like" \notin astray => "like" \notin past.astray /\ SameLikes(server', server)
  BY <1>b
<1>8. "rating" \notin astray => "rating" \notin past.astray /\ server'.rating = server.rating
  BY <1>b
<1> HIDE DEF astray
<1>9. PageTypes' /\ Orderly' /\ PropsFresh'
  BY <1>1, <1>4, <1>5 DEF PageInv, PageTypes, Orderly, PropsFresh
<1>10. FollowTold'
  BY <1>1, <1>4, <1>6 DEF PageInv, FollowTold, FollowShown, FollowRow, Pending
<1>11. LikeTold'
  BY <1>1, <1>4, <1>7 DEF PageInv, LikeTold, LikeShown, SameLikes, Likes, Pending, Accepted,
                          Quiet
<1>12. RatingTold'
  BY <1>1, <1>4, <1>8 DEF PageInv, RatingTold, RatingShown, Steady, Rates, Pending, Accepted,
                          Quiet
<1> QED BY <1>9, <1>10, <1>11, <1>12 DEF PageInv

\* Mounted, the page copies what the server holds.
LEMMA MountKeeps ==
  ASSUME PageAssumption, PageInit
  PROVE  PageInv
<1>0. /\ server \in Rows /\ tab = Mounted(server)
      /\ past = Unblemished(0, 0)
  BY PageAssumption DEF PageInit
<1>1. /\ tab \in Tabs /\ tab.props = server /\ tab.rating = server.rating
      /\ tab.liked = server.liked /\ tab.likes = Likes(server)
      /\ tab.following = server.following
      /\ tab.queue = <<>> /\ tab.optimistic = <<>>
  <2>1. Likes(server) \in Int
    BY <1>0, LikesAre
  <2> QED BY <1>0, <2>1 DEF Mounted, Tabs, Rows
<1>2. past \in Pasts
  BY <1>0 DEF Unblemished, Pasts
<1>3. Quiet /\ DOMAIN tab.queue = {}
  BY <1>1 DEF Quiet
<1>4. PageTypes /\ Orderly /\ PropsFresh
  BY <1>0, <1>1, <1>2, <1>3 DEF PageTypes, Orderly, PropsFresh, Same
<1>5. FollowTold
  BY <1>1, <1>3 DEF FollowTold, FollowShown
<1>6. LikeTold
  BY <1>1, <1>3 DEF LikeTold, LikeShown, SameLikes
<1>7. RatingTold
  <2>1. ~Accepted({"rate"})
    BY <1>3 DEF Accepted
  <2> QED BY <1>1, <1>3, <2>1 DEF RatingTold, RatingShown
<1> QED BY <1>4, <1>5, <1>6, <1>7 DEF PageInv

\* So does a reload, which mounts the page anew.
LEMMA ReloadKeeps ==
  ASSUME PageAssumption, PageInv, Reload
  PROVE  PageInv'
<1>0. /\ server' \in Rows /\ tab' = Mounted(server')
      /\ past' = Unblemished(past.clicks, past.elsewhere)
      /\ past.clicks \in Nat /\ past.elsewhere \in Nat
  BY DEF Reload, PageInv, PageTypes, Pasts
<1>1. /\ tab' \in Tabs /\ tab'.props = server' /\ tab'.rating = server'.rating
      /\ tab'.liked = server'.liked /\ tab'.likes = Likes(server')
      /\ tab'.following = server'.following
      /\ tab'.queue = <<>> /\ tab'.optimistic = <<>>
  <2>1. Likes(server') \in Int
    BY <1>0, LikesAre
  <2> QED BY <1>0, <2>1 DEF Mounted, Tabs, Rows
<1>2. past' \in Pasts
  BY <1>0 DEF Unblemished, Pasts
<1>3. Quiet' /\ DOMAIN tab'.queue = {}
  BY <1>1 DEF Quiet
<1>4. PageTypes' /\ Orderly' /\ PropsFresh'
  BY <1>0, <1>1, <1>2, <1>3 DEF PageTypes, Orderly, PropsFresh, Same
<1>5. FollowTold'
  BY <1>1, <1>3 DEF FollowTold, FollowShown
<1>6. LikeTold'
  BY <1>1, <1>3 DEF LikeTold, LikeShown, SameLikes
<1>7. RatingTold'
  <2>1. ~Accepted({"rate"})'
    BY <1>3 DEF Accepted
  <2> QED BY <1>1, <1>3, <2>1 DEF RatingTold, RatingShown
<1> QED BY <1>4, <1>5, <1>6, <1>7 DEF PageInv

\* The queue once the answer at its head is shown: the rest of it, and perhaps
\* a refresh.
Rested(rest) ==
  /\ rest \in Seq(Requests)
  /\ \A i \in DOMAIN rest :
       /\ ~rest[i].answered
       /\ rest[i].does # "refresh" =>
            i + 1 \in DOMAIN tab.queue /\ i > 0 /\ rest[i] = tab.queue[i + 1]
  /\ \A i \in DOMAIN tab.queue : i > 1 =>
       i - 1 \in DOMAIN rest /\ rest[i - 1] = tab.queue[i]
  /\ 1 \in DOMAIN rest \/ rest = <<>>

\* What is left of the queue is still in order, a refresh appended or not.
LEMMA RestIs ==
  ASSUME PageInv, ~Quiet, NEW fresh \in Requests, ~fresh.answered, fresh.does = "refresh"
  PROVE  Rested(Tail(tab.queue)) /\ Rested(Tail(tab.queue) \o <<fresh>>)
<1> DEFINE q == tab.queue
           tail == Tail(q)
           rest == tail \o <<fresh>>
           n == Len(q) - 1
<1>1. /\ q \in Seq(Requests) /\ q # <<>>
      /\ \A i \in DOMAIN q : i > 1 => ~q[i].answered
  BY DEF PageInv, PageTypes, Tabs, Orderly, Quiet
<1> HIDE DEF q
<1>2. n \in Nat /\ Len(q) = n + 1 /\ DOMAIN q = 1..n + 1
  BY <1>1
<1>3. /\ tail \in Seq(Requests) /\ DOMAIN tail = 1..n /\ Len(tail) = n
      /\ \A i \in 1..n : tail[i] = q[i + 1]
  BY <1>1, <1>2
<1>4. \A i \in 1..n : tail[i] = q[i + 1] /\ ~tail[i].answered /\ i + 1 \in DOMAIN q /\ i > 0
  BY <1>1, <1>2, <1>3
<1>5. \A i \in DOMAIN q : i > 1 => i - 1 \in 1..n /\ tail[i - 1] = q[i]
  BY <1>2, <1>3
<1> HIDE DEF tail
<1>6. Rested(tail)
  <2>1. 1 \in DOMAIN tail \/ tail = <<>>
    BY <1>2, <1>3
  <2> QED BY <2>1, <1>3, <1>4, <1>5 DEF Rested, q
<1>7. /\ rest \in Seq(Requests) /\ DOMAIN rest = 1..n + 1
      /\ \A i \in 1..n : rest[i] = tail[i]
      /\ rest[n + 1] = fresh
  <2> DEFINE one == <<fresh>>
  <2>1. one \in Seq(Requests) /\ Len(one) = 1 /\ one[1] = fresh
    OBVIOUS
  <2> HIDE DEF one, n
  <2>2. /\ tail \o one \in Seq(Requests) /\ Len(tail \o one) = n + 1
        /\ \A i \in 1..n : (tail \o one)[i] = tail[i]
        /\ (tail \o one)[n + 1] = one[1]
    <3>1. tail \in Seq(Requests) /\ Len(tail) = n /\ n \in Nat
      BY <1>2, <1>3
    <3>2. /\ tail \o one \in Seq(Requests) /\ Len(tail \o one) = Len(tail) + Len(one)
          /\ \A i \in 1..Len(tail) + Len(one) :
               (tail \o one)[i] = IF i <= Len(tail) THEN tail[i] ELSE one[i - Len(tail)]
      BY <3>1, <2>1, ConcatProperties
    <3> QED BY <3>1, <3>2, <2>1
  <2>3. DOMAIN (tail \o one) = 1..n + 1
    BY <2>2
  <2> QED BY <2>1, <2>2, <2>3 DEF one
<1> HIDE DEF rest
<1>8. Rested(rest)
  <2>1. ASSUME NEW i \in DOMAIN rest
        PROVE  /\ ~rest[i].answered
               /\ rest[i].does # "refresh" => i \in 1..n
    BY <1>2, <1>4, <1>7
  <2>2. 1 \in DOMAIN rest /\ \A i \in 1..n : i \in DOMAIN rest
    BY <1>2, <1>7
  <2> QED BY <2>1, <2>2, <1>4, <1>5, <1>7 DEF Rested, q
<1> QED BY <1>6, <1>8 DEF tail, rest, q

\* An answer that arrives keeps what is said of the page.
LEMMA LandKeeps ==
  ASSUME PageAssumption, PageInv, Land
  PROVE  PageInv'
<1> DEFINE q == tab.queue
           r == tab.queue[1]
           rest == Tail(q) \o IF Refreshes(r) THEN <<Request("refresh", 0)>> ELSE <<>>
           t == Answered(tab, r)
<1>1. /\ server \in Rows /\ tab \in Tabs /\ q \in Seq(Requests) /\ past \in Pasts
      /\ ~Quiet /\ Head(q) = r /\ 1 \in DOMAIN q /\ \A i \in DOMAIN q : i = 1 \/ i > 1
      /\ r \in Requests /\ r.answered
  <2>1. tab \in Tabs /\ q \in Seq(Requests)
    BY DEF PageInv, PageTypes, Tabs
  <2>2. q # <<>> /\ Head(q).answered /\ ~Quiet
    BY DEF Land, Quiet
  <2> HIDE DEF q
  <2>3. Head(q) = q[1] /\ 1 \in DOMAIN q /\ \A i \in DOMAIN q : i = 1 \/ i > 1
    BY <2>1, <2>2
  <2> QED BY <2>1, <2>2, <2>3 DEF PageInv, PageTypes, q
<1>2. Rested(rest)
  <2> DEFINE fresh == Request("refresh", 0)
  <2>1. fresh \in Requests /\ ~fresh.answered /\ fresh.does = "refresh"
    <3>1. tab.props \in Rows /\ past.unread \in BOOLEAN
      BY <1>1 DEF Tabs, Pasts
    <3> QED BY <3>1 DEF Request, Requests, Kinds, ListKinds
  <2> HIDE DEF fresh
  <2>2. Rested(Tail(q)) /\ Rested(Tail(q) \o <<fresh>>)
    BY <1>1, <2>1, RestIs
  <2>3. Tail(q) \o <<>> = Tail(q)
    <3> HIDE DEF q
    <3>1. q # <<>>
      BY <1>1
    <3> QED BY <3>1, <1>1
  <2> QED BY <2>2, <2>3 DEF fresh
<1>3. AnsweredTold(r, t)
  BY <1>1, AnsweredIs
<1>4. /\ server' = server
      /\ tab' = [t EXCEPT !.props = IF Brings(r) THEN r.seen ELSE @,
                          !.queue = rest,
                          !.optimistic = IF rest = <<>> THEN <<>> ELSE @]
      /\ past' = [past EXCEPT
           !.behind = IF Brings(r) THEN server # r.seen ELSE @,
           !.unread = IF Brings(r) THEN FALSE ELSE @ \/ (r.does = "like" /\ r.ok),
           !.burst = @ /\ \E i \in DOMAIN rest : [j \in DOMAIN rest |-> rest[j].does][i] = "rate",
           !.astray =
              IF r.does \in {"remove", "save review"} THEN @ \cup {"rating"}
              ELSE IF ~r.ok /\ (\/ r.does = "like" /\ r.risky
                                \/ r.does = "rate" /\ past.burst)
              THEN @ \cup {Control(r.does)}
              ELSE @]
  BY <1>1, ZenonT(40) DEF Land
<1> HIDE DEF rest, t
<1>5. /\ tab' \in Tabs /\ tab'.queue = rest
      /\ tab'.props = IF Brings(r) THEN r.seen ELSE tab.props
      /\ tab'.optimistic = IF rest = <<>> THEN <<>> ELSE tab.optimistic
      /\ tab'.rating = t.rating /\ tab'.following = t.following
      /\ tab'.liked = t.liked /\ tab'.likes = t.likes
  <2> DEFINE props == IF Brings(r) THEN r.seen ELSE tab.props
             optimistic == IF rest = <<>> THEN <<>> ELSE tab.optimistic
  <2>1. tab' = [t EXCEPT !.props = props, !.queue = rest, !.optimistic = optimistic]
    BY <1>3, <1>4 DEF AnsweredTold
  <2>2. props \in Rows /\ rest \in Seq(Requests)
        /\ optimistic \in Seq([episode : Episodes, on : BOOLEAN])
    <3>1. r.seen \in Rows /\ tab.props \in Rows
      BY <1>1 DEF Tabs, Requests
    <3>2. rest \in Seq(Requests)
      BY <1>2 DEF Rested
    <3>3. tab.optimistic \in Seq([episode : Episodes, on : BOOLEAN])
      BY <1>1 DEF Tabs
    <3> QED BY <3>1, <3>2, <3>3
  <2>3. t \in Tabs
    BY <1>3 DEF AnsweredTold
  <2> HIDE DEF props, optimistic, q, r
  <2>4. /\ tab' \in Tabs /\ tab'.queue = rest
        /\ tab'.props = props /\ tab'.optimistic = optimistic
        /\ tab'.rating = t.rating /\ tab'.following = t.following
        /\ tab'.liked = t.liked /\ tab'.likes = t.likes
    BY <2>1, <2>2, <2>3 DEF Tabs
  <2> QED BY <2>4 DEF props, optimistic
<1>6. /\ past' \in Pasts
      /\ ~past'.behind => IF Brings(r) THEN server = r.seen ELSE ~past.behind
      /\ ~past'.unread /\ ~Brings(r) => ~past.unread /\ ~(r.does = "like" /\ r.ok)
      /\ ~past'.burst => ~past.burst \/ \A i \in DOMAIN rest : rest[i].does # "rate"
      /\ past.astray \subseteq past'.astray
      /\ r.does \in {"remove", "save review"} => "rating" \in past'.astray
      /\ ~r.ok /\ r.does = "like" /\ r.risky => "like" \in past'.astray
      /\ ~r.ok /\ r.does = "rate" /\ past.burst => "rating" \in past'.astray
  <2> DEFINE behind == IF Brings(r) THEN server # r.seen ELSE past.behind
             unread == IF Brings(r) THEN FALSE ELSE past.unread \/ (r.does = "like" /\ r.ok)
             burst == past.burst /\ \E i \in DOMAIN rest :
                        [j \in DOMAIN rest |-> rest[j].does][i] = "rate"
             astray == IF r.does \in {"remove", "save review"} THEN past.astray \cup {"rating"}
                       ELSE IF ~r.ok /\ (\/ r.does = "like" /\ r.risky
                                         \/ r.does = "rate" /\ past.burst)
                       THEN past.astray \cup {Control(r.does)}
                       ELSE past.astray
  <2>1. past' = [past EXCEPT !.behind = behind, !.unread = unread, !.burst = burst,
                             !.astray = astray]
    BY <1>4
  <2>2. past.behind \in BOOLEAN /\ past.unread \in BOOLEAN /\ past.burst \in BOOLEAN
        /\ past.astray \subseteq {"rating", "like", "following", "none"}
    BY <1>1 DEF Pasts
  <2>3. behind \in BOOLEAN
    BY <2>2, Zenon
  <2>4. unread \in BOOLEAN
    BY <2>2, Zenon
  <2>5. burst \in BOOLEAN
    BY <2>2, Zenon
  <2>6. /\ astray \subseteq {"rating", "like", "following", "none"} /\ past.astray \subseteq astray
        /\ r.does \in {"remove", "save review"} => "rating" \in astray
        /\ ~r.ok /\ r.does = "like" /\ r.risky => "like" \in astray
        /\ ~r.ok /\ r.does = "rate" /\ past.burst => "rating" \in astray
    BY <2>2 DEF Control
  <2>7. /\ ~behind => IF Brings(r) THEN server = r.seen ELSE ~past.behind
        /\ ~unread /\ ~Brings(r) => ~past.unread /\ ~(r.does = "like" /\ r.ok)
        /\ ~burst => ~past.burst \/ \A i \in DOMAIN rest : rest[i].does # "rate"
    OBVIOUS
  <2> HIDE DEF behind, unread, burst, astray
  <2>8. /\ past' \in Pasts /\ past'.behind = behind /\ past'.unread = unread
        /\ past'.burst = burst /\ past'.astray = astray
    BY <2>1, <2>3, <2>4, <2>5, <2>6, <1>1 DEF Pasts
  <2> QED BY <2>6, <2>7, <2>8
<1>7. \A kinds : /\ "refresh" \notin kinds =>
                      (Pending(kinds) <=> Pending(kinds)' \/ r.does \in kinds)
                 /\ ~Accepted(kinds)'
                 /\ Accepted(kinds) <=> r.ok /\ r.does \in kinds
  <2> TAKE kinds
  <2>1. ASSUME "refresh" \notin kinds
        PROVE  Pending(kinds) <=> Pending(kinds)' \/ r.does \in kinds
    <3>1. ASSUME Pending(kinds) PROVE Pending(kinds)' \/ r.does \in kinds
      <4>1. PICK i \in DOMAIN q : q[i].does \in kinds
        BY <3>1 DEF Pending
      <4>2. i # 1 => i - 1 \in DOMAIN rest /\ rest[i - 1] = q[i]
        BY <1>1, <1>2 DEF Rested
      <4> QED BY <4>1, <4>2, <1>5 DEF Pending
    <3>2. ASSUME NEW i \in DOMAIN rest, rest[i].does \in kinds PROVE Pending(kinds)
      BY <2>1, <3>2, <1>2 DEF Rested, Pending
    <3>3. Pending(kinds)' => Pending(kinds)
      BY <3>2, <1>5 DEF Pending
    <3>4. r.does \in kinds => Pending(kinds)
      BY <1>1 DEF Pending
    <3> QED BY <3>1, <3>3, <3>4
  <2>2. ~Accepted(kinds)'
    BY <1>2, <1>5 DEF Accepted, Quiet, Rested
  <2>3. Accepted(kinds) <=> r.ok /\ r.does \in kinds
    BY <1>1 DEF Accepted
  <2> QED BY <2>1, <2>2, <2>3
<1>a. \A i \in DOMAIN tab'.queue : tab'.queue[i].does # "refresh" =>
        i + 1 \in DOMAIN q /\ i + 1 # 1 /\ tab'.queue[i] = q[i + 1]
  BY <1>2, <1>5 DEF Rested
<1>b. ~Quiet' => ~tab'.queue[1].answered
  BY <1>2, <1>5 DEF Rested, Quiet
<1>c. \A i, j \in DOMAIN tab'.queue : i + 1 = j + 1 => i = j
  <2>1. DOMAIN rest \subseteq Nat
    BY <1>2 DEF Rested
  <2> QED BY <2>1, <1>5
<1>8. PageTypes' /\ Orderly'
  <2>1. PageTypes'
    BY <1>1, <1>4, <1>5, <1>6 DEF PageTypes
  <2>2. Orderly'
    BY <1>2, <1>5 DEF Orderly, Rested
  <2> QED BY <2>1, <2>2
<1>9. PropsFresh'
  <2> SUFFICES ASSUME ~past'.behind PROVE Same(tab'.props, server')
    BY DEF PropsFresh
  <2>1. CASE Brings(r)
    BY <2>1, <1>4, <1>5, <1>6 DEF Same
  <2>2. CASE ~Brings(r)
    <3>1. ~Accepted(Kinds \ {"like"})
      BY <2>2, <1>1, <1>7 DEF Brings
    <3> QED BY <2>2, <3>1, <1>4, <1>5, <1>6 DEF PageInv, PropsFresh, Same
  <2> QED BY <2>1, <2>2
<1>10. FollowTold'
  <2>1. \A i, j \in DOMAIN q : q[i].does \in Follows /\ q[j].does \in Follows => i = j
    BY DEF PageInv, FollowTold
  <2>2. \A i, j \in DOMAIN tab'.queue :
          tab'.queue[i].does \in Follows /\ tab'.queue[j].does \in Follows => i = j
    BY <2>1, <1>a, <1>c DEF Follows
  <2> SUFFICES ASSUME "following" \notin past'.astray PROVE FollowShown'
    BY <2>2 DEF FollowTold
  <2>3. FollowShown
    BY <1>6 DEF PageInv, FollowTold
  <2>4. ASSUME ~Pending(Follows)' PROVE tab'.following = server'.following
    <3>1. CASE r.does \in Follows
      <4>1. FollowRow(r, server)
        BY <3>1, <2>3, <1>1 DEF FollowShown
      <4>2. server.following = ((r.does = "follow") = r.ok)
        BY <4>1, <1>1 DEF FollowRow, Requests
      <4> QED BY <4>2, <3>1, <1>3, <1>4, <1>5 DEF AnsweredTold
    <3>2. CASE r.does \notin Follows
      <4>1. ~Pending(Follows)
        BY <2>4, <3>2, <1>7 DEF Follows
      <4> QED BY <3>2, <4>1, <2>3, <1>3, <1>4, <1>5 DEF FollowShown, AnsweredTold
    <3> QED BY <3>1, <3>2
  <2>5. ASSUME NEW i \in DOMAIN tab'.queue, tab'.queue[i].does \in Follows
        PROVE  FollowRow(tab'.queue[i], server')
    <3>1. i + 1 \in DOMAIN q /\ tab'.queue[i] = q[i + 1]
      BY <2>5, <1>a DEF Follows
    <3>2. q[i + 1].does \in Follows
      BY <3>1, <2>5
    <3>3. FollowRow(q[i + 1], server)
      BY <3>1, <3>2, <2>3 DEF FollowShown
    <3>4. FollowRow(tab'.queue[i], server)
      BY <3>1, <3>3
    <3> QED BY <3>4, <1>4 DEF FollowRow
  <2> QED BY <2>4, <2>5 DEF FollowShown
<1>11. LikeTold'
  <2>1. \A i, j \in DOMAIN q : q[i].does = "like" /\ q[j].does = "like" => i = j
    BY DEF PageInv, LikeTold
  <2>2. \A i, j \in DOMAIN tab'.queue :
          tab'.queue[i].does = "like" /\ tab'.queue[j].does = "like" => i = j
    BY <2>1, <1>a, <1>c
  <2> SUFFICES ASSUME "like" \notin past'.astray PROVE LikeShown'
    BY <2>2 DEF LikeTold
  <2>3. LikeShown /\ (r.does = "like" /\ ~r.ok => ~r.risky)
    BY <1>6 DEF PageInv, LikeTold
  <2>4. SameLikes(r.seen, server)
    BY <2>3, <1>1 DEF LikeShown
  <2>5. past'.unread \/ SameLikes(tab'.props, server')
    <3>1. CASE Brings(r)
      BY <3>1, <2>4, <1>4, <1>5 DEF SameLikes
    <3>2. CASE ~Brings(r) /\ ~past'.unread
      <4>1. ~past.unread /\ ~Accepted({"like"})
        <5>1. ~past.unread /\ ~(r.does = "like" /\ r.ok)
          BY <3>2, <1>6
        <5>2. Accepted({"like"}) <=> r.ok /\ r.does \in {"like"}
          BY <1>7
        <5> QED BY <5>1, <5>2
      <4> QED BY <4>1, <3>2, <2>3, <1>4, <1>5 DEF LikeShown, SameLikes
    <3> QED BY <3>1, <3>2
  <2>6. ASSUME NEW i \in DOMAIN tab'.queue, tab'.queue[i].does = "like"
        PROVE  \/ tab'.queue[i].risky \/ (tab'.queue[i].answered /\ tab'.queue[i].ok)
               \/ SameLikes(tab'.queue[i].closure, server')
    <3>1. i + 1 \in DOMAIN q /\ tab'.queue[i] = q[i + 1]
      BY <2>6, <1>a
    <3> QED BY <3>1, <2>3, <2>6, <1>4 DEF LikeShown, SameLikes
  <2>7. ASSUME ~Pending({"like"})'
        PROVE  tab'.liked = server'.liked /\ tab'.likes = Likes(server')
    <3>1. CASE r.does = "like" /\ r.ok
      BY <3>1, <2>4, <1>3, <1>4, <1>5 DEF AnsweredTold, SameLikes, Likes
    <3>2. CASE r.does = "like" /\ ~r.ok
      <4>1. SameLikes(r.closure, server)
        BY <3>2, <2>3, <1>1 DEF LikeShown
      <4> QED BY <4>1, <3>2, <1>3, <1>4, <1>5 DEF AnsweredTold, SameLikes, Likes
    <3>3. CASE r.does # "like"
      <4>1. ~Pending({"like"})
        BY <2>7, <3>3, <1>7
      <4> QED BY <3>3, <4>1, <2>3, <1>3, <1>4, <1>5 DEF LikeShown, AnsweredTold
    <3> QED BY <3>1, <3>2, <3>3
  <2> QED BY <2>5, <2>6, <2>7, <1>b DEF LikeShown
<1>12. RatingTold'
  <2> SUFFICES ASSUME Steady' PROVE RatingShown'
    BY DEF RatingTold
  <2>1. /\ Steady /\ r.does \notin {"remove", "save review"}
        /\ r.does = "rate" /\ ~r.ok => ~past.burst
    BY <1>6, <1>7 DEF Steady
  <2>2. RatingShown
    BY <2>1 DEF PageInv, RatingTold
  <2>3. r.seen.rating = server.rating
    BY <2>2, <1>1 DEF RatingShown
  <2>4. \A i \in DOMAIN tab'.queue : Rates(i)' =>
          i + 1 \in DOMAIN q /\ i + 1 # 1 /\ tab'.queue[i] = q[i + 1] /\ Rates(i + 1)
    BY <1>a DEF Rates
  <2>5. Rates(1) <=> r.does = "rate"
    BY DEF Rates
  <2>6. tab'.props.rating = server'.rating
    <3>1. CASE Brings(r)
      BY <3>1, <2>3, <1>4, <1>5
    <3>2. CASE ~Brings(r)
      <4>1. ~Accepted({"rate"})
        BY <3>2, <1>7 DEF Brings
      <4> QED BY <4>1, <3>2, <2>2, <1>4, <1>5 DEF RatingShown
    <3> QED BY <3>1, <3>2
  <2>7. ASSUME ~Pending({"rate"})' PROVE tab'.rating = server'.rating
    <3>1. CASE r.does # "rate"
      <4>1. ~Pending({"rate"})
        BY <2>7, <3>1, <1>7
      <4> QED BY <3>1, <4>1, <2>2, <1>3, <1>4, <1>5 DEF RatingShown, AnsweredTold
    <3>2. CASE r.does = "rate" /\ r.ok
      <4>1. \A j \in DOMAIN q : j > 1 => ~Rates(j)
        <5>1. ASSUME NEW j \in DOMAIN q, j > 1 PROVE ~Rates(j)
          <6>1. j - 1 \in DOMAIN tab'.queue /\ tab'.queue[j - 1] = q[j]
            BY <5>1, <1>2, <1>5 DEF Rested
          <6> QED BY <6>1, <2>7 DEF Pending, Rates
        <5> QED BY <5>1
      <4>2. tab.rating = r.to /\ server.rating = r.to
        BY <3>2, <4>1, <2>2, <2>5, <1>1, <1>7 DEF RatingShown
      <4> QED BY <3>2, <4>2, <1>3, <1>4, <1>5 DEF AnsweredTold
    <3>3. CASE r.does = "rate" /\ ~r.ok
      <4>1. r.closure.rating = server.rating
        BY <3>3, <2>1, <2>2, <2>5, <1>1 DEF RatingShown
      <4> QED BY <3>3, <4>1, <1>3, <1>4, <1>5 DEF AnsweredTold
    <3> QED BY <3>1, <3>2, <3>3
  <2>8. ASSUME NEW i \in DOMAIN tab'.queue, Rates(i)',
               \A j \in DOMAIN tab'.queue : j > i => ~Rates(j)'
        PROVE  tab'.rating = tab'.queue[i].to
    <3>1. i + 1 \in DOMAIN q /\ i + 1 # 1 /\ tab'.queue[i] = q[i + 1] /\ Rates(i + 1)
      BY <2>4, <2>8
    <3>2. i \in Nat /\ DOMAIN q \subseteq Nat
      BY <1>1, <1>2, <1>5 DEF Rested
    <3>3. ASSUME NEW j \in DOMAIN q, j > i + 1 PROVE ~Rates(j)
      <4>1. j > 1 /\ j - 1 > i
        BY <3>2, <3>3
      <4>2. j - 1 \in DOMAIN tab'.queue /\ tab'.queue[j - 1] = q[j]
        BY <4>1, <1>2, <1>5 DEF Rested
      <4>3. ~Rates(j - 1)'
        BY <4>1, <4>2, <2>8
      <4> QED BY <4>2, <4>3 DEF Rates
    <3>4. tab.rating = q[i + 1].to
      BY <3>1, <3>3, <2>2 DEF RatingShown
    <3>5. ~(r.does = "rate" /\ ~r.ok)
      BY <3>1, <2>1, <2>2, <2>5, <1>1 DEF RatingShown
    <3> QED BY <3>1, <3>4, <3>5, <1>3, <1>5 DEF AnsweredTold
  <2>9. ASSUME ~past'.burst
        PROVE  /\ \A i, j \in DOMAIN tab'.queue : Rates(i)' /\ Rates(j)' => i = j
               /\ \A i \in DOMAIN tab'.queue :
                    Rates(i)' => \/ tab'.queue[i].answered /\ tab'.queue[i].ok
                                 \/ tab'.queue[i].closure.rating = server'.rating
    <3>1. CASE \A i \in DOMAIN rest : rest[i].does # "rate"
      BY <3>1, <1>5 DEF Rates
    <3>2. CASE ~past.burst
      <4>1. \A i, j \in DOMAIN q : Rates(i) /\ Rates(j) => i = j
        BY <3>2, <2>2 DEF RatingShown
      <4>2. \A i, j \in DOMAIN tab'.queue : Rates(i)' /\ Rates(j)' => i = j
        BY <4>1, <2>4, <1>c
      <4>3. ASSUME NEW i \in DOMAIN tab'.queue, Rates(i)'
            PROVE  \/ tab'.queue[i].answered /\ tab'.queue[i].ok
                   \/ tab'.queue[i].closure.rating = server'.rating
        BY <4>3, <3>2, <2>2, <2>4, <1>4 DEF RatingShown
      <4> QED BY <4>2, <4>3
    <3> QED BY <3>1, <3>2, <2>9, <1>6
  <2> QED BY <2>6, <2>7, <2>8, <2>9, <1>7, <1>b DEF RatingShown
<1> QED BY <1>8, <1>9, <1>10, <1>11, <1>12 DEF PageInv

\* Every step of the page keeps what is said of it.
LEMMA PageStepKeeps ==
  ASSUME PageAssumption, PageInv, [PageNext]_pageVars
  PROVE  PageInv'
<1>1. CASE UNCHANGED pageVars
  <2>1. server' = server /\ tab' = tab /\ past' = past
    BY <1>1 DEF pageVars
  <2>2. PageTypes' /\ Orderly' /\ PropsFresh'
    BY <2>1 DEF PageInv, PageTypes, Orderly, PropsFresh, Accepted, Quiet
  <2>3. FollowTold'
    BY <2>1 DEF PageInv, FollowTold, FollowShown, FollowRow, Pending
  <2>4. LikeTold'
    BY <2>1 DEF PageInv, LikeTold, LikeShown, Pending, Accepted, Quiet
  <2>5. RatingTold'
    BY <2>1 DEF PageInv, RatingTold, RatingShown, Steady, Rates, Pending, Accepted, Quiet
  <2> QED BY <2>2, <2>3, <2>4, <2>5 DEF PageInv
<1>2. CASE Serve
  BY <1>2, ServeKeeps
<1>3. CASE Land
  BY <1>3, LandKeeps
<1>4. CASE Elsewhere
  BY <1>4, ElsewhereKeeps
<1>5. CASE Reload
  BY <1>5, ReloadKeeps
<1>6. CASE \/ \E e \in Episodes : ToggleEpisode(e) \/ UpToHere(e)
           \/ MarkSeason \/ AddToLibrary \/ RemoveShow \/ WatchNext
           \/ \E v \in Stars : Rate(v) \/ SaveReview(v)
           \/ DeleteReview \/ ToggleLike \/ ToggleFollow
  <2>1. PICK does, to, change : Clicked(does, to, change)
    BY <1>6, ClicksAre
  <2> QED BY <2>1, ClickKeeps
<1> QED BY <1>1, <1>2, <1>3, <1>4, <1>5, <1>6 DEF PageNext

\* At rest the page shows what it keeps, and keeps what the server says.
LEMMA InvSettles == ASSUME PageInv PROVE PageSettles
<1> SUFFICES ASSUME Quiet PROVE PageSettles
  BY DEF PageSettles
<1>1. tab.queue = <<>> /\ tab.optimistic = <<>> /\ DOMAIN tab.queue = {}
  BY DEF Quiet, PageInv, Orderly
<1>2. \A kinds : ~Pending(kinds) /\ ~Accepted(kinds)
  BY <1>1 DEF Pending, Accepted, Quiet
<1>3. ShownTicks = tab.props.ticks
  BY <1>1, NothingOptimistic DEF PageInv
<1>4. past.behind \/ Same(tab.props, server)
  BY <1>2 DEF PageInv, PropsFresh
<1>5. "following" \notin past.astray => tab.following = server.following
  BY <1>2 DEF PageInv, FollowTold, FollowShown
<1>6. "like" \notin past.astray => tab.liked = server.liked /\ tab.likes = Likes(server)
  BY <1>2 DEF PageInv, LikeTold, LikeShown
<1>7. "rating" \notin past.astray => tab.rating = server.rating
  BY <1>2 DEF PageInv, RatingTold, RatingShown, Steady
<1> QED BY <1>3, <1>4, <1>5, <1>6, <1>7 DEF PageSettles, Same
----------------------------------------------------------------------------
(* The three together.                                                     *)

\* A behaviour about the shelf keeps the library it came with.
LibraryHeld == scope = "shelf" => library \in Libraries

BrowsingInv ==
  /\ LibraryHeld
  /\ CardsAreHonest
  /\ DiscoverInv
  /\ PageInv

\* A library a viewer may come with is one the cards are proved honest for.
LEMMA LibrariesAre == ASSUME NEW lib \in Libraries PROVE IsLibrary(lib)
BY LibraryAssumption DEF IsLibrary

\* No card is up at first, and the other two pages open as they are proved to.
LEMMA BrowsingStarts == ASSUME Init PROVE BrowsingInv
<1>1. LibraryHeld
  BY DEF Init, LibraryHeld
<1>2. CardsAreHonest
  <2>1. cards = Blank
    BY DEF Init
  <2>2. cards.page = "none"
    BY <2>1 DEF Blank
  <2> QED BY <2>2 DEF CardsAreHonest
<1>3. DiscoverInv
  <2>1. /\ catalogue = Stocked /\ members = Joined
        /\ screen \in UNION {Screens(Address(q, n)) : q \in Queries, n \in 1..MaxPage}
        /\ walk = [seen |-> [n \in {screen.at.page} |-> screen.rows], still |-> TRUE, moves |-> 0]
    BY DEF Init, DiscoverInit
  <2>2. PICK q \in Queries, n \in 1..MaxPage : screen \in Screens(Address(q, n))
    BY <2>1
  <2>3. n \in Nat \ {0}
    BY DiscoverAssumption
  <2> QED BY <2>1, <2>2, <2>3, DiscoverInitKeeps, ShelfAssumption, FactAssumption,
             DiscoverAssumption
<1>4. PageInv
  BY MountKeeps, PageAssumption DEF Init
<1> QED BY <1>1, <1>2, <1>3, <1>4 DEF BrowsingInv

\* A step about the shelf or a row of similar shows puts up honest cards.
LEMMA ShelfStepKeeps ==
  ASSUME BrowsingInv, scope = "shelf", UNCHANGED scope, ShelfNext
  PROVE  LibraryHeld' /\ CardsAreHonest'
<1>1. library \in Libraries /\ library' = library
  BY DEF BrowsingInv, LibraryHeld, ShelfNext
<1>2. TasteAssumption /\ IsLibrary(library)
  BY <1>1, LibrariesAre, ShelfAssumption, FactAssumption, TableAssumption DEF TasteAssumption
<1> SUFFICES CardsAreHonest'
  BY <1>1 DEF LibraryHeld
<1>3. CASE OpenDashboard
  <2>1. PICK row : row = Recommendations(library)
    OBVIOUS
  <2>2. HonestShelf(row)
    BY <1>2, <2>1, ShelfIsHonest
  <2>3. cards' = [page |-> "dashboard", row |-> row]
    BY <1>3, <2>1 DEF OpenDashboard
  <2>4. cards'.page = "dashboard" /\ cards'.row = row
    BY <2>3
  <2>5. HonestShelf(row)'
    BY <1>1, <2>2 DEF HonestShelf
  <2>6. HonestShelf(cards.row)'
    BY <2>4, <2>5 DEF HonestShelf
  <2> QED BY <1>1, <2>4, <2>6 DEF CardsAreHonest
<1>4. ASSUME NEW s \in Shows, OpenShow(s)
      PROVE  CardsAreHonest'
  <2>1. PICK row : row = SimilarShows(s)
    OBVIOUS
  <2>2. HonestRow(s, row)
    BY <1>2, <2>1, RowIsHonest
  <2>3. cards' = [page |-> "show", of |-> s, row |-> row]
    BY <1>4, <2>1 DEF OpenShow
  <2>4. cards'.page = "show" /\ cards'.of = s /\ cards'.row = row
    BY <2>3
  <2>5. HonestRow(cards.of, cards.row)'
    BY <2>2, <2>4 DEF HonestRow
  <2> QED BY <2>4, <2>5 DEF CardsAreHonest
<1>5. CASE LeavePage
  <2>1. cards'.page = "none"
    BY <1>5 DEF LeavePage, Blank
  <2> QED BY <2>1 DEF CardsAreHonest
<1> QED BY <1>3, <1>4, <1>5 DEF ShelfNext

\* Whatever leaves the library and the cards alone leaves them honest.
LEMMA ShelfStays ==
  ASSUME BrowsingInv, UNCHANGED scope, UNCHANGED shelfVars
  PROVE  LibraryHeld' /\ CardsAreHonest'
<1>1. library' = library /\ cards' = cards /\ scope' = scope
  BY DEF shelfVars
<1> SUFFICES CardsAreHonest'
  BY <1>1 DEF BrowsingInv, LibraryHeld
<1>3. CASE cards.page = "dashboard"
  <2>1. HonestShelf(cards.row)
    BY <1>3 DEF BrowsingInv, CardsAreHonest
  <2>2. HonestShelf(cards.row)'
    BY <1>1, <2>1 DEF HonestShelf
  <2> QED BY <1>1, <1>3, <2>2 DEF CardsAreHonest
<1>4. CASE cards.page = "show"
  <2>1. HonestRow(cards.of, cards.row)
    BY <1>4 DEF BrowsingInv, CardsAreHonest
  <2>2. HonestRow(cards.of, cards.row)'
    BY <1>1, <2>1 DEF HonestRow
  <2> QED BY <1>1, <1>4, <2>2 DEF CardsAreHonest
<1>5. CASE cards.page \notin {"dashboard", "show"}
  BY <1>1, <1>5 DEF CardsAreHonest
<1> QED BY <1>3, <1>4, <1>5

\* A step about one of the three keeps what is said of it and of the others.
LEMMA BrowsingStepKeeps == ASSUME BrowsingInv, [Next]_vars PROVE BrowsingInv'
<1>1. ASSUME [DiscoverNext]_discoverVars PROVE DiscoverInv'
  BY <1>1, DiscoverStepKeeps, ShelfAssumption, FactAssumption, DiscoverAssumption
     DEF BrowsingInv
<1>2. ASSUME [PageNext]_pageVars PROVE PageInv'
  BY <1>2, PageStepKeeps, PageAssumption DEF BrowsingInv
<1>3. CASE scope = "shelf" /\ ShelfNext /\ UNCHANGED <<scope, discoverVars, pageVars>>
  <2>1. UNCHANGED scope /\ UNCHANGED discoverVars /\ UNCHANGED pageVars
    BY <1>3
  <2> QED BY <1>1, <1>2, <1>3, <2>1, ShelfStepKeeps DEF BrowsingInv
<1>4. CASE DiscoverNext /\ UNCHANGED <<scope, shelfVars, pageVars>>
  <2>1. UNCHANGED scope /\ UNCHANGED shelfVars /\ UNCHANGED pageVars
    BY <1>4
  <2> QED BY <1>1, <1>2, <1>4, <2>1, ShelfStays DEF BrowsingInv
<1>5. CASE PageNext /\ UNCHANGED <<scope, shelfVars, discoverVars>>
  <2>1. UNCHANGED scope /\ UNCHANGED shelfVars /\ UNCHANGED discoverVars
    BY <1>5
  <2> QED BY <1>1, <1>2, <1>5, <2>1, ShelfStays DEF BrowsingInv
<1>6. CASE UNCHANGED vars
  <2>1. UNCHANGED scope /\ UNCHANGED shelfVars /\ UNCHANGED discoverVars /\ UNCHANGED pageVars
    BY <1>6 DEF vars, shelfVars
  <2> QED BY <1>1, <1>2, <2>1, ShelfStays DEF BrowsingInv
<1> QED BY <1>3, <1>4, <1>5, <1>6 DEF Next

\* What each of the four properties rests on holds throughout.
LEMMA BrowsingAlways == Spec => []BrowsingInv
<1>1. Init => BrowsingInv
  BY BrowsingStarts
<1>2. BrowsingInv /\ [Next]_vars => BrowsingInv'
  BY BrowsingStepKeeps
<1> QED BY <1>1, <1>2, PTL DEF Spec

\* Whatever the library, the shelf on the dashboard offers each show once and
\* none that is held or cannot be watched, gives a personal card a reason that
\* is true of its viewer, and puts no show in the row under another above one
\* that is plainly more like it.
THEOREM CardsAlwaysHonest == Spec => []CardsAreHonest
<1>1. BrowsingInv => CardsAreHonest
  BY DEF BrowsingInv
<1> QED BY <1>1, BrowsingAlways, PTL

\* However the catalogue grows between the query for the rows and the one for
\* the rest, the provider's half of the discover page offers nothing that is
\* on a page seen.
THEOREM NothingOfferedTwice == Spec => []NoRowTwice
<1>1. BrowsingInv => NoRowTwice
  BY DEF BrowsingInv, DiscoverInv
<1> QED BY <1>1, BrowsingAlways, PTL

\* Whatever the size of a page, a reader who has turned all of them has seen
\* every match once, unless something moved or two matches tie.
THEOREM EveryMatchSeenOnce == Spec => []PagesCover
<1>1. BrowsingInv => PagesCover
  BY InvCovers, ShelfAssumption, FactAssumption, DiscoverAssumption DEF BrowsingInv
<1> QED BY <1>1, BrowsingAlways, PTL

\* However many clicks, answers, rejections and changes elsewhere interleave,
\* the page of a show is right about all it shows once nothing is under way,
\* but for the accidents PageSettles names.
THEOREM PageTellsTruth == Spec => []PageSettles
<1>1. BrowsingInv => PageSettles
  BY InvSettles DEF BrowsingInv
<1> QED BY <1>1, BrowsingAlways, PTL
=============================================================================
