------------------------------ MODULE SumLemmas -----------------------------
(***************************************************************************)
(* Lemmas about SumFunction, which adds up coins over users, ledger        *)
(* entries, stakes or withdrawals: what it is when an element is added or  *)
(* changed.  The induction over finite sets is stated for a set of subsets *)
(* and not for a predicate.                                                *)
(***************************************************************************)
EXTENDS Integers, FiniteSetTheorems, TLAPS

\* A set of naturals closed under successor that holds 0 holds them all.
LEMMA NaturalsFromZero ==
  ASSUME NEW P \in SUBSET Nat, 0 \in P, \A n \in P : n + 1 \in P
  PROVE  P = Nat
<1> SUFFICES ASSUME Nat \ P # {} PROVE FALSE
  OBVIOUS
<1> DEFINE T == Nat \ P
<1>1. T \subseteq Nat /\ T # {}
  OBVIOUS
<1> HIDE DEF T
<1>2. PICK m \in T : \A k \in T : ~ (<<k, m>> \in OpToRel(<, Nat))
  BY <1>1, WFMin, NatLessThanWellFounded
<1> USE DEF T
<1>3. \A k \in Nat \ P : ~ (k < m)
  BY <1>2 DEF OpToRel
<1>4. m # 0 /\ m - 1 \in P
  BY <1>3
<1> QED BY <1>4

\* A set Q of subsets of a finite D that holds {} and is closed under adding an
\* element of D holds every subset of D.
LEMMA SubsetsFromEmpty ==
  ASSUME NEW D, IsFiniteSet(D), NEW Q, {} \in Q,
         \A s \in Q, x \in D : s \subseteq D => s \cup {x} \in Q
  PROVE  \A s \in SUBSET D : s \in Q
<1> DEFINE P == {n \in Nat : \A s \in SUBSET D : Cardinality(s) = n => s \in Q}
<1>1. 0 \in P
  BY FS_EmptySet, FS_Subset
<1>2. ASSUME NEW n \in P
      PROVE  n + 1 \in P
  <2> SUFFICES ASSUME NEW s \in SUBSET D, Cardinality(s) = n + 1
               PROVE  s \in Q
    OBVIOUS
  <2>1. IsFiniteSet(s) /\ s # {}
    BY FS_Subset, FS_EmptySet
  <2>2. PICK x \in s : TRUE
    BY <2>1
  <2>3. Cardinality(s \ {x}) = n
    <3>1. Cardinality(s \ {x}) = Cardinality(s) - 1
      BY <2>1, FS_RemoveElement
    <3> QED BY <3>1
  <2>4. s \ {x} \in Q
    BY <2>3
  <2> QED BY <2>4, (s \ {x}) \cup {x} = s
<1>3. P = Nat
  <2> HIDE DEF P
  <2>1. P \in SUBSET Nat
    BY DEF P
  <2> QED BY <1>1, <1>2, <2>1, NaturalsFromZero
<1> QED BY <1>3, FS_Subset, FS_CardinalityType

-----------------------------------------------------------------------------
(* The recursion behind SumFunction.                                       *)

First(s) == CHOOSE x \in s : TRUE

\* g holds the sum of f over every subset of S.
Sums(g, f, S) ==
  g = [s \in SUBSET S |-> IF s = {} THEN 0 ELSE f[First(s)] + g[s \ {First(s)}]]

\* For a finite set there is such a table: it is built by the size of the subsets.
LEMMA SumsExist ==
  ASSUME NEW S, IsFiniteSet(S), NEW f
  PROVE  \E g : Sums(g, f, S)
<1> DEFINE Small(n) == {s \in SUBSET S : Cardinality(s) <= n}
           Table(g, n) == g = [s \in Small(n) |->
             IF s = {} THEN 0 ELSE f[First(s)] + g[s \ {First(s)}]]
           P == {n \in Nat : \E g : Table(g, n)}
<1>0. \A s \in SUBSET S : IsFiniteSet(s) /\ Cardinality(s) \in Nat
  BY FS_Subset, FS_CardinalityType
<1>1. 0 \in P
  <2>1. \A s \in Small(0) : s = {}
    BY <1>0, FS_EmptySet
  <2>2. Table([s \in Small(0) |-> 0], 0)
    BY <2>1
  <2> HIDE DEF Table
  <2> QED BY <2>2
<1>2. ASSUME NEW n \in P
      PROVE  n + 1 \in P
  <2>1. PICK g : Table(g, n)
    OBVIOUS
  <2> DEFINE h == [s \in Small(n + 1) |->
                     IF s = {} THEN 0 ELSE f[First(s)] + g[s \ {First(s)}]]
  <2>2. ASSUME NEW s \in Small(n)
        PROVE  s \in Small(n + 1) /\ h[s] = g[s]
    <3>1. s \in Small(n + 1)
      BY <1>0
    <3>2. g[s] = IF s = {} THEN 0 ELSE f[First(s)] + g[s \ {First(s)}]
      BY <2>1
    <3> QED BY <3>1, <3>2
  <2>3. ASSUME NEW s \in Small(n + 1), s # {}
        PROVE  s \ {First(s)} \in Small(n)
    <3>1. First(s) \in s
      BY <2>3 DEF First
    <3>2. Cardinality(s \ {First(s)}) = Cardinality(s) - 1
      BY <1>0, <3>1, FS_RemoveElement
    <3> QED BY <1>0, <3>2
  <2>4. Table(h, n + 1)
    <3> SUFFICES ASSUME NEW s \in Small(n + 1), s # {}
                 PROVE  g[s \ {First(s)}] = h[s \ {First(s)}]
      BY Zenon
    <3> QED BY <2>2, <2>3
  <2> HIDE DEF Table, h
  <2> QED BY <2>4
<1>3. P = Nat
  <2> HIDE DEF P
  <2>1. P \in SUBSET Nat
    BY DEF P
  <2> QED BY <1>1, <1>2, <2>1, NaturalsFromZero
<1>4. Cardinality(S) \in Nat /\ Small(Cardinality(S)) = SUBSET S
  BY FS_Subset, FS_CardinalityType
<1>5. PICK g : Table(g, Cardinality(S))
  BY <1>3, <1>4
<1> QED BY <1>4, <1>5 DEF Sums

\* SumFunctionOnSet reads such a table.
LEMMA SumReadsTable ==
  ASSUME NEW S, IsFiniteSet(S), NEW f
  PROVE  \E g : Sums(g, f, S) /\ SumFunctionOnSet(f, S) = g[S]
<1> DEFINE g == CHOOSE h : h = [s \in SUBSET S |->
             IF s = {} THEN 0
             ELSE LET x == (CHOOSE x \in s : TRUE) IN f[x] + h[s \ {x}]]
<1>1. SumFunctionOnSet(f, S) = g[S]
  BY Zenon DEF SumFunctionOnSet, FoldFunctionOnSet, MapThenFoldSet
<1>2. \E h : h = [s \in SUBSET S |->
             IF s = {} THEN 0
             ELSE LET x == (CHOOSE x \in s : TRUE) IN f[x] + h[s \ {x}]]
  <2>1. PICK h : Sums(h, f, S)
    BY SumsExist
  <2> QED BY <2>1, Zenon DEF Sums, First
<1>3. Sums(g, f, S)
  BY <1>2, Zenon DEF Sums, First
<1> QED BY <1>1, <1>3

\* Tables of functions that agree on a set agree on its sum.
LEMMA SumsAgree ==
  ASSUME NEW D, IsFiniteSet(D), NEW S, NEW T, D \subseteq S, D \subseteq T,
         NEW f, NEW k, \A x \in D : f[x] = k[x],
         NEW g, Sums(g, f, S), NEW h, Sums(h, k, T)
  PROVE  g[D] = h[D]
<1> DEFINE P == {n \in Nat : \A s \in SUBSET D : Cardinality(s) = n => g[s] = h[s]}
<1>0. \A s \in SUBSET D : IsFiniteSet(s) /\ Cardinality(s) \in Nat
  BY FS_Subset, FS_CardinalityType
<1>a. \A s \in SUBSET D : /\ g[s] = IF s = {} THEN 0 ELSE f[First(s)] + g[s \ {First(s)}]
                          /\ h[s] = IF s = {} THEN 0 ELSE k[First(s)] + h[s \ {First(s)}]
  BY DEF Sums
<1>1. 0 \in P
  BY <1>0, <1>a, FS_EmptySet
<1>2. ASSUME NEW n \in P
      PROVE  n + 1 \in P
  <2> SUFFICES ASSUME NEW s \in SUBSET D, Cardinality(s) = n + 1
               PROVE  g[s] = h[s]
    OBVIOUS
  <2>1. IsFiniteSet(s) /\ s # {}
    BY FS_Subset, FS_EmptySet
  <2>2. First(s) \in s
    BY <2>1 DEF First
  <2>3. Cardinality(s \ {First(s)}) = n
    <3>1. Cardinality(s \ {First(s)}) = Cardinality(s) - 1
      BY <2>1, <2>2, FS_RemoveElement
    <3> QED BY <3>1
  <2>4. g[s \ {First(s)}] = h[s \ {First(s)}]
    BY <2>3
  <2> QED BY <1>a, <2>1, <2>2, <2>4
<1>3. P = Nat
  <2> HIDE DEF P
  <2>1. P \in SUBSET Nat
    BY DEF P
  <2> QED BY <1>1, <1>2, <2>1, NaturalsFromZero
<1> QED BY <1>0, <1>3

\* The order in which two numbers are added to a third is free.
LEMMA SumsCommute ==
  ASSUME NEW a \in Int, NEW b \in Int, NEW c \in Int
  PROVE  a + (b + c) = b + (a + c)
OBVIOUS

\* In a table of integers any element can be taken out of a sum, not only the first.
LEMMA SumsTakeOut ==
  ASSUME NEW S, IsFiniteSet(S), NEW f, \A x \in S : f[x] \in Int,
         NEW g, Sums(g, f, S)
  PROVE  \A s \in SUBSET S : /\ g[s] \in Int
                             /\ \A x \in s : g[s] = f[x] + g[s \ {x}]
<1> DEFINE Good(s) == /\ g[s] \in Int
                      /\ \A x \in s : g[s] = f[x] + g[s \ {x}]
           P == {n \in Nat : \A s \in SUBSET S : Cardinality(s) <= n => Good(s)}
<1>0. \A s \in SUBSET S : IsFiniteSet(s) /\ Cardinality(s) \in Nat
  BY FS_Subset, FS_CardinalityType
<1>a. \A s \in SUBSET S : g[s] = IF s = {} THEN 0 ELSE f[First(s)] + g[s \ {First(s)}]
  BY DEF Sums
<1>b. \A s \in SUBSET S : \A x \in s : Cardinality(s \ {x}) = Cardinality(s) - 1
  BY <1>0, FS_RemoveElement
<1>c. Good({})
  <2>1. g[{}] = 0
    BY <1>a, Zenon
  <2> QED BY <2>1
<1>1. 0 \in P
  <2>1. \A s \in SUBSET S : Cardinality(s) <= 0 => s = {}
    BY <1>0, FS_EmptySet
  <2> HIDE DEF Good
  <2> QED BY <1>c, <2>1
<1>2. ASSUME NEW n \in P
      PROVE  n + 1 \in P
  <2> SUFFICES ASSUME NEW s \in SUBSET S, Cardinality(s) <= n + 1
               PROVE  Good(s)
    OBVIOUS
  <2>1. CASE s = {}
    <3> HIDE DEF Good
    <3> QED BY <1>c, <2>1
  <2>2. CASE s # {}
    <3> DEFINE y == First(s)
    <3>1. y \in s
      BY <2>2 DEF First
    <3> HIDE DEF y
    <3>2. \A x \in s : Good(s \ {x})
      <4> SUFFICES ASSUME NEW x \in s PROVE Good(s \ {x})
        OBVIOUS
      <4>1. s \ {x} \in SUBSET S /\ Cardinality(s \ {x}) <= n
        BY <1>0, <1>b
      <4> QED BY <4>1
    <3>3. g[s] = f[y] + g[s \ {y}]
      BY <1>a, <2>2 DEF y
    <3>4. g[s] \in Int
      <4>1. g[s \ {y}] \in Int /\ f[y] \in Int
        BY <3>1, <3>2
      <4>2. f[y] + g[s \ {y}] \in Int
        BY <4>1
      <4> QED BY <3>3, <4>2, Zenon
    <3>5. ASSUME NEW x \in s, x # y
          PROVE  g[s] = f[x] + g[s \ {x}]
      <4>1. g[s \ {y}] = f[x] + g[(s \ {y}) \ {x}]
        BY <3>1, <3>2, <3>5
      <4>2. g[s \ {x}] = f[y] + g[(s \ {x}) \ {y}]
        BY <3>1, <3>2, <3>5
      <4>3. (s \ {y}) \ {x} = (s \ {x}) \ {y}
        OBVIOUS
      <4>4. g[(s \ {y}) \ {x}] \in Int
        <5>1. /\ (s \ {y}) \ {x} \in SUBSET S
              /\ Cardinality((s \ {y}) \ {x}) = Cardinality(s \ {y}) - 1
              /\ Cardinality(s \ {y}) = Cardinality(s) - 1
          BY <1>b, <3>1, <3>5
        <5>2. Cardinality((s \ {y}) \ {x}) <= n
          BY <1>0, <5>1
        <5> QED BY <5>1, <5>2
      <4>5. f[x] \in Int /\ f[y] \in Int
        BY <3>1
      <4>6. f[y] + (f[x] + g[(s \ {y}) \ {x}]) = f[x] + (f[y] + g[(s \ {y}) \ {x}])
        BY <4>4, <4>5, SumsCommute
      <4> QED BY <3>3, <4>1, <4>2, <4>3, <4>6, Zenon
    <3> QED BY <3>3, <3>4, <3>5
  <2> QED BY <2>1, <2>2
<1>3. P = Nat
  <2> HIDE DEF P
  <2>1. P \in SUBSET Nat
    BY DEF P
  <2> QED BY <1>1, <1>2, <2>1, NaturalsFromZero
<1> QED BY <1>0, <1>3

-----------------------------------------------------------------------------
(* What the modules' sums obey.                                            *)

\* An element can be taken out of a sum of integers.
LEMMA SumTakeOut ==
  ASSUME NEW S, IsFiniteSet(S), NEW f, \A x \in S : f[x] \in Int
  PROVE  /\ SumFunctionOnSet(f, S) \in Int
         /\ \A x \in S : SumFunctionOnSet(f, S) = f[x] + SumFunctionOnSet(f, S \ {x})
<1>1. PICK g : Sums(g, f, S) /\ SumFunctionOnSet(f, S) = g[S]
  BY SumReadsTable
<1>2. g[S] \in Int /\ \A x \in S : g[S] = f[x] + g[S \ {x}]
  BY <1>1, SumsTakeOut
<1>3. ASSUME NEW x \in S
      PROVE  SumFunctionOnSet(f, S \ {x}) = g[S \ {x}]
  <2>1. IsFiniteSet(S \ {x})
    BY FS_RemoveElement
  <2>2. PICK h : Sums(h, f, S \ {x}) /\ SumFunctionOnSet(f, S \ {x}) = h[S \ {x}]
    BY <2>1, SumReadsTable
  <2>3. g[S \ {x}] = h[S \ {x}]
    BY <1>1, <2>1, <2>2, SumsAgree
  <2> QED BY <2>2, <2>3
<1> QED BY <1>1, <1>2, <1>3

\* The sum of nothing.
LEMMA SumEmpty ==
  ASSUME NEW f
  PROVE  SumFunctionOnSet(f, {}) = 0
<1>1. PICK g : Sums(g, f, {}) /\ SumFunctionOnSet(f, {}) = g[{}]
  BY SumReadsTable, FS_EmptySet
<1> QED BY <1>1 DEF Sums

\* Functions that agree on a set have the same sum over it.
LEMMA SumAgree ==
  ASSUME NEW S, IsFiniteSet(S), NEW f, NEW g, \A x \in S : f[x] = g[x]
  PROVE  SumFunctionOnSet(f, S) = SumFunctionOnSet(g, S)
<1>1. PICK h : Sums(h, f, S) /\ SumFunctionOnSet(f, S) = h[S]
  BY SumReadsTable
<1>2. PICK k : Sums(k, g, S) /\ SumFunctionOnSet(g, S) = k[S]
  BY SumReadsTable
<1> QED BY <1>1, <1>2, SumsAgree

\* A sum of integers is an integer.
LEMMA SumInt ==
  ASSUME NEW S, IsFiniteSet(S), NEW f \in [S -> Int]
  PROVE  SumFunction(f) \in Int
<1>1. \A x \in S : f[x] \in Int
  OBVIOUS
<1> QED BY <1>1, SumTakeOut DEF SumFunction

\* A sum over no elements.
LEMMA SumNone ==
  ASSUME NEW f, DOMAIN f = {}
  PROVE  SumFunction(f) = 0
BY SumEmpty DEF SumFunction

\* The sum of a single element.
LEMMA SumOne ==
  ASSUME NEW x, NEW f \in [{x} -> Int]
  PROVE  SumFunction(f) = f[x]
<1>1. IsFiniteSet({x}) /\ {x} \ {x} = {}
  BY FS_Singleton
<1>2. SumFunctionOnSet(f, {x}) = f[x] + SumFunctionOnSet(f, {})
  BY <1>1, SumTakeOut
<1> QED BY <1>2, SumEmpty DEF SumFunction

\* One more element adds its number.
LEMMA SumAdd ==
  ASSUME NEW S, IsFiniteSet(S), NEW x, x \notin S,
         NEW f \in [S -> Int], NEW g \in [S \cup {x} -> Int],
         \A y \in S : g[y] = f[y]
  PROVE  SumFunction(g) = SumFunction(f) + g[x]
<1>1. IsFiniteSet(S \cup {x}) /\ (S \cup {x}) \ {x} = S
  BY FS_AddElement
<1>2. \A y \in S \cup {x} : g[y] \in Int
  OBVIOUS
<1>3. SumFunctionOnSet(g, S \cup {x}) = g[x] + SumFunctionOnSet(g, S)
  BY <1>1, <1>2, SumTakeOut
<1>4. SumFunctionOnSet(g, S) = SumFunctionOnSet(f, S)
  BY SumAgree
<1>5. SumFunctionOnSet(f, S) \in Int /\ g[x] \in Int
  BY SumTakeOut
<1>6. SumFunction(g) = SumFunctionOnSet(g, S \cup {x}) /\ SumFunction(f) = SumFunctionOnSet(f, S)
  BY DEF SumFunction
<1> QED BY <1>3, <1>4, <1>5, <1>6

\* One number that changes changes the sum by as much.
LEMMA SumChange ==
  ASSUME NEW S, IsFiniteSet(S), NEW x \in S,
         NEW f \in [S -> Int], NEW g \in [S -> Int],
         \A y \in S : y # x => g[y] = f[y]
  PROVE  SumFunction(g) = SumFunction(f) - f[x] + g[x]
<1>1. IsFiniteSet(S \ {x})
  BY FS_RemoveElement
<1>2. \A y \in S : f[y] \in Int /\ g[y] \in Int
  OBVIOUS
<1>3. /\ SumFunctionOnSet(f, S) = f[x] + SumFunctionOnSet(f, S \ {x})
      /\ SumFunctionOnSet(g, S) = g[x] + SumFunctionOnSet(g, S \ {x})
  BY <1>2, SumTakeOut
<1>4. SumFunctionOnSet(g, S \ {x}) = SumFunctionOnSet(f, S \ {x})
  BY <1>1, SumAgree
<1>5. SumFunctionOnSet(f, S \ {x}) \in Int
  BY <1>1, <1>2, SumTakeOut
<1>6. SumFunction(g) = SumFunctionOnSet(g, S) /\ SumFunction(f) = SumFunctionOnSet(f, S)
  BY DEF SumFunction
<1> QED BY <1>2, <1>3, <1>4, <1>5, <1>6

\* One element less takes its number away.
LEMMA SumRemove ==
  ASSUME NEW S, IsFiniteSet(S), NEW x \in S,
         NEW f \in [S -> Int], NEW g \in [S \ {x} -> Int],
         \A y \in S \ {x} : g[y] = f[y]
  PROVE  SumFunction(f) = SumFunction(g) + f[x]
<1>1. IsFiniteSet(S \ {x}) /\ (S \ {x}) \cup {x} = S
  BY FS_RemoveElement
<1> QED BY <1>1, SumAdd

\* Numbers none of which is below zero have a sum that is not.
LEMMA SumNat ==
  ASSUME NEW S, IsFiniteSet(S), NEW f \in [S -> Nat]
  PROVE  SumFunction(f) \in Nat
<1> DEFINE Q == {s \in SUBSET S : SumFunctionOnSet(f, s) \in Nat}
<1>1. {} \in Q
  BY SumEmpty
<1>2. ASSUME NEW s \in Q, NEW x \in S
      PROVE  s \cup {x} \in Q
  <2>1. CASE x \in s
    BY <2>1, s \cup {x} = s
  <2>2. CASE x \notin s
    <3>1. IsFiniteSet(s \cup {x}) /\ (s \cup {x}) \ {x} = s
      BY <2>2, FS_Subset, FS_AddElement
    <3>2. \A y \in s \cup {x} : f[y] \in Int
      OBVIOUS
    <3>3. SumFunctionOnSet(f, s \cup {x}) = f[x] + SumFunctionOnSet(f, s)
      BY <3>1, <3>2, SumTakeOut
    <3>4. f[x] \in Nat /\ SumFunctionOnSet(f, s) \in Nat
      OBVIOUS
    <3> QED BY <3>3, <3>4
  <2> QED BY <2>1, <2>2
<1> HIDE DEF Q
<1>3. S \in Q
  BY <1>1, <1>2, SubsetsFromEmpty
<1> QED BY <1>3 DEF Q, SumFunction

\* The sum of differences is the difference of the sums.
LEMMA SumMinus ==
  ASSUME NEW S, IsFiniteSet(S), NEW f \in [S -> Int], NEW g \in [S -> Int]
  PROVE  SumFunction([x \in S |-> f[x] - g[x]]) = SumFunction(f) - SumFunction(g)
<1> DEFINE h == [x \in S |-> f[x] - g[x]]
           Q == {s \in SUBSET S :
                   SumFunctionOnSet(h, s) = SumFunctionOnSet(f, s) - SumFunctionOnSet(g, s)}
<1>1. {} \in Q
  BY SumEmpty
<1>2. ASSUME NEW s \in Q, NEW x \in S
      PROVE  s \cup {x} \in Q
  <2>1. CASE x \in s
    BY <2>1, s \cup {x} = s
  <2>2. CASE x \notin s
    <3>1. IsFiniteSet(s) /\ IsFiniteSet(s \cup {x}) /\ (s \cup {x}) \ {x} = s
      BY <2>2, FS_Subset, FS_AddElement
    <3>2. \A y \in s \cup {x} : f[y] \in Int /\ g[y] \in Int /\ h[y] \in Int
      OBVIOUS
    <3>a. h[x] = f[x] - g[x]
      OBVIOUS
    <3>b. SumFunctionOnSet(h, s) = SumFunctionOnSet(f, s) - SumFunctionOnSet(g, s)
      OBVIOUS
    <3> HIDE DEF h, Q
    <3>c. /\ SumFunctionOnSet(f, s \cup {x}) = f[x] + SumFunctionOnSet(f, s)
          /\ SumFunctionOnSet(g, s \cup {x}) = g[x] + SumFunctionOnSet(g, s)
      BY <3>1, <3>2, SumTakeOut
    <3>3. SumFunctionOnSet(h, s \cup {x}) = h[x] + SumFunctionOnSet(h, s)
      BY <3>1, <3>2, SumTakeOut
    <3>4. /\ SumFunctionOnSet(f, s) \in Int /\ SumFunctionOnSet(g, s) \in Int
          /\ f[x] \in Int /\ g[x] \in Int
      BY <3>1, <3>2, SumTakeOut
    <3>5. SumFunctionOnSet(h, s \cup {x})
            = SumFunctionOnSet(f, s \cup {x}) - SumFunctionOnSet(g, s \cup {x})
      BY <3>a, <3>b, <3>c, <3>3, <3>4
    <3> QED BY <3>5 DEF Q
  <2> QED BY <2>1, <2>2
<1> HIDE DEF Q
<1>3. S \in Q
  BY <1>1, <1>2, SubsetsFromEmpty
<1> QED BY <1>3 DEF Q, SumFunction

\* To show something of a finite set, show it of {} and that adding one more
\* element keeps it.
LEMMA SetsGrow ==
  ASSUME NEW D, IsFiniteSet(D), NEW Q, {} \in Q,
         \A s \in SUBSET D, x \in D : s \in Q /\ x \notin s => s \cup {x} \in Q
  PROVE  D \in Q
<1>1. ASSUME NEW s \in Q, NEW x \in D, s \subseteq D
      PROVE  s \cup {x} \in Q
  <2>1. CASE x \in s
    BY <1>1, <2>1, s \cup {x} = s
  <2>2. CASE x \notin s
    BY <1>1, <2>2
  <2> QED BY <2>1, <2>2
<1>2. \A s \in SUBSET D : s \in Q
  BY <1>1, SubsetsFromEmpty
<1> QED BY <1>2

\* One more element adds its number to the sum.
LEMMA SumGrows ==
  ASSUME NEW S, IsFiniteSet(S), NEW f, \A y \in S : f[y] \in Int,
         NEW s \in SUBSET S, NEW x \in S, x \notin s
  PROVE  /\ SumFunctionOnSet(f, s) \in Int
         /\ SumFunctionOnSet(f, s \cup {x}) = f[x] + SumFunctionOnSet(f, s)
<1>1. IsFiniteSet(s) /\ IsFiniteSet(s \cup {x}) /\ (s \cup {x}) \ {x} = s
  BY FS_Subset, FS_AddElement
<1>2. \A y \in s \cup {x} : f[y] \in Int
  OBVIOUS
<1> QED BY <1>1, <1>2, SumTakeOut

\* The sum of sums is the sum of the two.
LEMMA SumPlus ==
  ASSUME NEW S, IsFiniteSet(S), NEW f \in [S -> Int], NEW g \in [S -> Int]
  PROVE  SumFunction([x \in S |-> f[x] + g[x]]) = SumFunction(f) + SumFunction(g)
<1> DEFINE h == [x \in S |-> f[x] + g[x]]
<1>1. h \in [S -> Int] /\ g = [x \in S |-> h[x] - f[x]]
  <2>1. \A x \in S : f[x] \in Int /\ g[x] \in Int
    OBVIOUS
  <2>2. \A x \in S : h[x] \in Int /\ g[x] = h[x] - f[x]
    BY <2>1
  <2> QED BY <2>2
<1>2. SumFunction(f) \in Int /\ SumFunction(g) \in Int
  BY SumInt
<1> HIDE DEF h
<1>3. SumFunction(h) \in Int
  BY <1>1, SumInt
<1>4. SumFunction([x \in S |-> h[x] - f[x]]) = SumFunction(h) - SumFunction(f)
  BY <1>1, SumMinus
<1>5. SumFunction(g) = SumFunction(h) - SumFunction(f)
  BY <1>1, <1>4
<1>6. SumFunction(h) = SumFunction(f) + SumFunction(g)
  BY <1>2, <1>3, <1>5
<1> QED BY <1>6 DEF h

\* A sum of zeros.
LEMMA SumZero ==
  ASSUME NEW S, IsFiniteSet(S), NEW f, \A x \in S : f[x] = 0
  PROVE  SumFunctionOnSet(f, S) = 0
<1> DEFINE Q == {s \in SUBSET S : SumFunctionOnSet(f, s) = 0}
<1>1. {} \in Q
  BY SumEmpty
<1>2. ASSUME NEW s \in SUBSET S, NEW x \in S, s \in Q, x \notin s
      PROVE  s \cup {x} \in Q
  <2>1. SumFunctionOnSet(f, s \cup {x}) = f[x] + SumFunctionOnSet(f, s)
    BY <1>2, SumGrows
  <2> QED BY <1>2, <2>1
<1> HIDE DEF Q
<1>3. S \in Q
  BY <1>1, <1>2, SetsGrow
<1> QED BY <1>3 DEF Q

\* Where all but one element count nothing, the sum is that one's number.
LEMMA SumAtOne ==
  ASSUME NEW S, IsFiniteSet(S), NEW x \in S, NEW n \in Int
  PROVE  SumFunction([y \in S |-> IF y = x THEN n ELSE 0]) = n
<1> DEFINE f == [y \in S |-> 0]
           g == [y \in S |-> IF y = x THEN n ELSE 0]
<1>1. f \in [S -> Int] /\ g \in [S -> Int]
  OBVIOUS
<1>2. f[x] = 0 /\ g[x] = n /\ \A y \in S : y # x => g[y] = f[y]
  OBVIOUS
<1>3. SumFunctionOnSet(f, S) = 0
  BY SumZero
<1>4. SumFunction(f) = 0
  BY <1>3 DEF SumFunction
<1> HIDE DEF f, g
<1>5. SumFunction(g) = SumFunction(f) - f[x] + g[x]
  BY <1>1, <1>2, SumChange
<1>6. SumFunction(g) = n
  BY <1>2, <1>4, <1>5
<1> QED BY <1>6 DEF g

\* Elements that count nothing may be left out of a sum.
LEMMA SumSupport ==
  ASSUME NEW S, IsFiniteSet(S), NEW f \in [S -> Int],
         NEW T \in SUBSET S, \A x \in S \ T : f[x] = 0
  PROVE  SumFunctionOnSet(f, T) = SumFunctionOnSet(f, S)
<1> DEFINE Q == {s \in SUBSET S : SumFunctionOnSet(f, s \cap T) = SumFunctionOnSet(f, s)}
<1>1. {} \in Q
  BY {} \cap T = {}
<1>2. ASSUME NEW s \in SUBSET S, NEW x \in S, s \in Q, x \notin s
      PROVE  s \cup {x} \in Q
  <2>1. /\ SumFunctionOnSet(f, s) \in Int
        /\ SumFunctionOnSet(f, s \cup {x}) = f[x] + SumFunctionOnSet(f, s)
    BY <1>2, SumGrows
  <2>2. SumFunctionOnSet(f, s \cap T) = SumFunctionOnSet(f, s)
    BY <1>2
  <2> HIDE DEF Q
  <2>3. CASE x \in T
    <3>1. (s \cup {x}) \cap T = (s \cap T) \cup {x}
      BY <2>3
    <3>2. SumFunctionOnSet(f, (s \cap T) \cup {x}) = f[x] + SumFunctionOnSet(f, s \cap T)
      BY <1>2, SumGrows
    <3> QED BY <2>1, <2>2, <3>1, <3>2 DEF Q
  <2>4. CASE x \notin T
    <3>1. (s \cup {x}) \cap T = s \cap T
      BY <2>4
    <3>2. f[x] = 0
      BY <2>4
    <3>3. SumFunctionOnSet(f, s \cup {x}) = SumFunctionOnSet(f, s)
      BY <2>1, <3>2
    <3> QED BY <2>2, <3>1, <3>3 DEF Q
  <2> QED BY <2>3, <2>4
<1> HIDE DEF Q
<1>3. S \in Q
  BY <1>1, <1>2, SetsGrow
<1> QED BY <1>3, S \cap T = T DEF Q

\* Summing one for each element of a part counts the part.
LEMMA SumCount ==
  ASSUME NEW S, IsFiniteSet(S), NEW T \in SUBSET S
  PROVE  SumFunction([x \in S |-> IF x \in T THEN 1 ELSE 0]) = Cardinality(T)
<1> DEFINE f == [x \in S |-> IF x \in T THEN 1 ELSE 0]
           Q == {s \in SUBSET S : SumFunctionOnSet(f, s) = Cardinality(s \cap T)}
<1>1. {} \in Q
  BY SumEmpty, FS_EmptySet, {} \cap T = {}
<1>2. ASSUME NEW s \in SUBSET S, NEW x \in S, s \in Q, x \notin s
      PROVE  s \cup {x} \in Q
  <2>1. SumFunctionOnSet(f, s \cup {x}) = f[x] + SumFunctionOnSet(f, s)
    BY <1>2, SumGrows
  <2>2. SumFunctionOnSet(f, s) = Cardinality(s \cap T)
    BY <1>2
  <2>3. IsFiniteSet(s \cap T) /\ Cardinality(s \cap T) \in Nat
    BY FS_Subset, FS_CardinalityType
  <2>4. CASE x \in T
    <3>1. (s \cup {x}) \cap T = (s \cap T) \cup {x} /\ x \notin s \cap T
      BY <1>2, <2>4
    <3>2. Cardinality((s \cap T) \cup {x}) = Cardinality(s \cap T) + 1
      BY <2>3, <3>1, FS_AddElement
    <3>3. f[x] = 1
      BY <2>4
    <3> HIDE DEF f
    <3>4. SumFunctionOnSet(f, s \cup {x}) = Cardinality((s \cup {x}) \cap T)
      BY <2>1, <2>2, <2>3, <3>1, <3>2, <3>3
    <3> QED BY <3>4
  <2>5. CASE x \notin T
    <3>1. (s \cup {x}) \cap T = s \cap T
      BY <2>5
    <3>2. f[x] = 0
      BY <2>5
    <3> HIDE DEF f
    <3>3. SumFunctionOnSet(f, s \cup {x}) = Cardinality(s \cap T)
      BY <2>1, <2>2, <2>3, <3>2
    <3> QED BY <3>1, <3>3
  <2> QED BY <2>4, <2>5
<1>3. S \in Q
  <2> HIDE DEF Q
  <2> QED BY <1>1, <1>2, SetsGrow
<1>4. SumFunctionOnSet(f, S) = Cardinality(T)
  BY <1>3, S \cap T = T
<1> QED BY <1>4 DEF SumFunction

\* Multiplying each number multiplies the sum.
LEMMA SumTimes ==
  ASSUME NEW S, IsFiniteSet(S), NEW c \in Int, NEW f \in [S -> Int]
  PROVE  SumFunction([x \in S |-> c * f[x]]) = c * SumFunction(f)
<1> DEFINE g == [x \in S |-> c * f[x]]
           Q == {s \in SUBSET S : SumFunctionOnSet(g, s) = c * SumFunctionOnSet(f, s)}
<1>0. \A x \in S : f[x] \in Int /\ g[x] \in Int /\ g[x] = c * f[x]
  OBVIOUS
<1>1. {} \in Q
  BY SumEmpty
<1>2. ASSUME NEW s \in SUBSET S, NEW x \in S, s \in Q, x \notin s
      PROVE  s \cup {x} \in Q
  <2>2. SumFunctionOnSet(g, s) = c * SumFunctionOnSet(f, s)
    BY <1>2
  <2> HIDE DEF g, Q
  <2>0. \A y \in S : f[y] \in Int /\ g[y] \in Int
    BY <1>0
  <2>1. /\ SumFunctionOnSet(f, s) \in Int
        /\ SumFunctionOnSet(f, s \cup {x}) = f[x] + SumFunctionOnSet(f, s)
    BY <1>2, <2>0, SumGrows
  <2>a. SumFunctionOnSet(g, s \cup {x}) = g[x] + SumFunctionOnSet(g, s)
    BY <1>2, <2>0, SumGrows
  <2>3. f[x] \in Int /\ g[x] = c * f[x]
    BY <1>0
  <2>4. \A a, b \in Int : c * (a + b) = c * a + c * b
    OBVIOUS
  <2>5. SumFunctionOnSet(g, s \cup {x}) = c * SumFunctionOnSet(f, s \cup {x})
    BY <2>1, <2>2, <2>3, <2>4, <2>a
  <2> QED BY <2>5 DEF Q
<1> HIDE DEF Q
<1>3. S \in Q
  BY <1>1, <1>2, SetsGrow
<1> QED BY <1>3 DEF Q, SumFunction

\* A sum of numbers none of which is over c is at most c for each of them.
LEMMA SumBelow ==
  ASSUME NEW S, IsFiniteSet(S), NEW c \in Int, NEW f \in [S -> Int],
         \A x \in S : f[x] <= c
  PROVE  SumFunction(f) <= c * Cardinality(S)
<1> DEFINE Q == {s \in SUBSET S : SumFunctionOnSet(f, s) <= c * Cardinality(s)}
<1>1. {} \in Q
  BY SumEmpty, FS_EmptySet
<1>2. ASSUME NEW s \in SUBSET S, NEW x \in S, s \in Q, x \notin s
      PROVE  s \cup {x} \in Q
  <2>1. /\ SumFunctionOnSet(f, s) \in Int
        /\ SumFunctionOnSet(f, s \cup {x}) = f[x] + SumFunctionOnSet(f, s)
    BY <1>2, SumGrows
  <2>2. /\ Cardinality(s) \in Nat
        /\ Cardinality(s \cup {x}) = Cardinality(s) + 1
    BY <1>2, FS_Subset, FS_CardinalityType, FS_AddElement
  <2>3. SumFunctionOnSet(f, s) <= c * Cardinality(s)
    BY <1>2
  <2>4. \A n \in Nat : c * (n + 1) = c * n + c /\ c * n \in Int
    OBVIOUS
  <2>5. f[x] \in Int /\ f[x] <= c
    OBVIOUS
  <2>6. SumFunctionOnSet(f, s \cup {x}) <= c * Cardinality(s \cup {x})
    BY <2>1, <2>2, <2>3, <2>4, <2>5
  <2> QED BY <2>6
<1> HIDE DEF Q
<1>3. S \in Q
  BY <1>1, <1>2, SetsGrow
<1> QED BY <1>3 DEF Q, SumFunction

-----------------------------------------------------------------------------
(* Counting along an order.                                                *)

\* R puts the elements of S in line, each before or after every other one.
Lines(R, S) ==
  /\ \A a \in S : <<a, a>> \notin R
  /\ \A a, b \in S : a = b \/ <<a, b>> \in R \/ <<b, a>> \in R
  /\ \A a, b, c \in S : <<a, b>> \in R /\ <<b, c>> \in R => <<a, c>> \in R

Before(R, S, b) == {a \in S : <<a, b>> \in R}

\* Those with fewer than k before them are the first k of the line.
LEMMA FirstOfLine ==
  ASSUME NEW S, IsFiniteSet(S), NEW R, Lines(R, S), NEW k \in 0..Cardinality(S)
  PROVE  Cardinality({b \in S : Cardinality(Before(R, S, b)) < k}) = k
<1> DEFINE n == Cardinality(S)
           r == [b \in S |-> Cardinality(Before(R, S, b))]
           T == {b \in S : r[b] < k}
           q == [b \in T |-> r[b]]
<1>1. n \in Nat /\ k \in Nat /\ k <= n
  BY FS_CardinalityType
<1>2. ASSUME NEW b \in S
      PROVE  /\ IsFiniteSet(Before(R, S, b))
             /\ r[b] \in 0..(n - 1)
  <2>1. Before(R, S, b) \in SUBSET (S \ {b})
    BY DEF Lines, Before
  <2>2. IsFiniteSet(S \ {b}) /\ Cardinality(S \ {b}) = n - 1
    BY FS_RemoveElement
  <2>3. /\ IsFiniteSet(Before(R, S, b))
        /\ Cardinality(Before(R, S, b)) <= n - 1
    BY <2>1, <2>2, FS_Subset
  <2> QED BY <1>1, <2>3, FS_CardinalityType
<1>3. ASSUME NEW a \in S, NEW b \in S, <<a, b>> \in R
      PROVE  r[a] < r[b]
  <2>1. a \notin Before(R, S, a) /\ Before(R, S, a) \cup {a} \in SUBSET Before(R, S, b)
    BY <1>3 DEF Lines, Before
  <2>2. Cardinality(Before(R, S, a) \cup {a}) = Cardinality(Before(R, S, a)) + 1
    BY <1>2, <2>1, FS_AddElement
  <2>3. Cardinality(Before(R, S, a) \cup {a}) <= Cardinality(Before(R, S, b))
    BY <1>2, <2>1, FS_Subset
  <2>4. r[a] + 1 <= r[b]
    BY <2>2, <2>3
  <2>5. r[a] \in Int /\ r[b] \in Int
    BY <1>2
  <2> HIDE DEF r
  <2> QED BY <2>4, <2>5
<1>4. r \in [S -> 0..(n - 1)]
  BY <1>2
<1>5. \A a, b \in S : r[a] = r[b] => a = b
  <2> HIDE DEF r
  <2> SUFFICES ASSUME NEW a \in S, NEW b \in S, r[a] = r[b], a # b PROVE FALSE
    OBVIOUS
  <2>1. <<a, b>> \in R \/ <<b, a>> \in R
    BY DEF Lines
  <2>2. r[a] < r[b] \/ r[b] < r[a]
    BY <1>3, <2>1
  <2>3. r[a] \in Int /\ r[b] \in Int
    BY <1>4
  <2> QED BY <2>2, <2>3
<1> HIDE DEF r
<1>6. r \in Injection(S, 0..(n - 1))
  BY <1>4, <1>5 DEF Injection, IsInjective
<1>7. IsFiniteSet(0..(n - 1)) /\ Cardinality(0..(n - 1)) = n
  <2>1. ASSUME NEW m \in Nat
        PROVE  IsFiniteSet(0..(m - 1)) /\ Cardinality(0..(m - 1)) = m
    <3>1. 0 \in Int /\ m - 1 \in Int
      OBVIOUS
    <3>2. /\ IsFiniteSet(0..(m - 1))
          /\ Cardinality(0..(m - 1)) = IF 0 > m - 1 THEN 0 ELSE (m - 1) - 0 + 1
      BY <3>1, FS_Interval, Zenon
    <3> QED BY <3>2
  <2> QED BY <1>1, <2>1
<1>8. r \in Surjection(S, 0..(n - 1))
  BY <1>6, <1>7, FS_Injection
<1>9. \A i \in 0..(n - 1) : \E b \in S : r[b] = i
  BY <1>8 DEF Surjection
<1>10. q \in Bijection(T, 0..(k - 1))
  <2>1. q \in [T -> 0..(k - 1)]
    <3>1. \A b \in T : r[b] \in 0..(n - 1) /\ r[b] < k
      BY <1>4
    <3> QED BY <1>1, <3>1
  <2>2. \A a, b \in T : q[a] = q[b] => a = b
    BY <1>5
  <2>3. \A i \in 0..(k - 1) : \E b \in T : q[b] = i
    <3>1. ASSUME NEW i \in 0..(k - 1)
          PROVE  \E b \in T : q[b] = i
      <4>1. i \in 0..(n - 1) /\ i < k
        BY <1>1
      <4>2. PICK b \in S : r[b] = i
        BY <1>9, <4>1
      <4> QED BY <4>1, <4>2
    <3> QED BY <3>1
  <2> HIDE DEF q, T
  <2> QED BY <2>1, <2>2, <2>3 DEF Bijection, Injection, Surjection, IsInjective
<1>11. IsFiniteSet(T)
  BY FS_Subset
<1>12. Cardinality(0..(k - 1)) = Cardinality(T)
  <2> HIDE DEF q, T
  <2> QED BY <1>10, <1>11, FS_Bijection DEF ExistsBijection
<1>13. Cardinality(0..(k - 1)) = k
  BY <1>1, FS_Interval
<1>14. T = {b \in S : Cardinality(Before(R, S, b)) < k}
  BY DEF r
<1> QED BY <1>12, <1>13, <1>14

\* Numbers none of which is above another's have a sum that is not.
LEMMA SumLeq ==
  ASSUME NEW S, IsFiniteSet(S), NEW f \in [S -> Int], NEW g \in [S -> Int],
         \A x \in S : f[x] <= g[x]
  PROVE  SumFunction(f) <= SumFunction(g)
<1>1. [x \in S |-> g[x] - f[x]] \in [S -> Nat]
  OBVIOUS
<1>2. SumFunction([x \in S |-> g[x] - f[x]]) \in Nat
  BY <1>1, SumNat
<1>3. SumFunction([x \in S |-> g[x] - f[x]]) = SumFunction(g) - SumFunction(f)
  BY SumMinus
<1>4. SumFunction(f) \in Int /\ SumFunction(g) \in Int
  BY SumInt
<1> QED BY <1>2, <1>3, <1>4

\* A part of numbers none of which is below zero has no larger sum than the whole,
\* also when some of the others grow.
LEMMA SumOfPart ==
  ASSUME NEW S, IsFiniteSet(S), NEW T \in SUBSET S,
         NEW f \in [T -> Nat], NEW g \in [S -> Nat], \A x \in T : f[x] <= g[x]
  PROVE  SumFunction(f) \in Nat /\ SumFunction(g) \in Nat /\ SumFunction(f) <= SumFunction(g)
<1> DEFINE h == [x \in S |-> IF x \in T THEN f[x] ELSE 0]
<1>1. IsFiniteSet(T) /\ h \in [S -> Int] /\ g \in [S -> Int] /\ \A x \in S : h[x] <= g[x]
  BY FS_Subset
<1>2. \A x \in S \ T : h[x] = 0
  OBVIOUS
<1>3. \A x \in T : h[x] = f[x]
  OBVIOUS
<1> HIDE DEF h
<1>4. SumFunction(h) <= SumFunction(g)
  BY <1>1, SumLeq
<1>5. SumFunctionOnSet(h, T) = SumFunctionOnSet(h, S)
  BY <1>1, <1>2, SumSupport
<1>6. SumFunctionOnSet(h, T) = SumFunctionOnSet(f, T)
  BY <1>1, <1>3, SumAgree
<1>7. SumFunction(h) = SumFunctionOnSet(h, S) /\ SumFunction(f) = SumFunctionOnSet(f, T)
  BY <1>1 DEF SumFunction
<1>8. SumFunction(f) \in Nat /\ SumFunction(g) \in Nat
  BY <1>1, SumNat
<1> QED BY <1>4, <1>5, <1>6, <1>7, <1>8

\* A sum is the sum of its two parts.
LEMMA SumSplit ==
  ASSUME NEW S, IsFiniteSet(S), NEW T \in SUBSET S, NEW f \in [S -> Int],
         NEW g \in [T -> Int], \A x \in T : g[x] = f[x],
         NEW h \in [S \ T -> Int], \A x \in S \ T : h[x] = f[x]
  PROVE  SumFunction(f) = SumFunction(g) + SumFunction(h)
<1> DEFINE On(s) == SumFunctionOnSet(f, s)
           Q == {s \in SUBSET T : On(S) = On(s) + On(S \ s)}
<1>1. \A s \in SUBSET S : IsFiniteSet(s) /\ \A x \in s : f[x] \in Int
  BY FS_Subset
<1>2. \A s \in SUBSET S : On(s) \in Int /\ \A x \in s : On(s) = f[x] + On(s \ {x})
  BY <1>1, SumTakeOut
<1>3. On({}) = 0
  BY SumEmpty
<1>4. \A s \in SUBSET S : On(s) \in Int
  BY <1>2
<1>5. ASSUME NEW s \in SUBSET T, NEW x \in T, s \in Q, x \notin s
      PROVE  s \cup {x} \in Q
  <2>1. On(s \cup {x}) = f[x] + On(s)
    <3>1. (s \cup {x}) \ {x} = s /\ s \cup {x} \in SUBSET S /\ x \in s \cup {x}
      BY <1>5
    <3> HIDE DEF On
    <3> QED BY <1>2, <3>1
  <2>2. On(S \ s) = f[x] + On(S \ (s \cup {x}))
    <3>1. (S \ s) \ {x} = S \ (s \cup {x}) /\ S \ s \in SUBSET S /\ x \in S \ s
      BY <1>5
    <3> HIDE DEF On
    <3> QED BY <1>2, <3>1
  <2>3. On(S) = On(s) + On(S \ s)
    BY <1>5
  <2>4. On(s) \in Int /\ On(S \ (s \cup {x})) \in Int /\ f[x] \in Int
    BY <1>4, <1>5
  <2>5. s \cup {x} \in SUBSET T
    BY <1>5
  <2>6. On(S) = On(s \cup {x}) + On(S \ (s \cup {x}))
    <3> HIDE DEF On
    <3> QED BY <2>1, <2>2, <2>3, <2>4
  <2> QED BY <2>5, <2>6
<1>6. {} \in Q
  <2>1. S \ {} = S /\ On(S) \in Int
    BY <1>4
  <2> HIDE DEF On
  <2>2. On(S) = On({}) + On(S \ {})
    BY <1>3, <2>1
  <2> QED BY <2>2
<1>7. IsFiniteSet(T)
  BY <1>1
<1> HIDE DEF Q
<1>8. T \in Q
  BY <1>5, <1>6, <1>7, SetsGrow
<1>9. On(S) = On(T) + On(S \ T)
  BY <1>8 DEF Q
<1>10. SumFunctionOnSet(g, T) = On(T)
  BY <1>7, SumAgree
<1>11. SumFunctionOnSet(h, S \ T) = On(S \ T)
  <2>1. IsFiniteSet(S \ T)
    BY <1>1
  <2> QED BY <2>1, SumAgree
<1> QED BY <1>9, <1>10, <1>11 DEF SumFunction

=============================================================================
