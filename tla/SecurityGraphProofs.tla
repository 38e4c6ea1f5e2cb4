------------------------- MODULE SecurityGraphProofs -------------------------
(***************************************************************************)
(* Proofs about SecurityGraph.                                             *)
(*                                                                         *)
(* First the operators, for every graph: a set in its order                *)
(* (AscendingLists) and the sum of a function, counted as an area          *)
(* (SumIsArea); how far entities are apart (WithinIs); the breadth-first   *)
(* walk, whose list stays ordered by distance and whose queue spans two of *)
(* them (TurnKeeps), so that it ends with what is within MaxHops (ReachIs);*)
(* the score, which only grows (AssessGrows); and the blast radius, which  *)
(* neither a graph that grows nor more seeds ever make smaller             *)
(* (BlastGrows, BlastOfMore).                                              *)
(*                                                                         *)
(* Then the state.  What an incident holds was read from a graph that has  *)
(* only grown since: IInv says so of the copy a request works on and of    *)
(* the incidents that are saved, one request at a time working on each.    *)
(***************************************************************************)
EXTENDS SecurityGraph, FiniteSetTheorems, SequenceTheorems, WellFoundedInduction, TLAPS

-----------------------------------------------------------------------------
(* Numbers and sets                                                        *)

(* A set of naturals has a least member.                                   *)
LEMMA LeastOf ==
  ASSUME NEW S \in SUBSET Nat, S # {}
  PROVE  \E n \in S : \A m \in S : n <= m
<1>1. PICK n \in S : \A m \in Nat : <<m, n>> \in OpToRel(<, Nat) => m \notin S
  BY NatLessThanWellFounded, WFMin
<1>2. ASSUME NEW m \in S PROVE n <= m
  <2>1. m \in Nat /\ n \in Nat
    OBVIOUS
  <2>2. <<m, n>> \notin OpToRel(<, Nat)
    BY <1>1, <2>1
  <2>3. ~(m < n)
    BY <2>1, <2>2 DEF OpToRel
  <2> QED BY <2>1, <2>3
<1> QED BY <1>2

(* A recursion on the first numbers, by a step that stays in a set, has a  *)
(* solution.                                                               *)
Recurs(f, S, start, step, k) ==
  f \in [0..k -> S] /\ f[0] = start /\ \A n \in 1..k : f[n] = step[f[n - 1]]

LEMMA RecursionHas ==
  ASSUME NEW S, NEW start \in S, NEW step \in [S -> S], NEW k \in Nat
  PROVE  \E f : Recurs(f, S, start, step, k)
<1> USE DEF Recurs
<1> DEFINE Is(f, n) == Recurs(f, S, start, step, n)
           Without == {n \in 0..k : ~ \E f : Is(f, n)}
<1>1. CASE Without = {}
  <2>1. PICK f : Is(f, k)
    BY <1>1
  <2> QED BY <2>1
<1>2. CASE Without # {}
  <2>1. Without \in SUBSET Nat
    OBVIOUS
  <2>2. PICK n \in Without : \A m \in Without : n <= m
    BY <1>2, <2>1, LeastOf
  <2>3. n \in 0..k /\ n \in Nat /\ ~ \E f : Is(f, n)
    OBVIOUS
  <2>4. CASE n = 0
    <3> DEFINE f == [i \in 0..0 |-> start]
    <3>1. 0..0 = {0} /\ 1..0 = {}
      OBVIOUS
    <3>2. Is(f, 0)
      BY <3>1
    <3> QED BY <2>3, <2>4, <3>2
  <2>5. CASE n # 0
    <3>1. n - 1 \in 0..k /\ ~(n <= n - 1)
      BY <2>3, <2>5
    <3>2. n - 1 \notin Without
      BY <2>2, <3>1, Zenon
    <3>3. PICK f : Is(f, n - 1)
      BY <3>1, <3>2
    <3> DEFINE g == [i \in 0..n |-> IF i = n THEN step[f[n - 1]] ELSE f[i]]
    <3>4. f[n - 1] \in S
      BY <2>3, <2>5, <3>3
    <3>5. g \in [0..n -> S]
      <4>1. ASSUME NEW i \in 0..n, i # n PROVE f[i] \in S
        <5>1. i \in 0..n-1
          BY <2>3, <4>1
        <5> QED BY <3>3, <5>1
      <4> QED BY <3>4, <4>1
    <3>6. g[0] = start
      BY <2>3, <2>5, <3>3
    <3>7. ASSUME NEW i \in 1..n PROVE g[i] = step[g[i - 1]]
      <4>1. i - 1 \in 0..n /\ i - 1 # n /\ g[i - 1] = f[i - 1]
        BY <2>3
      <4>2. CASE i = n
        BY <2>3, <4>1, <4>2
      <4>3. CASE i # n
        <5>1. i \in 1..n-1 /\ g[i] = f[i]
          BY <2>3, <4>3
        <5> QED BY <3>3, <4>1, <5>1
      <4> QED BY <4>2, <4>3
    <3>8. Is(g, n)
      BY <3>5, <3>6, <3>7
    <3> QED BY <2>3, <3>8
  <2> QED BY <2>4, <2>5
<1> QED BY <1>1, <1>2

(* Ascending lists a finite set of numbers, each once.                     *)
LEMMA AscendingLists ==
  ASSUME NEW S \in SUBSET Nat, IsFiniteSet(S)
  PROVE  /\ Cardinality(S) \in Nat
         /\ Ascending(S) \in [1..Cardinality(S) -> S]
         /\ \A i, j \in 1..Cardinality(S) : Ascending(S)[i] = Ascending(S)[j] => i = j
         /\ \A x \in S : \E i \in 1..Cardinality(S) : Ascending(S)[i] = x
<1> DEFINE Below(x) == {y \in S : y < x}
           rank == [x \in S |-> Cardinality(Below(x)) + 1]
           n == Cardinality(S)
<1>1. n \in Nat
  BY FS_CardinalityType
<1>2. ASSUME NEW x \in S
      PROVE  IsFiniteSet(Below(x)) /\ Cardinality(Below(x)) \in Nat /\ Cardinality(Below(x)) < n
  <2>1. Below(x) \in SUBSET (S \ {x})
    OBVIOUS
  <2>2. IsFiniteSet(S \ {x}) /\ Cardinality(S \ {x}) = n - 1
    BY FS_RemoveElement
  <2>3. IsFiniteSet(Below(x)) /\ Cardinality(Below(x)) <= n - 1
    BY <2>1, <2>2, FS_Subset
  <2>4. Cardinality(Below(x)) \in Nat
    BY <2>3, FS_CardinalityType
  <2> QED BY <1>1, <2>3, <2>4
<1>3. ASSUME NEW x \in S, NEW y \in S, x < y
      PROVE  Cardinality(Below(x)) < Cardinality(Below(y))
  <2>0. x \in Int /\ y \in Int /\ \A z \in S : z \in Int
    OBVIOUS
  <2>5. \A z \in S : z < x => z < y
    BY <1>3, <2>0
  <2>6. ~(x < x)
    BY <2>0
  <2>1. Below(x) \union {x} \in SUBSET Below(y) /\ x \notin Below(x)
    BY <1>3, <2>5, <2>6
  <2>2. IsFiniteSet(Below(x) \union {x}) /\ Cardinality(Below(x) \union {x}) = Cardinality(Below(x)) + 1
    BY <1>2, <2>1, FS_AddElement
  <2>3. Cardinality(Below(x) \union {x}) <= Cardinality(Below(y))
    BY <1>2, <2>1, FS_Subset
  <2>4. Cardinality(Below(x)) \in Nat /\ Cardinality(Below(y)) \in Nat
    BY <1>2
  <2> QED BY <2>2, <2>3, <2>4
<1>4. rank \in [S -> 1..n]
  <2>1. ASSUME NEW x \in S PROVE Cardinality(Below(x)) + 1 \in 1..n
    BY <1>1, <1>2
  <2> QED BY <2>1
<1>5. \A x, y \in S : rank[x] = rank[y] => x = y
  <2> SUFFICES ASSUME NEW x \in S, NEW y \in S, x # y PROVE rank[x] # rank[y]
    OBVIOUS
  <2>1. Cardinality(Below(x)) # Cardinality(Below(y))
    <3>1. x < y \/ y < x
      OBVIOUS
    <3>2. Cardinality(Below(x)) \in Nat /\ Cardinality(Below(y)) \in Nat
      BY <1>2
    <3> QED BY <1>3, <3>1, <3>2
  <2>2. Cardinality(Below(x)) \in Nat /\ Cardinality(Below(y)) \in Nat
    BY <1>2
  <2> QED BY <2>1, <2>2
<1>6. rank \in Injection(S, 1..n)
  BY <1>4, <1>5 DEF Injection, IsInjective
<1>7. IsFiniteSet(1..n) /\ Cardinality(1..n) = n
  BY <1>1, FS_Interval
<1>8. rank \in Surjection(S, 1..n)
  BY <1>6, <1>7, FS_Injection
<1>9. ASSUME NEW i \in 1..n
      PROVE  /\ Ascending(S)[i] \in S
             /\ rank[Ascending(S)[i]] = i
  <2>1. PICK x \in S : rank[x] = i
    BY <1>8 DEF Surjection
  <2>2. Cardinality(Below(x)) = i - 1
    BY <1>1, <1>2, <2>1
  <2>3. \E z \in S : Cardinality({y \in S : y < z}) = i - 1
    BY <2>2
  <2>4. Ascending(S)[i] = CHOOSE z \in S : Cardinality({y \in S : y < z}) = i - 1
    BY DEF Ascending
  <2>5. Ascending(S)[i] \in S /\ Cardinality(Below(Ascending(S)[i])) = i - 1
    BY <2>3, <2>4
  <2> QED BY <1>1, <2>5
<1>10. Ascending(S) \in [1..n -> S]
  BY <1>9 DEF Ascending
<1>11. ASSUME NEW x \in S PROVE \E i \in 1..n : Ascending(S)[i] = x
  <2>1. rank[x] \in 1..n
    BY <1>4
  <2>2. rank[Ascending(S)[rank[x]]] = rank[x] /\ Ascending(S)[rank[x]] \in S
    BY <1>9, <2>1
  <2> QED BY <1>5, <2>1, <2>2
<1> HIDE DEF rank, Below
<1> QED BY <1>1, <1>9, <1>10, <1>11

-----------------------------------------------------------------------------
(* Sums: a sum of naturals is the size of the area under them              *)

Area(f, s) == {p \in s \X Nat : p[2] \in 1..f[p[1]]}

Column(f, i) == {i} \X (1..f[i])

LEMMA ColumnIs ==
  ASSUME NEW S, NEW f \in [S -> Nat], NEW i \in S
  PROVE  IsFiniteSet(Column(f, i)) /\ Cardinality(Column(f, i)) = f[i]
<1>1. f[i] \in Nat
  OBVIOUS
<1>2. IsFiniteSet({i}) /\ Cardinality({i}) = 1
  BY FS_Singleton
<1>3. IsFiniteSet(1..f[i]) /\ Cardinality(1..f[i]) = f[i]
  BY <1>1, FS_Interval
<1>4. IsFiniteSet(Column(f, i)) /\ Cardinality(Column(f, i)) = 1 * f[i]
  BY <1>2, <1>3, FS_Product DEF Column
<1> QED BY <1>1, <1>4

LEMMA AreaIsFinite ==
  ASSUME NEW S, NEW f \in [S -> Nat], NEW s \in SUBSET S, IsFiniteSet(s)
  PROVE  IsFiniteSet(Area(f, s)) /\ Cardinality(Area(f, s)) \in Nat
<1> DEFINE C == {Column(f, i) : i \in s}
           g == [i \in s |-> Column(f, i)]
<1>1. g \in Surjection(s, C)
  BY Zenon DEF Surjection
<1>2. IsFiniteSet(C)
  BY <1>1, FS_Surjection
<1>3. \A c \in C : IsFiniteSet(c)
  BY ColumnIs
<1>4. IsFiniteSet(UNION C)
  BY <1>2, <1>3, FS_UNION
<1>5. Area(f, s) \subseteq UNION C
  BY DEF Area, Column
<1> QED BY <1>4, <1>5, FS_Subset, FS_CardinalityType

LEMMA AreaAdds ==
  ASSUME NEW S, NEW f \in [S -> Nat], NEW s \in SUBSET S, IsFiniteSet(s), NEW x \in s
  PROVE  Cardinality(Area(f, s)) = f[x] + Cardinality(Area(f, s \ {x}))
<1> DEFINE A == Area(f, s \ {x})
           C == Column(f, x)
<1>1. s \ {x} \in SUBSET S /\ IsFiniteSet(s \ {x})
  BY FS_RemoveElement
<1>2. IsFiniteSet(A) /\ Cardinality(A) \in Nat
  BY <1>1, AreaIsFinite
<1>3. IsFiniteSet(C) /\ Cardinality(C) = f[x] /\ f[x] \in Nat
  BY ColumnIs
<1>4. Area(f, s) = C \union A
  <2>1. \A p \in Area(f, s) : p \in C \union A
    BY DEF Area, Column
  <2>2. \A p \in C : p \in Area(f, s)
    BY DEF Area, Column
  <2>3. \A p \in A : p \in Area(f, s)
    BY DEF Area
  <2> HIDE DEF A, C
  <2> QED BY <2>1, <2>2, <2>3
<1>5. C \intersect A = {}
  BY DEF Area, Column
<1>6. Cardinality(C \intersect A) = 0
  BY <1>5, FS_EmptySet
<1> HIDE DEF A, C
<1>7. Cardinality(C \union A) = Cardinality(C) + Cardinality(A) - 0
  BY <1>2, <1>3, <1>6, FS_Union
<1> QED BY <1>2, <1>3, <1>4, <1>7 DEF A

(* The loop that adds up takes the values in some order; whichever it is,  *)
(* the sum is the area.                                                    *)
LEMMA SumIsArea ==
  ASSUME NEW S, IsFiniteSet(S), NEW f \in [S -> Nat]
  PROVE  SumFunction(f) = Cardinality(Area(f, S))
<1> DEFINE Any(s) == CHOOSE x \in s : TRUE
           Adds(g) == g = [s \in SUBSET S |->
                             IF s = {} THEN 0 ELSE f[Any(s)] + g[s \ {Any(s)}]]
           area == [s \in SUBSET S |-> Cardinality(Area(f, s))]
           sum == CHOOSE g : Adds(g)
<1>0. \A s \in SUBSET S : IsFiniteSet(s)
  BY FS_Subset
<1>1. SumFunction(f) = sum[S]
  BY DEF SumFunction, SumFunctionOnSet, FoldFunctionOnSet, MapThenFoldSet
<1>2. ASSUME NEW s \in SUBSET S, s # {}
      PROVE  Any(s) \in s /\ s \ {Any(s)} \in SUBSET S
  BY <1>2
<1>3. Adds(area)
  <2>1. ASSUME NEW s \in SUBSET S
        PROVE  area[s] = IF s = {} THEN 0 ELSE f[Any(s)] + area[s \ {Any(s)}]
    <3>1. CASE s = {}
      <4>1. Area(f, s) = {}
        BY <3>1 DEF Area
      <4> QED BY <3>1, <4>1, FS_EmptySet
    <3>2. CASE s # {}
      <4>1. Any(s) \in s /\ s \ {Any(s)} \in SUBSET S /\ IsFiniteSet(s)
        BY <1>0, <1>2, <3>2
      <4>2. PICK x \in s : x = Any(s)
        BY <4>1
      <4>3. Cardinality(Area(f, s)) = f[x] + Cardinality(Area(f, s \ {x}))
        BY <4>1, AreaAdds
      <4> QED BY <3>2, <4>1, <4>2, <4>3
    <3> QED BY <3>1, <3>2
  <2> HIDE DEF Any
  <2> QED BY <2>1
<1>4. Adds(sum)
  <2> HIDE DEF Adds, area
  <2> QED BY <1>3
<1> DEFINE Bad == {Cardinality(s) : s \in {t \in SUBSET S : sum[t] # area[t]}}
<1> HIDE DEF sum, area
<1>5. Bad = {}
  <2> SUFFICES ASSUME Bad # {} PROVE FALSE
    OBVIOUS
  <2>1. Bad \in SUBSET Nat
    BY <1>0, FS_CardinalityType
  <2>2. PICK n \in Bad : \A m \in Bad : n <= m
    BY <2>1, LeastOf
  <2>3. PICK s \in SUBSET S : sum[s] # area[s] /\ n = Cardinality(s)
    OBVIOUS
  <2>4. CASE s = {}
    BY <1>3, <1>4, <2>3, <2>4
  <2>5. CASE s # {}
    <3>1. Any(s) \in s /\ s \ {Any(s)} \in SUBSET S /\ IsFiniteSet(s)
      BY <1>0, <1>2, <2>5
    <3>2. PICK x \in s : x = Any(s)
      BY <3>1
    <3>3. sum[s] = f[x] + sum[s \ {x}] /\ area[s] = f[x] + area[s \ {x}]
      <4> HIDE DEF Any
      <4> QED BY <1>3, <1>4, <2>5, <3>2
    <3>4. Cardinality(s \ {x}) = n - 1 /\ n \in Nat
      BY <2>1, <2>3, <3>1, FS_RemoveElement
    <3>5. Cardinality(s \ {x}) \notin Bad
      <4>1. ~(n <= n - 1)
        BY <3>4
      <4> QED BY <2>2, <3>4, <4>1
    <3>6. sum[s \ {x}] = area[s \ {x}]
      BY <3>1, <3>2, <3>5
    <3> QED BY <2>3, <3>3, <3>6
  <2> QED BY <2>4, <2>5
<1>6. sum[S] = area[S]
  BY <1>5
<1> QED BY <1>1, <1>6 DEF area

(* So a sum with more terms, or larger ones, is larger: each unit of the   *)
(* one has a place of its own in the other.                                *)
LEMMA SumGrows ==
  ASSUME NEW S, IsFiniteSet(S), NEW f \in [S -> Nat],
         NEW T, IsFiniteSet(T), NEW g \in [T -> Nat],
         NEW into \in Injection(S, T), \A i \in S : f[i] <= g[into[i]]
  PROVE  /\ SumFunction(f) \in Nat /\ SumFunction(g) \in Nat
         /\ SumFunction(f) <= SumFunction(g)
<1> DEFINE A == Area(f, S)
           B == Area(g, T)
           move == [p \in A |-> <<into[p[1]], p[2]>>]
<1>1. /\ IsFiniteSet(A) /\ Cardinality(A) \in Nat /\ IsFiniteSet(B) /\ Cardinality(B) \in Nat
  BY AreaIsFinite
<1>2. into \in [S -> T] /\ \A i, j \in S : into[i] = into[j] => i = j
  BY DEF Injection, IsInjective
<1>3. ASSUME NEW p \in A
      PROVE  /\ p[1] \in S /\ p = <<p[1], p[2]>> /\ <<into[p[1]], p[2]>> \in B
  <2>1. p[1] \in S /\ p[2] \in Nat /\ p[2] \in 1..f[p[1]] /\ p = <<p[1], p[2]>>
    BY DEF Area
  <2>2. into[p[1]] \in T /\ f[p[1]] <= g[into[p[1]]] /\ f[p[1]] \in Nat /\ g[into[p[1]]] \in Nat
    BY <1>2, <2>1
  <2>3. p[2] \in 1..g[into[p[1]]]
    BY <2>1, <2>2
  <2> QED BY <2>1, <2>2, <2>3 DEF Area
<1>4. move \in [A -> B]
  <2> HIDE DEF A, B
  <2> QED BY <1>3
<1>5. \A p, q \in A : move[p] = move[q] => p = q
  <2> SUFFICES ASSUME NEW p \in A, NEW q \in A, move[p] = move[q] PROVE p = q
    OBVIOUS
  <2>1. <<into[p[1]], p[2]>> = <<into[q[1]], q[2]>>
    OBVIOUS
  <2>2. p[1] \in S /\ q[1] \in S /\ p = <<p[1], p[2]>> /\ q = <<q[1], q[2]>>
    BY <1>3
  <2>3. into[p[1]] = into[q[1]] /\ p[2] = q[2]
    BY <2>1
  <2>4. p[1] = q[1]
    BY <1>2, <2>2, <2>3
  <2> QED BY <2>2, <2>3, <2>4
<1> HIDE DEF move, A, B
<1>6. move \in Injection(A, B)
  BY <1>4, <1>5 DEF Injection, IsInjective
<1>7. Cardinality(A) <= Cardinality(B)
  BY <1>1, <1>6, FS_Injection
<1>8. SumFunction(f) = Cardinality(A) /\ SumFunction(g) = Cardinality(B)
  BY SumIsArea DEF A, B
<1> QED BY <1>1, <1>7, <1>8

-----------------------------------------------------------------------------
(* How far entities are apart                                              *)

GraphTyped ==
  /\ crit \in [Entities -> 0..3 \union {Nothing}]
  /\ edges \subseteq [from : Known, to : Known, rel : Range(Relations)]
  /\ \A e \in edges : e.from # e.to

Around(b) == b \union UNION {Peers(m) : m \in b}

(* The recursion of Ball has a solution, so Ball obeys it.                 *)
LEMMA WithinIs ==
  ASSUME NEW K \in SUBSET Entities
  PROVE  /\ Within(K, 0) = K
         /\ \A n \in 1..MaxHops : Within(K, n) = Around(Within(K, n - 1))
         /\ \A n \in 0..MaxHops : Within(K, n) \in SUBSET Entities
<1> DEFINE Next1(f, n) == IF n = 0 THEN K
                          ELSE LET b == f[n - 1] IN b \union UNION {Peers(m) : m \in b}
           Is(f) == f = [n \in 0..MaxHops |-> Next1(f, n)]
           ball == CHOOSE f : Is(f)
<1>1. \A b \in SUBSET Entities : Around(b) \in SUBSET Entities
  BY DEF Around, Peers
<1>11. PICK wider \in [SUBSET Entities -> SUBSET Entities] :
         \A b \in SUBSET Entities : wider[b] = Around(b)
  <2>1. [b \in SUBSET Entities |-> Around(b)] \in [SUBSET Entities -> SUBSET Entities]
    BY <1>1
  <2> QED BY <2>1
<1>2. MaxHops \in Nat
  BY GraphBounds
<1>13. PICK f : Recurs(f, SUBSET Entities, K, wider, MaxHops)
  BY <1>2, RecursionHas
<1>3. f[0] = K /\ \A n \in 1..MaxHops : f[n] = wider[f[n - 1]]
  BY <1>13 DEF Recurs
<1>4. Is(f)
  <2>0. f \in [0..MaxHops -> SUBSET Entities]
    BY <1>13 DEF Recurs
  <2>1. ASSUME NEW n \in 0..MaxHops PROVE f[n] = Next1(f, n)
    <3>1. CASE n = 0
      BY <1>3, <3>1
    <3>2. CASE n # 0
      <4>1. n \in 1..MaxHops /\ n - 1 \in 0..MaxHops
        BY <1>2, <3>2
      <4>2. f[n] = Around(f[n - 1])
        BY <1>3, <1>11, <2>0, <4>1
      <4> QED BY <3>2, <4>2 DEF Around
    <3> QED BY <3>1, <3>2
  <2> HIDE DEF Next1
  <2> QED BY <2>0, <2>1
<1>5. Is(ball)
  <2> HIDE DEF Is
  <2> QED BY <1>4
<1>6. Ball(K) = ball
  BY DEF Ball
<1>7. \A n \in 0..MaxHops : Within(K, n) = Next1(Ball(K), n)
  <2> HIDE DEF Next1, ball
  <2> QED BY <1>5, <1>6 DEF Within
<1>8. Within(K, 0) = K
  BY <1>2, <1>7
<1>9. ASSUME NEW n \in 1..MaxHops PROVE Within(K, n) = Around(Within(K, n - 1))
  <2>1. n \in 0..MaxHops /\ n # 0
    BY <1>2
  <2>2. Next1(Ball(K), n) = Around(Ball(K)[n - 1])
    BY <2>1 DEF Around
  <2> HIDE DEF Next1
  <2> QED BY <1>7, <2>1, <2>2 DEF Within
<1>10. ASSUME NEW n \in 0..MaxHops PROVE Within(K, n) \in SUBSET Entities
  <2> DEFINE Bad == {m \in 0..MaxHops : Within(K, m) \notin SUBSET Entities}
  <2> SUFFICES ASSUME Bad # {} PROVE FALSE
    OBVIOUS
  <2>1. Bad \in SUBSET Nat
    OBVIOUS
  <2>2. PICK m \in Bad : \A j \in Bad : m <= j
    BY <2>1, LeastOf
  <2>3. m # 0
    BY <1>8
  <2>4. m \in 1..MaxHops /\ m - 1 \in 0..MaxHops /\ ~(m <= m - 1)
    BY <1>2, <2>3
  <2>5. Within(K, m - 1) \in SUBSET Entities
    BY <2>2, <2>4
  <2> QED BY <1>9, <2>4, <2>5 DEF Around, Peers
<1> HIDE DEF Is, Next1, ball
<1> QED BY <1>8, <1>9, <1>10

LEMMA WithinGrows ==
  ASSUME NEW K \in SUBSET Entities, NEW k \in 0..MaxHops, NEW j \in 0..k
  PROVE  Within(K, j) \subseteq Within(K, k)
<1> DEFINE Bad == {m \in j..k : ~(Within(K, j) \subseteq Within(K, m))}
<1>0. MaxHops \in Nat /\ j \in Nat /\ k \in Nat /\ k <= MaxHops /\ j <= k
  BY GraphBounds
<1>1. CASE Bad = {}
  <2>1. k \in j..k
    BY <1>0
  <2> QED BY <1>1, <2>1
<1>2. CASE Bad # {}
  <2>1. Bad \in SUBSET Nat
    BY <1>0
  <2>2. PICK m \in Bad : \A i \in Bad : m <= i
    BY <1>2, <2>1, LeastOf
  <2>3. m # j
    OBVIOUS
  <2>4. m \in 1..MaxHops /\ m - 1 \in j..k /\ ~(m <= m - 1)
    BY <1>0, <2>3
  <2>5. Within(K, j) \subseteq Within(K, m - 1)
    BY <2>2, <2>4
  <2>6. Within(K, m - 1) \subseteq Within(K, m)
    BY <2>4, WithinIs DEF Around
  <2> QED BY <2>5, <2>6
<1> QED BY <1>1, <1>2

LEMMA PeersAreNear ==
  ASSUME NEW K \in SUBSET Entities, NEW n \in 1..MaxHops, NEW m \in Within(K, n - 1),
         NEW x \in Peers(m)
  PROVE  x \in Within(K, n)
BY WithinIs DEF Around

(* Of several edges one is the first in order.                             *)
LEMMA FirstRelationIs ==
  ASSUME GraphTyped, NEW E \in SUBSET edges, E # {}
  PROVE  \E e \in E : e.rel = FirstRelation(E)
<1> DEFINE I == {i \in DOMAIN Relations : \E e \in E : e.rel = Relations[i]}
<1>1. DOMAIN Relations = 1..10
  BY DEF Relations
<1>2. \A e \in E : \E i \in DOMAIN Relations : e.rel = Relations[i]
  BY DEF GraphTyped, Range
<1>3. I # {} /\ I \in SUBSET Nat
  BY <1>1, <1>2
<1>4. PICK i \in I : \A j \in I : i <= j
  BY <1>3, LeastOf
<1>5. \A e \in E : \E j \in DOMAIN Relations : j >= i /\ e.rel = Relations[j]
  BY <1>1, <1>2, <1>4
<1> DEFINE first == CHOOSE k \in DOMAIN Relations :
             /\ \E e \in E : e.rel = Relations[k]
             /\ \A e \in E : \E j \in DOMAIN Relations : j >= k /\ e.rel = Relations[j]
<1>6. first \in DOMAIN Relations /\ \E e \in E : e.rel = Relations[first]
  BY <1>4, <1>5
<1>7. FirstRelation(E) = Relations[first]
  BY DEF FirstRelation
<1> QED BY <1>6, <1>7

LEMMA PeersAreKnown ==
  ASSUME GraphTyped, NEW n \in Entities
  PROVE  Peers(n) \subseteq Known
BY DEF GraphTyped, Peers, Between

-----------------------------------------------------------------------------
(* One turn of the walk                                                    *)

Stops == [id : Entities, hops : 0..MaxHops, via : Range(Relations) \union {NoRelation},
          from : Entities \union {NoEntity}]

Walks == [queue : Seq(Stops), reached : Seq(Stops)]

Seen(A) == {A[i].id : i \in 1..Len(A)}

All(w) == w.reached \o w.queue

(* What a turn that takes cur out puts into the queue.                     *)
Enqueued(cur, next, added) ==
  /\ added \in Seq(Stops)
  /\ \A i \in 1..Len(added) :
       /\ added[i].id \in next /\ added[i].hops = cur.hops + 1 /\ added[i].from = cur.id
       /\ \E e \in Between(added[i].id, cur.id) : e.rel = added[i].via
  /\ \A i, j \in 1..Len(added) : added[i].id = added[j].id => i = j
  /\ next \subseteq Seen(added)

NextAfter(A, cur) == IF cur.hops >= MaxHops THEN {} ELSE Peers(cur.id) \ Seen(A)

LEMMA EnqueueIs ==
  ASSUME GraphTyped, NEW cur \in Stops, NEW next \in SUBSET Peers(cur.id),
         next # {} => cur.hops < MaxHops,
         NEW order, order = Ascending(next),
         NEW added, added = [i \in DOMAIN order |->
           Stop(order[i], cur.hops + 1, FirstRelation(Between(cur.id, order[i])), cur.id)]
  PROVE  Enqueued(cur, next, added)
<1> DEFINE n == Cardinality(next)
<1>1. /\ cur.id \in Entities /\ cur.hops \in 0..MaxHops /\ MaxHops \in Nat
      /\ next \in SUBSET Entities /\ next \in SUBSET Nat /\ IsFiniteSet(next)
  <2>1. next \in SUBSET Entities
    BY DEF Peers
  <2>2. IsFiniteSet(next)
    BY <2>1, GraphBounds, FS_Subset
  <2>3. next \in SUBSET Nat
    BY <2>1, GraphBounds
  <2>4. cur.id \in Entities /\ cur.hops \in 0..MaxHops
    BY DEF Stops
  <2>5. MaxHops \in Nat
    BY GraphBounds
  <2> QED BY <2>1, <2>2, <2>3, <2>4, <2>5
<1>2. /\ n \in Nat /\ order \in [1..n -> next]
      /\ \A i, j \in 1..n : order[i] = order[j] => i = j
      /\ \A x \in next : \E i \in 1..n : order[i] = x
  BY <1>1, AscendingLists
<1>3. ASSUME NEW i \in 1..n
      PROVE  /\ added[i] \in Stops
             /\ added[i].id = order[i] /\ added[i].id \in next
             /\ added[i].hops = cur.hops + 1 /\ added[i].from = cur.id
             /\ \E e \in Between(added[i].id, cur.id) : e.rel = added[i].via
  <2> DEFINE E == Between(cur.id, order[i])
  <2>1. order[i] \in next /\ order[i] \in Entities
    BY <1>1, <1>2
  <2>2. Between(order[i], cur.id) = E
    BY DEF Between
  <2>3. E # {} /\ E \in SUBSET edges
    <3>1. Between(cur.id, order[i]) # {} \/ Between(order[i], cur.id) # {}
      BY <2>1 DEF Peers
    <3> QED BY <2>2, <3>1 DEF Between
  <2>4. PICK e \in E : e.rel = FirstRelation(E)
    BY <2>3, FirstRelationIs
  <2>5. FirstRelation(E) \in Range(Relations)
    BY <2>3, <2>4 DEF GraphTyped
  <2>6. added[i] = Stop(order[i], cur.hops + 1, FirstRelation(E), cur.id)
    BY <1>2
  <2>7. cur.hops + 1 \in 0..MaxHops
    BY <1>1, <2>1
  <2> HIDE DEF E
  <2>9. /\ added[i].id = order[i] /\ added[i].hops = cur.hops + 1 /\ added[i].from = cur.id
        /\ added[i].via = FirstRelation(E)
    BY <2>6 DEF Stop
  <2>10. PICK via \in Range(Relations), hops \in 0..MaxHops :
           via = FirstRelation(E) /\ hops = cur.hops + 1
    BY <2>5, <2>7
  <2>8. added[i] \in Stops
    <3>1. added[i] = [id |-> order[i], hops |-> hops, via |-> via, from |-> cur.id]
      BY <2>6, <2>10 DEF Stop
    <3>2. order[i] \in Entities /\ hops \in 0..MaxHops /\ via \in Range(Relations) \union {NoRelation}
          /\ cur.id \in Entities \union {NoEntity}
      BY <1>1, <2>1
    <3>3. [id |-> order[i], hops |-> hops, via |-> via, from |-> cur.id] \in Stops
      <4> HIDE DEF NoEntity
      <4> QED BY <3>2 DEF Stops
    <3> QED BY <3>1, <3>3
  <2> QED BY <2>1, <2>2, <2>4, <2>8, <2>9
<1>4. added \in [1..n -> Stops]
  BY <1>2, <1>3
<1>5. added \in Seq(Stops) /\ Len(added) = n
  BY <1>2, <1>4
<1>6. next \subseteq Seen(added)
  BY <1>2, <1>3, <1>5 DEF Seen
<1> QED BY <1>2, <1>3, <1>5, <1>6 DEF Enqueued

(* Joining sequences is associative.                                       *)
Associates(x, y, z) == (x \o y) \o z = x \o (y \o z)

LEMMA JoiningAssociates ==
  \A S : \A x, y, z \in Seq(S) : Associates(x, y, z)
<1> SUFFICES ASSUME NEW S, NEW x \in Seq(S), NEW y \in Seq(S), NEW z \in Seq(S)
             PROVE  (x \o y) \o z = x \o (y \o z)
  BY DEF Associates
<1> QED BY ConcatAssociative

(* Four sequences joined two by two, or from the left.                     *)
Regroups(R, h, t, added) == (R \o h) \o (t \o added) = (R \o (h \o t)) \o added

LEMMA Regrouped ==
  ASSUME NEW S, NEW R \in Seq(S), NEW h \in Seq(S), NEW t \in Seq(S), NEW added \in Seq(S)
  PROVE  Regroups(R, h, t, added)
<1>1. Associates(R, h, t)
  BY JoiningAssociates, Zenon
<1>2. PICK x \in Seq(S) : x = R \o h
  BY ConcatProperties
<1>3. Associates(x, t, added)
  BY JoiningAssociates, Zenon
<1>4. (x \o t) \o added = x \o (t \o added)
  BY <1>3 DEF Associates
<1>5. x \o t = R \o (h \o t)
  BY <1>1, <1>2 DEF Associates
<1> QED BY <1>2, <1>4, <1>5 DEF Regroups

(* The first of what is left moves to the end of what was taken, and       *)
(* something new comes after the rest.                                     *)
Rotation(S, R, Q, added) ==
  /\ R \o Q \in Seq(S) /\ Len(R) \in Nat /\ Len(R) + 1 \in 1..Len(R \o Q)
  /\ (R \o Q)[Len(R) + 1] = Head(Q) /\ Head(Q) \in S
  /\ Tail(Q) \o added \in Seq(S) /\ Append(R, Head(Q)) \in Seq(S)
  /\ Len(Append(R, Head(Q))) = Len(R) + 1
  /\ Append(R, Head(Q)) \o (Tail(Q) \o added) = (R \o Q) \o added
  /\ (R \o Q) \o added \in Seq(S)

LEMMA Rotated ==
  ASSUME NEW S, NEW R \in Seq(S), NEW Q \in Seq(S), Q # <<>>, NEW added \in Seq(S)
  PROVE  Rotation(S, R, Q, added)
<1>1. PICK r \in Nat, q \in Nat : r = Len(R) /\ q = Len(Q) /\ q > 0
  BY EmptySeq, LenProperties
<1>2. /\ R \o Q \in Seq(S) /\ Len(R \o Q) = r + q
      /\ \A i \in 1..r + q : (R \o Q)[i] = IF i <= r THEN R[i] ELSE Q[i - r]
  BY <1>1, ConcatProperties
<1>3. /\ Head(Q) \in S /\ Tail(Q) \in Seq(S) /\ Head(Q) = Q[1] /\ Len(Tail(Q)) = q - 1
      /\ \A i \in 1..Len(Tail(Q)) : Tail(Q)[i] = Q[i + 1]
  BY <1>1, HeadTailProperties
<1>4. Len(R) + 1 \in 1..Len(R \o Q) /\ (R \o Q)[Len(R) + 1] = Head(Q)
  <2>1. r + 1 \in 1..r + q /\ ~(r + 1 <= r) /\ r + 1 - r = 1
    BY <1>1
  <2> QED BY <1>1, <1>2, <1>3, <2>1
<1>5. Tail(Q) \o added \in Seq(S)
  BY <1>3, ConcatProperties
<1>6. Append(R, Head(Q)) \in Seq(S) /\ Len(Append(R, Head(Q))) = Len(R) + 1
  BY <1>3, AppendProperties
<1>7. <<Head(Q)>> \o Tail(Q) = Q
  <2>1. <<Head(Q)>> \in Seq(S) /\ Len(<<Head(Q)>>) = 1 /\ <<Head(Q)>>[1] = Head(Q)
    BY <1>3
  <2>2. PICK h \in Seq(S) : h = <<Head(Q)>> /\ Len(h) = 1 /\ h[1] = Head(Q)
    BY <2>1
  <2>3. PICK t \in Seq(S) : t = Tail(Q)
    BY <1>3
  <2>4. /\ h \o t \in Seq(S) /\ Len(h \o t) = 1 + (q - 1)
        /\ \A i \in 1..1 + (q - 1) : (h \o t)[i] = IF i <= 1 THEN h[i] ELSE t[i - 1]
    BY <1>3, <2>2, <2>3, ConcatProperties
  <2>5. ASSUME NEW i \in 1..q PROVE (h \o t)[i] = Q[i]
    <3>0. i \in 1..1 + (q - 1)
      BY <1>1
    <3>1. CASE i = 1
      BY <1>3, <2>2, <2>4, <3>0, <3>1
    <3>2. CASE i # 1
      <4>1. ~(i <= 1) /\ i - 1 \in 1..q - 1 /\ (i - 1) + 1 = i
        BY <1>1, <3>2
      <4>2. t[i - 1] = Q[i]
        BY <1>3, <2>3, <4>1
      <4> QED BY <2>4, <3>0, <4>1, <4>2
    <3> QED BY <3>1, <3>2
  <2>6. Len(h \o t) = Len(Q)
    BY <1>1, <2>4
  <2>7. h \o t = Q
    BY <1>1, <2>4, <2>5, <2>6, SeqEqual
  <2> QED BY <2>2, <2>3, <2>7
<1>8. Append(R, Head(Q)) \o (Tail(Q) \o added) = (R \o Q) \o added
  <2>0. <<Head(Q)>> \in Seq(S)
    BY <1>3
  <2>1. PICK h \in Seq(S) : h = <<Head(Q)>>
    BY <2>0
  <2>2. PICK t \in Seq(S) : t = Tail(Q)
    BY <1>3
  <2>3. Append(R, Head(Q)) = R \o h /\ h \o t = Q
    BY <1>3, <1>7, <2>1, <2>2, AppendIsConcat
  <2>4. Regroups(R, h, t, added)
    BY Regrouped, Zenon
  <2> QED BY <2>2, <2>3, <2>4 DEF Regroups
<1>9. (R \o Q) \o added \in Seq(S)
  BY <1>2, ConcatProperties
<1> QED BY <1>1, <1>2, <1>3, <1>4, <1>5, <1>6, <1>8, <1>9 DEF Rotation

LEMMA SeenIs ==
  ASSUME NEW R \in Seq(Stops), NEW Q \in Seq(Stops)
  PROVE  Seen(R \o Q) = Ids(Q) \union Ids(R)
<1>1. PICK r \in Nat, q \in Nat : r = Len(R) /\ q = Len(Q)
  BY LenProperties
<1>2. PICK A \in Seq(Stops) : A = R \o Q
  BY ConcatProperties
<1>3. /\ Len(A) = r + q /\ DOMAIN R = 1..r /\ DOMAIN Q = 1..q
      /\ \A i \in 1..r + q : A[i] = IF i <= r THEN R[i] ELSE Q[i - r]
  BY <1>1, <1>2, ConcatProperties, LenProperties
<1>4. ASSUME NEW i \in 1..r + q PROVE A[i].id \in Ids(Q) \union Ids(R)
  <2>1. CASE i <= r
    <3>1. i \in 1..r
      BY <1>1, <2>1
    <3> QED BY <1>3, <2>1, <3>1 DEF Ids
  <2>2. CASE ~(i <= r)
    <3>1. i - r \in 1..q
      BY <1>1, <2>2
    <3> QED BY <1>3, <2>2, <3>1 DEF Ids
  <2> QED BY <2>1, <2>2
<1>5. ASSUME NEW i \in 1..r PROVE \E j \in 1..r + q : A[j] = R[i]
  <2>1. i \in 1..r + q /\ i <= r
    BY <1>1
  <2> QED BY <1>3, <2>1
<1>6. ASSUME NEW i \in 1..q PROVE \E j \in 1..r + q : A[j] = Q[i]
  <2>1. r + i \in 1..r + q /\ ~(r + i <= r) /\ (r + i) - r = i
    BY <1>1
  <2> QED BY <1>3, <2>1
<1>7. Seen(A) \subseteq Ids(Q) \union Ids(R)
  BY <1>3, <1>4 DEF Seen
<1>8. Ids(R) \subseteq Seen(A)
  <2>1. ASSUME NEW i \in 1..r PROVE R[i].id \in Seen(A)
    BY <1>3, <1>5 DEF Seen
  <2> QED BY <1>3, <2>1 DEF Ids
<1>9. Ids(Q) \subseteq Seen(A)
  <2>1. ASSUME NEW i \in 1..q PROVE Q[i].id \in Seen(A)
    BY <1>3, <1>6 DEF Seen
  <2> QED BY <1>3, <2>1 DEF Ids
<1> QED BY <1>2, <1>7, <1>8, <1>9

(* What a turn does to what was found, of which the queue's head is cur.    *)
Visited(w, A, cur) ==
  /\ Visit(w) \in Walks /\ cur \in Stops
  /\ Len(Visit(w).reached) = Len(w.reached) + 1
  /\ Len(w.reached) \in Nat /\ Len(w.reached) + 1 \in 1..Len(A)
  /\ A[Len(w.reached) + 1] = cur
  /\ \E added \in Seq(Stops) :
       Enqueued(cur, NextAfter(A, cur), added) /\ All(Visit(w)) = A \o added

LEMMA VisitIs ==
  ASSUME GraphTyped, NEW w \in Walks, w.queue # <<>>,
         NEW A, A = All(w), NEW cur, cur = Head(w.queue)
  PROVE  Visited(w, A, cur)
<1>1. PICK R \in Seq(Stops), Q \in Seq(Stops) : R = w.reached /\ Q = w.queue
  BY DEF Walks
<1>2. cur \in Stops /\ cur = Head(Q)
  BY <1>1, HeadTailProperties
<1> DEFINE next == IF cur.hops >= MaxHops THEN {}
                   ELSE Peers(cur.id) \ (Ids(Q) \union Ids(R))
           order == Ascending(next)
           added == [i \in DOMAIN order |->
             Stop(order[i], cur.hops + 1, FirstRelation(Between(cur.id, order[i])), cur.id)]
<1>3. A = R \o Q /\ next = NextAfter(A, cur)
  BY <1>1, SeenIs DEF NextAfter, All
<1>4. next \in SUBSET Peers(cur.id) /\ (next # {} => cur.hops < MaxHops)
  <2>1. MaxHops \in Int
    BY GraphBounds
  <2>2. cur.hops \in 0..MaxHops
    BY <1>2 DEF Stops
  <2>3. cur.hops \in Int
    BY <2>1, <2>2
  <2> QED BY <2>1, <2>3
<1>5. Enqueued(cur, next, added)
  <2> HIDE DEF next
  <2> QED BY <1>2, <1>4, EnqueueIs
<1>6. Visit(w) = [queue |-> Tail(Q) \o added, reached |-> Append(R, Head(Q))]
  BY <1>1, <1>2 DEF Visit
<1> HIDE DEF next, added
<1>7. PICK new \in Seq(Stops) : new = added
  BY <1>5, Zenon DEF Enqueued
<1>8. /\ R \o Q \in Seq(Stops) /\ Len(R) \in Nat /\ Len(R) + 1 \in 1..Len(R \o Q)
      /\ (R \o Q)[Len(R) + 1] = Head(Q)
      /\ Tail(Q) \o new \in Seq(Stops) /\ Append(R, Head(Q)) \in Seq(Stops)
      /\ Len(Append(R, Head(Q))) = Len(R) + 1
      /\ Append(R, Head(Q)) \o (Tail(Q) \o new) = (R \o Q) \o new
      /\ (R \o Q) \o new \in Seq(Stops)
  <2>1. Q # <<>>
    BY <1>1
  <2>2. Rotation(Stops, R, Q, new)
    BY <2>1, Rotated, Zenon
  <2> QED BY <2>2 DEF Rotation
<1>9. Visit(w) \in Walks
  BY <1>6, <1>7, <1>8 DEF Walks
<1>10. All(Visit(w)) = A \o new /\ Visit(w).reached = Append(R, Head(Q))
  <2>1. Visit(w).queue = Tail(Q) \o new /\ Visit(w).reached = Append(R, Head(Q))
    <3>1. PICK v : v = [queue |-> Tail(Q) \o new, reached |-> Append(R, Head(Q))]
      OBVIOUS
    <3>2. v.queue = Tail(Q) \o new /\ v.reached = Append(R, Head(Q))
      BY <3>1
    <3>3. Visit(w) = v
      BY <1>6, <1>7, <3>1
    <3> QED BY <3>2, <3>3
  <2>2. All(Visit(w)) = Visit(w).reached \o Visit(w).queue
    BY DEF All
  <2>3. All(Visit(w)) = Append(R, Head(Q)) \o (Tail(Q) \o new)
    BY <2>1, <2>2
  <2> QED BY <1>3, <1>8, <2>1, <2>3
<1> QED BY <1>1, <1>2, <1>3, <1>5, <1>7, <1>8, <1>9, <1>10 DEF Visited

-----------------------------------------------------------------------------
(* The walk                                                                *)

(* A stop is a seed, or as far as its hops say and reached along an edge    *)
(* from one hop nearer.                                                    *)
TrueStop(K, s) ==
  /\ s.hops = 0 => s.id \in K
  /\ s.hops # 0 =>
       /\ s.id \in Within(K, s.hops) /\ s.id \notin Within(K, s.hops - 1)
       /\ s.from \in Within(K, s.hops - 1)
       /\ \E e \in Between(s.id, s.from) : e.rel = s.via

(* What was found so far, in the order it was found.                       *)
Sound(K, A) ==
  /\ A \in Seq(Stops)
  /\ \A i \in 1..Len(A) : TrueStop(K, A[i])
  /\ \A i, j \in 1..Len(A) : A[i].id = A[j].id => i = j

(* The first r of it were taken out: nothing next to them is missing, and  *)
(* what waits is sorted by hops, no more than one of which it spans.       *)
Turned(K, A, r) ==
  /\ K \subseteq Seen(A)
  /\ \A i \in 1..Len(A) : i <= r /\ A[i].hops < MaxHops => Peers(A[i].id) \subseteq Seen(A)
  /\ \A i, j \in 1..Len(A) : i <= j => A[i].hops <= A[j].hops
  /\ \A i, j \in 1..Len(A) : i = r + 1 => A[j].hops <= A[i].hops + 1

LEMMA StopsAreWithin ==
  ASSUME NEW K \in SUBSET Entities, NEW s \in Stops, TrueStop(K, s),
         NEW k \in 0..MaxHops
  PROVE  s.id \in Within(K, k) <=> s.hops <= k
<1>1. s.hops \in 0..MaxHops /\ MaxHops \in Nat
  <2>1. s.hops \in 0..MaxHops
    BY DEF Stops
  <2> QED BY <2>1, GraphBounds
<1>2. CASE s.hops = 0
  <2>1. s.id \in Within(K, 0) /\ 0 \in 0..k
    BY <1>1, <1>2, WithinIs DEF TrueStop
  <2>2. Within(K, 0) \subseteq Within(K, k)
    BY <2>1, WithinGrows
  <2> QED BY <1>1, <1>2, <2>1, <2>2
<1>3. CASE s.hops # 0
  <2>1. s.id \in Within(K, s.hops) /\ s.id \notin Within(K, s.hops - 1)
    BY <1>3 DEF TrueStop
  <2>2. CASE s.hops <= k
    <3>1. s.hops \in 0..k
      BY <1>1, <2>2
    <3>2. Within(K, s.hops) \subseteq Within(K, k)
      BY <3>1, WithinGrows
    <3> QED BY <2>1, <2>2, <3>2
  <2>3. CASE ~(s.hops <= k)
    <3>1. s.hops - 1 \in 0..MaxHops /\ k \in 0..s.hops - 1
      BY <1>1, <1>3, <2>3
    <3>2. Within(K, k) \subseteq Within(K, s.hops - 1)
      BY <3>1, WithinGrows
    <3> QED BY <2>1, <2>3, <3>2
  <2> QED BY <2>2, <2>3
<1> QED BY <1>2, <1>3

(* When everything that waits is at least k hops away, everything nearer   *)
(* was found.                                                              *)
LEMMA FrontIs ==
  ASSUME NEW K \in SUBSET Entities, NEW A, Sound(K, A), NEW r \in Nat, Turned(K, A, r),
         NEW k \in 0..MaxHops, \A i \in 1..Len(A) : i <= r \/ A[i].hops >= k
  PROVE  Within(K, k) \subseteq Seen(A)
<1> DEFINE Bad == {m \in 0..k : ~(Within(K, m) \subseteq Seen(A))}
<1>0. MaxHops \in Nat /\ k \in Nat /\ k <= MaxHops
  BY GraphBounds
<1>1. CASE Bad = {}
  <2>1. k \in 0..k
    BY <1>0
  <2> QED BY <1>1, <2>1
<1>2. CASE Bad # {}
  <2>1. Bad \in SUBSET Nat
    OBVIOUS
  <2>2. PICK m \in Bad : \A i \in Bad : m <= i
    BY <1>2, <2>1, LeastOf
  <2>3. m # 0
    <3>1. Within(K, 0) = K
      BY WithinIs
    <3> QED BY <2>2, <3>1 DEF Turned
  <2>4. m \in 1..MaxHops /\ m - 1 \in 0..k /\ ~(m <= m - 1) /\ m \in Nat /\ m <= k
        /\ m - 1 \in 0..MaxHops
    BY <1>0, <2>3
  <2>5. Within(K, m - 1) \subseteq Seen(A)
    BY <2>2, <2>4
  <2>6. ASSUME NEW y \in Within(K, m - 1) PROVE Peers(y) \subseteq Seen(A)
    <3>1. PICK i \in 1..Len(A) : A[i].id = y
      BY <2>5 DEF Seen
    <3>2. A[i] \in Stops /\ TrueStop(K, A[i])
      <4>1. A \in Seq(Stops)
        BY DEF Sound
      <4> QED BY <4>1 DEF Sound
    <3>3. A[i].hops <= m - 1
      BY <2>4, <3>1, <3>2, StopsAreWithin
    <3>4. A[i].hops \in Int
      <4>1. A[i].hops \in 0..MaxHops
        BY <3>2 DEF Stops
      <4> QED BY <1>0, <4>1
    <3>5. ~(A[i].hops >= k) /\ A[i].hops < MaxHops
      BY <1>0, <2>4, <3>3, <3>4
    <3> QED BY <3>1, <3>5 DEF Turned
  <2>7. Within(K, m) \subseteq Seen(A)
    BY <2>4, <2>5, <2>6, WithinIs DEF Around
  <2> QED BY <2>7
<1> QED BY <1>1, <1>2

(* A turn adds what is next to the first that waits: it is one hop farther. *)
LEMMA TurnKeeps ==
  ASSUME GraphTyped, NEW K \in SUBSET Entities, NEW A, Sound(K, A),
         NEW r \in Nat, Turned(K, A, r), r + 1 \in 1..Len(A),
         NEW cur, cur = A[r + 1],
         NEW added, Enqueued(cur, NextAfter(A, cur), added),
         NEW B, B = A \o added
  PROVE  Sound(K, B) /\ Turned(K, B, r + 1)
<1>0. A \in Seq(Stops) /\ added \in Seq(Stops)
  BY DEF Sound, Enqueued
<1>1. PICK a \in Nat, d \in Nat : a = Len(A) /\ d = Len(added)
  BY <1>0, LenProperties
<1>2. /\ B \in Seq(Stops) /\ Len(B) = a + d
      /\ \A i \in 1..a + d : B[i] = IF i <= a THEN A[i] ELSE added[i - a]
  BY <1>0, <1>1, ConcatProperties
<1>3. \A i \in 1..a : i \in 1..a + d /\ B[i] = A[i] /\ A[i] \in Stops
  BY <1>0, <1>1, <1>2
<1>4. \A i \in 1..a + d : i \in 1..a \/ (i - a \in 1..d /\ ~(i <= a) /\ B[i] = added[i - a])
  BY <1>1, <1>2
<1>5. MaxHops \in Nat /\ \A s \in Stops : s.hops \in 0..MaxHops
  <2>1. \A s \in Stops : s.hops \in 0..MaxHops
    BY DEF Stops
  <2> QED BY <2>1, GraphBounds
<1>6. PICK k \in 0..MaxHops : k = cur.hops
  BY <1>0, <1>1, <1>3, <1>5
<1>7. cur \in Stops /\ TrueStop(K, cur) /\ r + 1 \in 1..a /\ cur = A[r + 1]
  BY <1>1, <1>3 DEF Sound
<1>8. cur.id \in Within(K, k)
  BY <1>5, <1>6, <1>7, StopsAreWithin
<1>9. \A i \in 1..a : i <= r \/ A[i].hops >= k
  <2>1. \A i \in 1..a : i <= r \/ r + 1 <= i
    BY <1>1
  <2>2. \A i \in 1..a : r + 1 <= i => A[r + 1].hops <= A[i].hops
    BY <1>1, <1>7 DEF Turned
  <2>3. ASSUME NEW i \in 1..a, r + 1 <= i PROVE A[i].hops >= k
    <3>1. A[i].hops \in 0..MaxHops
      BY <1>3, <1>5
    <3>2. k <= A[i].hops
      BY <1>6, <1>7, <2>2, <2>3
    <3> QED BY <1>5, <3>1, <3>2
  <2> QED BY <2>1, <2>3
<1>10. Within(K, k) \subseteq Seen(A)
  BY <1>1, <1>9, FrontIs
<1>11. \A i \in 1..a : A[i].hops <= k + 1
  BY <1>1, <1>6, <1>7 DEF Turned
<1>12. ASSUME NEW i \in 1..d
       PROVE  /\ added[i] \in Stops /\ added[i].hops = k + 1
              /\ added[i].id \notin Seen(A) /\ k < MaxHops /\ TrueStop(K, added[i])
  <2>1. /\ added[i].id \in NextAfter(A, cur) /\ added[i].hops = k + 1 /\ added[i].from = cur.id
        /\ \E e \in Between(added[i].id, cur.id) : e.rel = added[i].via
    BY <1>1, <1>6 DEF Enqueued
  <2>2. k < MaxHops /\ added[i].id \in Peers(cur.id) /\ added[i].id \notin Seen(A)
    <3>1. ~(k >= MaxHops)
      BY <1>6, <2>1 DEF NextAfter
    <3>2. k < MaxHops
      BY <1>5, <3>1
    <3> QED BY <1>6, <2>1, <3>1, <3>2 DEF NextAfter
  <2>3. k + 1 \in 1..MaxHops /\ (k + 1) - 1 = k /\ k + 1 # 0
    BY <1>5, <2>2
  <2>4. added[i].id \in Within(K, k + 1)
    BY <1>8, <2>2, <2>3, PeersAreNear
  <2>5. added[i].id \notin Within(K, k)
    BY <1>10, <2>2
  <2>6. TrueStop(K, added[i])
    BY <1>8, <2>1, <2>3, <2>4, <2>5 DEF TrueStop
  <2> QED BY <1>0, <1>1, <2>1, <2>2, <2>6
<1>13. Sound(K, B)
  <2>1. ASSUME NEW i \in 1..a + d PROVE TrueStop(K, B[i])
    <3>1. CASE i \in 1..a
      BY <1>1, <1>3, <3>1 DEF Sound
    <3>2. CASE i \notin 1..a
      <4>1. i - a \in 1..d /\ B[i] = added[i - a]
        BY <1>4, <3>2
      <4> QED BY <1>12, <4>1
    <3> QED BY <3>1, <3>2
  <2>2. \A i \in 1..a : A[i].id \in Seen(A)
    BY <1>1 DEF Seen
  <2>3. ASSUME NEW i \in 1..a + d, NEW j \in 1..a + d, B[i].id = B[j].id PROVE i = j
    <3>1. CASE i \in 1..a /\ j \in 1..a
      BY <1>1, <1>3, <2>3, <3>1 DEF Sound
    <3>2. CASE i \in 1..a /\ j \notin 1..a
      <4>1. j - a \in 1..d /\ B[j] = added[j - a]
        BY <1>4, <3>2
      <4> QED BY <1>3, <1>12, <2>2, <2>3, <3>2, <4>1
    <3>3. CASE i \notin 1..a /\ j \in 1..a
      <4>1. i - a \in 1..d /\ B[i] = added[i - a]
        BY <1>4, <3>3
      <4> QED BY <1>3, <1>12, <2>2, <2>3, <3>3, <4>1
    <3>4. CASE i \notin 1..a /\ j \notin 1..a
      <4>1. /\ i - a \in 1..d /\ B[i] = added[i - a]
            /\ j - a \in 1..d /\ B[j] = added[j - a]
        BY <1>4, <3>4
      <4>2. i - a = j - a
        BY <1>1, <2>3, <4>1 DEF Enqueued
      <4> QED BY <1>1, <4>2
    <3> QED BY <3>1, <3>2, <3>3, <3>4
  <2> QED BY <1>2, <2>1, <2>3 DEF Sound
<1>14. Seen(A) \subseteq Seen(B) /\ Seen(added) \subseteq Seen(B)
  <2>1. ASSUME NEW i \in 1..a PROVE A[i].id \in Seen(B)
    BY <1>2, <1>3 DEF Seen
  <2>2. ASSUME NEW i \in 1..d PROVE added[i].id \in Seen(B)
    <3>1. i + a \in 1..a + d /\ ~(i + a <= a) /\ (i + a) - a = i
      BY <1>1
    <3>2. B[i + a] = added[i]
      BY <1>2, <3>1
    <3> QED BY <1>2, <3>1, <3>2 DEF Seen
  <2> QED BY <1>1, <2>1, <2>2 DEF Seen
<1>15. Turned(K, B, r + 1)
  <2>1. K \subseteq Seen(B)
    BY <1>14 DEF Turned
  <2>2. ASSUME NEW i \in 1..a + d, i <= r + 1, B[i].hops < MaxHops
        PROVE  Peers(B[i].id) \subseteq Seen(B)
    <3>1. i \in 1..a /\ B[i] = A[i]
      <4>1. i <= a
        BY <1>1, <1>7, <2>2
      <4>2. i \in 1..a
        BY <1>1, <4>1
      <4> QED BY <1>3, <4>2
    <3>2. CASE i <= r
      BY <1>1, <1>14, <2>2, <3>1, <3>2 DEF Turned
    <3>3. CASE ~(i <= r)
      <4>1. i = r + 1
        BY <1>1, <2>2, <3>3
      <4>2. B[i] = cur /\ k < MaxHops
        BY <1>6, <1>7, <2>2, <3>1, <4>1
      <4>3. ~(cur.hops >= MaxHops)
        BY <1>5, <1>6, <4>2
      <4>4. Peers(cur.id) \ Seen(A) \subseteq Seen(added)
        BY <4>3 DEF Enqueued, NextAfter
      <4> QED BY <1>14, <4>2, <4>4
    <3> QED BY <3>2, <3>3
  <2>3. ASSUME NEW i \in 1..a + d PROVE B[i].hops \in 0..MaxHops /\ B[i].hops <= k + 1
    <3>1. CASE i \in 1..a
      BY <1>3, <1>5, <1>11, <3>1
    <3>2. CASE i \notin 1..a
      <4>1. i - a \in 1..d /\ B[i] = added[i - a]
        BY <1>4, <3>2
      <4>2. B[i].hops = k + 1 /\ k < MaxHops
        BY <1>12, <4>1
      <4> QED BY <1>5, <4>2
    <3> QED BY <3>1, <3>2
  <2>4. ASSUME NEW i \in 1..a + d, r + 1 <= i PROVE B[i].hops >= k
    <3>1. CASE i \in 1..a
      <4>1. ~(i <= r)
        BY <2>4
      <4> QED BY <1>3, <1>9, <3>1, <4>1
    <3>2. CASE i \notin 1..a
      <4>1. i - a \in 1..d /\ B[i] = added[i - a]
        BY <1>4, <3>2
      <4>2. B[i].hops = k + 1
        BY <1>12, <4>1
      <4> QED BY <1>5, <4>2
    <3> QED BY <3>1, <3>2
  <2>5. ASSUME NEW i \in 1..a + d, NEW j \in 1..a + d, i <= j PROVE B[i].hops <= B[j].hops
    <3>1. CASE i \in 1..a /\ j \in 1..a
      BY <1>1, <1>3, <2>5, <3>1 DEF Turned
    <3>2. CASE j \notin 1..a
      <4>1. j - a \in 1..d /\ B[j] = added[j - a]
        BY <1>4, <3>2
      <4>2. B[j].hops = k + 1
        BY <1>12, <4>1
      <4> QED BY <2>3, <4>2
    <3>3. i \in 1..a \/ j \notin 1..a
      BY <1>1, <2>5
    <3> QED BY <3>1, <3>2, <3>3
  <2>6. ASSUME NEW i \in 1..a + d, NEW j \in 1..a + d, i = (r + 1) + 1
        PROVE  B[j].hops <= B[i].hops + 1
    <3>1. r + 1 <= i
      BY <2>6
    <3>2. /\ B[i].hops \in 0..MaxHops /\ B[j].hops \in 0..MaxHops
          /\ B[j].hops <= k + 1 /\ B[i].hops >= k
      BY <2>3, <2>4, <3>1
    <3>3. PICK x \in 0..MaxHops, y \in 0..MaxHops : x = B[i].hops /\ y = B[j].hops
      BY <3>2
    <3>4. y <= k + 1 /\ x >= k
      BY <3>2, <3>3
    <3>5. y <= x + 1
      BY <1>5, <3>4
    <3> QED BY <3>3, <3>5
  <2> QED BY <1>2, <2>1, <2>2, <2>5, <2>6 DEF Turned
<1> QED BY <1>13, <1>15

(* The walk starts with the seeds the graph knows.                         *)
LEMMA StartIs ==
  ASSUME NEW K \in SUBSET Entities, NEW order, order = Ascending(K),
         NEW A, A = [i \in DOMAIN order |-> Stop(order[i], 0, NoRelation, NoEntity)]
  PROVE  Sound(K, A) /\ Turned(K, A, 0)
<1>1. K \in SUBSET Nat /\ IsFiniteSet(K) /\ MaxHops \in Nat
  <2>1. \A x \in Entities : x \in Nat
    BY GraphBounds
  <2>2. IsFiniteSet(Entities)
    BY GraphBounds
  <2>3. MaxHops \in Nat
    BY GraphBounds
  <2>4. IsFiniteSet(K)
    BY <2>2, FS_Subset
  <2> QED BY <2>1, <2>3, <2>4
<1>2. PICK n \in Nat : n = Cardinality(K)
  BY <1>1, FS_CardinalityType
<1>3. /\ order \in [1..n -> K]
      /\ \A i, j \in 1..n : order[i] = order[j] => i = j
      /\ \A x \in K : \E i \in 1..n : order[i] = x
  BY <1>1, <1>2, AscendingLists
<1>4. ASSUME NEW i \in 1..n
      PROVE  A[i] \in Stops /\ A[i].id = order[i] /\ A[i].id \in K /\ A[i].hops = 0
  <2>1. A[i] = Stop(order[i], 0, NoRelation, NoEntity) /\ order[i] \in K
    BY <1>3
  <2>2. order[i] \in Entities /\ 0 \in 0..MaxHops
    <3>1. \A m \in Nat : 0 \in 0..m
      OBVIOUS
    <3> QED BY <1>1, <2>1, <3>1
  <2>3. A[i] = [id |-> order[i], hops |-> 0, via |-> NoRelation, from |-> NoEntity]
    BY <2>1 DEF Stop
  <2>4. A[i] \in Stops
    <3> HIDE DEF NoEntity
    <3> QED BY <2>2, <2>3 DEF Stops
  <2> QED BY <2>1, <2>3, <2>4
<1>5. A \in [1..n -> Stops]
  BY <1>3, <1>4
<1>6. A \in Seq(Stops) /\ Len(A) = n
  BY <1>2, <1>5
<1>7. Sound(K, A)
  <2>1. \A i \in 1..n : TrueStop(K, A[i])
    BY <1>4 DEF TrueStop
  <2>2. \A i, j \in 1..n : A[i].id = A[j].id => i = j
    BY <1>3, <1>4
  <2> QED BY <1>6, <2>1, <2>2 DEF Sound
<1>8. K \subseteq Seen(A)
  BY <1>3, <1>4, <1>6 DEF Seen
<1>9. \A i \in 1..n : ~(i <= 0)
  OBVIOUS
<1>10. \A i, j \in 1..n : A[i].hops <= A[j].hops /\ A[j].hops <= A[i].hops + 1
  BY <1>4
<1> QED BY <1>6, <1>7, <1>8, <1>9, <1>10 DEF Turned

(* Where the walk may be.                                                  *)
WalkSound(K, w) ==
  /\ w \in Walks /\ Sound(K, All(w)) /\ Turned(K, All(w), Len(w.reached))

Turn(w) == IF w.queue = <<>> THEN w ELSE Visit(w)

LEMMA VisitKeeps ==
  ASSUME GraphTyped, NEW K \in SUBSET Entities, NEW w, WalkSound(K, w), w.queue # <<>>
  PROVE  WalkSound(K, Visit(w)) /\ Len(Visit(w).reached) = Len(w.reached) + 1
<1>1. PICK A, cur : A = All(w) /\ cur = Head(w.queue)
  OBVIOUS
<1>2. w \in Walks /\ w.queue # <<>>
  BY DEF WalkSound
<1>3. Visited(w, A, cur)
  BY <1>1, <1>2, VisitIs
<1>4. PICK added \in Seq(Stops) :
        Enqueued(cur, NextAfter(A, cur), added) /\ All(Visit(w)) = A \o added
  BY <1>3 DEF Visited
<1>5. PICK r \in Nat : r = Len(w.reached)
  BY <1>3 DEF Visited
<1>6. PICK B : B = A \o added
  OBVIOUS
<1>7. Sound(K, A) /\ Turned(K, A, r)
  BY <1>1, <1>5 DEF WalkSound
<1>8. cur = A[r + 1] /\ r + 1 \in 1..Len(A)
  BY <1>3, <1>5 DEF Visited
<1>9. Sound(K, B) /\ Turned(K, B, r + 1)
  BY <1>4, <1>6, <1>7, <1>8, TurnKeeps
<1> QED BY <1>3, <1>4, <1>5, <1>6, <1>9 DEF WalkSound, Visited

(* No more is found than there are entities.                               *)
LEMMA FoundIsBounded ==
  ASSUME NEW K \in SUBSET Entities, NEW A, Sound(K, A)
  PROVE  Len(A) \in Nat /\ Len(A) <= Cardinality(Entities) /\ Cardinality(Entities) \in Nat
<1>1. A \in Seq(Stops)
  BY DEF Sound
<1>2. PICK n \in Nat : n = Len(A)
  BY <1>1, LenProperties
<1> DEFINE ids == [i \in 1..n |-> A[i].id]
<1>3. \A i \in 1..n : A[i] \in Stops
  BY <1>1, <1>2
<1>4. ids \in [1..n -> Entities]
  BY <1>3 DEF Stops
<1>5. \A i, j \in 1..n : ids[i] = ids[j] => i = j
  BY <1>2 DEF Sound
<1> HIDE DEF ids
<1>6. ids \in Injection(1..n, Entities)
  BY <1>4, <1>5 DEF Injection, IsInjective
<1>7. IsFiniteSet(Entities)
  BY GraphBounds
<1>8. Cardinality(1..n) <= Cardinality(Entities) /\ Cardinality(Entities) \in Nat
  BY <1>6, <1>7, FS_Injection, FS_CardinalityType
<1>9. Cardinality(1..n) = n
  <2>1. 1 \in Int /\ n \in Int
    OBVIOUS
  <2>2. Cardinality(1..n) = IF 1 > n THEN 0 ELSE n - 1 + 1
    BY <2>1, FS_Interval
  <2> QED BY <2>2
<1> QED BY <1>2, <1>8, <1>9

LEMMA FoundSoFar ==
  ASSUME NEW K, NEW w, WalkSound(K, w)
  PROVE  /\ Len(w.reached) \in Nat /\ Len(w.reached) <= Len(All(w))
         /\ w.queue = <<>> => All(w) = w.reached
         /\ w.queue # <<>> => Len(w.reached) < Len(All(w))
<1>1. PICK R \in Seq(Stops), Q \in Seq(Stops) : R = w.reached /\ Q = w.queue
  BY DEF WalkSound, Walks
<1>2. PICK r \in Nat, q \in Nat : r = Len(R) /\ q = Len(Q)
  BY LenProperties
<1>3. All(w) = R \o Q
  BY <1>1 DEF All
<1>4. Len(R \o Q) = r + q
  BY <1>2, ConcatProperties
<1>5. Q # <<>> => q > 0
  BY <1>2, EmptySeq
<1>6. Q = <<>> => R \o Q = R
  BY ConcatEmptySeq
<1>7. PICK n \in Nat : n = Len(All(w))
  BY <1>2, <1>3, <1>4
<1>8. r <= n /\ (Q # <<>> => r < n)
  BY <1>2, <1>3, <1>4, <1>5, <1>7
<1> QED BY <1>1, <1>2, <1>3, <1>6, <1>7, <1>8

(* What a walk from K finds.                                               *)
Reached(K, stops) == Sound(K, stops) /\ Seen(stops) = Within(K, MaxHops)

(* With nothing left to take out, everything within MaxHops was found.     *)
LEMMA EmptyQueueIs ==
  ASSUME GraphTyped, NEW K \in SUBSET Entities, NEW w, WalkSound(K, w), w.queue = <<>>
  PROVE  Reached(K, w.reached)
<1>1. PICK A, r : A = All(w) /\ r = Len(w.reached)
  OBVIOUS
<1>2. r \in Nat /\ A = w.reached /\ Len(A) = r
  BY <1>1, FoundSoFar
<1>3. Sound(K, A) /\ Turned(K, A, r)
  BY <1>1 DEF WalkSound
<1>4. MaxHops \in Nat /\ MaxHops \in 0..MaxHops
  <2>1. MaxHops \in Nat
    BY GraphBounds
  <2> QED BY <2>1
<1>5. \A i \in 1..Len(A) : i <= r \/ A[i].hops >= MaxHops
  BY <1>2
<1>6. Within(K, MaxHops) \subseteq Seen(A)
  BY <1>2, <1>3, <1>4, <1>5, FrontIs
<1>7. ASSUME NEW i \in 1..Len(A) PROVE A[i].id \in Within(K, MaxHops)
  <2>1. A[i] \in Stops /\ TrueStop(K, A[i])
    <3>1. A \in Seq(Stops)
      BY <1>3 DEF Sound
    <3> QED BY <1>3, <3>1 DEF Sound
  <2>2. A[i].hops \in 0..MaxHops
    BY <2>1 DEF Stops
  <2>3. A[i].hops <= MaxHops
    BY <1>4, <2>2
  <2> QED BY <1>4, <2>1, <2>3, StopsAreWithin
<1>8. Seen(A) \subseteq Within(K, MaxHops)
  BY <1>7 DEF Seen
<1> QED BY <1>2, <1>3, <1>6, <1>8 DEF Reached

LEMMA ReachIs ==
  ASSUME GraphTyped, NEW seeds \in SUBSET Entities, NEW K, K = seeds \intersect Known
  PROVE  Reached(K, Reachable(seeds))
<1> DEFINE known == Ascending(seeds \intersect Known)
           first == [ queue   |-> [i \in DOMAIN known |-> Stop(known[i], 0, NoRelation, NoEntity)],
                      reached |-> <<>> ]
           N == Cardinality(Entities)
           Body(t, n) == IF n = 0 THEN first
                         ELSE LET so_far == t[n - 1]
                              IN  IF so_far.queue = <<>> THEN so_far ELSE Visit(so_far)
           Is(t) == t = [n \in 0..N |-> Body(t, n)]
<1>1. N \in Nat
  BY GraphBounds, FS_CardinalityType
<1>2. K \in SUBSET Entities
  OBVIOUS
<1>3. PICK start : start = first
  OBVIOUS
<1>4. WalkSound(K, start)
  <2>1. PICK order : order = known
    OBVIOUS
  <2>2. PICK A : A = [i \in DOMAIN order |-> Stop(order[i], 0, NoRelation, NoEntity)]
    OBVIOUS
  <2>3. Sound(K, A) /\ Turned(K, A, 0)
    BY <1>2, <2>1, <2>2, StartIs
  <2>4. A \in Seq(Stops)
    BY <2>3 DEF Sound
  <2>5. start = [queue |-> A, reached |-> <<>>]
    BY <1>3, <2>1, <2>2
  <2>6. <<>> \in Seq(Stops) /\ Len(<<>>) = 0 /\ <<>> \o A = A
    BY <2>4, ConcatEmptySeq, EmptySeq
  <2>7. All(start) = A /\ start.reached = <<>>
    BY <2>5, <2>6 DEF All
  <2>8. start \in Walks
    BY <2>4, <2>5, <2>6 DEF Walks
  <2> QED BY <2>3, <2>6, <2>7, <2>8 DEF WalkSound
<1>5. PICK S : S = {w \in Walks : WalkSound(K, w)}
  OBVIOUS
<1>6. \A w \in S : Turn(w) \in S
  <2>1. ASSUME NEW w \in S PROVE Turn(w) \in S
    <3>1. CASE w.queue = <<>>
      BY <3>1 DEF Turn
    <3>2. CASE w.queue # <<>>
      <4>1. WalkSound(K, Visit(w))
        BY <1>2, <1>5, <3>2, VisitKeeps
      <4> QED BY <1>5, <3>2, <4>1 DEF Turn, WalkSound
    <3> QED BY <3>1, <3>2
  <2> QED BY <2>1
<1>7. PICK step \in [S -> S] : \A w \in S : step[w] = Turn(w)
  <2>1. [w \in S |-> Turn(w)] \in [S -> S]
    BY <1>6
  <2> QED BY <2>1
<1>8. start \in S
  BY <1>4, <1>5 DEF WalkSound
<1>9. PICK f : Recurs(f, S, start, step, N)
  BY <1>1, <1>8, RecursionHas
<1>10. Is(f)
  <2>0. f \in [0..N -> S] /\ f[0] = start /\ \A n \in 1..N : f[n] = step[f[n - 1]]
    BY <1>9 DEF Recurs
  <2>1. ASSUME NEW n \in 0..N PROVE f[n] = Body(f, n)
    <3>1. CASE n = 0
      BY <1>3, <2>0, <3>1
    <3>2. CASE n # 0
      <4>1. n \in 1..N /\ n - 1 \in 0..N
        BY <1>1, <3>2
      <4>2. f[n] = Turn(f[n - 1])
        BY <1>7, <2>0, <4>1
      <4> QED BY <3>2, <4>2 DEF Turn
    <3> QED BY <3>1, <3>2
  <2> HIDE DEF Body, N
  <2> QED BY <2>0, <2>1
<1>11. Is(Walk(seeds))
  <2> DEFINE solution == CHOOSE t : Is(t)
  <2>1. Walk(seeds) = solution
    BY DEF Walk
  <2>2. Is(solution)
    <3> HIDE DEF Is
    <3> QED BY <1>10
  <2> HIDE DEF Is, solution
  <2> QED BY <2>1, <2>2
<1>12. PICK turn : turn = Walk(seeds)
  OBVIOUS
<1>13. turn[0] = start /\ \A n \in 1..N : turn[n] = Turn(turn[n - 1])
  <2>1. \A n \in 0..N : turn[n] = Body(turn, n)
    <3> HIDE DEF Body
    <3> QED BY <1>11, <1>12
  <2>2. turn[0] = start
    <3>1. 0 \in 0..N
      BY <1>1
    <3>2. turn[0] = Body(turn, 0)
      BY <2>1, <3>1
    <3> HIDE DEF first
    <3> QED BY <1>3, <3>2
  <2>3. ASSUME NEW n \in 1..N PROVE turn[n] = Turn(turn[n - 1])
    <3>1. n \in 0..N /\ n # 0
      BY <1>1
    <3>2. turn[n] = Body(turn, n)
      BY <2>1, <3>1
    <3> QED BY <3>1, <3>2 DEF Turn
  <2> QED BY <2>2, <2>3
<1> DEFINE Fine(n) == /\ WalkSound(K, turn[n])
                      /\ turn[n].queue = <<>> \/ Len(turn[n].reached) = n
           Bad == {n \in 0..N : ~Fine(n)}
<1>14. Bad = {}
  <2> SUFFICES ASSUME Bad # {} PROVE FALSE
    OBVIOUS
  <2>1. Bad \in SUBSET Nat
    OBVIOUS
  <2>2. PICK n \in Bad : \A m \in Bad : n <= m
    BY <2>1, LeastOf
  <2>3. Fine(0)
    <3>1. Len(start.reached) = 0
      BY <1>3
    <3> QED BY <1>4, <1>13, <3>1
  <2>4. n # 0
    BY <2>3
  <2>5. n \in 1..N /\ n - 1 \in 0..N /\ ~(n <= n - 1) /\ n \in Nat
    BY <1>1, <2>4
  <2>6. Fine(n - 1)
    BY <2>2, <2>5
  <2>7. PICK w, v : w = turn[n - 1] /\ v = turn[n]
    OBVIOUS
  <2>8. v = Turn(w) /\ WalkSound(K, w) /\ (w.queue = <<>> \/ Len(w.reached) = n - 1)
    BY <1>13, <2>5, <2>6, <2>7
  <2>9. CASE w.queue = <<>>
    BY <2>7, <2>8, <2>9 DEF Turn
  <2>10. CASE w.queue # <<>>
    <3>1. v = Visit(w)
      BY <2>8, <2>10 DEF Turn
    <3>2. WalkSound(K, Visit(w)) /\ Len(Visit(w).reached) = Len(w.reached) + 1
      BY <1>2, <2>8, <2>10, VisitKeeps
    <3>3. Len(v.reached) = n
      BY <2>5, <2>8, <2>10, <3>1, <3>2
    <3> QED BY <2>7, <3>1, <3>2, <3>3
  <2> QED BY <2>9, <2>10
<1>15. N \in 0..N
  BY <1>1
<1>16. Fine(N)
  BY <1>14, <1>15
<1>17. PICK w : w = turn[N]
  OBVIOUS
<1> HIDE DEF N
<1>18. w.queue = <<>>
  <2> SUFFICES ASSUME w.queue # <<>> PROVE FALSE
    OBVIOUS
  <2>1. WalkSound(K, w) /\ Len(w.reached) = N
    BY <1>16, <1>17
  <2>2. PICK A : A = All(w)
    OBVIOUS
  <2>3. N < Len(A)
    BY <2>1, <2>2, FoundSoFar
  <2>4. Sound(K, A)
    BY <2>1, <2>2 DEF WalkSound
  <2>5. Len(A) \in Nat /\ Len(A) <= N
    BY <1>2, <2>4, FoundIsBounded DEF N
  <2> QED BY <1>1, <2>3, <2>5
<1>19. Reached(K, w.reached)
  BY <1>2, <1>16, <1>17, <1>18, EmptyQueueIs
<1>20. Reachable(seeds) = w.reached
  BY <1>12, <1>17 DEF Reachable, N
<1> QED BY <1>19, <1>20

LEMMA ReachedOnce ==
  ASSUME NEW K, NEW stops, Reached(K, stops)
  PROVE  /\ Ids(stops) = Within(K, MaxHops) /\ DOMAIN stops = 1..Len(stops)
         /\ IsFiniteSet(DOMAIN stops) /\ Len(stops) \in Nat
         /\ Cardinality(Ids(stops)) = Len(stops)
<1>1. stops \in Seq(Stops)
  BY DEF Reached, Sound
<1>2. PICK n \in Nat : n = Len(stops) /\ DOMAIN stops = 1..n
  BY <1>1, LenProperties
<1>3. Ids(stops) = Seen(stops)
  BY <1>2 DEF Ids, Seen
<1> DEFINE ids == [i \in 1..n |-> stops[i].id]
<1>4. ids \in Surjection(1..n, Ids(stops))
  BY <1>2, Zenon DEF Surjection, Ids
<1>5. \A i, j \in 1..n : ids[i] = ids[j] => i = j
  BY <1>2 DEF Reached, Sound
<1> HIDE DEF ids
<1>6. IsFiniteSet(1..n) /\ Cardinality(1..n) = n
  <2>1. 1 \in Int /\ n \in Int
    OBVIOUS
  <2>2. IsFiniteSet(1..n) /\ Cardinality(1..n) = IF 1 > n THEN 0 ELSE n - 1 + 1
    BY <2>1, FS_Interval
  <2> QED BY <2>2
<1>7. ids \in Bijection(1..n, Ids(stops))
  <2>1. ids \in [1..n -> Ids(stops)]
    BY <1>4 DEF Surjection
  <2>2. ids \in Injection(1..n, Ids(stops))
    BY <1>5, <2>1 DEF Injection, IsInjective
  <2> QED BY <1>4, <2>2 DEF Bijection
<1>8. Cardinality(Ids(stops)) = n
  BY <1>6, <1>7, FS_Bijection, Zenon DEF ExistsBijection
<1> QED BY <1>2, <1>3, <1>6, <1>8 DEF Reached

-----------------------------------------------------------------------------
(* The walk is the graph                                                   *)

(* What WalkIsTheGraph says of the walk from the seeds K.                  *)
ListsTheGraph(K, stops) ==
  /\ Ids(stops) = Within(K, MaxHops)
  /\ Cardinality(Ids(stops)) = Len(stops)
  /\ \A i \in DOMAIN stops :
       LET s == stops[i]
       IN  IF s.hops = 0 THEN s.id \in K
           ELSE /\ s.id \notin Within(K, s.hops - 1)
                /\ s.from \in Within(K, s.hops - 1)
                /\ \E e \in Between(s.id, s.from) : e.rel = s.via

(* GraphTyped is enough: whatever the graph, a walk from entities it knows *)
(* finds what is within MaxHops.                                           *)
LEMMA TypedGraphIsWalked == GraphTyped => WalkIsTheGraph
<1> SUFFICES ASSUME GraphTyped PROVE WalkIsTheGraph
  OBVIOUS
<1>1. \A e \in edges : {e.from, e.to} \subseteq Known
  BY DEF GraphTyped
<1>2. ASSUME NEW a \in Known, NEW b \in Known
      PROVE  ListsTheGraph({a, b}, Reachable({a, b}))
  <2>1. PICK K \in SUBSET Entities : K = {a, b} /\ K = {a, b} \intersect Known
    BY DEF Known
  <2>2. PICK stops : stops = Reachable(K)
    OBVIOUS
  <2>3. Reached(K, stops)
    <3>1. K = K \intersect Known
      BY <2>1
    <3> QED BY <2>2, <3>1, ReachIs
  <2>4. /\ Ids(stops) = Within(K, MaxHops) /\ DOMAIN stops = 1..Len(stops)
        /\ Cardinality(Ids(stops)) = Len(stops)
    BY <2>3, ReachedOnce
  <2>5. ASSUME NEW i \in DOMAIN stops PROVE TrueStop(K, stops[i])
    BY <2>3, <2>4, <2>5 DEF Reached, Sound
  <2>6. ListsTheGraph(K, stops)
    BY <2>4, <2>5 DEF ListsTheGraph, TrueStop
  <2> QED BY <2>1, <2>2, <2>6
<1>3. \A a \in Known : \A b \in {n \in Known : n >= a} :
        ListsTheGraph({a, b}, Reachable({a, b}))
  BY <1>2
<1> QED BY <1>1, <1>3 DEF WalkIsTheGraph, ListsTheGraph

-----------------------------------------------------------------------------
(* The score: module RiskScore                                             *)

LEMMA ProductsGrow ==
  ASSUME NEW a \in Nat, NEW b \in Nat, NEW c \in Nat, NEW d \in Nat, a <= c, b <= d
  PROVE  a * b \in Nat /\ c * d \in Nat /\ a * b <= c * d
<1>1. a * b <= c * b
  OBVIOUS
<1>2. c * b <= c * d
  OBVIOUS
<1>3. a * b \in Nat /\ c * b \in Nat /\ c * d \in Nat
  OBVIOUS
<1> QED BY <1>1, <1>2, <1>3

LEMMA StepsAreTyped ==
  /\ DOMAIN BlastSteps = 1..100 /\ \A s \in DOMAIN BlastSteps : BlastSteps[s] \in Nat
  /\ DOMAIN RiskSteps = 1..100 /\ \A s \in DOMAIN RiskSteps : RiskSteps[s] \in Nat
<1>1. BlastSteps \in Seq(Nat) /\ Len(BlastSteps) = 100
  BY DEF BlastSteps
<1>2. RiskSteps \in Seq(Nat) /\ Len(RiskSteps) = 100
  BY DEF RiskSteps
<1>3. ASSUME NEW s \in Seq(Nat), Len(s) = 100
      PROVE  DOMAIN s = 1..100 /\ \A i \in DOMAIN s : s[i] \in Nat
  <2>1. DOMAIN s = 1..100
    BY <1>3, LenProperties
  <2>2. \A i \in 1..Len(s) : s[i] \in Nat
    BY ElementOfSeq, Zenon
  <2> QED BY <1>3, <2>1, <2>2
<1>4. PICK b \in Seq(Nat), r \in Seq(Nat) : b = BlastSteps /\ r = RiskSteps
  BY <1>1, <1>2
<1> QED BY <1>1, <1>2, <1>3, <1>4

(* A score counts the steps that were reached.                             *)
LEMMA ScoresGrow ==
  ASSUME NEW a \in Nat, NEW b \in Nat, a <= b
  PROVE  /\ BlastScore(a) \in 0..100 /\ BlastScore(a) <= BlastScore(b)
         /\ RiskOf(a) \in 0..100 /\ RiskOf(a) <= RiskOf(b)
<1> DEFINE B(x) == {s \in DOMAIN BlastSteps : BlastSteps[s] <= x}
           R(x) == {s \in DOMAIN RiskSteps : RiskSteps[s] <= x}
<1>1. IsFiniteSet(1..100) /\ Cardinality(1..100) = 100
  <2>1. 1 \in Int /\ 100 \in Int
    OBVIOUS
  <2>2. IsFiniteSet(1..100) /\ Cardinality(1..100) = IF 1 > 100 THEN 0 ELSE 100 - 1 + 1
    BY <2>1, FS_Interval
  <2> QED BY <2>2
<1>2. B(a) \subseteq B(b) /\ B(b) \subseteq 1..100 /\ R(a) \subseteq R(b) /\ R(b) \subseteq 1..100
  <2>1. \A s \in DOMAIN BlastSteps : BlastSteps[s] <= a => BlastSteps[s] <= b
    BY StepsAreTyped
  <2>2. \A s \in DOMAIN RiskSteps : RiskSteps[s] <= a => RiskSteps[s] <= b
    BY StepsAreTyped
  <2> QED BY <2>1, <2>2, StepsAreTyped
<1> HIDE DEF B, R
<1>3. IsFiniteSet(B(b)) /\ IsFiniteSet(R(b)) /\ Cardinality(B(b)) <= 100 /\ Cardinality(R(b)) <= 100
  BY <1>1, <1>2, FS_Subset
<1>4. /\ IsFiniteSet(B(a)) /\ Cardinality(B(a)) <= Cardinality(B(b))
      /\ IsFiniteSet(R(a)) /\ Cardinality(R(a)) <= Cardinality(R(b))
  BY <1>2, <1>3, FS_Subset
<1>5. /\ Cardinality(B(a)) \in Nat /\ Cardinality(B(b)) \in Nat
      /\ Cardinality(R(a)) \in Nat /\ Cardinality(R(b)) \in Nat
  BY <1>3, <1>4, FS_CardinalityType
<1>6. /\ BlastScore(a) = Cardinality(B(a)) /\ BlastScore(b) = Cardinality(B(b))
      /\ RiskOf(a) = Cardinality(R(a)) /\ RiskOf(b) = Cardinality(R(b))
  BY DEF BlastScore, RiskOf, B, R
<1> QED BY <1>3, <1>4, <1>5, <1>6

(* What one entity adds to a blast radius.                                 *)
WeightAt(c, hops) == (6 * CriticalityWeight(c)) \div (IF hops = 0 THEN 1 ELSE hops)

LEMMA WeightsGrow ==
  ASSUME NEW c \in 0..3, NEW d \in 0..3, c <= d, NEW h \in 0..3, NEW k \in 0..3, k <= h
  PROVE  /\ WeightAt(c, h) \in Nat /\ WeightAt(d, k) \in Nat
         /\ WeightAt(c, h) <= WeightAt(d, k)
<1>1. PICK x \in Nat, y \in Nat : x = CriticalityWeight(c) /\ y = CriticalityWeight(d) /\ x <= y
  BY DEF CriticalityWeight
<1>2. (c = 0 \/ c = 1 \/ c = 2 \/ c = 3) /\ (d = 0 \/ d = 1 \/ d = 2 \/ d = 3)
  OBVIOUS
<1>3. (h = 0 \/ h = 1 \/ h = 2 \/ h = 3) /\ (k = 0 \/ k = 1 \/ k = 2 \/ k = 3)
  OBVIOUS
<1>4. /\ WeightAt(c, h) = (6 * x) \div (IF h = 0 THEN 1 ELSE h)
      /\ WeightAt(d, k) = (6 * y) \div (IF k = 0 THEN 1 ELSE k)
  BY <1>1 DEF WeightAt
<1> QED BY <1>1, <1>3, <1>4

LEMMA GreatestOf ==
  ASSUME NEW b \in Nat, NEW S \in SUBSET (0..b), S # {}
  PROVE  Max(S) \in S /\ \A x \in S : x <= Max(S)
<1> DEFINE T == {b - x : x \in S}
<1>0. \A x \in S : x \in Nat /\ x <= b /\ b - x \in Nat
  OBVIOUS
<1>1. T \in SUBSET Nat /\ T # {}
  BY <1>0
<1>2. PICK n \in T : \A m \in T : n <= m
  BY <1>1, LeastOf
<1>3. PICK x \in S : n = b - x
  OBVIOUS
<1>4. ASSUME NEW y \in S PROVE x >= y
  <2>1. b - y \in T
    OBVIOUS
  <2>2. b - x <= b - y
    BY <1>2, <1>3, <2>1
  <2> QED BY <1>0, <2>2
<1>5. Max(S) \in S /\ \A y \in S : Max(S) >= y
  BY <1>4 DEF Max
<1> QED BY <1>0, <1>5

LEMMA FindingsAreFinite ==
  ASSUME NEW P \in SUBSET DOMAIN Rules
  PROVE  /\ IsFiniteSet(Findings(P)) /\ Cardinality(Findings(P)) \in 0..6
         /\ \A f \in Findings(P) :
              f.severity \in DOMAIN SeverityWeight /\ f.confidence \in 0..100
<1> DEFINE finding == [r \in P |-> [rule |-> r, category |-> Rules[r].category,
             severity |-> Rules[r].severity, confidence |-> Rules[r].confidence]]
<1>1. finding \in Surjection(P, Findings(P))
  <2>1. Findings(P) = {finding[r] : r \in P}
    BY DEF Findings
  <2> HIDE DEF finding
  <2>2. DOMAIN finding = P /\ finding \in [P -> Findings(P)]
    <3>1. finding = [r \in P |-> finding[r]]
      BY DEF finding
    <3> QED BY <2>1, <3>1
  <2>3. \A f \in Findings(P) : \E r \in P : finding[r] = f
    BY <2>1
  <2> QED BY <2>2, <2>3, Zenon DEF Surjection
<1> HIDE DEF finding
<1>2. Len(RepetitionSteps) = 6
  BY DEF RepetitionSteps
<1>3. IsFiniteSet(DOMAIN Rules) /\ Cardinality(DOMAIN Rules) <= 6
  BY <1>2, RulesAreSound
<1>4. IsFiniteSet(P) /\ Cardinality(P) <= Cardinality(DOMAIN Rules)
  BY <1>3, FS_Subset
<1>5. IsFiniteSet(Findings(P)) /\ Cardinality(Findings(P)) <= Cardinality(P)
  BY <1>1, <1>4, FS_Surjection
<1>6. /\ Cardinality(P) \in Nat /\ Cardinality(DOMAIN Rules) \in Nat
      /\ Cardinality(Findings(P)) \in Nat
  BY <1>3, <1>4, <1>5, FS_CardinalityType
<1>7. Cardinality(Findings(P)) \in 0..6
  BY <1>3, <1>4, <1>5, <1>6
<1>8. ASSUME NEW f \in Findings(P)
      PROVE  f.severity \in DOMAIN SeverityWeight /\ f.confidence \in 0..100
  <2>1. PICK r \in P : f = [rule |-> r, category |-> Rules[r].category,
             severity |-> Rules[r].severity, confidence |-> Rules[r].confidence]
    BY DEF Findings
  <2>2. r \in DOMAIN Rules /\ f.severity = Rules[r].severity /\ f.confidence = Rules[r].confidence
    BY <2>1
  <2> QED BY <2>2, RulesAreSound
<1> QED BY <1>5, <1>7, <1>8

(* What a strength p counts when it is repeated by a factor of x.          *)
Repeated(p, x) == (p * x) \div 1000

LEMMA RepeatedGrows ==
  ASSUME NEW p \in Nat, NEW x \in Nat, NEW q \in Nat, NEW y \in Nat, p <= q, x <= y
  PROVE  Repeated(p, x) \in Nat /\ Repeated(q, y) \in Nat /\ Repeated(p, x) <= Repeated(q, y)
<1>1. p * x \in Nat /\ q * y \in Nat /\ p * x <= q * y
  BY ProductsGrow
<1>2. PICK m \in Nat, n \in Nat : m = p * x /\ n = q * y /\ m <= n
  BY <1>1
<1>3. m \div 1000 \in Nat /\ n \div 1000 \in Nat /\ m \div 1000 <= n \div 1000
  BY <1>2
<1> QED BY <1>2, <1>3 DEF Repeated

(* The findings of one category, and how strong they are.                  *)
Own(R, c) == {f \in Findings(R) : f.category = c}
Strengths(R, c) == {SeverityWeight[f.severity] * f.confidence : f \in Own(R, c)}

LEMMA OwnAre ==
  ASSUME NEW R \in SUBSET DOMAIN Rules, NEW c \in Categories(Findings(R))
  PROVE  /\ IsFiniteSet(Own(R, c)) /\ Cardinality(Own(R, c)) \in 1..6
         /\ Max(Strengths(R, c)) \in 0..2000 /\ Max(Strengths(R, c)) \in Strengths(R, c)
         /\ \A x \in Strengths(R, c) : x <= Max(Strengths(R, c))
<1>1. Own(R, c) # {}
  BY DEF Categories, Own
<1> DEFINE strength(f) == SeverityWeight[f.severity] * f.confidence
<1>2. ASSUME NEW f \in Own(R, c) PROVE strength(f) \in 0..2000
  <2>1. f.severity \in DOMAIN SeverityWeight /\ f.confidence \in 0..100
    BY FindingsAreFinite DEF Own
  <2>2. PICK s \in DOMAIN SeverityWeight, n \in 0..100 : s = f.severity /\ n = f.confidence
    BY <2>1
  <2>3. SeverityWeight[s] \in {1, 3, 7, 13, 20}
    BY DEF SeverityWeight
  <2>4. SeverityWeight[s] * n \in 0..2000
    BY <2>3
  <2> QED BY <2>2, <2>4
<1>3. /\ Own(R, c) \subseteq Findings(R)
      /\ IsFiniteSet(Findings(R)) /\ Cardinality(Findings(R)) \in 0..6
  BY FindingsAreFinite DEF Own
<1>4. IsFiniteSet(Own(R, c)) /\ Cardinality(Own(R, c)) <= Cardinality(Findings(R))
  BY <1>3, FS_Subset
<1>5. Cardinality(Own(R, c)) \in Nat /\ Cardinality(Own(R, c)) # 0
  BY <1>1, <1>4, FS_CardinalityType, FS_EmptySet
<1>6. Cardinality(Own(R, c)) \in 1..6
  BY <1>3, <1>4, <1>5
<1>7. PICK S : S = Strengths(R, c)
  OBVIOUS
<1>8. S \in SUBSET (0..2000) /\ S # {} /\ 2000 \in Nat
  <2>1. S = {strength(f) : f \in Own(R, c)}
    BY <1>7 DEF Strengths
  <2> HIDE DEF strength
  <2>2. ASSUME NEW x \in S PROVE x \in 0..2000
    BY <1>2, <2>1
  <2>3. S # {}
    BY <1>1, <2>1
  <2> QED BY <2>2, <2>3
<1>9. Max(S) \in S /\ \A x \in S : x <= Max(S)
  <2>1. PICK b \in Nat : b = 2000
    OBVIOUS
  <2>2. S \in SUBSET (0..b) /\ S # {}
    BY <1>8, <2>1
  <2> QED BY <2>2, GreatestOf
<1> QED BY <1>4, <1>6, <1>7, <1>8, <1>9

(* More findings are no less evidence of a category.                       *)
LEMMA CategoriesGrow ==
  ASSUME NEW P \in SUBSET DOMAIN Rules, NEW Q \in SUBSET DOMAIN Rules, P \subseteq Q,
         NEW c \in Categories(Findings(P))
  PROVE  /\ CategoryEvidence(Findings(P), c) \in Nat
         /\ CategoryEvidence(Findings(Q), c) \in Nat
         /\ CategoryEvidence(Findings(P), c) <= CategoryEvidence(Findings(Q), c)
<1>1. Findings(P) \subseteq Findings(Q)
  BY DEF Findings
<1>2. c \in Categories(Findings(Q)) /\ Own(P, c) \subseteq Own(Q, c)
  BY <1>1 DEF Categories, Own
<1>3. Strengths(P, c) \subseteq Strengths(Q, c)
  BY <1>2 DEF Strengths
<1>4. /\ Max(Strengths(P, c)) \in 0..2000 /\ Max(Strengths(P, c)) \in Strengths(P, c)
      /\ Cardinality(Own(P, c)) \in 1..6
  BY OwnAre
<1>5. /\ Max(Strengths(Q, c)) \in 0..2000
      /\ \A x \in Strengths(Q, c) : x <= Max(Strengths(Q, c))
      /\ IsFiniteSet(Own(Q, c)) /\ Cardinality(Own(Q, c)) \in 1..6
  BY <1>2, OwnAre
<1>6. Max(Strengths(P, c)) <= Max(Strengths(Q, c))
  BY <1>3, <1>4, <1>5
<1>7. Cardinality(Own(P, c)) <= Cardinality(Own(Q, c))
  BY <1>2, <1>5, FS_Subset
<1>8. PICK p \in Nat : p = Max(Strengths(P, c))
  BY <1>4
<1>9. PICK q \in Nat : q = Max(Strengths(Q, c))
  BY <1>5
<1>10. PICK i \in 1..6, j \in 1..6 :
         i = Cardinality(Own(P, c)) /\ j = Cardinality(Own(Q, c)) /\ i <= j
  BY <1>4, <1>5, <1>7
<1>11. PICK x \in Nat, y \in Nat : x = RepetitionSteps[i] /\ y = RepetitionSteps[j] /\ x <= y
  <2>1. \/ i = 1 \/ i = 2 \/ i = 3 \/ i = 4 \/ i = 5 \/ i = 6
    OBVIOUS
  <2>2. \/ j = 1 \/ j = 2 \/ j = 3 \/ j = 4 \/ j = 5 \/ j = 6
    OBVIOUS
  <2> QED BY <1>10, <2>1, <2>2 DEF RepetitionSteps
<1>12. p <= q
  BY <1>6, <1>8, <1>9
<1>13. /\ Repeated(p, x) \in Nat /\ Repeated(q, y) \in Nat
       /\ Repeated(p, x) <= Repeated(q, y)
  BY <1>11, <1>12, RepeatedGrows
<1>14. CategoryEvidence(Findings(P), c) = Repeated(p, x)
  <2>1. CategoryEvidence(Findings(P), c) =
          (Max(Strengths(P, c)) * RepetitionSteps[Cardinality(Own(P, c))]) \div 1000
    BY DEF CategoryEvidence, RepetitionFactor, Own, Strengths
  <2> QED BY <1>8, <1>10, <1>11, <2>1 DEF Repeated
<1>15. CategoryEvidence(Findings(Q), c) = Repeated(q, y)
  <2>1. CategoryEvidence(Findings(Q), c) =
          (Max(Strengths(Q, c)) * RepetitionSteps[Cardinality(Own(Q, c))]) \div 1000
    BY DEF CategoryEvidence, RepetitionFactor, Own, Strengths
  <2> QED BY <1>9, <1>10, <1>11, <2>1 DEF Repeated
<1> QED BY <1>13, <1>14, <1>15

LEMMA CategoriesAreFinite ==
  ASSUME NEW P \in SUBSET DOMAIN Rules, P # {}
  PROVE  /\ IsFiniteSet(Categories(Findings(P))) /\ Findings(P) # {}
         /\ Cardinality(Categories(Findings(P))) \in Nat \ {0}
<1>1. PICK F : F = Findings(P) /\ IsFiniteSet(F) /\ F # {}
  <2>1. IsFiniteSet(Findings(P))
    BY FindingsAreFinite
  <2>2. Findings(P) # {}
    BY DEF Findings
  <2> QED BY <2>1, <2>2
<1> DEFINE category == [f \in F |-> f.category]
<1>2. category \in Surjection(F, Categories(F))
  BY Zenon DEF Surjection, Categories
<1>3. IsFiniteSet(Categories(F))
  BY <1>1, <1>2, FS_Surjection
<1>4. Categories(F) # {}
  BY <1>1 DEF Categories
<1>5. Cardinality(Categories(F)) \in Nat /\ Cardinality(Categories(F)) # 0
  BY <1>3, <1>4, FS_CardinalityType, FS_EmptySet
<1> QED BY <1>1, <1>3, <1>5

(* Evidence, raised by a factor, and what the blast radius adds.           *)
Raised(total, factor, blastScore) == total * factor + 1200 * blastScore

LEMMA RaisedGrows ==
  ASSUME NEW p \in Nat, NEW x \in Nat, NEW q \in Nat, NEW y \in Nat, p <= q, x <= y,
         NEW a \in 0..100, NEW b \in 0..100, a <= b
  PROVE  /\ Raised(p, x, a) \in Nat /\ Raised(q, y, b) \in Nat
         /\ Raised(p, x, a) <= Raised(q, y, b)
<1>1. p * x \in Nat /\ q * y \in Nat /\ p * x <= q * y
  BY ProductsGrow
<1>2. PICK m \in Nat, n \in Nat : m = p * x /\ n = q * y /\ m <= n
  BY <1>1
<1>3. m + 1200 * a \in Nat /\ n + 1200 * b \in Nat /\ m + 1200 * a <= n + 1200 * b
  BY <1>2
<1> QED BY <1>2, <1>3 DEF Raised

(* More rules, a larger blast radius and a critical asset never lower the  *)
(* score of an incident.                                                   *)
LEMMA AssessGrows ==
  ASSUME NEW P \in SUBSET DOMAIN Rules, P # {}, NEW Q \in SUBSET DOMAIN Rules, P \subseteq Q,
         NEW a \in 0..100, NEW b \in 0..100, a <= b,
         NEW s \in BOOLEAN, NEW t \in BOOLEAN, s => t
  PROVE  /\ Assess(Findings(P), a, s) \in 0..100
         /\ Assess(Findings(P), a, s) <= Assess(Findings(Q), b, t)
<1>1. PICK C : C = Categories(Findings(P))
  OBVIOUS
<1>2. PICK D : D = Categories(Findings(Q))
  OBVIOUS
<1>3. IsFiniteSet(C) /\ Cardinality(C) \in Nat \ {0} /\ Findings(P) # {}
  BY <1>1, CategoriesAreFinite
<1>4. IsFiniteSet(D) /\ Cardinality(D) \in Nat \ {0} /\ Findings(Q) # {}
  BY <1>2, CategoriesAreFinite
<1>5. C \subseteq D
  BY <1>1, <1>2 DEF Categories, Findings
<1>6. Cardinality(C) <= Cardinality(D)
  BY <1>4, <1>5, FS_Subset
<1>7. PICK f \in [C -> Nat] : \A c \in C : f[c] = CategoryEvidence(Findings(P), c)
  <2>1. \A c \in C : CategoryEvidence(Findings(P), c) \in Nat
    BY <1>1, CategoriesGrow
  <2>2. [c \in C |-> CategoryEvidence(Findings(P), c)] \in [C -> Nat]
    BY <2>1
  <2> QED BY <2>2
<1>8. PICK g \in [D -> Nat] : \A c \in D : g[c] = CategoryEvidence(Findings(Q), c)
  <2>1. \A c \in D : CategoryEvidence(Findings(Q), c) \in Nat
    BY <1>2, CategoriesGrow
  <2>2. [c \in D |-> CategoryEvidence(Findings(Q), c)] \in [D -> Nat]
    BY <2>1
  <2> QED BY <2>2
<1>9. PICK into \in Injection(C, D) : \A c \in C : into[c] = c
  <2>1. [c \in C |-> c] \in Injection(C, D)
    BY <1>5 DEF Injection, IsInjective
  <2> QED BY <2>1
<1>10. \A c \in C : f[c] <= g[into[c]]
  <2>1. ASSUME NEW c \in C PROVE f[c] <= g[into[c]]
    <3>1. CategoryEvidence(Findings(P), c) <= CategoryEvidence(Findings(Q), c)
      BY <1>1, CategoriesGrow
    <3>2. c \in D /\ into[c] = c
      BY <1>5, <1>9
    <3> QED BY <1>7, <1>8, <3>1, <3>2
  <2> QED BY <2>1
<1>11. /\ SumFunction(f) \in Nat /\ SumFunction(g) \in Nat
       /\ SumFunction(f) <= SumFunction(g)
  BY <1>3, <1>4, <1>10, SumGrows
<1>12. f = [c \in C |-> CategoryEvidence(Findings(P), c)]
  BY <1>7
<1>13. g = [c \in D |-> CategoryEvidence(Findings(Q), c)]
  BY <1>8
<1>14. PICK p \in Nat, q \in Nat : p = SumFunction(f) /\ q = SumFunction(g) /\ p <= q
  BY <1>11
<1>15. PICK x \in Nat : x = Factor(Findings(P), s)
  BY <1>1, <1>3 DEF Factor
<1>16. PICK y \in Nat : y = Factor(Findings(Q), t)
  BY <1>2, <1>4 DEF Factor
<1>17. x <= y
  BY <1>1, <1>2, <1>3, <1>4, <1>6, <1>15, <1>16 DEF Factor
<1>18. /\ Raised(p, x, a) \in Nat /\ Raised(q, y, b) \in Nat
       /\ Raised(p, x, a) <= Raised(q, y, b)
  BY <1>14, <1>17, RaisedGrows
<1>19. Assess(Findings(P), a, s) = RiskOf(Raised(p, x, a))
  <2>1. Assess(Findings(P), a, s) = RiskOf(SumFunction(f) * Factor(Findings(P), s) + 1200 * a)
    BY <1>1, <1>3, <1>12 DEF Assess
  <2> QED BY <1>14, <1>15, <2>1 DEF Raised
<1>20. Assess(Findings(Q), b, t) = RiskOf(Raised(q, y, b))
  <2>1. Assess(Findings(Q), b, t) = RiskOf(SumFunction(g) * Factor(Findings(Q), t) + 1200 * b)
    BY <1>2, <1>4, <1>13 DEF Assess
  <2> QED BY <1>14, <1>16, <2>1 DEF Raised
<1>21. PICK m \in Nat, n \in Nat : m = Raised(p, x, a) /\ n = Raised(q, y, b) /\ m <= n
  BY <1>18
<1>22. RiskOf(m) \in 0..100 /\ RiskOf(m) <= RiskOf(n)
  BY <1>21, ScoresGrow
<1> QED BY <1>19, <1>20, <1>21, <1>22

-----------------------------------------------------------------------------
(* The blast radius                                                        *)

LEMMA WithinIsKnown ==
  ASSUME GraphTyped, NEW K \in SUBSET Known, NEW k \in 0..MaxHops
  PROVE  Within(K, k) \subseteq Known /\ K \in SUBSET Entities
<1> DEFINE Bad == {m \in 0..MaxHops : ~(Within(K, m) \subseteq Known)}
<1>0. MaxHops \in Nat
  BY GraphBounds
<1>1. K \in SUBSET Entities
  BY DEF Known
<1>2. ASSUME Bad # {} PROVE FALSE
  <2>1. Bad \in SUBSET Nat
    OBVIOUS
  <2>2. PICK m \in Bad : \A i \in Bad : m <= i
    BY <1>2, <2>1, LeastOf
  <2>3. m # 0
    BY <1>1, WithinIs
  <2>4. m \in 1..MaxHops /\ m - 1 \in 0..MaxHops /\ ~(m <= m - 1)
    BY <1>0, <2>3
  <2>5. Within(K, m - 1) \subseteq Known
    BY <2>2, <2>4
  <2>6. \A x \in Within(K, m - 1) : Peers(x) \subseteq Known
    BY <2>5, PeersAreKnown DEF Known
  <2>7. Within(K, m) = Around(Within(K, m - 1))
    BY <1>1, <2>4, WithinIs
  <2>8. Within(K, m) \subseteq Known
    BY <2>5, <2>6, <2>7 DEF Around
  <2> QED BY <2>8
<1> QED BY <1>1, <1>2

(* A list of stops by which W was measured.                                *)
Measures(W, A) ==
  /\ A \in Seq(Stops)
  /\ \A i, j \in 1..Len(A) : A[i].id = A[j].id => i = j
  /\ Seen(A) = W[MaxHops]
  /\ \A i \in 1..Len(A) : \A k \in 0..MaxHops : A[i].id \in W[k] <=> A[i].hops <= k

SumOf(c, A) == SumFunction([i \in 1..Len(A) |-> WeightAt(c[A[i].id], A[i].hops)])

CriticalIn(c, A) == {i \in 1..Len(A) : c[A[i].id] = Critical}

(* How the blast radius of K, entities the graph knows, was measured.      *)
MeasuredBy(K, W, A) ==
  /\ Measures(W, A)
  /\ \A k \in 0..MaxHops : W[k] = Within(K, k)
  /\ \A n \in W[MaxHops] : crit[n] \in 0..3
  /\ BlastRadius(K).score = BlastScore(SumOf(crit, A))
  /\ BlastRadius(K).critical = Cardinality(CriticalIn(crit, A))
  /\ BlastRadius(K).stops = W[MaxHops]

AllMeasured == \A K \in SUBSET Known : \E W, A : MeasuredBy(K, W, A)

LEMMA BlastIs == GraphTyped => AllMeasured
<1> SUFFICES ASSUME GraphTyped, NEW K \in SUBSET Known PROVE \E W, A : MeasuredBy(K, W, A)
  BY DEF AllMeasured
<1>1. K \in SUBSET Entities /\ K = K \intersect Known
  BY DEF Known
<1>2. PICK A : A = Reachable(K)
  OBVIOUS
<1>3. Reached(K, A)
  BY <1>1, <1>2, ReachIs
<1>4. PICK W : W = [k \in 0..MaxHops |-> Within(K, k)]
  OBVIOUS
<1>5. MaxHops \in Nat /\ MaxHops \in 0..MaxHops
  <2>1. MaxHops \in Nat
    BY GraphBounds
  <2> QED BY <2>1
<1>6. \A k \in 0..MaxHops : W[k] = Within(K, k)
  BY <1>4
<1>7. \A i \in 1..Len(A) : A[i] \in Stops /\ TrueStop(K, A[i])
  <2>1. A \in Seq(Stops)
    BY <1>3 DEF Reached, Sound
  <2>2. \A i \in 1..Len(A) : A[i] \in Stops
    BY <2>1, ElementOfSeq
  <2> QED BY <1>3, <2>2 DEF Reached, Sound
<1>8. \A i \in 1..Len(A) : \A k \in 0..MaxHops : A[i].id \in W[k] <=> A[i].hops <= k
  BY <1>1, <1>6, <1>7, StopsAreWithin
<1>9. Measures(W, A)
  BY <1>3, <1>5, <1>6, <1>8 DEF Measures, Reached, Sound
<1>10. \A n \in W[MaxHops] : crit[n] \in 0..3
  <2>1. W[MaxHops] \subseteq Known
    BY <1>5, <1>6, WithinIsKnown
  <2>2. \A n \in Known : crit[n] \in 0..3
    BY DEF GraphTyped, Known
  <2> QED BY <2>1, <2>2
<1>11. Ids(A) = W[MaxHops] /\ DOMAIN A = 1..Len(A)
  BY <1>3, <1>5, <1>6, ReachedOnce
<1>12. [i \in DOMAIN A |-> Weight(A[i])] = [i \in 1..Len(A) |-> WeightAt(crit[A[i].id], A[i].hops)]
  BY <1>11 DEF Weight, WeightAt
<1>13. BlastRadius(K) =
         [ score    |-> BlastScore(SumFunction([i \in DOMAIN A |-> Weight(A[i])])),
           critical |-> Cardinality({i \in DOMAIN A : crit[A[i].id] = Critical}),
           stops    |-> Ids(A) ]
  BY <1>2 DEF BlastRadius
<1>14. /\ BlastRadius(K).score = BlastScore(SumOf(crit, A))
       /\ BlastRadius(K).critical = Cardinality(CriticalIn(crit, A))
       /\ BlastRadius(K).stops = W[MaxHops]
  BY <1>11, <1>12, <1>13 DEF SumOf, CriticalIn
<1> QED BY <1>6, <1>9, <1>10, <1>14 DEF MeasuredBy

(* The same of the state after a step.                                     *)
LEMMA BlastIsLater == GraphTyped' => AllMeasured'
BY BlastIs, PTL

WithinObeys ==
  \A K \in SUBSET Entities :
    /\ Within(K, 0) = K
    /\ \A n \in 1..MaxHops : Within(K, n) = Around(Within(K, n - 1))

LEMMA WithinAlways == WithinObeys
BY WithinIs DEF WithinObeys

LEMMA WithinLater == WithinObeys'
BY WithinAlways, PTL

(* A graph that grew: no criticality fell, and no edge was lost.           *)
Grown ==
  /\ \A n \in Known : n \in Known' /\ crit[n] <= crit'[n]
  /\ edges \subseteq edges'

LEMMA ReachGrows ==
  ASSUME Grown, NEW K \in SUBSET Entities, NEW k \in 0..MaxHops
  PROVE  Within(K, k) \subseteq Within(K, k)'
<1> DEFINE Bad == {m \in 0..MaxHops : ~(Within(K, m) \subseteq Within(K, m)')}
<1>0. MaxHops \in Nat
  BY GraphBounds
<1>1. \A b, c : b \subseteq c => Around(b) \subseteq Around(c)'
  BY DEF Around, Peers, Between, Grown
<1>2. /\ Within(K, 0) = K /\ Within(K, 0)' = K
      /\ \A n \in 1..MaxHops : Within(K, n) = Around(Within(K, n - 1))
      /\ \A n \in 1..MaxHops : Within(K, n)' = Around(Within(K, n - 1))'
  BY WithinAlways, WithinLater DEF WithinObeys
<1>3. ASSUME Bad # {} PROVE FALSE
  <2>1. Bad \in SUBSET Nat
    OBVIOUS
  <2>2. PICK m \in Bad : \A i \in Bad : m <= i
    BY <1>3, <2>1, LeastOf
  <2>3. m # 0
    BY <1>2
  <2>4. m \in 1..MaxHops /\ m - 1 \in 0..MaxHops /\ ~(m <= m - 1)
    BY <1>0, <2>3
  <2>5. Within(K, m - 1) \subseteq Within(K, m - 1)'
    BY <2>2, <2>4
  <2> QED BY <1>1, <1>2, <2>4, <2>5
<1> QED BY <1>3

(* Where more is within reach, nothing farther and nothing less critical,  *)
(* the blast radius is no smaller.                                         *)
LEMMA MeasuresGrow ==
  ASSUME NEW V, NEW A, Measures(V, A), NEW W, NEW B, Measures(W, B),
         \A k \in 0..MaxHops : V[k] \subseteq W[k],
         NEW c, NEW d,
         \A n \in V[MaxHops] : c[n] \in 0..3 /\ c[n] <= d[n],
         \A n \in W[MaxHops] : d[n] \in 0..3
  PROVE  /\ SumOf(c, A) \in Nat /\ SumOf(d, B) \in Nat /\ SumOf(c, A) <= SumOf(d, B)
         /\ IsFiniteSet(CriticalIn(c, A)) /\ IsFiniteSet(CriticalIn(d, B))
         /\ Cardinality(CriticalIn(c, A)) \in Nat /\ Cardinality(CriticalIn(d, B)) \in Nat
         /\ Cardinality(CriticalIn(c, A)) <= Cardinality(CriticalIn(d, B))
<1>0. MaxHops \in 1..3
  BY GraphBounds
<1>1. PICK m \in Nat, n \in Nat : m = Len(A) /\ n = Len(B)
  BY LenProperties DEF Measures
<1>2. \A i \in 1..m : A[i] \in Stops /\ A[i].id \in V[MaxHops]
  <2>1. A \in Seq(Stops)
    BY DEF Measures
  <2>2. \A i \in 1..m : A[i] \in Stops
    BY <1>1, <2>1, ElementOfSeq
  <2> QED BY <1>1, <2>2 DEF Measures, Seen
<1>3. \A j \in 1..n : B[j] \in Stops /\ B[j].id \in W[MaxHops]
  <2>1. B \in Seq(Stops)
    BY DEF Measures
  <2>2. \A j \in 1..n : B[j] \in Stops
    BY <1>1, <2>1, ElementOfSeq
  <2> QED BY <1>1, <2>2 DEF Measures, Seen
<1>4. \A s \in Stops : s.hops \in 0..MaxHops /\ s.hops \in 0..3 /\ s.hops \in Int
  <2>1. \A s \in Stops : s.hops \in 0..MaxHops
    BY DEF Stops
  <2>2. \A h \in 0..MaxHops : h \in 0..3 /\ h \in Int
    BY <1>0
  <2> QED BY <2>1, <2>2
<1>5. ASSUME NEW i \in 1..m
      PROVE  \E j \in 1..n : B[j].id = A[i].id /\ B[j].hops <= A[i].hops
  <2>1. PICK h \in 0..MaxHops : h = A[i].hops /\ h <= h
    BY <1>2, <1>4
  <2>2. A[i].id \in V[h]
    BY <1>1, <2>1 DEF Measures
  <2>3. A[i].id \in W[h]
    BY <2>1, <2>2
  <2>4. A[i].id \in W[MaxHops]
    <3>1. MaxHops \in 0..MaxHops
      BY <1>0
    <3> QED BY <1>2, <3>1
  <2>5. PICK j \in 1..n : B[j].id = A[i].id
    BY <1>1, <2>4 DEF Measures, Seen
  <2>6. B[j].hops <= h
    BY <1>1, <2>1, <2>3, <2>5 DEF Measures
  <2> QED BY <2>1, <2>5, <2>6
<1>6. PICK into \in [1..m -> 1..n] :
        \A i \in 1..m : B[into[i]].id = A[i].id /\ B[into[i]].hops <= A[i].hops
  <2> DEFINE at(i) == CHOOSE j \in 1..n : B[j].id = A[i].id /\ B[j].hops <= A[i].hops
  <2>1. \A i \in 1..m : at(i) \in 1..n /\ B[at(i)].id = A[i].id /\ B[at(i)].hops <= A[i].hops
    BY <1>5
  <2> HIDE DEF at
  <2>2. [i \in 1..m |-> at(i)] \in [1..m -> 1..n]
    BY <2>1
  <2> QED BY <2>1, <2>2
<1>7. into \in Injection(1..m, 1..n)
  <2>1. \A i, j \in 1..m : into[i] = into[j] => i = j
    BY <1>1, <1>6 DEF Measures
  <2> QED BY <2>1 DEF Injection, IsInjective
<1>8. IsFiniteSet(1..m) /\ IsFiniteSet(1..n)
  BY FS_Interval
<1>9. ASSUME NEW i \in 1..m
      PROVE  /\ c[A[i].id] \in 0..3 /\ d[A[i].id] \in 0..3 /\ c[A[i].id] <= d[A[i].id]
             /\ WeightAt(c[A[i].id], A[i].hops) \in Nat
             /\ WeightAt(c[A[i].id], A[i].hops) <= WeightAt(d[A[i].id], B[into[i]].hops)
  <2>1. into[i] \in 1..n /\ B[into[i]].id = A[i].id /\ B[into[i]].hops <= A[i].hops
    BY <1>6
  <2>2. PICK x \in 0..3, y \in 0..3 : x = c[A[i].id] /\ y = d[A[i].id] /\ x <= y
    <3>1. A[i].id \in V[MaxHops] /\ A[i].id \in W[MaxHops]
      BY <1>2, <1>3, <2>1
    <3> QED BY <3>1
  <2>3. PICK h \in 0..3, k \in 0..3 : h = A[i].hops /\ k = B[into[i]].hops /\ k <= h
    BY <1>2, <1>3, <1>4, <2>1
  <2>4. /\ WeightAt(x, h) \in Nat /\ WeightAt(x, h) <= WeightAt(y, k)
    BY <2>2, <2>3, WeightsGrow
  <2> QED BY <2>2, <2>3, <2>4
<1>10. ASSUME NEW j \in 1..n PROVE WeightAt(d[B[j].id], B[j].hops) \in Nat
  <2>1. PICK y \in 0..3, k \in 0..3 : y = d[B[j].id] /\ k = B[j].hops
    BY <1>3, <1>4
  <2>2. WeightAt(y, k) \in Nat
    <3>1. y <= y /\ k <= k
      OBVIOUS
    <3> QED BY <3>1, WeightsGrow
  <2> QED BY <2>1, <2>2
<1>11. PICK f \in [1..m -> Nat] : f = [i \in 1..m |-> WeightAt(c[A[i].id], A[i].hops)]
  BY <1>9
<1>12. PICK g \in [1..n -> Nat] : g = [j \in 1..n |-> WeightAt(d[B[j].id], B[j].hops)]
  BY <1>10
<1>13. \A i \in 1..m : f[i] <= g[into[i]]
  <2>1. ASSUME NEW i \in 1..m PROVE f[i] <= g[into[i]]
    <3>1. into[i] \in 1..n /\ B[into[i]].id = A[i].id
      BY <1>6
    <3>2. g[into[i]] = WeightAt(d[A[i].id], B[into[i]].hops)
      BY <1>12, <3>1
    <3> QED BY <1>9, <1>11, <3>2
  <2> QED BY <2>1
<1>14. /\ SumFunction(f) \in Nat /\ SumFunction(g) \in Nat
       /\ SumFunction(f) <= SumFunction(g)
  BY <1>7, <1>8, <1>13, SumGrows
<1>15. SumOf(c, A) = SumFunction(f) /\ SumOf(d, B) = SumFunction(g)
  BY <1>1, <1>11, <1>12 DEF SumOf
<1>16. PICK P \in SUBSET (1..m) : P = CriticalIn(c, A)
  BY <1>1 DEF CriticalIn
<1>17. PICK Q \in SUBSET (1..n) : Q = CriticalIn(d, B)
  BY <1>1 DEF CriticalIn
<1>18. IsFiniteSet(P) /\ IsFiniteSet(Q) /\ Cardinality(P) \in Nat /\ Cardinality(Q) \in Nat
  BY <1>8, FS_Subset, FS_CardinalityType
<1>19. PICK move \in Injection(P, Q) : TRUE
  <2>1. ASSUME NEW i \in P PROVE into[i] \in Q
    <3>1. i \in 1..m /\ c[A[i].id] = 3
      BY <1>16 DEF CriticalIn, Critical
    <3>2. d[A[i].id] = 3
      <4>1. d[A[i].id] \in 0..3 /\ c[A[i].id] <= d[A[i].id]
        BY <1>9, <3>1
      <4>2. PICK y \in 0..3 : y = d[A[i].id] /\ 3 <= y
        BY <3>1, <4>1
      <4> QED BY <4>2
    <3>3. into[i] \in 1..n /\ B[into[i]].id = A[i].id
      BY <1>6, <3>1
    <3> QED BY <1>1, <1>17, <3>2, <3>3 DEF CriticalIn, Critical
  <2>2. \A i, j \in P : into[i] = into[j] => i = j
    BY <1>7 DEF Injection, IsInjective
  <2>3. [i \in P |-> into[i]] \in Injection(P, Q)
    BY <2>1, <2>2 DEF Injection, IsInjective
  <2> QED BY <2>3
<1>20. Cardinality(P) <= Cardinality(Q)
  BY <1>18, FS_Injection
<1> QED BY <1>14, <1>15, <1>16, <1>17, <1>18, <1>20

LEMMA ReachOfMore ==
  ASSUME NEW K \in SUBSET Entities, NEW L \in SUBSET Entities, K \subseteq L,
         NEW k \in 0..MaxHops
  PROVE  Within(K, k) \subseteq Within(L, k)
<1> DEFINE Bad == {m \in 0..MaxHops : ~(Within(K, m) \subseteq Within(L, m))}
<1>0. MaxHops \in Nat
  BY GraphBounds
<1>1. \A b, c : b \subseteq c => Around(b) \subseteq Around(c)
  BY DEF Around
<1>2. /\ Within(K, 0) = K /\ Within(L, 0) = L
      /\ \A n \in 1..MaxHops : Within(K, n) = Around(Within(K, n - 1))
      /\ \A n \in 1..MaxHops : Within(L, n) = Around(Within(L, n - 1))
  BY WithinIs
<1>3. ASSUME Bad # {} PROVE FALSE
  <2>1. Bad \in SUBSET Nat
    OBVIOUS
  <2>2. PICK m \in Bad : \A i \in Bad : m <= i
    BY <1>3, <2>1, LeastOf
  <2>3. m # 0
    BY <1>2
  <2>4. m \in 1..MaxHops /\ m - 1 \in 0..MaxHops /\ ~(m <= m - 1)
    BY <1>0, <2>3
  <2>5. Within(K, m - 1) \subseteq Within(L, m - 1)
    BY <2>2, <2>4
  <2> QED BY <1>1, <1>2, <2>4, <2>5
<1> QED BY <1>3

(* The blast radius b is no more than what a walk from K would now find.   *)
Covered(b, K) ==
  /\ b.score \in 0..100 /\ b.critical \in Nat
  /\ b.score <= BlastRadius(K).score /\ BlastRadius(K).score \in 0..100
  /\ b.critical <= BlastRadius(K).critical /\ BlastRadius(K).critical \in Nat

LEMMA BlastOfMore ==
  ASSUME GraphTyped, NEW K \in SUBSET Known, NEW L \in SUBSET Known, K \subseteq L
  PROVE  Covered(BlastRadius(K), L)
<1>1. MaxHops \in 0..MaxHops
  BY GraphBounds
<1>2. PICK V, A : MeasuredBy(K, V, A)
  BY BlastIs DEF AllMeasured
<1>3. PICK W, B : MeasuredBy(L, W, B)
  BY BlastIs DEF AllMeasured
<1>4. \A k \in 0..MaxHops : V[k] \subseteq W[k]
  <2>1. K \in SUBSET Entities /\ L \in SUBSET Entities
    BY DEF Known
  <2>2. \A k \in 0..MaxHops : V[k] = Within(K, k) /\ W[k] = Within(L, k)
    BY <1>2, <1>3 DEF MeasuredBy
  <2>3. \A k \in 0..MaxHops : Within(K, k) \subseteq Within(L, k)
    BY <2>1, ReachOfMore
  <2> QED BY <2>2, <2>3
<1>5. Measures(V, A) /\ Measures(W, B)
  BY <1>2, <1>3 DEF MeasuredBy
<1>6. PICK c : c = crit
  OBVIOUS
<1>7. \A n \in V[MaxHops] : c[n] \in 0..3 /\ c[n] <= c[n]
  BY <1>2, <1>6 DEF MeasuredBy
<1>8. \A n \in W[MaxHops] : c[n] \in 0..3
  BY <1>3, <1>6 DEF MeasuredBy
<1>9. /\ SumOf(c, A) \in Nat /\ SumOf(c, B) \in Nat /\ SumOf(c, A) <= SumOf(c, B)
      /\ Cardinality(CriticalIn(c, A)) \in Nat /\ Cardinality(CriticalIn(c, B)) \in Nat
      /\ Cardinality(CriticalIn(c, A)) <= Cardinality(CriticalIn(c, B))
  BY <1>4, <1>5, <1>7, <1>8, MeasuresGrow
<1>10. PICK a \in Nat, b \in Nat : a = SumOf(c, A) /\ b = SumOf(c, B) /\ a <= b /\ b <= b
  BY <1>9
<1>11. BlastScore(a) \in 0..100 /\ BlastScore(a) <= BlastScore(b) /\ BlastScore(b) \in 0..100
  BY <1>10, ScoresGrow
<1>12. /\ BlastRadius(K).score = BlastScore(a) /\ BlastRadius(L).score = BlastScore(b)
       /\ BlastRadius(K).critical = Cardinality(CriticalIn(c, A))
       /\ BlastRadius(L).critical = Cardinality(CriticalIn(c, B))
  BY <1>2, <1>3, <1>6, <1>10 DEF MeasuredBy
<1> QED BY <1>9, <1>11, <1>12 DEF Covered

LEMMA BlastGrows ==
  ASSUME GraphTyped, GraphTyped', Grown, NEW K \in SUBSET Known
  PROVE  /\ K \in SUBSET (Known')
         /\ \A b : Covered(b, K) => Covered(b, K)'
<1>1. MaxHops \in 0..MaxHops
  BY GraphBounds
<1>2. K \in SUBSET (Known') /\ K \in SUBSET Entities
  BY DEF Grown, Known
<1>3. PICK V, A : MeasuredBy(K, V, A)
  BY BlastIs DEF AllMeasured
<1>4. PICK W, B : MeasuredBy(K, W, B)'
  <2>1. \E W, B : MeasuredBy(K, W, B)'
    BY <1>2, BlastIsLater DEF AllMeasured
  <2> QED BY <2>1
<1>5. PICK c, d : c = crit /\ d = crit'
  OBVIOUS
<1>6. \A k \in 0..MaxHops : V[k] = Within(K, k)
  BY <1>3 DEF MeasuredBy
<1>7. \A k \in 0..MaxHops : W[k] = Within(K, k)'
  BY <1>4 DEF MeasuredBy
<1>8. \A k \in 0..MaxHops : V[k] \subseteq W[k]
  BY <1>2, <1>6, <1>7, ReachGrows
<1>9. Measures(V, A) /\ Measures(W, B)
  BY <1>3, <1>4 DEF MeasuredBy, Measures, Seen, Stops
<1>10. \A n \in V[MaxHops] : c[n] \in 0..3 /\ c[n] <= d[n]
  <2>1. V[MaxHops] \subseteq Known
    BY <1>1, <1>6, WithinIsKnown
  <2>2. \A n \in V[MaxHops] : c[n] \in 0..3
    BY <1>3, <1>5 DEF MeasuredBy
  <2>3. \A n \in Known : c[n] <= d[n]
    BY <1>5 DEF Grown
  <2> QED BY <2>1, <2>2, <2>3
<1>11. \A n \in W[MaxHops] : d[n] \in 0..3
  BY <1>4, <1>5 DEF MeasuredBy
<1>12. /\ SumOf(c, A) \in Nat /\ SumOf(d, B) \in Nat /\ SumOf(c, A) <= SumOf(d, B)
       /\ Cardinality(CriticalIn(c, A)) \in Nat /\ Cardinality(CriticalIn(d, B)) \in Nat
       /\ Cardinality(CriticalIn(c, A)) <= Cardinality(CriticalIn(d, B))
  BY <1>8, <1>9, <1>10, <1>11, MeasuresGrow
<1>13. PICK x \in Nat, y \in Nat : x = SumOf(c, A) /\ y = SumOf(d, B) /\ x <= y /\ y <= y
  BY <1>12
<1>14. BlastScore(x) \in 0..100 /\ BlastScore(x) <= BlastScore(y) /\ BlastScore(y) \in 0..100
  BY <1>13, ScoresGrow
<1>15. /\ BlastRadius(K).score = BlastScore(x)
       /\ BlastRadius(K).critical = Cardinality(CriticalIn(c, A))
  BY <1>3, <1>5, <1>13 DEF MeasuredBy
<1>16. /\ BlastRadius(K)'.score = BlastScore(y)
       /\ BlastRadius(K)'.critical = Cardinality(CriticalIn(d, B))
  BY <1>4, <1>5, <1>13 DEF MeasuredBy, SumOf, CriticalIn
<1>17. ASSUME NEW b, Covered(b, K) PROVE Covered(b, K)'
  <2>1. PICK s \in 0..100, n \in Nat : s = b.score /\ n = b.critical
    BY <1>17 DEF Covered
  <2>2. s <= BlastScore(x) /\ n <= Cardinality(CriticalIn(c, A))
    BY <1>15, <1>17, <2>1 DEF Covered
  <2>3. s <= BlastScore(y)
    BY <1>14, <2>2
  <2>4. n <= Cardinality(CriticalIn(d, B))
    BY <1>12, <2>2
  <2> QED BY <1>12, <1>14, <1>16, <2>1, <2>3, <2>4 DEF Covered
<1> QED BY <1>2, <1>17

(* It holds the entities it was measured from, and counts the critical     *)
(* ones among them.                                                        *)
LEMMA BlastHolds ==
  ASSUME GraphTyped, NEW K \in SUBSET Known,
         NEW T \in SUBSET K, \A n \in T : crit[n] = Critical
  PROVE  /\ K \subseteq BlastRadius(K).stops
         /\ IsFiniteSet(T) /\ Cardinality(T) \in Nat
         /\ Cardinality(T) <= BlastRadius(K).critical /\ BlastRadius(K).critical \in Nat
<1>1. MaxHops \in 0..MaxHops /\ 0 \in 0..MaxHops
  BY GraphBounds
<1>2. PICK W, A : MeasuredBy(K, W, A)
  BY BlastIs DEF AllMeasured
<1>3. K \in SUBSET Entities
  BY DEF Known
<1>4. K \subseteq W[MaxHops]
  <2>1. Within(K, 0) = K /\ Within(K, 0) \subseteq Within(K, MaxHops)
    BY <1>1, <1>3, WithinIs, WithinGrows
  <2> QED BY <1>1, <1>2, <2>1 DEF MeasuredBy
<1>5. Measures(W, A)
  BY <1>2 DEF MeasuredBy
<1>6. PICK n \in Nat : n = Len(A)
  BY <1>5, LenProperties DEF Measures
<1>7. \A x \in T : \E i \in 1..n : A[i].id = x
  BY <1>4, <1>5, <1>6 DEF Measures, Seen
<1>8. PICK Q \in SUBSET (1..n) : Q = CriticalIn(crit, A)
  BY <1>6 DEF CriticalIn
<1>9. PICK at \in Injection(T, Q) : TRUE
  <2> DEFINE spot == [x \in T |-> CHOOSE i \in 1..n : A[i].id = x]
  <2>1. \A x \in T : spot[x] \in 1..n /\ A[spot[x]].id = x
    BY <1>7
  <2>5. spot = [x \in T |-> spot[x]]
    OBVIOUS
  <2> HIDE DEF spot
  <2>2. \A x \in T : spot[x] \in Q
    BY <1>6, <1>8, <2>1 DEF CriticalIn
  <2>3. spot \in [T -> Q]
    BY <2>2, <2>5
  <2>4. spot \in Injection(T, Q)
    BY <2>1, <2>3 DEF Injection, IsInjective
  <2> QED BY <2>4
<1>10. IsFiniteSet(Q) /\ Cardinality(Q) \in Nat
  <2>1. IsFiniteSet(1..n)
    BY FS_Interval
  <2> QED BY <2>1, FS_Subset, FS_CardinalityType
<1>11. IsFiniteSet(T) /\ Cardinality(T) <= Cardinality(Q)
  BY <1>10, FS_Injection
<1>12. Cardinality(T) \in Nat
  BY <1>11, FS_CardinalityType
<1>13. BlastRadius(K).stops = W[MaxHops] /\ BlastRadius(K).critical = Cardinality(Q)
  BY <1>2, <1>8 DEF MeasuredBy
<1> QED BY <1>4, <1>10, <1>11, <1>12, <1>13

-----------------------------------------------------------------------------
(* What an event has upserted                                              *)

LEMMA RelationsAre ==
  /\ \A ev : RelationFor(ev) \in Range(Relations)
  /\ "authenticated_from" \in Range(Relations) /\ "used_device" \in Range(Relations)
  /\ "opened_session" \in Range(Relations)
<1>1. DOMAIN Relations = 1..10
  BY DEF Relations
<1>2. \A i \in 1..10 : Relations[i] \in Range(Relations)
  BY <1>1 DEF Range
<1>3. /\ Relations[1] = "accessed" /\ Relations[2] = "attempted_access"
      /\ Relations[3] = "authenticated_from" /\ Relations[4] = "granted_role_on"
      /\ Relations[7] = "opened_session" /\ Relations[10] = "used_device"
  BY DEF Relations
<1>4. 1 \in 1..10 /\ 2 \in 1..10 /\ 3 \in 1..10 /\ 4 \in 1..10 /\ 7 \in 1..10 /\ 10 \in 1..10
  OBVIOUS
<1>5. /\ "accessed" \in Range(Relations) /\ "attempted_access" \in Range(Relations)
      /\ "authenticated_from" \in Range(Relations) /\ "granted_role_on" \in Range(Relations)
      /\ "opened_session" \in Range(Relations) /\ "used_device" \in Range(Relations)
  BY <1>2, <1>3, <1>4
<1>6. ASSUME NEW ev PROVE RelationFor(ev) \in Range(Relations)
  <2>1. CASE ev.category = "privilege_escalation"
    BY <1>5, <2>1 DEF RelationFor
  <2>2. CASE ev.category # "privilege_escalation" /\ ev.denied
    BY <1>5, <2>2 DEF RelationFor
  <2>3. CASE ev.category # "privilege_escalation" /\ ~ev.denied
    BY <1>5, <2>3 DEF RelationFor
  <2> QED BY <2>1, <2>2, <2>3
<1> QED BY <1>5, <1>6

Mentioned(ev, m) ==
  /\ Len(m) \in Nat /\ DOMAIN m = 1..Len(m)
  /\ \A i \in 1..Len(m) :
       m[i].id \in Entities /\ m[i].crit \in 0..3 /\ m[i].rel \in Range(Relations)
  /\ \A n \in {ev.ip, ev.device, ev.session, ev.target, ev.cloud} \ {NoEntity} :
       \E i \in 1..Len(m) : m[i].id = n

LEMMA MentionsAre ==
  ASSUME NEW e \in Events, NEW ev, ev = Telemetry[e], NEW m, m = Mentions(ev)
  PROVE  Mentioned(ev, m)
<1> DEFINE all == Places(ev)
           kept == {i \in DOMAIN all : all[i].id # NoEntity}
           at == Ascending(kept)
<1>1. /\ DOMAIN all = 1..5
      /\ all[1] = Mention(ev.ip, Low, "authenticated_from")
      /\ all[2] = Mention(ev.device, Medium, "used_device")
      /\ all[3] = Mention(ev.session, Medium, "opened_session")
      /\ all[4] = Mention(ev.target, ev.criticality, RelationFor(ev))
      /\ all[5] = Mention(ev.cloud, Medium, RelationFor(ev))
  BY DEF Places
<1>2. /\ {ev.ip, ev.device, ev.session, ev.target, ev.cloud} \subseteq Entities \union {NoEntity}
      /\ ev.criticality \in 0..3
  BY TelemetryIsSound
<1> HIDE DEF all
<1>3. \A i \in 1..5 : i = 1 \/ i = 2 \/ i = 3 \/ i = 4 \/ i = 5
  OBVIOUS
<1>4. ASSUME NEW i \in 1..5
      PROVE  /\ all[i].id \in Entities \union {NoEntity} /\ all[i].crit \in 0..3
             /\ all[i].rel \in Range(Relations)
  BY <1>1, <1>2, <1>3, RelationsAre DEF Mention, Low, Medium
<1>5. kept \in SUBSET (1..5) /\ kept \in SUBSET Nat /\ IsFiniteSet(kept)
  <2>1. kept \in SUBSET (1..5)
    BY <1>1
  <2>2. IsFiniteSet(1..5)
    <3>1. 1 \in Int /\ 5 \in Int
      OBVIOUS
    <3> QED BY <3>1, FS_Interval
  <2>3. kept \in SUBSET Nat
    BY <2>1
  <2> QED BY <2>1, <2>2, <2>3, FS_Subset
<1>6. PICK n \in Nat : n = Cardinality(kept)
  BY <1>5, FS_CardinalityType
<1>7. at \in [1..n -> kept] /\ \A x \in kept : \E i \in 1..n : at[i] = x
  <2> HIDE DEF kept
  <2> QED BY <1>5, <1>6, AscendingLists
<1>8. m = [j \in 1..n |-> all[at[j]]]
  <2>0. Mentions(ev) = [j \in DOMAIN at |-> all[at[j]]]
    BY DEF Mentions, all
  <2>1. m = [j \in DOMAIN at |-> all[at[j]]]
    BY <2>0
  <2>2. DOMAIN at = 1..n
    BY <1>7
  <2> HIDE DEF at
  <2> QED BY <2>1, <2>2
<1>9. Len(m) = n /\ DOMAIN m = 1..n
  BY <1>8
<1> HIDE DEF at
<1>10. ASSUME NEW i \in 1..n
       PROVE  m[i].id \in Entities /\ m[i].crit \in 0..3 /\ m[i].rel \in Range(Relations)
  <2>1. at[i] \in kept /\ at[i] \in 1..5 /\ m[i] = all[at[i]]
    BY <1>5, <1>7, <1>8
  <2>2. all[at[i]].id # NoEntity
    BY <2>1
  <2> QED BY <1>4, <2>1, <2>2
<1>11. ASSUME NEW x \in {ev.ip, ev.device, ev.session, ev.target, ev.cloud} \ {NoEntity}
       PROVE  \E i \in 1..n : m[i].id = x
  <2>1. PICK k \in 1..5 : all[k].id = x
    <3>1. /\ all[1].id = ev.ip /\ all[2].id = ev.device /\ all[3].id = ev.session
          /\ all[4].id = ev.target /\ all[5].id = ev.cloud
      BY <1>1 DEF Mention
    <3>2. 1 \in 1..5 /\ 2 \in 1..5 /\ 3 \in 1..5 /\ 4 \in 1..5 /\ 5 \in 1..5
      OBVIOUS
    <3> QED BY <3>1, <3>2
  <2>2. k \in kept
    BY <1>1, <2>1
  <2>3. PICK i \in 1..n : at[i] = k
    BY <1>7, <2>2
  <2> QED BY <1>8, <2>1, <2>3
<1> QED BY <1>6, <1>9, <1>10, <1>11 DEF Mentioned

(* Every edge comes after the entities it joins, and what a finding about  *)
(* the event names is among the entities.                                  *)
Upserted(e, ups) ==
  /\ Len(ups) \in Nat
  /\ \A j \in 1..Len(ups) :
       ups[j].op = "entity" => ups[j].id \in Entities /\ ups[j].crit \in 0..3
  /\ \A j \in 1..Len(ups) :
       ups[j].op # "entity" =>
         /\ ups[j].from \in Entities /\ ups[j].to \in Entities
         /\ ups[j].rel \in Range(Relations)
         /\ \E i \in 1..j - 1 : ups[i].op = "entity" /\ ups[i].id = ups[j].from
         /\ \E i \in 1..j - 1 : ups[i].op = "entity" /\ ups[i].id = ups[j].to
  /\ \A n \in EntityIds(Telemetry[e]) :
       n \in Entities /\ \E j \in 1..Len(ups) : ups[j].op = "entity" /\ ups[j].id = n

LEMMA UpsertsAre ==
  ASSUME NEW e \in Events, NEW ups, ups = Upserts(Telemetry[e])
  PROVE  Upserted(e, ups)
<1>1. PICK ev : ev = Telemetry[e]
  OBVIOUS
<1>2. PICK m : m = Mentions(ev)
  OBVIOUS
<1>3. /\ Len(m) \in Nat /\ DOMAIN m = 1..Len(m)
      /\ \A i \in 1..Len(m) :
           m[i].id \in Entities /\ m[i].crit \in 0..3 /\ m[i].rel \in Range(Relations)
      /\ \A n \in {ev.ip, ev.device, ev.session, ev.target, ev.cloud} \ {NoEntity} :
           \E i \in 1..Len(m) : m[i].id = n
  <2>1. Mentioned(ev, m)
    BY <1>1, <1>2, MentionsAre, Zenon
  <2> QED BY <2>1 DEF Mentioned
<1>4. PICK k \in Nat : k = Len(m) /\ DOMAIN m = 1..k
  <2>1. Len(m) \in Nat /\ DOMAIN m = 1..Len(m)
    BY <1>3
  <2> QED BY <2>1, Zenon
<1>5. {ev.actor, ev.ip, ev.device, ev.session, ev.target, ev.cloud} \subseteq Entities \union {NoEntity}
  BY <1>1, TelemetryIsSound
<1>6. \A n \in EntityIds(Telemetry[e]) :
        /\ n \in Entities
        /\ n \in {ev.ip, ev.device, ev.session, ev.target, ev.cloud} \ {NoEntity}
             \/ (n = ev.actor /\ n # NoEntity)
  BY <1>1, <1>5 DEF EntityIds
<1> DEFINE entity(i) == [op |-> "entity", id |-> m[i].id, crit |-> m[i].crit]
           edge(i) == [op |-> "edge", from |-> ev.actor, to |-> m[i].id, rel |-> m[i].rel]
           actor == [op |-> "entity", id |-> ev.actor, crit |-> ActorCriticality(ev)]
<1>7. CASE ev.actor = NoEntity
  <2>1. ups = [i \in 1..k |-> entity(i)]
    BY <1>1, <1>2, <1>4, <1>7 DEF Upserts
  <2>2. Len(ups) = k
    BY <2>1
  <2>3. \A j \in 1..k : ups[j].op = "entity" /\ ups[j].id = m[j].id /\ ups[j].crit = m[j].crit
    BY <2>1
  <2>4. \A n \in EntityIds(Telemetry[e]) : \E j \in 1..k : ups[j].op = "entity" /\ ups[j].id = n
    <3>1. \A n \in EntityIds(Telemetry[e]) : \E j \in 1..k : m[j].id = n
      BY <1>3, <1>4, <1>6, <1>7
    <3> QED BY <2>3, <3>1
  <2> QED BY <1>3, <1>4, <1>6, <2>2, <2>3, <2>4 DEF Upserted
<1>8. CASE ev.actor # NoEntity
  <2>0. 2 * k + 1 \in Nat
    OBVIOUS
  <2>1. ups = [j \in 1..2 * k + 1 |-> IF j = 1 THEN actor
                 ELSE IF j % 2 = 0 THEN entity(j \div 2) ELSE edge(j \div 2)]
    BY <1>1, <1>2, <1>4, <1>8 DEF Upserts
  <2>2. Len(ups) = 2 * k + 1
    BY <2>0, <2>1
  <2> HIDE DEF entity, edge, actor
  <2>3. 1 \in 1..2 * k + 1 /\ ups[1] = actor
    BY <2>0, <2>1
  <2>4. ASSUME NEW i \in 1..k
        PROVE  /\ 2 * i \in 1..2 * k + 1 /\ ups[2 * i] = entity(i)
               /\ 2 * i + 1 \in 1..2 * k + 1 /\ ups[2 * i + 1] = edge(i)
    <3>1. 2 * i \in 1..2 * k + 1 /\ 2 * i # 1 /\ (2 * i) % 2 = 0 /\ (2 * i) \div 2 = i
      OBVIOUS
    <3>2. /\ 2 * i + 1 \in 1..2 * k + 1 /\ 2 * i + 1 # 1 /\ (2 * i + 1) % 2 # 0
          /\ (2 * i + 1) \div 2 = i
      OBVIOUS
    <3>3. PICK j \in 1..2 * k + 1 : j = 2 * i
      BY <3>1
    <3>4. PICK l \in 1..2 * k + 1 : l = 2 * i + 1
      BY <3>2
    <3>5. ups[j] = entity(i)
      BY <2>1, <3>1, <3>3
    <3>6. ups[l] = edge(i)
      BY <2>1, <3>2, <3>4
    <3> QED BY <3>1, <3>2, <3>3, <3>4, <3>5, <3>6
  <2>5. ASSUME NEW j \in 1..2 * k + 1
        PROVE  j = 1 \/ (\E i \in 1..k : j = 2 * i) \/ (\E i \in 1..k : j = 2 * i + 1)
    <3>1. CASE j % 2 = 0
      <4>1. j \div 2 \in 1..k /\ j = 2 * (j \div 2)
        BY <3>1
      <4> QED BY <4>1
    <3>2. CASE j % 2 # 0 /\ j # 1
      <4>1. j \div 2 \in 1..k /\ j = 2 * (j \div 2) + 1
        BY <3>2
      <4> QED BY <4>1
    <3> QED BY <3>1, <3>2
  <2>6. /\ actor.op = "entity" /\ actor.id = ev.actor /\ actor.crit \in 0..3
        /\ ev.actor \in Entities
    BY <1>5, <1>8 DEF actor, ActorCriticality, High, Medium
  <2>7. ASSUME NEW i \in 1..k
        PROVE  /\ entity(i).op = "entity" /\ entity(i).id = m[i].id
               /\ entity(i).id \in Entities /\ entity(i).crit \in 0..3
               /\ edge(i).op = "edge" /\ edge(i).from = ev.actor /\ edge(i).to = m[i].id
               /\ edge(i).to \in Entities /\ edge(i).rel \in Range(Relations)
    BY <1>3, <1>4 DEF entity, edge
  <2>8. ASSUME NEW j \in 1..2 * k + 1, ups[j].op = "entity"
        PROVE  ups[j].id \in Entities /\ ups[j].crit \in 0..3
    BY <2>3, <2>4, <2>5, <2>6, <2>7, <2>8
  <2>9. ASSUME NEW j \in 1..2 * k + 1, ups[j].op # "entity"
        PROVE  /\ ups[j].from \in Entities /\ ups[j].to \in Entities
               /\ ups[j].rel \in Range(Relations)
               /\ \E i \in 1..j - 1 : ups[i].op = "entity" /\ ups[i].id = ups[j].from
               /\ \E i \in 1..j - 1 : ups[i].op = "entity" /\ ups[i].id = ups[j].to
    <3>1. PICK i \in 1..k : j = 2 * i + 1
      <4>1. j # 1
        BY <2>3, <2>6, <2>9
      <4>2. ASSUME NEW i \in 1..k, j = 2 * i PROVE FALSE
        <5>1. ups[j] = entity(i) /\ entity(i).op = "entity"
          BY <2>4, <2>7, <4>2
        <5> QED BY <2>9, <5>1
      <4> QED BY <2>5, <4>1, <4>2
    <3>2. ups[j] = edge(i) /\ ups[2 * i] = entity(i)
      BY <2>4, <3>1
    <3>3. 1 \in 1..j - 1 /\ 2 * i \in 1..j - 1
      <4>1. j - 1 = 2 * i
        BY <3>1
      <4>2. 1 \in 1..2 * i /\ 2 * i \in 1..2 * i
        OBVIOUS
      <4> QED BY <4>1, <4>2
    <3>4. PICK l \in 1..j - 1 : l = 2 * i
      BY <3>3
    <3>5. ups[l].op = "entity" /\ ups[l].id = ups[j].to
      BY <2>7, <3>2, <3>4
    <3>6. ups[1].op = "entity" /\ ups[1].id = ups[j].from
      BY <2>3, <2>6, <2>7, <3>2
    <3>7. ups[j].from \in Entities /\ ups[j].to \in Entities /\ ups[j].rel \in Range(Relations)
      BY <2>6, <2>7, <3>2
    <3> QED BY <3>3, <3>5, <3>6, <3>7
  <2>10. ASSUME NEW n \in EntityIds(Telemetry[e])
         PROVE  \E j \in 1..2 * k + 1 : ups[j].op = "entity" /\ ups[j].id = n
    <3>1. CASE n = ev.actor
      BY <2>3, <2>6, <3>1
    <3>2. CASE n # ev.actor
      <4>1. PICK i \in 1..k : m[i].id = n
        BY <1>3, <1>4, <1>6, <3>2
      <4>2. PICK j \in 1..2 * k + 1 : j = 2 * i /\ ups[j] = entity(i)
        BY <2>4
      <4> QED BY <2>7, <4>1, <4>2
    <3> QED BY <3>1, <3>2
  <2> QED BY <1>6, <2>0, <2>2, <2>8, <2>9, <2>10 DEF Upserted
<1> QED BY <1>7, <1>8

-----------------------------------------------------------------------------
(* The inductive invariant                                                 *)

(* The evidence of an edge is finite and bounded.                          *)
EvidenceInv ==
  /\ IsFiniteSet(evidence) /\ evidence \subseteq edges \X Events
  /\ \A e \in edges : Cardinality({x \in evidence : x[1] = e}) <= MaxEdgeEvidence

ShapeInv ==
  /\ stage \in [Workers -> {"idle", "project", "read", "save"}]
  /\ event \in [Workers -> Events \union {Nothing}]
  /\ DOMAIN pc = Workers /\ DOMAIN copy = Workers /\ DOMAIN read = Workers
  /\ DOMAIN blast = Workers /\ DOMAIN incidents = Subjects
  /\ ingests \in 0..MaxIngests /\ restarts \in 0..MaxRestarts

(* What a request has upserted is in the graph.                            *)
Hand(w) ==
  /\ stage[w] = "idle" => event[w] = Nothing /\ pc[w] = 0
  /\ stage[w] \in {"idle", "project"} => read[w] = <<>>
  /\ stage[w] # "idle" =>
       /\ event[w] \in Events
       /\ pc[w] \in 0..Len(Upserts(Telemetry[event[w]]))
       /\ \A j \in 1..pc[w] :
            Upserts(Telemetry[event[w]])[j].op = "entity" =>
              Upserts(Telemetry[event[w]])[j].id \in Known

(* Subjects are worked on one request at a time.                           *)
AloneInv == \A v, w \in Workers :
  v # w /\ stage[v] # "idle" /\ stage[w] # "idle" => Subject(v) # Subject(w)

(* Evidence of an incident: its entities are those its events name, and    *)
(* the graph knows them.                                                   *)
FromEvents(x) ==
  /\ x.rules \in SUBSET DOMAIN Rules /\ x.rules # {} /\ x.events \in SUBSET Events
  /\ x.entities = UNION {EntityIds(Telemetry[e]) : e \in x.events}
  /\ x.entities \in SUBSET Known

(* Criticalities that were read are not above what the graph says now.     *)
Rated(f) == \A n \in DOMAIN f : n \in Known /\ f[n] \in 0..3 /\ f[n] <= crit[n]

CriticalOf(f) == {n \in DOMAIN f : f[n] = Critical}

(* The blast radius b was estimated from E after f was read.               *)
Estimated(f, E, b) ==
  /\ DOMAIN f = E /\ E \subseteq b.stops /\ Covered(b, E)
  /\ Cardinality(CriticalOf(f)) <= b.critical
  /\ CriticalOf(f) # {} => b.critical > 0

(* The copy a request works on holds all that the incident held.           *)
Copy(w) == stage[w] \in {"read", "save"} =>
  /\ FromEvents(copy[w])
  /\ DOMAIN read[w] \subseteq copy[w].entities /\ Rated(read[w])
  /\ incidents[Subject(w)] # Nothing =>
       /\ incidents[Subject(w)].rules \subseteq copy[w].rules
       /\ incidents[Subject(w)].entities \subseteq copy[w].entities

(* What it is about to save is no less than what is there.                 *)
Saving(w) == stage[w] = "save" =>
  /\ Estimated(read[w], copy[w].entities, blast[w])
  /\ incidents[Subject(w)] # Nothing =>
       /\ incidents[Subject(w)].blast.score <= blast[w].score
       /\ incidents[Subject(w)].blast.critical <= blast[w].critical

WorkInv == \A w \in Workers : Hand(w) /\ Copy(w) /\ Saving(w)

(* An incident, as it was saved.                                           *)
Kept(inc) ==
  /\ FromEvents(inc) /\ Rated(inc.listed)
  /\ Estimated(inc.listed, inc.entities, inc.blast)
  /\ inc.touched \in BOOLEAN /\ inc.touched = (inc.blast.critical > 0)
  /\ inc.score = Assess(Findings(inc.rules), inc.blast.score, inc.touched)
  /\ inc.severity = SeverityForScore(inc.score)

IncidentInv == \A s \in Subjects : incidents[s] # Nothing => Kept(incidents[s])

IInv == /\ GraphTyped /\ EvidenceInv /\ ShapeInv /\ AloneInv
        /\ WorkInv /\ IncidentInv

-----------------------------------------------------------------------------
(* What a graph that only grows leaves true                                *)

LEMMA SameIsGrown ==
  ASSUME GraphTyped, crit' = crit, edges' = edges
  PROVE  GraphTyped' /\ Grown
<1>1. Known' = Known
  BY DEF Known
<1>2. GraphTyped'
  BY <1>1 DEF GraphTyped
<1>3. \A n \in Known : crit[n] <= crit'[n]
  <2>1. \A n \in Known : crit[n] \in 0..3
    BY DEF GraphTyped, Known
  <2> QED BY <2>1
<1> QED BY <1>1, <1>2, <1>3 DEF Grown

LEMMA EvidenceStays ==
  ASSUME GraphTyped, GraphTyped', Grown
  PROVE  /\ \A x : FromEvents(x) => FromEvents(x)'
         /\ \A f : Rated(f) => Rated(f)'
         /\ \A f, E, b : E \in SUBSET Known /\ Estimated(f, E, b) => Estimated(f, E, b)'
<1>1. Known \subseteq Known'
  BY DEF Grown
<1>2. ASSUME NEW x, FromEvents(x) PROVE FromEvents(x)'
  BY <1>1, <1>2 DEF FromEvents
<1>3. ASSUME NEW f, Rated(f) PROVE Rated(f)'
  <2>1. ASSUME NEW n \in DOMAIN f PROVE n \in Known' /\ f[n] \in 0..3 /\ f[n] <= crit'[n]
    <3>1. n \in Known /\ f[n] \in 0..3 /\ f[n] <= crit[n]
      BY <1>3, <2>1 DEF Rated
    <3>2. n \in Known' /\ crit[n] <= crit'[n]
      BY <3>1 DEF Grown
    <3>3. crit[n] \in 0..3
      BY <3>1 DEF GraphTyped, Known
    <3>4. crit'[n] \in 0..3
      BY <3>2 DEF GraphTyped, Known
    <3> QED BY <3>1, <3>2, <3>3, <3>4
  <2> QED BY <2>1 DEF Rated
<1>4. ASSUME NEW f, NEW E \in SUBSET Known, NEW b, Estimated(f, E, b) PROVE Estimated(f, E, b)'
  <2>1. Covered(b, E)'
    BY <1>4, BlastGrows DEF Estimated
  <2> QED BY <1>4, <2>1 DEF Estimated, CriticalOf
<1> QED BY <1>2, <1>3, <1>4

(* A request that did nothing keeps what it holds.                         *)
LEMMA WorkStays ==
  ASSUME GraphTyped, GraphTyped', Grown, NEW w \in Workers,
         Hand(w), Copy(w), Saving(w),
         stage'[w] = stage[w], event'[w] = event[w], pc'[w] = pc[w],
         copy'[w] = copy[w], read'[w] = read[w], blast'[w] = blast[w],
         stage[w] # "idle" => incidents'[Subject(w)] = incidents[Subject(w)]
  PROVE  Hand(w)' /\ Copy(w)' /\ Saving(w)'
<1>1. PICK c, f, b, s : c = copy[w] /\ f = read[w] /\ b = blast[w] /\ s = Subject(w)
  OBVIOUS
<1>2. Subject(w)' = s
  BY <1>1 DEF Subject
<1>3. Known \subseteq Known'
  BY DEF Grown
<1>4. Hand(w)'
  BY <1>3 DEF Hand
<1>5. Copy(w)'
  <2>1. SUFFICES ASSUME stage[w] \in {"read", "save"} PROVE Copy(w)'
    BY DEF Copy
  <2>2. FromEvents(c) /\ Rated(f)
    BY <1>1, <2>1 DEF Copy
  <2>3. FromEvents(c)' /\ Rated(f)'
    BY <2>2, EvidenceStays
  <2>4. FromEvents(copy[w])' /\ Rated(read[w])'
    BY <1>1, <2>3
  <2> QED BY <1>1, <1>2, <2>1, <2>4 DEF Copy
<1>6. Saving(w)'
  <2>1. SUFFICES ASSUME stage[w] = "save" PROVE Saving(w)'
    BY DEF Saving
  <2>2. PICK E : E = c.entities
    OBVIOUS
  <2>3. Estimated(f, E, b) /\ E \in SUBSET Known
    BY <1>1, <2>1, <2>2 DEF Saving, Copy, FromEvents
  <2>4. Estimated(f, E, b)'
    BY <2>3, EvidenceStays
  <2>5. Estimated(read[w], copy[w].entities, blast[w])'
    BY <1>1, <2>2, <2>4
  <2> QED BY <1>1, <1>2, <2>1, <2>5 DEF Saving
<1> QED BY <1>4, <1>5, <1>6

(* An incident that was not saved again stays as it was.                   *)
LEMMA IncidentStays ==
  ASSUME GraphTyped, GraphTyped', Grown, NEW inc, Kept(inc)
  PROVE  Kept(inc)'
<1>1. PICK f, E, b : f = inc.listed /\ E = inc.entities /\ b = inc.blast
  OBVIOUS
<1>2. FromEvents(inc)' /\ Rated(f)'
  BY <1>1, EvidenceStays DEF Kept
<1>3. Estimated(f, E, b) /\ E \in SUBSET Known
  BY <1>1 DEF Kept, FromEvents
<1>4. Estimated(f, E, b)'
  BY <1>3, EvidenceStays
<1> QED BY <1>1, <1>2, <1>4 DEF Kept

-----------------------------------------------------------------------------
(* An upsert                                                               *)

LEMMA EntityIsUpserted ==
  ASSUME GraphTyped, EvidenceInv,
         NEW u, u.id \in Entities, u.crit \in 0..3, UpsertEntity(u)
  PROVE  GraphTyped' /\ EvidenceInv' /\ Grown /\ u.id \in Known'
<1>1. crit \in [Entities -> 0..3 \union {Nothing}]
  BY DEF GraphTyped
<1>2. PICK c \in 0..3 :
        /\ crit' = [crit EXCEPT ![u.id] = c]
        /\ crit[u.id] = Nothing \/ crit[u.id] <= c
  <2>1. PICK c : c = IF crit[u.id] = Nothing \/ u.crit > crit[u.id] THEN u.crit ELSE crit[u.id]
    OBVIOUS
  <2>2. crit' = [crit EXCEPT ![u.id] = c]
    BY <2>1 DEF UpsertEntity
  <2>3. PICK a : a = crit[u.id] /\ (a = Nothing \/ a \in 0..3)
    BY <1>1
  <2>4. c \in 0..3 /\ (a = Nothing \/ a <= c)
    BY <2>1, <2>3
  <2> QED BY <2>2, <2>3, <2>4
<1>3. crit' \in [Entities -> 0..3 \union {Nothing}]
  BY <1>1, <1>2
<1>4. crit'[u.id] = c /\ \A n \in Entities \ {u.id} : crit'[n] = crit[n]
  BY <1>1, <1>2
<1>5. u.id \in Known' /\ Known \subseteq Known'
  <2>1. c # Nothing
    BY GraphBounds
  <2> QED BY <1>4, <2>1 DEF Known
<1>6. edges' = edges /\ evidence' = evidence
  BY DEF UpsertEntity
<1>7. GraphTyped'
  BY <1>3, <1>5, <1>6 DEF GraphTyped
<1>8. EvidenceInv'
  BY <1>6 DEF EvidenceInv
<1>9. ASSUME NEW n \in Known PROVE crit[n] <= crit'[n]
  <2>1. n \in Entities /\ crit[n] \in 0..3
    BY <1>1 DEF Known
  <2> QED BY <1>2, <1>4, <2>1 DEF Known
<1> QED BY <1>5, <1>6, <1>7, <1>8, <1>9 DEF Grown

LEMMA EdgeIsUpserted ==
  ASSUME GraphTyped, EvidenceInv, NEW e \in Events,
         NEW u, u.from \in Known, u.to \in Known, u.rel \in Range(Relations),
         UpsertEdge(u, e)
  PROVE  GraphTyped' /\ EvidenceInv' /\ Grown
<1> DEFINE f == Edge(u)
           about == {x \in evidence : x[1] = f}
<1>1. crit' = crit /\ Known' = Known
  BY DEF UpsertEdge, Known
<1>2. f \in [from : Known, to : Known, rel : Range(Relations)] /\ f.from = u.from /\ f.to = u.to
  BY DEF Edge
<1> HIDE DEF f
<1>3. PICK new : new = {g \in {f} : g.from # g.to} /\ edges' = edges \union new
  BY DEF UpsertEdge, f
<1>4. PICK open : /\ open = {g \in new : Cardinality({x \in evidence : x[1] = g}) < MaxEdgeEvidence}
                  /\ evidence' = evidence \union (open \X {e})
  BY <1>3 DEF UpsertEdge, f
<1>5. GraphTyped'
  BY <1>1, <1>2, <1>3 DEF GraphTyped
<1>6. Grown
  <2>1. \A n \in Known : crit[n] \in 0..3
    BY DEF GraphTyped, Known
  <2> QED BY <1>1, <1>3, <2>1 DEF Grown
<1>7. IsFiniteSet(about) /\ Cardinality(about) \in Nat
  BY FS_Subset, FS_CardinalityType DEF EvidenceInv
<1>8. EvidenceInv'
  <2>1. CASE open = {}
    <3>1. evidence' = evidence
      BY <1>4, <2>1
    <3>2. \A g \in edges' : Cardinality({x \in evidence : x[1] = g}) <= MaxEdgeEvidence
      <4>1. ASSUME f \in edges', f \notin edges
            PROVE  Cardinality(about) <= MaxEdgeEvidence
        <5>1. about = {}
          BY <4>1 DEF EvidenceInv
        <5>2. Cardinality(about) = 0
          BY <5>1, FS_EmptySet
        <5> QED BY <5>2, GraphBounds
      <4>2. edges' \subseteq edges \union {f}
        BY <1>3
      <4> QED BY <4>1, <4>2 DEF EvidenceInv
    <3> QED BY <1>3, <3>1, <3>2 DEF EvidenceInv
  <2>2. CASE open # {}
    <3>1. open = {f} /\ new = {f} /\ Cardinality(about) < MaxEdgeEvidence
      BY <1>3, <1>4, <2>2
    <3>2. evidence' = evidence \union {<<f, e>>}
      BY <1>4, <3>1
    <3>3. {x \in evidence' : x[1] = f} = about \union {<<f, e>>}
      BY <3>2
    <3>4. Cardinality(about \union {<<f, e>>}) <= Cardinality(about) + 1
      <4>1. CASE <<f, e>> \in about
        <5>1. about \union {<<f, e>>} = about
          BY <4>1
        <5>2. PICK k \in Nat : k = Cardinality(about)
          BY <1>7
        <5> QED BY <5>1, <5>2
      <4>2. CASE <<f, e>> \notin about
        <5>1. Cardinality(about \union {<<f, e>>}) = Cardinality(about) + 1
          BY <1>7, <4>2, FS_AddElement, Zenon
        <5>2. PICK k \in Nat : k = Cardinality(about)
          BY <1>7
        <5> QED BY <5>1, <5>2
      <4> QED BY <4>1, <4>2
    <3>5. IsFiniteSet(evidence')
      BY <3>2, FS_AddElement DEF EvidenceInv
    <3>6. evidence' \subseteq edges' \X Events
      BY <1>3, <3>1, <3>2 DEF EvidenceInv
    <3>7. ASSUME NEW g \in edges' PROVE Cardinality({x \in evidence' : x[1] = g}) <= MaxEdgeEvidence
      <4>1. CASE g = f
        <5>1. PICK k \in Nat : k = Cardinality(about)
          BY <1>7
        <5>2. PICK m \in Nat : m = Cardinality({x \in evidence' : x[1] = g})
          <6>1. IsFiniteSet({x \in evidence' : x[1] = g})
            BY <3>5, FS_Subset
          <6> QED BY <6>1, FS_CardinalityType
        <5>3. m <= k + 1 /\ k < MaxEdgeEvidence
          BY <3>1, <3>3, <3>4, <4>1, <5>1, <5>2
        <5>4. MaxEdgeEvidence \in Nat
          BY GraphBounds
        <5>5. m <= MaxEdgeEvidence
          BY <5>3, <5>4
        <5> QED BY <5>2, <5>5
      <4>2. CASE g # f
        <5>1. {x \in evidence' : x[1] = g} = {x \in evidence : x[1] = g}
          BY <3>2, <4>2
        <5>2. g \in edges
          BY <1>3, <4>2
        <5> QED BY <5>1, <5>2 DEF EvidenceInv
      <4> QED BY <4>1, <4>2
    <3> QED BY <3>5, <3>6, <3>7 DEF EvidenceInv
  <2> QED BY <2>1, <2>2
<1> QED BY <1>5, <1>6, <1>8

(* What Project upserts comes from the event: an edge joins entities that  *)
(* were upserted before it.                                                *)
LEMMA ProjectGrows ==
  ASSUME GraphTyped, EvidenceInv, NEW w \in Workers, w \in DOMAIN pc, Hand(w), Project(w)
  PROVE  /\ GraphTyped' /\ EvidenceInv' /\ Grown
         /\ Hand(w)'
<1>1. stage[w] = "project" /\ event[w] \in Events /\ read[w] = <<>>
  BY DEF Project, Hand
<1>2. PICK e \in Events : e = event[w]
  BY <1>1
<1>3. PICK ups : ups = Upserts(Telemetry[e])
  OBVIOUS
<1>0. Upserted(e, ups)
  BY <1>3, UpsertsAre, Zenon
<1>4. PICK n \in Nat : n = Len(ups)
  BY <1>0 DEF Upserted
<1>5. PICK k \in 0..n : k = pc[w] /\ k < n
  BY <1>1, <1>2, <1>3, <1>4 DEF Project, Hand
<1>6. PICK j \in 1..n : j = k + 1
  BY <1>5
<1>7. \A i \in 1..k : ups[i].op = "entity" => ups[i].id \in Known
  BY <1>1, <1>2, <1>3, <1>5 DEF Hand
<1>8. /\ GraphTyped' /\ EvidenceInv' /\ Grown
      /\ ups[j].op = "entity" => ups[j].id \in Known'
  <2>1. CASE ups[j].op = "entity"
    <3>1. ups[j].id \in Entities /\ ups[j].crit \in 0..3
      BY <1>0, <1>4, <2>1 DEF Upserted
    <3>2. UpsertEntity(ups[j])
      BY <1>2, <1>3, <1>5, <1>6, <2>1 DEF Project
    <3> QED BY <3>1, <3>2, EntityIsUpserted
  <2>2. CASE ups[j].op # "entity"
    <3>1. /\ ups[j].rel \in Range(Relations)
          /\ \E i \in 1..j - 1 : ups[i].op = "entity" /\ ups[i].id = ups[j].from
          /\ \E i \in 1..j - 1 : ups[i].op = "entity" /\ ups[i].id = ups[j].to
      BY <1>0, <1>4, <2>2 DEF Upserted
    <3>2. j - 1 = k
      BY <1>6
    <3>3. ups[j].from \in Known /\ ups[j].to \in Known
      BY <1>7, <3>1, <3>2
    <3>4. UpsertEdge(ups[j], e)
      BY <1>2, <1>3, <1>5, <1>6, <2>2 DEF Project
    <3> QED BY <2>2, <3>1, <3>3, <3>4, EdgeIsUpserted
  <2> QED BY <2>1, <2>2
<1>9. Hand(w)'
  <2>1. /\ stage'[w] = "project" /\ event'[w] = e /\ read'[w] = <<>>
        /\ pc'[w] = j
    BY <1>1, <1>2, <1>5, <1>6 DEF Project
  <2>2. \A i \in 1..j : ups[i].op = "entity" => ups[i].id \in Known'
    <3>1. Known \subseteq Known'
      BY <1>8 DEF Grown
    <3>2. \A i \in 1..j : i \in 1..k \/ i = j
      BY <1>6
    <3> QED BY <1>7, <1>8, <3>1, <3>2
  <2>3. j \in 0..n
    OBVIOUS
  <2> QED BY <1>3, <1>4, <2>1, <2>2, <2>3 DEF Hand
<1> QED BY <1>8, <1>9

-----------------------------------------------------------------------------
(* The steps of a request                                                  *)

Untouched(v) ==
  /\ stage'[v] = stage[v] /\ event'[v] = event[v] /\ pc'[v] = pc[v]
  /\ copy'[v] = copy[v] /\ read'[v] = read[v] /\ blast'[v] = blast[v]

(* Only request w took a step, and no incident but its own was saved.      *)
OnlyOne(w) ==
  /\ \A v \in Workers \ {w} : Untouched(v)
  /\ \A s \in Subjects : incidents'[s] = incidents[s] \/ (stage[w] # "idle" /\ s = Subject(w))

SubjectsAre == \A e \in Events : Telemetry[e].actor \in Subjects

LEMMA SubjectsAlways == SubjectsAre
BY DEF SubjectsAre, Subjects

LEMMA OthersStay ==
  ASSUME IInv, GraphTyped', Grown, NEW w \in Workers, OnlyOne(w)
  PROVE  /\ \A v \in Workers \ {w} : Hand(v)' /\ Copy(v)' /\ Saving(v)'
         /\ \A s \in Subjects : incidents'[s] = incidents[s] /\ incidents'[s] # Nothing =>
              Kept(incidents[s])'
<1>1. ASSUME NEW v \in Workers \ {w} PROVE Hand(v)' /\ Copy(v)' /\ Saving(v)'
  <2>1. GraphTyped /\ Hand(v) /\ Copy(v) /\ Saving(v) /\ Untouched(v)
    BY DEF IInv, WorkInv, OnlyOne
  <2>2. stage[v] # "idle" => incidents'[Subject(v)] = incidents[Subject(v)]
    <3>1. SUFFICES ASSUME stage[v] # "idle" PROVE incidents'[Subject(v)] = incidents[Subject(v)]
      OBVIOUS
    <3>2. event[v] \in Events
      BY <2>1, <3>1 DEF Hand
    <3>3. Subject(v) \in Subjects
      BY <3>2, SubjectsAlways DEF Subject, SubjectsAre
    <3>4. stage[w] # "idle" => Subject(v) # Subject(w)
      BY <3>1 DEF IInv, AloneInv
    <3> QED BY <3>3, <3>4 DEF OnlyOne
  <2> QED BY <2>1, <2>2, WorkStays DEF Untouched
<1>2. ASSUME NEW s \in Subjects, incidents'[s] = incidents[s], incidents'[s] # Nothing
      PROVE  Kept(incidents[s])'
  <2>1. PICK inc : inc = incidents[s]
    OBVIOUS
  <2>2. GraphTyped /\ Kept(inc)
    BY <1>2, <2>1 DEF IInv, IncidentInv
  <2>3. Kept(inc)'
    BY <2>2, IncidentStays
  <2> QED BY <1>2, <2>1, <2>3
<1> QED BY <1>1, <1>2

(* The parts of the invariant after a step of request w.                   *)
LEMMA StepKeeps ==
  ASSUME IInv, GraphTyped', EvidenceInv', ShapeInv', AloneInv', Grown, NEW w \in Workers,
         OnlyOne(w), incidents' = incidents, Hand(w)', Copy(w)', Saving(w)'
  PROVE  IInv'
<1>1. WorkInv'
  BY OthersStay DEF WorkInv
<1>2. IncidentInv'
  <2>1. Subjects' = Subjects
    BY DEF Subjects
  <2> QED BY <2>1, OthersStay DEF IncidentInv
<1> QED BY <1>1, <1>2 DEF IInv

(* Requests that stop, or go on with the same subject, stay apart.         *)
LEMMA AloneStays ==
  ASSUME AloneInv, \A v \in Workers : stage'[v] # "idle" => stage[v] # "idle" /\ event'[v] = event[v]
  PROVE  AloneInv'
BY DEF AloneInv, Subject

LEMMA IngestKeeps ==
  ASSUME IInv, NEW w \in Workers, NEW e \in Events, Ingest(w, e)
  PROVE  IInv'
<1>1. GraphTyped' /\ Grown
  BY SameIsGrown DEF Ingest, graph, IInv
<1>2. EvidenceInv'
  BY DEF Ingest, graph, IInv, EvidenceInv
<1>3. /\ stage' = [stage EXCEPT ![w] = "project"] /\ event' = [event EXCEPT ![w] = e]
      /\ stage \in [Workers -> {"idle", "project", "read", "save"}]
      /\ event \in [Workers -> Events \union {Nothing}] /\ ingests \in 0..MaxIngests
      /\ UNCHANGED <<pc, copy, read, blast, incidents, restarts>> /\ ingests' = ingests + 1
      /\ ingests < MaxIngests /\ MaxIngests \in Nat
  BY GraphBounds DEF Ingest, Goto, IInv, ShapeInv
<1>4. ShapeInv'
  <2>1. ingests' \in 0..MaxIngests
    BY <1>3
  <2>2. Subjects' = Subjects
    BY DEF Subjects
  <2> QED BY <1>3, <2>1, <2>2 DEF ShapeInv, IInv
<1>5. stage'[w] = "project" /\ event'[w] = e /\ \A v \in Workers \ {w} : Untouched(v)
  BY <1>3 DEF Untouched
<1>6. AloneInv'
  <2>1. \A v \in Workers \ {w} : stage[v] # "idle" => Subject(v) # Telemetry[e].actor
    BY DEF Ingest
  <2> QED BY <1>5, <2>1 DEF IInv, AloneInv, Subject, Untouched
<1>7. OnlyOne(w)
  BY <1>3, <1>5 DEF OnlyOne
<1>8. stage[w] = "idle" /\ Hand(w)
  BY DEF Ingest, IInv, WorkInv
<1>9. Hand(w)'
  <2>1. read'[w] = <<>> /\ pc'[w] = 0
    BY <1>3, <1>8 DEF Hand
  <2>2. 0 \in 0..Len(Upserts(Telemetry[e]))
    <3>1. PICK n \in Nat : n = Len(Upserts(Telemetry[e]))
      <4>1. Upserted(e, Upserts(Telemetry[e]))
        BY UpsertsAre, Zenon
      <4> QED BY <4>1 DEF Upserted
    <3> QED BY <3>1
  <2> QED BY <1>5, <2>1, <2>2 DEF Hand
<1>10. Copy(w)' /\ Saving(w)'
  BY <1>5 DEF Copy, Saving
<1> QED BY <1>1, <1>2, <1>3, <1>4, <1>6, <1>7, <1>9, <1>10, StepKeeps

LEMMA ProjectKeeps ==
  ASSUME IInv, NEW w \in Workers, Project(w)
  PROVE  IInv'
<1>1. GraphTyped' /\ EvidenceInv' /\ Grown /\ Hand(w)'
  BY ProjectGrows DEF IInv, WorkInv, ShapeInv
<1>2. /\ pc' = [pc EXCEPT ![w] = @ + 1] /\ stage[w] = "project"
      /\ UNCHANGED <<incidents, stage, event, copy, read, blast, ingests, restarts>>
  BY DEF Project, counts
<1>3. ShapeInv'
  <2>1. Subjects' = Subjects
    BY DEF Subjects
  <2> QED BY <1>2, <2>1 DEF ShapeInv, IInv
<1>4. AloneInv'
  BY <1>2, AloneStays DEF IInv
<1>5. OnlyOne(w)
  BY <1>2 DEF OnlyOne, Untouched, IInv, ShapeInv
<1>6. Copy(w)' /\ Saving(w)'
  BY <1>2 DEF Copy, Saving
<1> QED BY <1>1, <1>2, <1>3, <1>4, <1>5, <1>6, StepKeeps

LEMMA FinishIs ==
  ASSUME IInv, NEW w \in Workers, Finish(w)
  PROVE  /\ \A v \in Workers \ {w} : Untouched(v)
         /\ Hand(w)' /\ Copy(w)' /\ Saving(w)' /\ AloneInv'
         /\ stage' \in [Workers -> {"idle", "project", "read", "save"}]
         /\ event' \in [Workers -> Events \union {Nothing}]
         /\ DOMAIN pc' = Workers /\ DOMAIN copy' = Workers /\ DOMAIN read' = Workers
         /\ DOMAIN blast' = Workers
<1>1. ShapeInv /\ AloneInv
  BY DEF IInv
<1>2. /\ stage' = [stage EXCEPT ![w] = "idle"] /\ event' = [event EXCEPT ![w] = Nothing]
      /\ pc' = [pc EXCEPT ![w] = 0] /\ copy' = [copy EXCEPT ![w] = NoEvidence]
      /\ read' = [read EXCEPT ![w] = <<>>] /\ blast' = [blast EXCEPT ![w] = Nothing]
  BY DEF Finish, Goto
<1>3. \A v \in Workers \ {w} : Untouched(v)
  BY <1>1, <1>2 DEF Untouched, ShapeInv
<1>4. stage'[w] = "idle" /\ event'[w] = Nothing /\ pc'[w] = 0 /\ read'[w] = <<>>
  BY <1>1, <1>2 DEF ShapeInv
<1>5. AloneInv'
  BY <1>1, <1>3, <1>4, AloneStays DEF Untouched
<1>6. Hand(w)' /\ Copy(w)' /\ Saving(w)'
  BY <1>4 DEF Hand, Copy, Saving
<1>7. /\ stage' \in [Workers -> {"idle", "project", "read", "save"}]
      /\ event' \in [Workers -> Events \union {Nothing}]
      /\ DOMAIN pc' = Workers /\ DOMAIN copy' = Workers /\ DOMAIN read' = Workers
      /\ DOMAIN blast' = Workers
  BY <1>1, <1>2 DEF ShapeInv
<1> QED BY <1>3, <1>5, <1>6, <1>7

LEMMA NoFindingKeeps ==
  ASSUME IInv, NEW w \in Workers, NoFinding(w)
  PROVE  IInv'
<1>1. Finish(w) /\ UNCHANGED <<crit, edges, evidence, incidents, ingests, restarts>>
  BY DEF NoFinding, graph, counts
<1>2. GraphTyped' /\ Grown
  BY <1>1, SameIsGrown DEF IInv
<1>3. EvidenceInv'
  BY <1>1 DEF IInv, EvidenceInv
<1>4. ShapeInv'
  <2>1. Subjects' = Subjects
    BY DEF Subjects
  <2> QED BY <1>1, <2>1, FinishIs DEF ShapeInv, IInv
<1>5. OnlyOne(w)
  BY <1>1, FinishIs DEF OnlyOne
<1> QED BY <1>1, <1>2, <1>3, <1>4, <1>5, FinishIs, StepKeeps

(* A step that leaves the graph, the incidents and the counters alone.     *)
LEMMA QuietStep ==
  ASSUME IInv, UNCHANGED <<crit, edges, evidence>>
  PROVE  GraphTyped' /\ Grown /\ EvidenceInv' /\ Known' = Known
<1>1. GraphTyped' /\ Grown
  BY SameIsGrown DEF IInv
<1>2. EvidenceInv'
  BY DEF IInv, EvidenceInv
<1> QED BY <1>1, <1>2 DEF Known

(* A finding is merged into what the incident holds.                       *)
LEMMA MergeIsFromEvents ==
  ASSUME IInv, NEW e \in Events, FindingOf[e] # Nothing,
         EntityIds(Telemetry[e]) \subseteq Known,
         NEW have, have = NoEvidence \/ FromEvents(have)
  PROVE  /\ FromEvents(MergeFinding(have, e))
         /\ have.rules \subseteq MergeFinding(have, e).rules
         /\ have.entities \subseteq MergeFinding(have, e).entities
<1>1. FindingOf[e] \in DOMAIN Rules
  BY TelemetryIsSound
<1>2. PICK m : m = MergeFinding(have, e)
  OBVIOUS
<1>3. /\ m.rules = have.rules \union {FindingOf[e]} /\ m.events = have.events \union {e}
      /\ m.entities = have.entities \union EntityIds(Telemetry[e])
  BY <1>2 DEF MergeFinding
<1>4. /\ have.rules \in SUBSET DOMAIN Rules /\ have.events \in SUBSET Events
      /\ have.entities = UNION {EntityIds(Telemetry[f]) : f \in have.events}
      /\ have.entities \in SUBSET Known
  <2>1. CASE have = NoEvidence
    BY <2>1 DEF NoEvidence
  <2>2. CASE FromEvents(have)
    BY <2>2 DEF FromEvents
  <2> QED BY <2>1, <2>2
<1>5. m.entities = UNION {EntityIds(Telemetry[f]) : f \in m.events}
  BY <1>3, <1>4
<1>6. FromEvents(m)
  BY <1>1, <1>3, <1>4, <1>5 DEF FromEvents
<1> QED BY <1>2, <1>3, <1>6

LEMMA MergeKeeps ==
  ASSUME IInv, NEW w \in Workers, MergeIntoIncident(w)
  PROVE  IInv'
<1>1. /\ stage[w] = "project" /\ FindingOf[event[w]] # Nothing
      /\ pc[w] = Len(Upserts(Telemetry[event[w]]))
      /\ stage' = [stage EXCEPT ![w] = "read"]
      /\ UNCHANGED <<crit, edges, evidence, incidents, event, pc, read, blast, ingests, restarts>>
  BY DEF MergeIntoIncident, Projected, Goto, graph, counts
<1>2. GraphTyped' /\ Grown /\ EvidenceInv' /\ Known' = Known
  BY <1>1, QuietStep
<1>3. Hand(w) /\ ShapeInv /\ AloneInv /\ IncidentInv
  BY DEF IInv, WorkInv
<1>4. PICK e \in Events : e = event[w]
  BY <1>1, <1>3 DEF Hand
<1>5. PICK s \in Subjects : s = Subject(w)
  BY <1>4, SubjectsAlways DEF Subject, SubjectsAre
<1>6. PICK inc : inc = incidents[s]
  OBVIOUS
<1>7. PICK have :
        /\ have = IF inc = Nothing THEN NoEvidence
                  ELSE [rules |-> inc.rules, events |-> inc.events, entities |-> inc.entities]
        /\ copy' = [copy EXCEPT ![w] = MergeFinding(have, e)]
  BY <1>4, <1>5, <1>6 DEF MergeIntoIncident
<1>8. EntityIds(Telemetry[e]) \subseteq Known
  <2>1. PICK ups : ups = Upserts(Telemetry[e])
    OBVIOUS
  <2>2. \A n \in EntityIds(Telemetry[e]) :
          \E j \in 1..Len(ups) : ups[j].op = "entity" /\ ups[j].id = n
    <3>1. Upserted(e, ups)
      BY <2>1, UpsertsAre, Zenon
    <3> QED BY <3>1 DEF Upserted
  <2>3. \A j \in 1..Len(ups) : ups[j].op = "entity" => ups[j].id \in Known
    BY <1>1, <1>3, <1>4, <2>1 DEF Hand
  <2> QED BY <2>2, <2>3
<1>9. have = NoEvidence \/ FromEvents(have)
  <2>1. CASE inc = Nothing
    BY <1>7, <2>1
  <2>2. CASE inc # Nothing
    <3>1. FromEvents(inc)
      BY <1>3, <1>6, <2>2 DEF IncidentInv, Kept
    <3>2. /\ have.rules = inc.rules /\ have.events = inc.events /\ have.entities = inc.entities
      BY <1>7, <2>2
    <3> QED BY <3>1, <3>2 DEF FromEvents
  <2> QED BY <2>1, <2>2
<1>10. PICK m : m = MergeFinding(have, e)
  OBVIOUS
<1>11. FromEvents(m) /\ have.rules \subseteq m.rules /\ have.entities \subseteq m.entities
  BY <1>1, <1>4, <1>8, <1>9, <1>10, MergeIsFromEvents
<1>12. copy'[w] = m /\ read'[w] = <<>> /\ stage'[w] = "read" /\ Subject(w)' = s
  BY <1>1, <1>3, <1>5, <1>7, <1>10 DEF ShapeInv, Hand, Subject
<1>13. Copy(w)'
  <2>1. FromEvents(m)'
    BY <1>2, <1>11 DEF FromEvents
  <2>2. DOMAIN <<>> = {}
    OBVIOUS
  <2>3. DOMAIN read'[w] = {}
    BY <1>12, <2>2
  <2>4. Rated(read[w])'
    BY <2>3 DEF Rated
  <2>5. inc # Nothing => inc.rules \subseteq m.rules /\ inc.entities \subseteq m.entities
    BY <1>7, <1>11
  <2> QED BY <1>1, <1>6, <1>12, <2>1, <2>3, <2>4, <2>5 DEF Copy
<1>14. Hand(w)'
  BY <1>1, <1>2, <1>3, <1>12 DEF Hand
<1>15. Saving(w)'
  BY <1>12 DEF Saving
<1>16. ShapeInv'
  <2>1. Subjects' = Subjects
    BY DEF Subjects
  <2> QED BY <1>1, <1>3, <1>7, <2>1 DEF ShapeInv
<1>17. AloneInv'
  <2>1. \A v \in Workers : stage'[v] # "idle" => stage[v] # "idle" /\ event'[v] = event[v]
    BY <1>1, <1>3 DEF ShapeInv
  <2> QED BY <1>3, <2>1, AloneStays
<1>18. OnlyOne(w)
  BY <1>1, <1>3, <1>7 DEF OnlyOne, Untouched, ShapeInv
<1> QED BY <1>1, <1>2, <1>13, <1>14, <1>15, <1>16, <1>17, <1>18, StepKeeps

LEMMA ReadKeeps ==
  ASSUME IInv, NEW w \in Workers, ReadEntity(w)
  PROVE  IInv'
<1>1. /\ stage[w] = "read"
      /\ UNCHANGED <<crit, edges, evidence, incidents, stage, event, pc, copy, blast,
                     ingests, restarts>>
  BY DEF ReadEntity, graph, counts
<1>2. GraphTyped' /\ Grown /\ EvidenceInv' /\ Known' = Known
  BY <1>1, QuietStep
<1>3. Hand(w) /\ Copy(w) /\ ShapeInv /\ AloneInv
  BY DEF IInv, WorkInv
<1>4. PICK f, c : f = read[w] /\ c = copy[w]
  OBVIOUS
<1>5. /\ FromEvents(c) /\ DOMAIN f \subseteq c.entities /\ Rated(f)
      /\ incidents[Subject(w)] # Nothing =>
           /\ incidents[Subject(w)].rules \subseteq c.rules
           /\ incidents[Subject(w)].entities \subseteq c.entities
  BY <1>1, <1>3, <1>4 DEF Copy
<1>6. PICK n \in c.entities :
        read' = [read EXCEPT ![w] =
                  [m \in DOMAIN f \union {n} |->
                     IF m # n THEN f[m] ELSE IF n \in Known THEN crit[n] ELSE Medium]]
  <2>1. PICK unread : unread = c.entities \ DOMAIN f
    OBVIOUS
  <2>2. unread # {}
    BY <1>4, <2>1 DEF ReadEntity
  <2>3. unread \in SUBSET Nat
    BY <1>5, <2>1, GraphBounds DEF FromEvents, Known
  <2>4. \E x \in unread : \A y \in unread : x <= y
    BY <2>2, <2>3, LeastOf
  <2>5. Min(unread) \in unread
    BY <2>4 DEF Min
  <2> QED BY <1>4, <2>1, <2>5 DEF ReadEntity
<1>7. PICK g : g = [m \in DOMAIN f \union {n} |->
                     IF m # n THEN f[m] ELSE IF n \in Known THEN crit[n] ELSE Medium]
  OBVIOUS
<1>8. read'[w] = g /\ \A v \in Workers \ {w} : read'[v] = read[v]
  BY <1>3, <1>6, <1>7 DEF ShapeInv
<1>9. n \in Known /\ crit[n] \in 0..3
  BY <1>5 DEF FromEvents, IInv, GraphTyped, Known
<1>10. DOMAIN g \subseteq c.entities /\ Rated(g)
  <2>1. DOMAIN g = DOMAIN f \union {n}
    BY <1>7
  <2>2. ASSUME NEW m \in DOMAIN g PROVE m \in Known /\ g[m] \in 0..3 /\ g[m] <= crit[m]
    <3>1. CASE m = n
      <4>1. g[m] = crit[n]
        BY <1>7, <1>9, <3>1
      <4> QED BY <1>9, <3>1, <4>1
    <3>2. CASE m # n
      <4>1. m \in DOMAIN f /\ g[m] = f[m]
        BY <1>7, <2>1, <3>2
      <4> QED BY <1>5, <4>1 DEF Rated
    <3> QED BY <3>1, <3>2
  <2> QED BY <1>5, <2>1, <2>2 DEF Rated
<1>11. Copy(w)'
  <2>1. FromEvents(c)' /\ Rated(g)'
    BY <1>1, <1>2, <1>5, <1>10 DEF FromEvents, Rated
  <2>2. FromEvents(copy[w])' /\ Rated(read[w])'
    BY <1>1, <1>4, <1>8, <2>1
  <2>3. Subject(w)' = Subject(w)
    BY <1>1 DEF Subject
  <2> QED BY <1>1, <1>4, <1>5, <1>8, <1>10, <2>2, <2>3 DEF Copy
<1>12. Hand(w)'
  BY <1>1, <1>2, <1>3 DEF Hand
<1>13. Saving(w)'
  BY <1>1 DEF Saving
<1>14. ShapeInv'
  <2>1. Subjects' = Subjects
    BY DEF Subjects
  <2> QED BY <1>1, <1>3, <1>6, <2>1 DEF ShapeInv
<1>15. AloneInv'
  BY <1>1, <1>3, AloneStays
<1>16. OnlyOne(w)
  BY <1>1, <1>8 DEF OnlyOne, Untouched
<1> QED BY <1>1, <1>2, <1>11, <1>12, <1>13, <1>14, <1>15, <1>16, StepKeeps

LEMMA EstimateKeeps ==
  ASSUME IInv, NEW w \in Workers, EstimateBlastRadius(w)
  PROVE  IInv'
<1>1. /\ stage[w] = "read" /\ DOMAIN read[w] = copy[w].entities
      /\ blast' = [blast EXCEPT ![w] = BlastRadius(copy[w].entities)]
      /\ stage' = [stage EXCEPT ![w] = "save"]
      /\ UNCHANGED <<crit, edges, evidence, incidents, event, pc, copy, read, ingests, restarts>>
  BY DEF EstimateBlastRadius, Goto, graph, counts
<1>2. GraphTyped' /\ Grown /\ EvidenceInv' /\ Known' = Known
  BY <1>1, QuietStep
<1>3. Hand(w) /\ Copy(w) /\ ShapeInv /\ AloneInv /\ IncidentInv /\ GraphTyped
  BY DEF IInv, WorkInv
<1>4. PICK f, c, s : f = read[w] /\ c = copy[w] /\ s = Subject(w)
  OBVIOUS
<1>5. /\ FromEvents(c) /\ Rated(f)
      /\ incidents[s] # Nothing =>
           incidents[s].rules \subseteq c.rules /\ incidents[s].entities \subseteq c.entities
  BY <1>1, <1>3, <1>4 DEF Copy
<1>6. s \in Subjects
  <2>1. event[w] \in Events
    BY <1>1, <1>3 DEF Hand
  <2> QED BY <1>4, <2>1, SubjectsAlways DEF Subject, SubjectsAre
<1>7. PICK E \in SUBSET Known : E = c.entities /\ E = DOMAIN f
  BY <1>1, <1>4, <1>5 DEF FromEvents
<1>8. PICK b : b = BlastRadius(E)
  OBVIOUS
<1>9. PICK T \in SUBSET E : T = CriticalOf(f)
  BY <1>7 DEF CriticalOf
<1>10. \A n \in T : crit[n] = Critical
  <2>1. ASSUME NEW n \in T PROVE crit[n] = Critical
    <3>1. n \in DOMAIN f /\ f[n] = 3
      BY <1>9 DEF CriticalOf, Critical
    <3>2. n \in Known /\ 3 <= crit[n]
      BY <1>5, <3>1 DEF Rated
    <3>3. crit[n] \in 0..3
      BY <1>3, <3>2 DEF GraphTyped, Known
    <3> QED BY <3>2, <3>3 DEF Critical
  <2> QED BY <2>1
<1>11. /\ E \subseteq b.stops /\ Cardinality(T) \in Nat /\ b.critical \in Nat
       /\ IsFiniteSet(T) /\ Cardinality(T) <= b.critical
  BY <1>3, <1>8, <1>10, BlastHolds
<1>12. Covered(b, E)
  BY <1>3, <1>8, BlastOfMore
<1>13. T # {} => b.critical > 0
  <2>1. T # {} => Cardinality(T) # 0
    BY <1>11, FS_EmptySet
  <2> QED BY <1>11, <2>1
<1>14. Estimated(f, E, b)
  BY <1>7, <1>9, <1>11, <1>12, <1>13 DEF Estimated
<1>15. incidents[s] # Nothing =>
         incidents[s].blast.score <= b.score /\ incidents[s].blast.critical <= b.critical
  <2>1. SUFFICES ASSUME incidents[s] # Nothing
                 PROVE  incidents[s].blast.score <= b.score /\ incidents[s].blast.critical <= b.critical
    OBVIOUS
  <2>2. PICK inc : inc = incidents[s]
    OBVIOUS
  <2>3. Kept(inc)
    BY <1>3, <1>6, <2>1, <2>2 DEF IncidentInv
  <2>4. PICK K, old : K \in SUBSET Known /\ K = inc.entities /\ old = inc.blast
    BY <2>3 DEF Kept, FromEvents
  <2>5. K \subseteq E /\ Covered(old, K)
    BY <1>5, <1>7, <2>1, <2>2, <2>3, <2>4 DEF Kept, Estimated
  <2>6. Covered(BlastRadius(K), E)
    BY <1>3, <2>5, BlastOfMore
  <2>7. PICK x \in 0..100, y \in 0..100 : x = old.score /\ y = BlastRadius(K).score
    BY <2>5 DEF Covered
  <2>8. x <= y /\ y <= b.score /\ b.score \in 0..100
    BY <1>8, <2>5, <2>6, <2>7 DEF Covered
  <2>9. PICK i \in Nat, j \in Nat : i = old.critical /\ j = BlastRadius(K).critical
    BY <2>5 DEF Covered
  <2>10. i <= j /\ j <= b.critical /\ b.critical \in Nat
    BY <1>8, <2>5, <2>6, <2>9 DEF Covered
  <2>11. x <= b.score
    BY <2>8
  <2>12. i <= b.critical
    BY <2>10
  <2> QED BY <2>2, <2>4, <2>7, <2>9, <2>11, <2>12
<1>16. blast'[w] = b /\ stage'[w] = "save" /\ Subject(w)' = s
  BY <1>1, <1>3, <1>4, <1>7, <1>8 DEF ShapeInv, Subject
<1>17. Copy(w)'
  <2>1. FromEvents(c)' /\ Rated(f)'
    BY <1>2, <1>3, <1>5, EvidenceStays
  <2>2. FromEvents(copy[w])' /\ Rated(read[w])'
    BY <1>1, <1>4, <2>1
  <2> QED BY <1>1, <1>4, <1>5, <1>16, <2>2 DEF Copy
<1>18. Saving(w)'
  <2>1. Estimated(f, E, b)'
    BY <1>2, <1>3, <1>14, EvidenceStays
  <2>2. Estimated(read[w], copy[w].entities, blast[w])'
    BY <1>1, <1>4, <1>7, <1>16, <2>1
  <2> QED BY <1>1, <1>15, <1>16, <2>2 DEF Saving
<1>19. Hand(w)'
  BY <1>1, <1>2, <1>3, <1>16 DEF Hand
<1>20. ShapeInv'
  <2>1. Subjects' = Subjects
    BY DEF Subjects
  <2> QED BY <1>1, <1>3, <2>1 DEF ShapeInv
<1>21. AloneInv'
  <2>1. \A v \in Workers : stage'[v] # "idle" => stage[v] # "idle" /\ event'[v] = event[v]
    BY <1>1, <1>3 DEF ShapeInv
  <2> QED BY <1>3, <2>1, AloneStays
<1>22. OnlyOne(w)
  BY <1>1, <1>3 DEF OnlyOne, Untouched, ShapeInv
<1> QED BY <1>1, <1>2, <1>17, <1>18, <1>19, <1>20, <1>21, <1>22, StepKeeps

(* What is saved: as serious as the evidence and the blast radius make it, *)
(* and no less than what it replaces.                                      *)
Replaces(s, inc) ==
  incidents[s] # Nothing =>
    incidents[s].score <= inc.score /\ incidents[s].blast.score <= inc.blast.score

LEMMA SaveIs ==
  ASSUME IInv, NEW w \in Workers, SaveIncident(w)
  PROVE  \E s, inc :
           /\ s \in Subjects /\ s = Subject(w) /\ stage[w] = "save"
           /\ incidents' = [incidents EXCEPT ![s] = inc]
           /\ Kept(inc) /\ Replaces(s, inc)
<1>1. stage[w] = "save" /\ Hand(w) /\ Copy(w) /\ Saving(w) /\ IncidentInv
  BY DEF IInv, WorkInv, SaveIncident
<1>2. PICK f, c, b : f = read[w] /\ c = copy[w] /\ b = blast[w]
  OBVIOUS
<1>3. PICK s \in Subjects : s = Subject(w)
  <2>1. event[w] \in Events
    BY <1>1 DEF Hand
  <2> QED BY <2>1, SubjectsAlways DEF Subject, SubjectsAre
<1>4. FromEvents(c) /\ Rated(f) /\ Estimated(f, c.entities, b)
  BY <1>1, <1>2 DEF Copy, Saving
<1>5. b.score \in 0..100 /\ b.critical \in Nat
  BY <1>4 DEF Estimated, Covered
<1>6. PICK t \in BOOLEAN : t = TouchesCritical(w) /\ t = (b.critical > 0)
  <2>1. CriticalOf(f) # {} => b.critical > 0
    BY <1>4 DEF Estimated
  <2>2. TouchesCritical(w) <=> b.critical > 0
    BY <1>2, <2>1 DEF TouchesCritical, CriticalOf
  <2>3. TouchesCritical(w) \in BOOLEAN /\ (b.critical > 0) \in BOOLEAN
    BY DEF TouchesCritical
  <2> QED BY <2>2, <2>3
<1>7. PICK score : score = Assess(Findings(c.rules), b.score, t)
  OBVIOUS
<1>8. PICK inc : inc = [ rules |-> c.rules, events |-> c.events, entities |-> c.entities,
                         listed |-> f, blast |-> b, touched |-> t,
                         score |-> score, severity |-> SeverityForScore(score) ]
  OBVIOUS
<1>9. incidents' = [incidents EXCEPT ![s] = inc]
  BY <1>2, <1>3, <1>6, <1>7, <1>8 DEF SaveIncident
<1>10. /\ inc.rules = c.rules /\ inc.events = c.events /\ inc.entities = c.entities
       /\ inc.listed = f /\ inc.blast = b /\ inc.touched = t
       /\ inc.score = score /\ inc.severity = SeverityForScore(score)
  BY <1>8
<1>11. FromEvents(inc)
  BY <1>4, <1>10 DEF FromEvents
<1>12. Kept(inc)
  BY <1>4, <1>6, <1>7, <1>10, <1>11 DEF Kept
<1>13. Replaces(s, inc)
  <2>1. SUFFICES ASSUME incidents[s] # Nothing
                 PROVE  /\ incidents[s].score <= inc.score
                        /\ incidents[s].blast.score <= inc.blast.score
    BY DEF Replaces
  <2>2. PICK old : old = incidents[s]
    OBVIOUS
  <2>3. Kept(old)
    BY <1>1, <2>1, <2>2 DEF IncidentInv
  <2>4. PICK ob : ob = old.blast
    OBVIOUS
  <2>5. ob.score <= b.score /\ ob.critical <= b.critical
    BY <1>1, <1>2, <1>3, <2>1, <2>2, <2>4 DEF Saving
  <2>6. ob.score \in 0..100 /\ ob.critical \in Nat
    BY <2>3, <2>4 DEF Kept, Estimated, Covered
  <2>7. old.touched \in BOOLEAN /\ (old.touched => t)
    <3>1. PICK i \in Nat, j \in Nat : i = ob.critical /\ j = b.critical /\ i <= j
      BY <1>5, <2>5, <2>6
    <3>2. old.touched \in BOOLEAN /\ old.touched = (i > 0)
      BY <2>3, <2>4, <3>1 DEF Kept
    <3>3. t = (j > 0)
      BY <1>6, <3>1
    <3>4. i > 0 => j > 0
      BY <3>1
    <3> QED BY <3>2, <3>3, <3>4
  <2>8. PICK P, Q : P = old.rules /\ Q = c.rules
    OBVIOUS
  <2>9. P \in SUBSET DOMAIN Rules /\ P # {} /\ Q \in SUBSET DOMAIN Rules /\ P \subseteq Q
    <3>1. P \in SUBSET DOMAIN Rules /\ P # {}
      BY <2>3, <2>8 DEF Kept, FromEvents
    <3>2. Q \in SUBSET DOMAIN Rules
      BY <1>4, <2>8 DEF FromEvents
    <3>3. P \subseteq Q
      BY <1>1, <1>2, <1>3, <2>1, <2>2, <2>8 DEF Copy
    <3> QED BY <3>1, <3>2, <3>3
  <2>10. PICK x \in 0..100, y \in 0..100, r \in BOOLEAN :
           x = ob.score /\ y = b.score /\ x <= y /\ r = old.touched /\ (r => t)
    <3>1. PICK x : x = ob.score /\ x \in 0..100
      BY <2>6
    <3>2. PICK y : y = b.score /\ y \in 0..100 /\ x <= y
      BY <1>5, <2>5, <3>1
    <3>3. PICK r : r = old.touched
      OBVIOUS
    <3>4. r \in BOOLEAN
      BY <2>7, <3>3
    <3>5. r => t
      BY <2>7, <3>3
    <3> QED BY <3>1, <3>2, <3>3, <3>4, <3>5
  <2>11. Assess(Findings(P), x, r) <= Assess(Findings(Q), y, t)
    BY <2>9, <2>10, AssessGrows
  <2>12. old.score = Assess(Findings(P), x, r)
    BY <2>3, <2>4, <2>8, <2>10 DEF Kept
  <2>13. inc.score = Assess(Findings(Q), y, t)
    BY <1>7, <1>10, <2>8, <2>10
  <2> QED BY <1>10, <2>2, <2>4, <2>5, <2>11, <2>12, <2>13
<1> QED BY <1>1, <1>3, <1>9, <1>12, <1>13

LEMMA SaveKeeps ==
  ASSUME IInv, NEW w \in Workers, SaveIncident(w)
  PROVE  IInv'
<1>1. Finish(w) /\ UNCHANGED <<crit, edges, evidence, ingests, restarts>>
  BY DEF SaveIncident, graph, counts
<1>2. GraphTyped' /\ Grown /\ EvidenceInv' /\ Known' = Known
  BY <1>1, QuietStep
<1>3. PICK s, inc :
        /\ s \in Subjects /\ s = Subject(w) /\ stage[w] = "save"
        /\ incidents' = [incidents EXCEPT ![s] = inc]
        /\ Kept(inc)
  BY SaveIs
<1>4. DOMAIN incidents = Subjects /\ Subjects' = Subjects
  BY DEF IInv, ShapeInv, Subjects
<1>5. incidents'[s] = inc /\ \A r \in Subjects \ {s} : incidents'[r] = incidents[r]
  BY <1>3, <1>4
<1>6. ShapeInv'
  BY <1>1, <1>3, <1>4, FinishIs DEF ShapeInv, IInv
<1>7. OnlyOne(w)
  BY <1>1, <1>3, <1>5, FinishIs DEF OnlyOne
<1>8. WorkInv' /\ AloneInv'
  BY <1>1, <1>2, <1>7, FinishIs, OthersStay DEF WorkInv
<1>9. IncidentInv'
  <2>1. Kept(inc)'
    BY <1>2, <1>3, IncidentStays DEF IInv
  <2>2. Kept(incidents[s])'
    BY <1>5, <2>1
  <2>3. \A r \in Subjects \ {s} : incidents'[r] # Nothing => Kept(incidents[r])'
    BY <1>2, <1>5, <1>7, OthersStay
  <2> QED BY <1>4, <2>2, <2>3 DEF IncidentInv
<1> QED BY <1>2, <1>6, <1>8, <1>9 DEF IInv

-----------------------------------------------------------------------------
(* A process that starts                                                   *)

Booted ==
  /\ crit = InventoryCrit /\ edges = InventoryEdges /\ evidence = {}
  /\ stage = [w \in Workers |-> "idle"]
  /\ event = [w \in Workers |-> Nothing]
  /\ pc = [w \in Workers |-> 0]
  /\ copy = [w \in Workers |-> NoEvidence]
  /\ read = [w \in Workers |-> <<>>]
  /\ blast = [w \in Workers |-> Nothing]
  /\ incidents = [s \in Subjects |-> Nothing]
  /\ ingests \in 0..MaxIngests /\ restarts \in 0..MaxRestarts

LEMMA BootIs == Booted => IInv
<1> SUFFICES ASSUME Booted PROVE IInv
  OBVIOUS
<1>1. crit = [n \in Entities |-> IF n \in DOMAIN Assets THEN Assets[n] ELSE Nothing]
  BY DEF Booted, InventoryCrit
<1>2. crit \in [Entities -> 0..3 \union {Nothing}]
  BY <1>1, InventoryIsSound
<1>3. DOMAIN Assets \subseteq Known
  <2>1. \A n \in DOMAIN Assets : n \in Entities /\ crit[n] \in 0..3
    BY <1>1, InventoryIsSound
  <2> QED BY <2>1, GraphBounds DEF Known
<1>4. GraphTyped
  <2>1. edges \subseteq [from : DOMAIN Assets, to : DOMAIN Assets, rel : Range(Relations)]
    BY InventoryIsSound DEF Booted, InventoryEdges
  <2>2. edges \subseteq [from : Known, to : Known, rel : Range(Relations)]
    BY <1>3, <2>1
  <2>3. \A e \in edges : e.from # e.to
    BY DEF Booted, InventoryEdges
  <2> QED BY <1>2, <2>2, <2>3 DEF GraphTyped
<1>5. EvidenceInv
  <2>1. ASSUME NEW e \in edges
        PROVE  Cardinality({x \in evidence : x[1] = e}) <= MaxEdgeEvidence
    <3>1. {x \in evidence : x[1] = e} = {}
      BY DEF Booted
    <3> QED BY <3>1, FS_EmptySet, GraphBounds
  <2> QED BY <2>1, FS_EmptySet DEF EvidenceInv, Booted
<1>6. ShapeInv
  BY DEF ShapeInv, Booted
<1>7. \A w \in Workers : stage[w] = "idle" /\ event[w] = Nothing /\ pc[w] = 0 /\ read[w] = <<>>
  BY DEF Booted
<1>8. AloneInv
  BY <1>7 DEF AloneInv
<1>9. WorkInv
  BY <1>7 DEF WorkInv, Hand, Copy, Saving
<1>10. IncidentInv
  BY DEF IncidentInv, Booted
<1> QED BY <1>4, <1>5, <1>6, <1>8, <1>9, <1>10 DEF IInv

LEMMA BootIsLater == Booted' => IInv'
BY BootIs, PTL

LEMMA RestartKeeps ==
  ASSUME IInv, Restart
  PROVE  IInv'
<1>1. ingests' \in 0..MaxIngests /\ restarts' \in 0..MaxRestarts
  BY GraphBounds DEF IInv, ShapeInv, Restart
<1>2. Booted'
  BY <1>1 DEF Restart, Booted, InventoryCrit, InventoryEdges, NoEvidence, Subjects
<1> QED BY <1>2, BootIsLater

LEMMA InvInit == Init => IInv
<1>1. Init => Booted
  BY GraphBounds DEF Init, Booted
<1> QED BY <1>1, BootIs

LEMMA InvStep == IInv /\ [Next]_vars => IInv'
<1> SUFFICES ASSUME IInv, [Next]_vars PROVE IInv'
  OBVIOUS
<1>1. ASSUME NEW w \in Workers, NEW e \in Events, Ingest(w, e) PROVE IInv'
  BY <1>1, IngestKeeps
<1>2. ASSUME NEW w \in Workers, Project(w) PROVE IInv'
  BY <1>2, ProjectKeeps
<1>3. ASSUME NEW w \in Workers, NoFinding(w) PROVE IInv'
  BY <1>3, NoFindingKeeps
<1>4. ASSUME NEW w \in Workers, MergeIntoIncident(w) PROVE IInv'
  BY <1>4, MergeKeeps
<1>5. ASSUME NEW w \in Workers, ReadEntity(w) PROVE IInv'
  BY <1>5, ReadKeeps
<1>6. ASSUME NEW w \in Workers, EstimateBlastRadius(w) PROVE IInv'
  BY <1>6, EstimateKeeps
<1>7. ASSUME NEW w \in Workers, SaveIncident(w) PROVE IInv'
  BY <1>7, SaveKeeps
<1>8. CASE Restart
  BY <1>8, RestartKeeps
<1>9. CASE UNCHANGED vars
  <2>1. IInv /\ UNCHANGED vars => IInv'
    <3>1. UNCHANGED <<crit, edges, evidence, incidents, stage, event, pc, copy, read, blast,
                      ingests, restarts>>
      BY <1>9 DEF vars, graph, work, counts
    <3>2. GraphTyped' /\ Grown /\ EvidenceInv' /\ Known' = Known
      BY <3>1, QuietStep
    <3>3. ShapeInv' /\ AloneInv'
      <4>1. Subjects' = Subjects
        BY DEF Subjects
      <4> QED BY <3>1, <4>1, AloneStays DEF IInv, ShapeInv
    <3>4. WorkInv'
      <4>1. ASSUME NEW w \in Workers PROVE Hand(w)' /\ Copy(w)' /\ Saving(w)'
        <5>1. Subject(w)' = Subject(w)
          BY <3>1 DEF Subject
        <5> QED BY <3>1, <3>2, WorkStays DEF IInv, WorkInv
      <4> QED BY <4>1 DEF WorkInv
    <3>5. IncidentInv'
      <4>1. ASSUME NEW s \in Subjects, incidents[s] # Nothing PROVE Kept(incidents[s])'
        <5>1. PICK inc : inc = incidents[s]
          OBVIOUS
        <5>2. Kept(inc)'
          BY <3>2, <4>1, <5>1, IncidentStays DEF IInv, IncidentInv
        <5> QED BY <3>1, <5>1, <5>2
      <4>2. Subjects' = Subjects
        BY DEF Subjects
      <4> QED BY <3>1, <4>1, <4>2 DEF IncidentInv
    <3> QED BY <3>2, <3>3, <3>4, <3>5 DEF IInv
  <2> QED BY <1>9, <2>1
<1> QED BY <1>1, <1>2, <1>3, <1>4, <1>5, <1>6, <1>7, <1>8, <1>9 DEF Next

-----------------------------------------------------------------------------
(* The theorems                                                            *)

LEMMA InvIsTyped == IInv => TypeOK
<1> SUFFICES ASSUME IInv PROVE TypeOK
  OBVIOUS
<1>1. GraphTyped /\ EvidenceInv /\ ShapeInv /\ WorkInv /\ IncidentInv
  BY DEF IInv
<1>2. ASSUME NEW f, Rated(f) PROVE Listing(f)
  BY <1>2 DEF Rated, Listing, Range, Known
<1>3. ASSUME NEW s \in Subjects, NEW inc, inc = incidents[s], inc # Nothing
      PROVE  /\ inc.rules \subseteq DOMAIN Rules /\ inc.events \subseteq Events
             /\ Listing(inc.listed) /\ inc.touched \in BOOLEAN
             /\ inc.score \in 0..100 /\ inc.severity \in DOMAIN SeverityWeight
  <2>1. Kept(inc)
    BY <1>1, <1>3 DEF IncidentInv
  <2>2. PICK P : P \in SUBSET DOMAIN Rules /\ P # {} /\ P = inc.rules
    BY <2>1 DEF Kept, FromEvents
  <2>3. PICK x \in 0..100 : x = inc.blast.score
    BY <2>1 DEF Kept, Estimated, Covered
  <2>4. PICK r : r = inc.touched
    OBVIOUS
  <2>5. r \in BOOLEAN
    BY <2>1, <2>4 DEF Kept
  <2>6. Assess(Findings(P), x, r) \in 0..100
    <3>1. PICK Q \in SUBSET DOMAIN Rules, y \in 0..100, t \in BOOLEAN : Q = P /\ y = x /\ t = r
      BY <2>2, <2>5
    <3>2. P \subseteq Q /\ x <= y
      BY <3>1
    <3>3. r => t
      BY <3>1
    <3> QED BY <2>2, <2>5, <3>2, <3>3, AssessGrows
  <2>7. inc.score \in 0..100
    BY <2>1, <2>2, <2>3, <2>4, <2>6 DEF Kept
  <2>8. inc.severity \in {"critical", "high", "medium", "low", "informational"}
    <3>1. inc.severity = SeverityForScore(inc.score)
      BY <2>1 DEF Kept
    <3> QED BY <2>7, <3>1 DEF SeverityForScore
  <2>9. inc.severity \in DOMAIN SeverityWeight
    BY <2>8 DEF SeverityWeight
  <2> QED BY <1>2, <2>1, <2>7, <2>9 DEF Kept, FromEvents
<1>4. ASSUME NEW w \in Workers
      PROVE  /\ event[w] # Nothing => pc[w] \in 0..Len(Upserts(Telemetry[event[w]]))
             /\ Listing(read[w])
  <2>1. Hand(w) /\ Copy(w)
    BY <1>1 DEF WorkInv
  <2>2. event[w] # Nothing => pc[w] \in 0..Len(Upserts(Telemetry[event[w]]))
    BY <2>1 DEF Hand
  <2>3. CASE stage[w] \in {"idle", "project"}
    <3>1. Rated(<<>>)
      <4>1. DOMAIN <<>> = {}
        OBVIOUS
      <4> QED BY <4>1 DEF Rated
    <3> QED BY <1>2, <2>1, <2>2, <2>3, <3>1 DEF Hand
  <2>4. CASE stage[w] \notin {"idle", "project"}
    <3>1. stage[w] \in {"read", "save"}
      BY <1>1, <2>4 DEF ShapeInv
    <3> QED BY <1>2, <2>1, <2>2, <3>1 DEF Copy
  <2> QED BY <2>3, <2>4
<1>5. \A e \in edges : e.rel \in Range(Relations) /\ e.from # e.to
  BY <1>1 DEF GraphTyped
<1>6. /\ crit \in [Entities -> 0..3 \union {Nothing}]
      /\ evidence \subseteq edges \X Events
      /\ \A e \in edges : Cardinality({x \in evidence : x[1] = e}) <= MaxEdgeEvidence
      /\ stage \in [Workers -> {"idle", "project", "read", "save"}]
      /\ event \in [Workers -> Events \union {Nothing}]
      /\ ingests \in 0..MaxIngests /\ restarts \in 0..MaxRestarts
  BY <1>1 DEF GraphTyped, EvidenceInv, ShapeInv
<1> QED BY <1>3, <1>4, <1>5, <1>6 DEF TypeOK

LEMMA InvKeepsUp == IInv => IncidentKeepsUp
<1> SUFFICES ASSUME IInv, NEW s \in Subjects, NEW inc, inc = incidents[s], inc # Nothing
             PROVE  /\ DOMAIN inc.listed = UNION {EntityIds(Telemetry[e]) : e \in inc.events}
                    /\ DOMAIN inc.listed \subseteq Known
                    /\ DOMAIN inc.listed \subseteq inc.blast.stops
                    /\ \A n \in DOMAIN inc.listed : inc.listed[n] <= crit[n]
                    /\ Cardinality({n \in DOMAIN inc.listed : inc.listed[n] = Critical})
                         <= inc.blast.critical
  BY DEF IncidentKeepsUp
<1>1. Kept(inc)
  BY DEF IInv, IncidentInv
<1> QED BY <1>1 DEF Kept, FromEvents, Estimated, Rated, CriticalOf

LEMMA Invariance == Spec => []IInv
BY InvInit, InvStep, PTL DEF Spec

(* The graph, the requests and the incidents keep their types: no edge     *)
(* gathers more evidence than its share, a score stays within 0..100       *)
(* (Graph.UpsertEdge, risk.Assess).                                        *)
THEOREM GraphTypeCorrect == Spec => []TypeOK
BY Invariance, InvIsTyped, PTL

(* However requests interleave, a walk lists what is within MaxHops, once, *)
(* at its true distance and along an edge that leads there                 *)
(* (Graph.EstimateBlastRadius).                                            *)
THEOREM WalksAreTrue == Spec => []WalkIsTheGraph
<1>1. IInv => WalkIsTheGraph
  BY TypedGraphIsWalked DEF IInv
<1> QED BY <1>1, Invariance, PTL

(* What an open incident lists and counts keeps up with its evidence and   *)
(* is in the graph (Engine.recompute).                                     *)
THEOREM IncidentsKeepUp == Spec => []IncidentKeepsUp
BY Invariance, InvKeepsUp, PTL

(* An incident's score and blast radius never fall while it stays open     *)
(* (Engine.recompute, Store.SaveIncident, risk.Assess).                    *)
THEOREM ScoresNeverFall == Spec => ScoreNeverFalls
<1> DEFINE Falls(s) ==
      /\ incidents'[s].score >= incidents[s].score
      /\ incidents'[s].blast.score >= incidents[s].blast.score
<1>1. ASSUME IInv, [Next]_vars, NEW s \in Subjects,
             incidents[s] # Nothing, incidents'[s] # Nothing
      PROVE  Falls(s)
  <2>1. Kept(incidents[s])
    BY <1>1 DEF IInv, IncidentInv
  <2>2. incidents[s].score \in 0..100 /\ incidents[s].blast.score \in 0..100
    <3>1. PICK inc : inc = incidents[s]
      OBVIOUS
    <3>2. inc.score \in 0..100
      BY <1>1, <3>1, InvIsTyped DEF TypeOK
    <3>3. inc.blast.score \in 0..100
      BY <2>1, <3>1 DEF Kept, Estimated, Covered
    <3> QED BY <3>1, <3>2, <3>3
  <2>3. CASE incidents'[s] = incidents[s]
    BY <2>2, <2>3
  <2>4. CASE incidents'[s] # incidents[s]
    <3>1. ~Restart
      BY <1>1 DEF Restart
    <3>2. PICK w \in Workers : SaveIncident(w)
      BY <1>1, <2>4, <3>1 DEF Next, Ingest, Project, NoFinding, MergeIntoIncident, ReadEntity,
        EstimateBlastRadius, vars
    <3>3. PICK r, inc : /\ r \in Subjects /\ incidents' = [incidents EXCEPT ![r] = inc]
                        /\ Kept(inc) /\ Replaces(r, inc)
      BY <1>1, <3>2, SaveIs
    <3>4. r = s /\ incidents'[s] = inc
      BY <1>1, <2>4, <3>3 DEF IInv, ShapeInv
    <3>5. incidents[s].score <= inc.score /\ incidents[s].blast.score <= inc.blast.score
      BY <1>1, <3>3, <3>4 DEF Replaces
    <3> QED BY <3>4, <3>5
  <2> QED BY <2>3, <2>4
<1>2. IInv /\ [Next]_vars =>
        [\A s \in Subjects : incidents[s] # Nothing /\ incidents'[s] # Nothing => Falls(s)]_vars
  BY <1>1
<1> QED BY <1>2, Invariance, PTL DEF Spec, ScoreNeverFalls
=============================================================================
