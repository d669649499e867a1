------------------------- MODULE DeclarationsProofs -------------------------
(***************************************************************************)
(* The lists of symbols, the type names and the checks of statements, for  *)
(* programs of any length over any names and types.                        *)
(***************************************************************************)
EXTENDS Declarations, FiniteSetTheorems, WellFoundedInduction, TLAPS

-----------------------------------------------------------------------------
(* Numbers.                                                                 *)

(* The smallest of a set of natural numbers.                                *)
LEMMA MinFacts ==
    ASSUME NEW S, S \subseteq Nat, S # {}
    PROVE  Min(S) \in S /\ \A x \in S : Min(S) <= x
<1> DEFINE R == OpToRel(<, Nat)
<1>1. \E x \in S : \A y \in S : ~ (<<y, x>> \in R)
  BY NatLessThanWellFounded, WFMin
<1>2. \A x, y \in Nat : y < x => <<y, x>> \in R
  BY DEF OpToRel
<1> HIDE DEF R
<1>3. PICK x \in S : \A y \in S : ~ (<<y, x>> \in R)
  BY <1>1
<1>4. ASSUME NEW y \in S
      PROVE  x <= y
  <2>1. x \in Nat /\ y \in Nat
    OBVIOUS
  <2>2. ~ (y < x)
    BY <1>2, <1>3, <2>1, Zenon
  <2> QED BY <2>1, <2>2
<1> QED BY <1>4 DEF Min

(* Induction up to a bound, for a set of numbers.                           *)
LEMMA UpTo ==
    ASSUME NEW N \in Nat, NEW T, 0 \in T, \A n \in 1 .. N : n - 1 \in T => n \in T
    PROVE  \A n \in 0 .. N : n \in T
<1> DEFINE Bad == {n \in 0 .. N : n \notin T}
<1>1. SUFFICES ASSUME Bad # {} PROVE FALSE
  OBVIOUS
<1>2. Bad \subseteq Nat
  OBVIOUS
<1>3. PICK m \in Bad : \A x \in Bad : m <= x
  BY <1>1, <1>2, MinFacts
<1>4. m \in 1 .. N /\ m - 1 \in 0 .. N /\ m - 1 \notin Bad
  BY <1>3
<1> QED BY <1>4

(* A recursive definition over 0 .. N has a solution.                       *)
Solves(f, N, a, G) == f[0] = a /\ \A n \in 1 .. N : f[n] = G[n][f[n - 1]]

(* A recursion with a step function of its own for every index has a solution. *)
LEMMA RecursionExists ==
    ASSUME NEW N \in Nat, NEW A, NEW a \in A, NEW G \in [1 .. N -> [A -> A]]
    PROVE  \E f \in [0 .. N -> A] : Solves(f, N, a, G)
<1> DEFINE T == {m \in 0 .. N :
                    \E f \in [0 .. m -> A] : f[0] = a /\ \A n \in 1 .. m : f[n] = G[n][f[n - 1]]}
<1>1. 0 \in T
  <2> DEFINE g == [m \in 0 .. 0 |-> a]
  <2>1. g \in [0 .. 0 -> A] /\ g[0] = a
    OBVIOUS
  <2> HIDE DEF g
  <2>2. \A n \in 1 .. 0 : g[n] = G[n][g[n - 1]]
    OBVIOUS
  <2>3. 0 \in 0 .. N
    OBVIOUS
  <2> QED BY <2>1, <2>2, <2>3
<1>2. ASSUME NEW m \in 1 .. N, m - 1 \in T
      PROVE  m \in T
  <2>1. PICK f \in [0 .. m - 1 -> A] :
            f[0] = a /\ \A n \in 1 .. m - 1 : f[n] = G[n][f[n - 1]]
    BY <1>2
  <2> DEFINE g == [n \in 0 .. m |-> IF n = m THEN G[m][f[m - 1]] ELSE f[n]]
  <2>2. g \in [0 .. m -> A]
    OBVIOUS
  <2>3. g[0] = a
    BY <2>1
  <2>4. ASSUME NEW n \in 1 .. m
        PROVE  g[n] = G[n][g[n - 1]]
    <3>1. CASE n = m
      BY <3>1
    <3>2. CASE n # m
      <4>1. n \in 1 .. m - 1 /\ n - 1 \in 0 .. m - 1
        BY <3>2
      <4>2. g[n] = f[n] /\ g[n - 1] = f[n - 1]
        BY <4>1
      <4> QED BY <2>1, <4>1, <4>2
    <3> QED BY <3>1, <3>2
  <2> HIDE DEF g
  <2> QED BY <2>2, <2>3, <2>4
<1> HIDE DEF T
<1>3. \A n \in 0 .. N : n \in T
  BY <1>1, <1>2, UpTo
<1>4. N \in T
  BY <1>3
<1> QED BY <1>4 DEF T, Solves

-----------------------------------------------------------------------------
(* Walks along next.                                                        *)

(* Every pointer leads to a symbol of the heap, or is NULL.                  *)
Pointers(h) ==
    /\ Len(h) \in Nat /\ DOMAIN h = 1 .. Len(h)
    /\ \A x \in DOMAIN h : h[x].next \in 0 .. Len(h)

\* The symbols met by following next from s.
IsWalk(h, s, w) ==
    /\ w \in [0 .. Len(h) -> 0 .. Len(h)]
    /\ w[0] = s
    /\ \A n \in 1 .. Len(h) : w[n] = IF w[n - 1] = NULL THEN NULL ELSE h[w[n - 1]].next

(* Walk(h, s) follows next from s, as its recursion says. *)
LEMMA WalkFacts ==
    ASSUME NEW h, Pointers(h), NEW s \in 0 .. Len(h)
    PROVE  IsWalk(h, s, Walk(h, s))
<1> DEFINE N == Len(h)
           P(at) == at = [n \in 0 .. Len(h) |->
                            IF n = 0 THEN s
                            ELSE IF at[n - 1] = NULL THEN NULL ELSE h[at[n - 1]].next]
           G == [n \in 1 .. N |-> [x \in 0 .. N |-> IF x = NULL THEN NULL ELSE h[x].next]]
<1>1. N \in Nat /\ \A x \in 1 .. N : h[x].next \in 0 .. N
  BY DEF Pointers
<1>2. \A x \in 0 .. N : (IF x = NULL THEN NULL ELSE h[x].next) \in 0 .. N
  BY <1>1 DEF NULL
<1>3. G \in [1 .. N -> [0 .. N -> 0 .. N]]
  BY <1>2
<1>4. \A n \in 1 .. N, x \in 0 .. N : G[n][x] = IF x = NULL THEN NULL ELSE h[x].next
  OBVIOUS
<1> HIDE DEF N, G
<1>s. s \in 0 .. N
  BY DEF N
<1>e. \E f \in [0 .. N -> 0 .. N] : Solves(f, N, s, G)
  <2>1. N \in Nat
    BY <1>1
  <2> QED BY <1>3, <1>s, <2>1, RecursionExists, Zenon
<1>5. PICK f \in [0 .. N -> 0 .. N] : f[0] = s /\ \A n \in 1 .. N : f[n] = G[n][f[n - 1]]
  BY <1>e DEF Solves
<1>6. ASSUME NEW n \in 1 .. N
      PROVE  f[n] = IF f[n - 1] = NULL THEN NULL ELSE h[f[n - 1]].next
  <2>0. n - 1 \in 0 .. N
    BY <1>1
  <2>1. f[n - 1] \in 0 .. N
    BY <2>0
  <2> QED BY <1>4, <1>5, <2>1
<1>7. P(f)
  <2>1. ASSUME NEW n \in 0 .. N
        PROVE  f[n] = IF n = 0 THEN s
                      ELSE IF f[n - 1] = NULL THEN NULL ELSE h[f[n - 1]].next
    <3>1. n = 0 \/ (n \in 1 .. N /\ n # 0)
      BY <1>1
    <3> QED BY <1>5, <1>6, <3>1
  <2>2. f = [n \in 0 .. N |-> f[n]]
    BY <1>5
  <2> QED BY <2>1, <2>2 DEF N
<1>8. Walk(h, s) = CHOOSE at : P(at)
  BY DEF Walk
<1>9. P(Walk(h, s))
  <2> HIDE DEF P
  <2> QED BY <1>7, <1>8, Zenon
<1> DEFINE w == Walk(h, s)
<1> HIDE DEF w
<1>a. P(w)
  <2> HIDE DEF P
  <2> QED BY <1>9 DEF w
<1>10. /\ w[0] = s
       /\ \A n \in 1 .. N : w[n] = IF w[n - 1] = NULL THEN NULL ELSE h[w[n - 1]].next
       /\ DOMAIN w = 0 .. N /\ w = [n \in 0 .. N |-> w[n]]
  <2>1. w = [n \in 0 .. N |-> IF n = 0 THEN s
                              ELSE IF w[n - 1] = NULL THEN NULL ELSE h[w[n - 1]].next]
    BY <1>a DEF N
  <2>2. DOMAIN w = 0 .. N /\ w = [n \in 0 .. N |-> w[n]]
    BY <2>1
  <2>3. 0 \in 0 .. N /\ \A n \in 1 .. N : n \in 0 .. N /\ n # 0
    BY <1>1
  <2>4. \A n \in 0 .. N : w[n] = IF n = 0 THEN s
                                ELSE IF w[n - 1] = NULL THEN NULL ELSE h[w[n - 1]].next
    BY <2>1
  <2> QED BY <2>2, <2>3, <2>4
<1> DEFINE T == {n \in 0 .. N : w[n] \in 0 .. N}
<1>11. 0 \in T
  BY <1>1, <1>10 DEF N
<1>12. ASSUME NEW n \in 1 .. N, n - 1 \in T
       PROVE  n \in T
  <2>1. w[n] = IF w[n - 1] = NULL THEN NULL ELSE h[w[n - 1]].next
    BY <1>10
  <2>2. w[n] \in 0 .. N
    BY <1>2, <1>12, <2>1
  <2> QED BY <1>1, <2>2
<1>13. \A n \in 0 .. N : n \in T
  <2> HIDE DEF T
  <2> QED BY <1>1, <1>11, <1>12, UpTo
<1>14. w \in [0 .. N -> 0 .. N]
  BY <1>10, <1>13
<1> QED BY <1>10, <1>14 DEF IsWalk, w, N

(* A list of symbols that are linked by next and ends.                       *)
IsChain(h, c) ==
    /\ c \in Seq(DOMAIN h)
    /\ \A i \in DOMAIN c : h[c[i]].next = IF i = Len(c) THEN NULL ELSE c[i + 1]

(* The list of a symbol is the walk from it, up to NULL.                     *)
LEMMA ChainFacts ==
    ASSUME NEW h, Pointers(h), NEW s \in 0 .. Len(h), ~ Endless(h, s)
    PROVE  /\ IsChain(h, Chain(h, s))
           /\ s = NULL => Chain(h, s) = << >>
           /\ s # NULL => Chain(h, s) # << >> /\ Chain(h, s)[1] = s
<1> DEFINE N == Len(h)
           w == Walk(h, s)
           Z == {n \in 0 .. N : w[n] = NULL}
           m == Min(Z)
           c == Chain(h, s)
<1>1. IsWalk(h, s, w)
  BY WalkFacts
<1>2. c = [i \in 1 .. m |-> w[i - 1]]
  BY DEF Chain
<1>3. N \in Nat
  BY DEF Pointers
<1>4. m \in 0 .. N /\ w[m] = NULL /\ \A n \in 0 .. N : w[n] = NULL => m <= n
  <2>1. Z \subseteq Nat
    OBVIOUS
  <2>2. N \in Z
    BY <1>3 DEF Endless
  <2>3. Min(Z) \in Z /\ \A x \in Z : Min(Z) <= x
    <3> HIDE DEF Z
    <3> QED BY <2>1, <2>2, MinFacts
  <2> QED BY <2>3
<1> HIDE DEF N, w, m, c
<1>5. \A i \in 0 .. m - 1 : w[i] \in 1 .. N
  BY <1>1, <1>3, <1>4 DEF IsWalk, N, NULL
<1>6. Len(c) = m /\ c \in Seq(1 .. N)
  BY <1>2, <1>3, <1>4, <1>5
<1>7. \A i \in 1 .. m : h[c[i]].next = w[i]
  BY <1>1, <1>2, <1>3, <1>4, <1>5 DEF IsWalk, N, NULL
<1>8. ASSUME NEW i \in 1 .. m
      PROVE  h[c[i]].next = IF i = m THEN NULL ELSE c[i + 1]
  BY <1>2, <1>3, <1>4, <1>7
<1>9. IsChain(h, c)
  BY <1>6, <1>8 DEF IsChain, Pointers, N
<1>10. s = NULL => c = << >>
  <2>1. s = NULL => m = 0
    BY <1>1, <1>3, <1>4 DEF IsWalk, N
  <2> QED BY <1>2, <2>1
<1>11. s # NULL => c # << >> /\ c[1] = s
  <2>1. w[0] = s
    BY <1>1 DEF IsWalk
  <2>2. s # NULL => m \in 1 .. N
    BY <1>3, <1>4, <2>1
  <2> QED BY <1>2, <1>6, <2>1, <2>2
<1> QED BY <1>9, <1>10, <1>11 DEF c

(* A chain that repeats no symbol is found by the walk from its first one.   *)
LEMMA ChainIs ==
    ASSUME NEW h, Pointers(h), NEW c, IsChain(h, c), IsInjective(c),
           NEW s, s = IF c = << >> THEN NULL ELSE c[1]
    PROVE  ~ Endless(h, s) /\ Chain(h, s) = c
<1> DEFINE N == Len(h)
           k == Len(c)
           w == Walk(h, s)
           Z == {n \in 0 .. N : w[n] = NULL}
<1>1. N \in Nat /\ DOMAIN h = 1 .. N
  BY DEF Pointers
<1>2. k \in Nat /\ DOMAIN c = 1 .. k /\ \A i \in 1 .. k : c[i] \in 1 .. N
  BY <1>1 DEF IsChain
<1>3. k <= N
  <2>0. c \in [1 .. k -> 1 .. N]
    BY <1>1 DEF IsChain
  <2>1. c \in Injection(1 .. k, 1 .. N)
    BY <2>0 DEF Injection, IsInjective
  <2>2. IsFiniteSet(1 .. N) /\ Cardinality(1 .. k) = k /\ Cardinality(1 .. N) = N
    <3> HIDE DEF N, k
    <3>1. IsFiniteSet(1 .. N) /\ Cardinality(1 .. N) = IF 1 > N THEN 0 ELSE N - 1 + 1
      BY <1>1, FS_Interval
    <3>2. Cardinality(1 .. k) = IF 1 > k THEN 0 ELSE k - 1 + 1
      BY <1>2, FS_Interval
    <3> QED BY <1>1, <1>2, <3>1, <3>2
  <2>3. Cardinality(1 .. k) <= Cardinality(1 .. N)
    BY <2>1, <2>2, FS_Injection
  <2> QED BY <2>2, <2>3
<1>4. s \in 0 .. N
  <2>1. CASE k = 0
    BY <1>1, <1>2, <2>1 DEF NULL, IsChain
  <2>2. CASE k # 0
    BY <1>1, <1>2, <2>2 DEF IsChain
  <2> QED BY <2>1, <2>2
<1>5. IsWalk(h, s, w)
  BY <1>4, WalkFacts
<1> HIDE DEF N, k, w
<1>6. w[0] = IF k = 0 THEN NULL ELSE c[1]
  <2>1. w[0] = s
    BY <1>5 DEF IsWalk
  <2>2. c = << >> <=> k = 0
    BY DEF k, IsChain
  <2> QED BY <2>1, <2>2
<1>7. \A i \in 1 .. k : h[c[i]].next = IF i = k THEN NULL ELSE c[i + 1]
  BY <1>2 DEF IsChain, k
<1>8. \A n \in 1 .. N : w[n] = IF w[n - 1] = NULL THEN NULL ELSE h[w[n - 1]].next
  BY <1>5 DEF IsWalk, N
<1> DEFINE At(n) == w[n] = IF n < k THEN c[n + 1] ELSE NULL
           T == {n \in 0 .. N : At(n)}
<1>9. At(0)
  BY <1>2, <1>6
<1>10. ASSUME NEW n \in 1 .. N, At(n - 1)
       PROVE  At(n)
  <2>1. CASE n - 1 < k
    <3>1. n \in 1 .. k /\ (n - 1) + 1 = n
      BY <1>1, <1>2, <2>1
    <3>2. w[n - 1] = c[n] /\ c[n] # NULL
      BY <1>2, <1>10, <2>1, <3>1 DEF NULL
    <3>3. w[n] = h[c[n]].next
      BY <1>8, <3>2
    <3> QED BY <1>2, <1>7, <3>1, <3>3
  <2>2. CASE ~ (n - 1 < k)
    <3>1. w[n - 1] = NULL /\ ~ (n < k)
      BY <1>2, <1>10, <2>2
    <3> QED BY <1>8, <3>1
  <2> QED BY <2>1, <2>2
<1>11. \A n \in 0 .. N : n \in T
  <2>1. 0 \in T
    BY <1>1, <1>9
  <2>2. \A n \in 1 .. N : n - 1 \in T => n \in T
    BY <1>1, <1>10
  <2> HIDE DEF T
  <2> QED BY <1>1, <2>1, <2>2, UpTo
<1>12. \A n \in 0 .. N : w[n] = IF n < k THEN c[n + 1] ELSE NULL
  BY <1>11
<1>13. w[N] = NULL
  BY <1>1, <1>2, <1>3, <1>12
<1>14. Min(Z) = k
  <2>1. k \in Z
    BY <1>1, <1>2, <1>3, <1>12
  <2>2. \A n \in Z : k <= n
    BY <1>1, <1>2, <1>12 DEF NULL
  <2>3. Z \subseteq Nat
    BY <1>1
  <2> HIDE DEF Z
  <2>4. Min(Z) \in Z /\ Min(Z) <= k
    BY <2>1, <2>3, MinFacts
  <2>5. k <= Min(Z) /\ Min(Z) \in Nat
    BY <2>2, <2>3, <2>4
  <2> HIDE DEF k
  <2> QED BY <1>2, <2>4, <2>5
<1>15. Chain(h, s) = [i \in 1 .. k |-> w[i - 1]]
  BY <1>14 DEF Chain, N, w
<1>16. c = [i \in 1 .. k |-> c[i]]
  BY <1>2 DEF IsChain
<1>17. \A i \in 1 .. k : w[i - 1] = c[i]
  BY <1>1, <1>2, <1>3, <1>12
<1> QED BY <1>13, <1>15, <1>16, <1>17 DEF Endless, N, w

(* Links that lead to symbols of lower rank do not go in a circle.           *)
IsRank(h, r) == \A x \in DOMAIN h : h[x].next # NULL => r[h[x].next] < r[x]
\* Numbers can be given to the symbols that fall along next: there is no circle.
Ranked(h) == \E r \in [DOMAIN h -> Nat] : IsRank(h, r)

(* With ranks that fall along next, no walk is without end. *)
LEMMA RankedEnds ==
    ASSUME NEW h, Pointers(h), Ranked(h), NEW s \in 0 .. Len(h)
    PROVE  ~ Endless(h, s)
<1> DEFINE N == Len(h)
           w == Walk(h, s)
<1>1. SUFFICES ASSUME w[N] # NULL PROVE FALSE
  BY DEF Endless
<1>2. IsWalk(h, s, w)
  BY WalkFacts
<1>3. PICK r \in [1 .. N -> Nat] : IsRank(h, r)
  BY DEF Ranked, Pointers
<1>4. N \in Nat /\ DOMAIN h = 1 .. N
  BY DEF Pointers
<1> HIDE DEF N, w
<1>5. /\ w \in [0 .. N -> 0 .. N]
      /\ \A n \in 1 .. N : w[n] = IF w[n - 1] = NULL THEN NULL ELSE h[w[n - 1]].next
  BY <1>2 DEF IsWalk, N
<1> DEFINE T == {n \in 0 .. N : w[N - n] # NULL}
<1>6. \A n \in 0 .. N : n \in T
  <2>1. 0 \in T
    BY <1>1, <1>4
  <2>2. ASSUME NEW n \in 1 .. N, n - 1 \in T
        PROVE  n \in T
    <3>1. N - (n - 1) \in 1 .. N /\ (N - (n - 1)) - 1 = N - n
      BY <1>4
    <3>2. w[N - (n - 1)] = IF w[N - n] = NULL THEN NULL ELSE h[w[N - n]].next
      BY <1>5, <3>1
    <3> QED BY <2>2, <3>2
  <2> HIDE DEF T
  <2> QED BY <1>4, <2>1, <2>2, UpTo
<1>7. ASSUME NEW n \in 0 .. N
      PROVE  w[n] \in 1 .. N
  <2>1. N - n \in 0 .. N /\ N - (N - n) = n
    BY <1>4
  <2>2. w[n] # NULL
    BY <1>6, <2>1
  <2> QED BY <1>4, <1>5, <2>2 DEF NULL
<1>8. ASSUME NEW n \in 1 .. N
      PROVE  r[w[n]] < r[w[n - 1]]
  <2>1. n - 1 \in 0 .. N /\ n \in 0 .. N
    BY <1>4
  <2>2. w[n - 1] \in 1 .. N /\ w[n] \in 1 .. N /\ w[n - 1] # NULL /\ w[n] # NULL
    BY <1>7, <2>1 DEF NULL
  <2>3. w[n] = h[w[n - 1]].next
    BY <1>5, <2>2
  <2> QED BY <1>3, <1>4, <2>2, <2>3 DEF IsRank
<1>9. \A n \in 0 .. N : r[w[n]] \in Nat
  BY <1>3, <1>7
<1> DEFINE Below == {n \in 0 .. N : \A m \in 0 .. N : m < n => r[w[n]] < r[w[m]]}
<1>10. \A n \in 0 .. N : n \in Below
  <2>1. 0 \in Below
    BY <1>4
  <2>2. ASSUME NEW n \in 1 .. N, n - 1 \in Below
        PROVE  n \in Below
    <3>1. n - 1 \in 0 .. N /\ n \in 0 .. N
      BY <1>4
    <3>2. ASSUME NEW m \in 0 .. N, m < n
          PROVE  r[w[n]] < r[w[m]]
      <4>1. r[w[n]] < r[w[n - 1]]
        BY <1>8
      <4>2. m = n - 1 \/ m < n - 1
        BY <1>4, <3>2
      <4>3. m < n - 1 => r[w[n - 1]] < r[w[m]]
        BY <2>2
      <4>4. r[w[n]] \in Nat /\ r[w[n - 1]] \in Nat /\ r[w[m]] \in Nat
        BY <1>9, <3>1
      <4> QED BY <4>1, <4>2, <4>3, <4>4
    <3> QED BY <3>1, <3>2
  <2> HIDE DEF Below
  <2> QED BY <1>4, <2>1, <2>2, UpTo
<1>11. ASSUME NEW m \in 0 .. N, NEW n \in 0 .. N, w[m] = w[n]
       PROVE  m = n
  <2>1. m < n => r[w[n]] < r[w[m]]
    BY <1>10
  <2>2. n < m => r[w[m]] < r[w[n]]
    BY <1>10
  <2>3. ~ (r[w[n]] < r[w[m]]) /\ ~ (r[w[m]] < r[w[n]])
    BY <1>9, <1>11
  <2> QED BY <1>4, <2>1, <2>2, <2>3
<1>12. w \in [0 .. N -> 1 .. N]
  BY <1>5, <1>7
<1>13. /\ IsFiniteSet(0 .. N) /\ IsFiniteSet(1 .. N)
       /\ Cardinality(0 .. N) = N + 1 /\ Cardinality(1 .. N) = N
  <2>1. IsFiniteSet(1 .. N) /\ Cardinality(1 .. N) = IF 1 > N THEN 0 ELSE N - 1 + 1
    BY <1>4, FS_Interval
  <2>2. IsFiniteSet(0 .. N) /\ Cardinality(0 .. N) = IF 0 > N THEN 0 ELSE N - 0 + 1
    <3>1. 0 \in Int /\ N \in Int
      BY <1>4
    <3> QED BY ONLY <3>1, FS_Interval, Zenon
  <2> QED BY <1>4, <2>1, <2>2
<1>14. Cardinality(1 .. N) < Cardinality(0 .. N)
  BY <1>4, <1>13
<1>15. \E m, n \in 0 .. N : m # n /\ w[m] = w[n]
  BY <1>12, <1>13, <1>14, FS_PigeonHole
<1> QED BY <1>11, <1>15

(* The place of a symbol in a list.                                          *)
Place(c, x) == CHOOSE i \in DOMAIN c : c[i] = x

(* Links along a list without repetitions, and others that were ranked       *)
(* before, are ranked.                                                       *)
LEMMA RankedLinked ==
    ASSUME NEW h, Pointers(h), Ranked(h), NEW g, Pointers(g), DOMAIN g = DOMAIN h,
           NEW c, IsChain(g, c), IsInjective(c),
           \A x \in DOMAIN h \ Range(c) : g[x].next = h[x].next
    PROVE  Ranked(g)
<1> DEFINE k == Len(c)
           pos(x) == Place(c, x)
<1>1. /\ k \in Nat /\ DOMAIN c = 1 .. k
      /\ \A i \in 1 .. k : c[i] \in DOMAIN h
      /\ \A i \in 1 .. k : g[c[i]].next = IF i = k THEN NULL ELSE c[i + 1]
  BY DEF IsChain
<1>2. PICK r \in [DOMAIN h -> Nat] : IsRank(h, r)
  BY DEF Ranked
<1>3. \A x : x \in Range(c) <=> \E i \in 1 .. k : c[i] = x
  BY <1>1 DEF Range
<1>4. \A x \in Range(c) : pos(x) \in 1 .. k /\ c[pos(x)] = x
  BY <1>1, <1>3 DEF Place
<1>5. ASSUME NEW i \in 1 .. k
      PROVE  c[i] \in Range(c) /\ pos(c[i]) = i
  <2>1. c[i] \in Range(c)
    BY <1>3
  <2>2. pos(c[i]) \in 1 .. k /\ c[pos(c[i])] = c[i]
    BY <1>4, <2>1
  <2> HIDE DEF k
  <2> QED BY <1>1, <2>1, <2>2 DEF IsInjective
<1> HIDE DEF k
<1> DEFINE q == [x \in DOMAIN g |-> IF x \in Range(c) THEN k - pos(x) ELSE r[x] + k + 1]
<1>6. q \in [DOMAIN g -> Nat]
  <2>1. \A x \in Range(c) : k - pos(x) \in Nat
    BY <1>1, <1>4
  <2>2. \A x \in DOMAIN g : r[x] + k + 1 \in Nat
    BY <1>1, <1>2
  <2> QED BY <2>1, <2>2
<1>7. ASSUME NEW x \in DOMAIN g, g[x].next # NULL
      PROVE  q[g[x].next] < q[x]
  <2> DEFINE y == g[x].next
  <2> SUFFICES q[y] < q[x]
    OBVIOUS
  <2>0. y \in DOMAIN g
    BY <1>7 DEF Pointers, NULL
  <2>1. CASE x \in Range(c)
    <3>1. PICK i \in 1 .. k : c[i] = x
      BY <1>3, <2>1
    <3>2. i # k /\ y = c[i + 1] /\ i + 1 \in 1 .. k
      BY <1>1, <1>7, <3>1
    <3>3. pos(x) = i /\ y \in Range(c) /\ pos(y) = i + 1
      BY <1>5, <3>1, <3>2
    <3>4. q[x] = k - i /\ q[y] = k - (i + 1)
      BY <2>0, <2>1, <3>3
    <3> QED BY <1>1, <3>4
  <2>2. CASE x \notin Range(c)
    <3>1. y = h[x].next
      BY <2>2
    <3>2. r[y] < r[x] /\ r[y] \in Nat /\ r[x] \in Nat
      BY <1>2, <1>7, <2>0, <3>1 DEF IsRank
    <3>3. q[x] = r[x] + k + 1
      BY <2>2
    <3>4. CASE y \in Range(c)
      <4>1. q[y] = k - pos(y) /\ pos(y) \in 1 .. k
        BY <1>4, <2>0, <3>4
      <4> HIDE DEF q
      <4> QED BY <1>1, <3>2, <3>3, <4>1
    <3>5. CASE y \notin Range(c)
      <4>1. q[y] = r[y] + k + 1
        BY <2>0, <3>5
      <4> HIDE DEF q
      <4> QED BY <1>1, <3>2, <3>3, <4>1
    <3> QED BY <3>4, <3>5
  <2> QED BY <2>1, <2>2
<1> HIDE DEF q
<1>8. IsRank(g, q)
  BY <1>7 DEF IsRank
<1> QED BY <1>6, <1>8 DEF Ranked

(* New symbols without a link do no harm.                                    *)
LEMMA RankedExtended ==
    ASSUME NEW h, Pointers(h), Ranked(h), NEW g, Pointers(g), Len(h) <= Len(g),
           \A x \in DOMAIN h : g[x].next = h[x].next,
           \A x \in DOMAIN g \ DOMAIN h : g[x].next = NULL
    PROVE  Ranked(g)
<1>1. PICK r \in [DOMAIN h -> Nat] : IsRank(h, r)
  BY DEF Ranked
<1> DEFINE q == [x \in DOMAIN g |-> IF x \in DOMAIN h THEN r[x] ELSE 0]
<1>2. q \in [DOMAIN g -> Nat]
  BY <1>1
<1>3. ASSUME NEW x \in DOMAIN g, g[x].next # NULL
      PROVE  q[g[x].next] < q[x]
  <2>1. x \in DOMAIN h /\ g[x].next = h[x].next
    BY <1>3
  <2>2. h[x].next \in DOMAIN h /\ h[x].next \in DOMAIN g
    BY <1>3, <2>1 DEF Pointers, NULL
  <2>3. r[h[x].next] < r[x]
    BY <1>1, <1>3, <2>1 DEF IsRank
  <2> QED BY <2>1, <2>2, <2>3
<1> HIDE DEF q
<1>4. IsRank(g, q)
  BY <1>3 DEF IsRank
<1> QED BY <1>2, <1>4 DEF Ranked

(* A symbol that no link leads to can be linked to any other one.            *)
LEMMA RankedHead ==
    ASSUME NEW h, Pointers(h), Ranked(h), NEW g, Pointers(g), DOMAIN g = DOMAIN h,
           NEW s \in DOMAIN h,
           \A x \in DOMAIN h : x # s => g[x].next = h[x].next,
           \A x \in DOMAIN g : g[x].next # s
    PROVE  Ranked(g)
<1>1. PICK r \in [DOMAIN h -> Nat] : IsRank(h, r)
  BY DEF Ranked
<1> DEFINE y == g[s].next
           q == [x \in DOMAIN g |-> IF x = s THEN IF y = NULL THEN 0 ELSE r[y] + 1 ELSE r[x]]
<1>2. \A x \in DOMAIN g : g[x].next # NULL => g[x].next \in DOMAIN h
  BY DEF Pointers, NULL
<1>3. q \in [DOMAIN g -> Nat]
  BY <1>1, <1>2
<1>4. ASSUME NEW x \in DOMAIN g, g[x].next # NULL
      PROVE  q[g[x].next] < q[x]
  <2> DEFINE z == g[x].next
  <2> SUFFICES q[z] < q[x]
    OBVIOUS
  <2>1. z # s /\ z \in DOMAIN g /\ q[z] = r[z] /\ r[z] \in Nat
    BY <1>1, <1>2, <1>4
  <2>2. CASE x = s
    <3>1. q[x] = r[z] + 1
      BY <1>4, <2>2
    <3> HIDE DEF q, z
    <3> QED BY <2>1, <3>1
  <2>3. CASE x # s
    <3>1. z = h[x].next /\ q[x] = r[x]
      BY <2>3
    <3>2. r[z] < r[x]
      BY <1>1, <1>4, <3>1 DEF IsRank
    <3> HIDE DEF q, z
    <3> QED BY <2>1, <3>1, <3>2
  <2> QED BY <2>2, <2>3
<1> HIDE DEF q
<1>5. IsRank(g, q)
  BY <1>4 DEF IsRank
<1> QED BY <1>3, <1>5 DEF Ranked

-----------------------------------------------------------------------------
(* Symbols and what the lists change in them.                                *)

\* Sequences of symbols whose links stay inside of them.
Heaps == {h \in Seq(SymbolRec) : \A x \in DOMAIN h : h[x].next \in 0 .. Len(h)}

\* Two symbols that differ in their link at most.
SameButNext(r, q) ==
    /\ q.name = r.name /\ q.type = r.type /\ q.kind = r.kind
    /\ q.n_param = r.n_param /\ q.type_ptr = r.type_ptr /\ q.place = r.place
    /\ q.decl = r.decl /\ q.arity = r.arity /\ q.marks = r.marks

\* The same heap but for links.
Relinked(h, g) ==
    /\ g \in Heaps
    /\ Len(g) = Len(h) /\ DOMAIN g = DOMAIN h
    /\ \A x \in DOMAIN h : SameButNext(h[x], g[x])

(* What membership in Heaps says. *)
LEMMA HeapFacts ==
    ASSUME NEW h \in Heaps
    PROVE  /\ Pointers(h)
           /\ h \in Seq(SymbolRec) /\ Len(h) \in Nat /\ DOMAIN h = 1 .. Len(h)
           /\ \A x \in DOMAIN h : h[x] \in SymbolRec
BY DEF Heaps, Pointers

(* A function from 1 .. N to symbols whose links stay inside of it is a heap. *)
LEMMA HeapIntro ==
    ASSUME NEW N \in Nat, NEW h, h \in [1 .. N -> SymbolRec],
           \A x \in 1 .. N : h[x].next \in 0 .. N
    PROVE  h \in Heaps /\ Len(h) = N /\ DOMAIN h = 1 .. N
<1>1. h \in Seq(SymbolRec) /\ Len(h) = N /\ DOMAIN h = 1 .. N
  OBVIOUS
<1> QED BY <1>1 DEF Heaps

(* A symbol with another link is a symbol, and differs in the link only. *)
LEMMA RelinkSymbol ==
    ASSUME NEW r \in SymbolRec, NEW n \in Nat
    PROVE  /\ [r EXCEPT !.next = n] \in SymbolRec
           /\ [r EXCEPT !.next = n].next = n
           /\ SameButNext(r, [r EXCEPT !.next = n])
BY DEF SymbolRec, SameButNext

(* A heap differs from itself in links at most. *)
LEMMA RelinkedSelf ==
    ASSUME NEW h \in Heaps
    PROVE  Relinked(h, h)
BY DEF Relinked, SameButNext

(* Two changes of links are a change of links. *)
LEMMA RelinkedTwice ==
    ASSUME NEW h, NEW g, NEW k, Relinked(h, g), Relinked(g, k)
    PROVE  Relinked(h, k)
<1>1. \A x \in DOMAIN h : SameButNext(h[x], k[x])
  BY DEF Relinked, SameButNext
<1> QED BY <1>1 DEF Relinked

\* One link is set.
Link(h, t, n) == [h EXCEPT ![t] = [h[t] EXCEPT !.next = n]]

(* Link(h, t, n) changes the link of t to n and nothing else. *)
LEMMA LinkFacts ==
    ASSUME NEW h \in Heaps, NEW t \in DOMAIN h, NEW n \in 0 .. Len(h)
    PROVE  /\ Relinked(h, Link(h, t, n))
           /\ Link(h, t, n)[t].next = n
           /\ \A x \in DOMAIN h : x # t => Link(h, t, n)[x] = h[x]
<1> DEFINE g == Link(h, t, n)
           r == [h[t] EXCEPT !.next = n]
<1>1. /\ Len(h) \in Nat /\ DOMAIN h = 1 .. Len(h) /\ h \in Seq(SymbolRec)
      /\ \A x \in DOMAIN h : h[x] \in SymbolRec /\ h[x].next \in 0 .. Len(h)
  BY DEF Heaps
<1>2. r \in SymbolRec /\ r.next = n /\ SameButNext(h[t], r)
  <2>1. n \in Nat
    BY <1>1
  <2> QED BY <1>1, <2>1, RelinkSymbol
<1>3. DOMAIN g = DOMAIN h /\ g = [x \in DOMAIN h |-> IF x = t THEN r ELSE h[x]]
  BY DEF Link
<1> HIDE DEF r, g
<1>4. g[t] = r /\ \A x \in DOMAIN h : x # t => g[x] = h[x]
  BY <1>3
<1>5. \A x \in DOMAIN h : g[x] \in SymbolRec /\ g[x].next \in 0 .. Len(h)
  BY <1>1, <1>2, <1>4
<1>6. g \in [1 .. Len(h) -> SymbolRec]
  BY <1>1, <1>3, <1>5
<1>7. g \in Heaps /\ Len(g) = Len(h)
  BY <1>1, <1>5, <1>6, HeapIntro
<1>8. \A x \in DOMAIN h : SameButNext(h[x], g[x])
  BY <1>2, <1>4 DEF SameButNext
<1> QED BY <1>2, <1>3, <1>4, <1>7, <1>8 DEF Relinked, g

(* Linked makes a chain of its symbols, and touches no other.                *)
LEMMA LinkedFacts ==
    ASSUME NEW h \in Heaps, NEW syms \in Seq(DOMAIN h)
    PROVE  /\ Relinked(h, Linked(h, syms))
           /\ \A x \in DOMAIN h : x \notin Range(syms) => Linked(h, syms)[x] = h[x]
           /\ \A x \in DOMAIN h :
                 Linked(h, syms)[x].next \in {NULL, h[x].next} \cup Range(syms)
           /\ IsInjective(syms) => IsChain(Linked(h, syms), syms)
<1> DEFINE k == Len(syms)
           at(x) == SelectInSeq(syms, LAMBDA v : v = x)
           g == Linked(h, syms)
           n(x) == IF at(x) = k THEN NULL ELSE syms[at(x) + 1]
<1>1. /\ Len(h) \in Nat /\ DOMAIN h = 1 .. Len(h)
      /\ \A x \in DOMAIN h : h[x] \in SymbolRec /\ h[x].next \in 0 .. Len(h)
  BY DEF Heaps
<1>2. k \in Nat /\ DOMAIN syms = 1 .. k /\ \A i \in 1 .. k : syms[i] \in DOMAIN h
  OBVIOUS
<1>3. ASSUME NEW x \in Range(syms)
      PROVE  at(x) \in 1 .. k /\ syms[at(x)] = x
  <2> DEFINE I == {i \in 1 .. k : syms[i] = x}
  <2>1. I # {} /\ I \subseteq Nat
    BY <1>2 DEF Range
  <2>2. Min(I) \in I
    BY <2>1, MinFacts
  <2>3. at(x) = Min(I)
    BY <2>1 DEF SelectInSeq
  <2> QED BY <2>2, <2>3
<1>4. g = [x \in DOMAIN h |-> IF x \in Range(syms) THEN [h[x] EXCEPT !.next = n(x)] ELSE h[x]]
  BY DEF Linked
<1>5. ASSUME NEW x \in Range(syms)
      PROVE  n(x) \in {NULL} \cup Range(syms) /\ n(x) \in 0 .. Len(h)
  <2>1. at(x) \in 1 .. k
    BY <1>3
  <2>2. at(x) # k => at(x) + 1 \in 1 .. k
    BY <1>2, <2>1
  <2>3. \A i \in 1 .. k : syms[i] \in Range(syms) /\ syms[i] \in 0 .. Len(h)
    <3>1. DOMAIN syms = 1 .. k
      BY <1>2
    <3>2. \A i \in 1 .. k : syms[i] \in Range(syms)
      BY <3>1 DEF Range
    <3>3. \A i \in 1 .. k : syms[i] \in DOMAIN h
      BY <3>1
    <3> QED BY <1>1, <3>2, <3>3
  <2> HIDE DEF at
  <2> QED BY <1>1, <2>2, <2>3 DEF NULL
<1> HIDE DEF n, g
<1>6. ASSUME NEW x \in DOMAIN h
      PROVE  /\ g[x] \in SymbolRec /\ g[x].next \in 0 .. Len(h) /\ SameButNext(h[x], g[x])
             /\ x \in Range(syms) => g[x].next = n(x)
             /\ x \notin Range(syms) => g[x] = h[x]
  <2>1. CASE x \in Range(syms)
    <3>1. n(x) \in Nat /\ n(x) \in 0 .. Len(h)
      BY <1>1, <1>5, <2>1
    <3>2. g[x] = [h[x] EXCEPT !.next = n(x)]
      BY <1>4, <2>1
    <3> QED BY <1>1, <2>1, <3>1, <3>2, RelinkSymbol
  <2>2. CASE x \notin Range(syms)
    <3>1. g[x] = h[x]
      BY <1>4, <2>2
    <3> QED BY <1>1, <2>2, <3>1 DEF SameButNext
  <2> QED BY <2>1, <2>2
<1>7. g \in [1 .. Len(h) -> SymbolRec] /\ DOMAIN g = DOMAIN h
  BY <1>1, <1>4, <1>6
<1>8. g \in Heaps /\ Len(g) = Len(h)
  BY <1>1, <1>6, <1>7, HeapIntro
<1>9. Relinked(h, g)
  BY <1>6, <1>7, <1>8 DEF Relinked
<1>10. \A x \in DOMAIN h : g[x].next \in {NULL, h[x].next} \cup Range(syms)
  BY <1>5, <1>6
<1>11. ASSUME IsInjective(syms)
       PROVE  IsChain(g, syms)
  <2>1. ASSUME NEW i \in 1 .. k
        PROVE  g[syms[i]].next = IF i = k THEN NULL ELSE syms[i + 1]
    <3>1. syms[i] \in Range(syms) /\ syms[i] \in DOMAIN h
      BY <1>2 DEF Range
    <3>2. at(syms[i]) \in 1 .. k /\ syms[at(syms[i])] = syms[i]
      BY <1>3, <3>1
    <3> HIDE DEF at
    <3>3. at(syms[i]) = i
      BY <1>2, <1>11, <3>2 DEF IsInjective
    <3>4. g[syms[i]].next = n(syms[i])
      BY <1>6, <3>1
    <3> QED BY <3>3, <3>4 DEF n
  <2> QED BY <1>2, <1>7, <2>1 DEF IsChain
<1> QED BY <1>6, <1>9, <1>10, <1>11 DEF g

-----------------------------------------------------------------------------
(* The lists of declarators and members.                                    *)

\* What the recursion in ListOf passes on.
Lists(N) == [heap : {h \in Heaps : Len(h) = N}, endless : BOOLEAN]

\* The last symbol in the list of head.
Tail0(h, head) == Last(Chain(h, head))

(* A list with an end has a last symbol, whose link is NULL. *)
LEMMA TailFacts ==
    ASSUME NEW h \in Heaps, NEW head \in DOMAIN h, ~ Endless(h, head)
    PROVE  /\ Tail0(h, head) \in DOMAIN h
           /\ Tail0(h, head) \in Range(Chain(h, head))
           /\ h[Tail0(h, head)].next = NULL
<1> DEFINE c == Chain(h, head)
<1>1. Pointers(h) /\ head \in 0 .. Len(h) /\ head # NULL
  BY HeapFacts DEF NULL
<1>2. IsChain(h, c) /\ c # << >>
  BY <1>1, ChainFacts
<1> HIDE DEF c
<1>3. c \in Seq(DOMAIN h) /\ Len(c) \in DOMAIN c
  BY <1>2 DEF IsChain
<1>4. c[Len(c)] \in DOMAIN h /\ h[c[Len(c)]].next = NULL
  BY <1>2, <1>3 DEF IsChain
<1>5. c[Len(c)] \in Range(c)
  BY <1>3 DEF Range
<1> QED BY <1>4, <1>5 DEF Tail0, Last, c

(* id_list puts a symbol at the end of a list, or walks without end. *)
LEMMA ExtendedFacts ==
    ASSUME NEW N \in Nat, NEW list \in Lists(N), NEW head \in 1 .. N, NEW s \in 1 .. N
    PROVE  /\ Extended(list, head, s) \in Lists(N)
           /\ Relinked(list.heap, Extended(list, head, s).heap)
           /\ list.endless \/ Endless(list.heap, head)
                => Extended(list, head, s) = [heap |-> list.heap, endless |-> TRUE]
           /\ ~ (list.endless \/ Endless(list.heap, head))
                => Extended(list, head, s) =
                     [heap |-> Link(list.heap, Tail0(list.heap, head), s), endless |-> FALSE]
<1> DEFINE h == list.heap
           t == Tail0(h, head)
<1>1. /\ h \in Heaps /\ Len(h) = N /\ list.endless \in BOOLEAN
      /\ list = [heap |-> list.heap, endless |-> list.endless]
  BY DEF Lists
<1>2. DOMAIN h = 1 .. N /\ s \in 0 .. Len(h) /\ head \in DOMAIN h
  BY <1>1, HeapFacts
<1>3. CASE list.endless \/ Endless(h, head)
  <2>1. Extended(list, head, s) = [heap |-> list.heap, endless |-> TRUE]
    BY <1>1, <1>3 DEF Extended
  <2>2. Relinked(h, h)
    BY <1>1, RelinkedSelf
  <2> QED BY <1>1, <1>3, <2>1, <2>2 DEF Lists
<1>4. CASE ~ (list.endless \/ Endless(h, head))
  <2>1. t \in DOMAIN h
    BY <1>1, <1>2, <1>4, TailFacts
  <2>2. Extended(list, head, s) = [heap |-> Link(h, t, s), endless |-> list.endless]
    BY <1>1, <1>4 DEF Extended, Link, Tail0
  <2>3. list.endless = FALSE
    BY <1>1, <1>4
  <2>4. Relinked(h, Link(h, t, s))
    BY <1>1, <1>2, <2>1, LinkFacts
  <2>5. Link(h, t, s) \in Heaps /\ Len(Link(h, t, s)) = N
    BY <1>1, <2>4 DEF Relinked
  <2> HIDE DEF h, t
  <2>6. Extended(list, head, s) = [heap |-> Link(h, t, s), endless |-> FALSE]
    BY <2>2, <2>3
  <2> QED BY <1>4, <2>4, <2>5, <2>6 DEF Lists, h, t
<1> QED BY <1>3, <1>4

\* The intermediate lists of ListOf.
IsListing(h, syms, lists) ==
    /\ lists \in [0 .. Len(syms) - 1 -> Lists(Len(h))]
    /\ lists[0] = [heap |-> h, endless |-> FALSE]
    /\ \A n \in 1 .. Len(syms) - 1 :
          lists[n] = Extended(lists[n - 1], syms[1], syms[n + 1])
    /\ ListOf(h, syms) = lists[Len(syms) - 1]

(* The recursion in ListOf has a solution. *)
LEMMA ListingExists ==
    ASSUME NEW h \in Heaps, NEW syms \in Seq(DOMAIN h), syms # << >>
    PROVE  \E lists : IsListing(h, syms, lists)
<1> DEFINE N == Len(h)
           K == Len(syms) - 1
           A == Lists(N)
           a == [heap |-> h, endless |-> FALSE]
           G == [n \in 1 .. K |-> [l \in A |-> Extended(l, syms[1], syms[n + 1])]]
           P(list) == list = [n \in 0 .. Len(syms) - 1 |->
                                IF n = 0 THEN [heap |-> h, endless |-> FALSE]
                                ELSE Extended(list[n - 1], syms[1], syms[n + 1])]
<1>1. N \in Nat /\ K \in Nat /\ \A i \in 1 .. K + 1 : syms[i] \in 1 .. N
  BY HeapFacts
<1>2. a \in A
  BY DEF Lists
<1>3. \A n \in 1 .. K, l \in A : Extended(l, syms[1], syms[n + 1]) \in A
  <2> TAKE n \in 1 .. K, l \in A
  <2>1. syms[1] \in 1 .. N /\ syms[n + 1] \in 1 .. N
    BY <1>1
  <2> QED BY <1>1, <2>1, ExtendedFacts
<1> HIDE DEF N, K, A, a
<1>4. G \in [1 .. K -> [A -> A]]
  BY <1>3
<1>5. \A n \in 1 .. K, l \in A : G[n][l] = Extended(l, syms[1], syms[n + 1])
  OBVIOUS
<1> HIDE DEF G
<1>6. \E f \in [0 .. K -> A] : Solves(f, K, a, G)
  BY <1>1, <1>2, <1>4, RecursionExists
<1>7. PICK f \in [0 .. K -> A] : f[0] = a /\ \A n \in 1 .. K : f[n] = G[n][f[n - 1]]
  BY <1>6 DEF Solves
<1>8. ASSUME NEW n \in 1 .. K
      PROVE  f[n] = Extended(f[n - 1], syms[1], syms[n + 1])
  <2>1. n - 1 \in 0 .. K
    BY <1>1
  <2>2. f[n - 1] \in A
    BY <2>1
  <2> QED BY <1>5, <1>7, <2>2
<1>9. P(f)
  <2>1. ASSUME NEW n \in 0 .. K
        PROVE  f[n] = IF n = 0 THEN a ELSE Extended(f[n - 1], syms[1], syms[n + 1])
    <3>1. n = 0 \/ (n \in 1 .. K /\ n # 0)
      BY <1>1
    <3> QED BY <1>7, <1>8, <3>1
  <2>2. f = [n \in 0 .. K |-> f[n]]
    BY <1>7
  <2> QED BY <2>1, <2>2 DEF K, a
<1> DEFINE g == CHOOSE list : P(list)
<1>10. P(g)
  <2> HIDE DEF P
  <2> QED BY <1>9, Zenon
<1>11. ListOf(h, syms) = g[K]
  BY DEF ListOf, K
<1> HIDE DEF g
<1>12. g = [n \in 0 .. K |-> IF n = 0 THEN a ELSE Extended(g[n - 1], syms[1], syms[n + 1])]
  BY <1>10 DEF K, a
<1> HIDE DEF P
<1>13. /\ DOMAIN g = 0 .. K /\ g[0] = a
       /\ \A n \in 1 .. K : g[n] = Extended(g[n - 1], syms[1], syms[n + 1])
       /\ g = [n \in 0 .. K |-> g[n]]
  <2> DEFINE e(n) == IF n = 0 THEN a ELSE Extended(g[n - 1], syms[1], syms[n + 1])
  <2>1. g = [n \in 0 .. K |-> e(n)]
    BY <1>12
  <2> HIDE DEF e
  <2>2. DOMAIN g = 0 .. K /\ \A n \in 0 .. K : g[n] = e(n)
    BY <2>1
  <2>3. g = [n \in 0 .. K |-> g[n]]
    BY <2>1, <2>2
  <2>4. 0 \in 0 .. K /\ \A n \in 1 .. K : n \in 0 .. K /\ n # 0
    BY <1>1
  <2>5. g[0] = a
    BY <2>2, <2>4 DEF e
  <2>6. ASSUME NEW n \in 1 .. K
        PROVE  g[n] = Extended(g[n - 1], syms[1], syms[n + 1])
    BY <2>2, <2>4 DEF e
  <2> QED BY <2>2, <2>3, <2>5, <2>6
<1> DEFINE T == {n \in 0 .. K : g[n] \in A}
<1>14. \A n \in 0 .. K : n \in T
  <2>1. 0 \in T
    BY <1>1, <1>2, <1>13
  <2>2. ASSUME NEW n \in 1 .. K, n - 1 \in T
        PROVE  n \in T
    <3>1. g[n - 1] \in A
      BY <2>2
    <3>2. Extended(g[n - 1], syms[1], syms[n + 1]) \in A
      BY <1>3, <3>1
    <3>3. g[n] = Extended(g[n - 1], syms[1], syms[n + 1])
      BY <1>13
    <3>4. g[n] \in A /\ n \in 0 .. K
      BY <1>1, <3>2, <3>3
    <3> QED BY <3>4
  <2> HIDE DEF T
  <2> QED BY <1>1, <2>1, <2>2, UpTo
<1>15. g \in [0 .. K -> A]
  BY <1>13, <1>14
<1>16. IsListing(h, syms, g)
  BY <1>11, <1>13, <1>15 DEF IsListing, K, A, a, N
<1> QED BY <1>16

(* What a list of declarators changes: links only, and only to its symbols.  *)
LEMMA ListOfFacts ==
    ASSUME NEW h \in Heaps, NEW syms \in Seq(DOMAIN h), syms # << >>
    PROVE  /\ ListOf(h, syms) \in Lists(Len(h))
           /\ Relinked(h, ListOf(h, syms).heap)
           /\ \A x \in DOMAIN h :
                 ListOf(h, syms).heap[x].next \in {h[x].next} \cup Range(syms)
           /\ Len(syms) = 1 => ListOf(h, syms) = [heap |-> h, endless |-> FALSE]
<1>1. PICK lists : IsListing(h, syms, lists)
  BY ListingExists
<1> DEFINE N == Len(h)
           K == Len(syms) - 1
<1>2. /\ N \in Nat /\ DOMAIN h = 1 .. N /\ K \in Nat
      /\ \A i \in 1 .. K + 1 : syms[i] \in 1 .. N /\ syms[i] \in Range(syms)
  BY HeapFacts DEF Range
<1>3. /\ \A n \in 0 .. K : lists[n] \in Lists(N)
      /\ lists[0] = [heap |-> h, endless |-> FALSE]
      /\ \A n \in 1 .. K : lists[n] = Extended(lists[n - 1], syms[1], syms[n + 1])
      /\ ListOf(h, syms) = lists[K]
  BY <1>1 DEF IsListing
<1> HIDE DEF N, K
<1> DEFINE Good(l) == /\ Relinked(h, l.heap)
                      /\ \A x \in DOMAIN h : l.heap[x].next \in {h[x].next} \cup Range(syms)
           T == {n \in 0 .. K : Good(lists[n])}
<1>4. Good(lists[0])
  BY <1>3, RelinkedSelf
<1>5. ASSUME NEW n \in 1 .. K, Good(lists[n - 1])
      PROVE  Good(lists[n])
  <2> DEFINE l == lists[n - 1]
             t == Tail0(l.heap, syms[1])
  <2>0. n - 1 \in 0 .. K /\ n + 1 \in 1 .. K + 1 /\ 1 \in 1 .. K + 1
    BY <1>2
  <2>1. l \in Lists(N) /\ lists[n] = Extended(l, syms[1], syms[n + 1])
    BY <1>3, <2>0
  <2>2. syms[1] \in 1 .. N /\ syms[n + 1] \in 1 .. N /\ syms[n + 1] \in Range(syms)
    BY <1>2, <2>0
  <2> HIDE DEF l
  <2>3. Relinked(l.heap, lists[n].heap)
    BY <1>2, <2>1, <2>2, ExtendedFacts
  <2>4. Relinked(h, lists[n].heap)
    BY <1>5, <2>3, RelinkedTwice DEF l
  <2>5. ASSUME NEW x \in DOMAIN h
        PROVE  lists[n].heap[x].next \in {h[x].next} \cup Range(syms)
    <3>1. l.heap[x].next \in {h[x].next} \cup Range(syms)
      BY <1>5 DEF l
    <3>2. CASE l.endless \/ Endless(l.heap, syms[1])
      <4>1. lists[n] = [heap |-> l.heap, endless |-> TRUE]
        BY <1>2, <2>1, <2>2, <3>2, ExtendedFacts, Zenon
      <4> QED BY <3>1, <4>1
    <3>3. CASE ~ (l.endless \/ Endless(l.heap, syms[1]))
      <4>1. lists[n] = [heap |-> Link(l.heap, t, syms[n + 1]), endless |-> FALSE]
        BY <1>2, <2>1, <2>2, <3>3, ExtendedFacts, Zenon
      <4>2. l.heap \in Heaps /\ Len(l.heap) = N /\ DOMAIN l.heap = 1 .. N
        BY <2>1, HeapFacts DEF Lists
      <4>3. t \in DOMAIN l.heap
        BY <2>2, <3>3, <4>2, TailFacts
      <4>4. syms[n + 1] \in 0 .. Len(l.heap)
        BY <2>2, <4>2
      <4> HIDE DEF t
      <4> DEFINE g == Link(l.heap, t, syms[n + 1])
      <4>5. g[t].next = syms[n + 1] /\ \A z \in DOMAIN l.heap : z # t => g[z] = l.heap[z]
        BY <4>2, <4>3, <4>4, LinkFacts
      <4> HIDE DEF g
      <4>6. lists[n].heap = g
        BY <4>1 DEF g
      <4> QED BY <1>2, <2>2, <3>1, <4>2, <4>5, <4>6
    <3> QED BY <3>2, <3>3
  <2> QED BY <2>4, <2>5
<1>6. \A n \in 0 .. K : n \in T
  <2>1. 0 \in T
    BY <1>2, <1>4
  <2>2. ASSUME NEW n \in 1 .. K, n - 1 \in T
        PROVE  n \in T
    <3>1. Good(lists[n - 1])
      BY <2>2
    <3>2. Good(lists[n])
      BY <1>5, <3>1
    <3> HIDE DEF Good
    <3> QED BY <1>2, <3>2
  <2> HIDE DEF T
  <2> QED BY <1>2, <2>1, <2>2, UpTo
<1>7. K \in 0 .. K
  BY <1>2
<1>8. Good(ListOf(h, syms)) /\ ListOf(h, syms) \in Lists(N)
  <2> HIDE DEF Good
  <2>1. K \in T
    BY <1>6, <1>7
  <2> QED BY <1>3, <1>7, <2>1
<1>9. Len(syms) = 1 => ListOf(h, syms) = [heap |-> h, endless |-> FALSE]
  BY <1>3 DEF K
<1> QED BY <1>8, <1>9 DEF N

(* Symbols without a link, that no other one is linked to.                   *)
Fresh(h, syms) ==
    /\ IsInjective(syms)
    /\ \A i \in DOMAIN syms : h[syms[i]].next = NULL

(* New symbols become a chain, and the list ends.                            *)
LEMMA FreshList ==
    ASSUME NEW h \in Heaps, NEW syms \in Seq(DOMAIN h), syms # << >>, Fresh(h, syms)
    PROVE  /\ ListOf(h, syms).endless = FALSE
           /\ IsChain(ListOf(h, syms).heap, syms)
           /\ \A x \in DOMAIN h : x \notin Range(syms) => ListOf(h, syms).heap[x] = h[x]
<1>1. PICK lists : IsListing(h, syms, lists)
  BY ListingExists
<1> DEFINE N == Len(h)
           K == Len(syms) - 1
<1>2. /\ N \in Nat /\ DOMAIN h = 1 .. N /\ K \in Nat /\ DOMAIN syms = 1 .. K + 1
      /\ Len(syms) = K + 1
      /\ \A i \in 1 .. K + 1 : syms[i] \in 1 .. N /\ syms[i] \in Range(syms)
  BY HeapFacts DEF Range
<1>3. /\ \A n \in 0 .. K : lists[n] \in Lists(N)
      /\ lists[0] = [heap |-> h, endless |-> FALSE]
      /\ \A n \in 1 .. K : lists[n] = Extended(lists[n - 1], syms[1], syms[n + 1])
      /\ ListOf(h, syms) = lists[K]
  BY <1>1 DEF IsListing
<1> HIDE DEF N, K
<1>4. \A i, j \in 1 .. K + 1 : syms[i] = syms[j] => i = j
  BY <1>2 DEF Fresh, IsInjective
<1> DEFINE Good(l, n) ==
              /\ l.endless = FALSE
              /\ \A i \in 1 .. K + 1 : l.heap[syms[i]].next = IF i <= n THEN syms[i + 1] ELSE NULL
              /\ \A x \in DOMAIN h : x \notin Range(syms) => l.heap[x] = h[x]
           T == {n \in 0 .. K : Good(lists[n], n)}
<1>5. Good(lists[0], 0)
  BY <1>2, <1>3 DEF Fresh
<1>6. ASSUME NEW n \in 1 .. K, Good(lists[n - 1], n - 1)
      PROVE  Good(lists[n], n)
  <2> DEFINE l == lists[n - 1]
             t == Tail0(l.heap, syms[1])
             c == [i \in 1 .. n |-> syms[i]]
  <2>0. n - 1 \in 0 .. K /\ n + 1 \in 1 .. K + 1 /\ 1 \in 1 .. K + 1 /\ n \in 1 .. K + 1
    BY <1>2
  <2>1. l \in Lists(N) /\ lists[n] = Extended(l, syms[1], syms[n + 1])
    BY <1>3, <2>0
  <2>2. syms[1] \in 1 .. N /\ syms[n + 1] \in 1 .. N
    BY <1>2, <2>0
  <2>3. /\ l.endless = FALSE
        /\ \A i \in 1 .. K + 1 : l.heap[syms[i]].next = IF i <= n - 1 THEN syms[i + 1] ELSE NULL
        /\ \A x \in DOMAIN h : x \notin Range(syms) => l.heap[x] = h[x]
    BY <1>6
  <2> HIDE DEF l
  <2>4. l.heap \in Heaps /\ Len(l.heap) = N /\ DOMAIN l.heap = 1 .. N /\ Pointers(l.heap)
    BY <2>1, HeapFacts DEF Lists
  <2>5. IsChain(l.heap, c) /\ IsInjective(c) /\ c # << >> /\ c[1] = syms[1] /\ Len(c) = n
    <3>1. c \in [1 .. n -> 1 .. N]
      BY <1>2, <2>0
    <3>2. c \in Seq(1 .. N) /\ Len(c) = n /\ DOMAIN c = 1 .. n
      BY <1>2, <3>1
    <3>3. \A i \in 1 .. n : c[i] = syms[i] /\ i \in 1 .. K + 1
      BY <1>2
    <3> HIDE DEF c
    <3>4. \A i \in 1 .. n : l.heap[c[i]].next = IF i = n THEN NULL ELSE c[i + 1]
      <4> TAKE i \in 1 .. n
      <4>1. l.heap[syms[i]].next = IF i <= n - 1 THEN syms[i + 1] ELSE NULL
        BY <2>3, <3>3
      <4>2. i <= n - 1 => i + 1 \in 1 .. n
        OBVIOUS
      <4>3. i <= n - 1 <=> i # n
        OBVIOUS
      <4> QED BY <3>3, <4>1, <4>2, <4>3
    <3>5. IsInjective(c)
      BY <1>4, <3>2, <3>3 DEF IsInjective
    <3>6. c # << >> /\ c[1] = syms[1]
      BY <3>2, <3>3
    <3> QED BY <2>4, <3>2, <3>4, <3>5, <3>6 DEF IsChain
  <2> HIDE DEF c
  <2>6. ~ Endless(l.heap, syms[1]) /\ Chain(l.heap, syms[1]) = c
    BY <2>4, <2>5, ChainIs
  <2>7. t = syms[n]
    <3>1. t = c[n]
      BY <2>5, <2>6 DEF Last, Tail0
    <3> QED BY <3>1 DEF c
  <2>8. lists[n] = [heap |-> Link(l.heap, t, syms[n + 1]), endless |-> FALSE]
    BY <1>2, <2>1, <2>2, <2>3, <2>6, ExtendedFacts
  <2> DEFINE g == Link(l.heap, t, syms[n + 1])
  <2>9. g[syms[n]].next = syms[n + 1] /\ \A x \in 1 .. N : x # syms[n] => g[x] = l.heap[x]
    <3>1. t \in DOMAIN l.heap /\ syms[n + 1] \in 0 .. Len(l.heap)
      BY <1>2, <2>0, <2>2, <2>4, <2>7
    <3>2. g[t].next = syms[n + 1] /\ \A x \in 1 .. N : x # t => g[x] = l.heap[x]
      <4> HIDE DEF t
      <4>1. g[t].next = syms[n + 1] /\ \A x \in DOMAIN l.heap : x # t => g[x] = l.heap[x]
        BY <2>4, <3>1, LinkFacts
      <4> QED BY <2>4, <4>1
    <3> QED BY <2>7, <3>2
  <2> HIDE DEF g, t
  <2>10. ASSUME NEW i \in 1 .. K + 1
         PROVE  g[syms[i]].next = IF i <= n THEN syms[i + 1] ELSE NULL
    <3>1. CASE i = n
      BY <2>9, <3>1
    <3>2. CASE i # n
      <4>1. syms[i] # syms[n] /\ syms[i] \in 1 .. N
        BY <1>2, <1>4, <2>0, <3>2
      <4>2. g[syms[i]] = l.heap[syms[i]]
        BY <2>9, <4>1
      <4>3. i <= n - 1 <=> i <= n
        BY <1>2, <3>2
      <4> QED BY <2>3, <4>2, <4>3
    <3> QED BY <3>1, <3>2
  <2>11. ASSUME NEW x \in DOMAIN h, x \notin Range(syms)
         PROVE  g[x] = h[x]
    BY <1>2, <2>0, <2>3, <2>9, <2>11
  <2>12. lists[n].endless = FALSE /\ lists[n].heap = g
    BY <2>8 DEF g
  <2> QED BY <2>10, <2>11, <2>12
<1>7. \A n \in 0 .. K : n \in T
  <2>1. 0 \in T
    <3> HIDE DEF Good
    <3> QED BY <1>2, <1>5
  <2>2. ASSUME NEW n \in 1 .. K, n - 1 \in T
        PROVE  n \in T
    <3>1. Good(lists[n - 1], n - 1)
      <4> HIDE DEF Good
      <4> QED BY <2>2
    <3>2. Good(lists[n], n)
      BY <1>6, <3>1
    <3> HIDE DEF Good
    <3> QED BY <1>2, <3>2
  <2> HIDE DEF T
  <2> QED BY <1>2, <2>1, <2>2, UpTo
<1>8. Good(ListOf(h, syms), K) /\ ListOf(h, syms) \in Lists(N)
  <2> HIDE DEF Good
  <2>1. K \in T /\ K \in 0 .. K
    BY <1>2, <1>7
  <2> QED BY <1>3, <2>1
<1>9. DOMAIN ListOf(h, syms).heap = 1 .. N
  BY <1>8, HeapFacts DEF Lists
<1>10. IsChain(ListOf(h, syms).heap, syms)
  <2>1. syms \in Seq(1 .. N)
    BY <1>2
  <2>2. \A i \in 1 .. K + 1 :
           ListOf(h, syms).heap[syms[i]].next = IF i = K + 1 THEN NULL ELSE syms[i + 1]
    <3> TAKE i \in 1 .. K + 1
    <3>1. i <= K <=> i # K + 1
      BY <1>2
    <3> QED BY <1>8, <3>1
  <2> QED BY <1>2, <1>9, <2>1, <2>2 DEF IsChain
<1> QED BY <1>8, <1>10

(* A list keeps its symbols when another one is put at its end.              *)
LEMMA ChainGrows ==
    ASSUME NEW h \in Heaps, NEW head \in DOMAIN h, ~ Endless(h, head),
           NEW s \in DOMAIN h, NEW g, g = Link(h, Tail0(h, head), s), ~ Endless(g, head)
    PROVE  Range(Chain(h, head)) \subseteq Range(Chain(g, head))
<1> DEFINE c == Chain(h, head)
           d == Chain(g, head)
           t == Tail0(h, head)
<1>1. Pointers(h) /\ head \in 0 .. Len(h) /\ head # NULL /\ s \in 0 .. Len(h) /\ s # NULL
  BY HeapFacts DEF NULL
<1>2. t \in DOMAIN h
  BY TailFacts
<1> HIDE DEF t
<1>3. /\ g \in Heaps /\ DOMAIN g = DOMAIN h /\ Len(g) = Len(h)
      /\ g[t].next = s /\ \A x \in DOMAIN h : x # t => g[x] = h[x]
  BY <1>1, <1>2, LinkFacts DEF Relinked, t
<1>4. IsChain(h, c) /\ c # << >> /\ c[1] = head
  BY <1>1, ChainFacts
<1>5. IsChain(g, d) /\ d # << >> /\ d[1] = head
  <2>1. Pointers(g) /\ head \in 0 .. Len(g)
    BY <1>1, <1>3, HeapFacts
  <2> QED BY <1>1, <2>1, ChainFacts
<1>6. t = c[Len(c)]
  BY DEF t, Tail0, Last
<1> HIDE DEF c, d
<1> DEFINE k == Len(c)
           m == Len(d)
<1>7. /\ k \in Nat /\ DOMAIN c = 1 .. k /\ m \in Nat /\ DOMAIN d = 1 .. m
      /\ \A i \in 1 .. k : c[i] \in DOMAIN h /\ h[c[i]].next = IF i = k THEN NULL ELSE c[i + 1]
      /\ \A i \in 1 .. m : d[i] \in DOMAIN h /\ g[d[i]].next = IF i = m THEN NULL ELSE d[i + 1]
  <2>1. /\ k \in Nat /\ DOMAIN c = 1 .. k
        /\ \A i \in 1 .. k : c[i] \in DOMAIN h /\ h[c[i]].next = IF i = k THEN NULL ELSE c[i + 1]
    BY <1>4 DEF IsChain
  <2>2. /\ m \in Nat /\ DOMAIN d = 1 .. m
        /\ \A i \in 1 .. m : d[i] \in DOMAIN g /\ g[d[i]].next = IF i = m THEN NULL ELSE d[i + 1]
    BY <1>5 DEF IsChain
  <2> HIDE DEF k, m
  <2> QED BY <1>3, <2>1, <2>2
<1>8. 1 <= k /\ 1 <= m
  <2>1. c \in Seq(DOMAIN h) /\ d \in Seq(DOMAIN g)
    BY <1>4, <1>5 DEF IsChain
  <2>2. Len(c) # 0 /\ Len(d) # 0
    BY <1>4, <1>5, <2>1
  <2>3. k \in Nat /\ m \in Nat
    BY <1>7
  <2> QED BY <2>2, <2>3
<1> HIDE DEF k, m
<1>9. \A i \in 1 .. k : c[i] # NULL
  BY <1>1, <1>7 DEF NULL, Pointers
<1> DEFINE T == {n \in 0 .. k - 1 : n + 1 \in 1 .. m /\ d[n + 1] = c[n + 1]}
<1>10. \A n \in 0 .. k - 1 : n \in T
  <2>1. 0 \in T
    BY <1>4, <1>5, <1>7, <1>8
  <2>2. ASSUME NEW n \in 1 .. k - 1, n - 1 \in T
        PROVE  n \in T
    <3>1. n \in 1 .. m /\ d[n] = c[n] /\ n \in 1 .. k /\ n # k /\ k \in 1 .. k /\ n + 1 \in 1 .. k
      BY <1>7, <1>8, <2>2
    <3>2. h[c[n]].next = c[n + 1] /\ h[c[k]].next = NULL
      BY <1>7, <3>1
    <3>3. c[n] # t
      BY <1>6, <1>9, <3>1, <3>2 DEF k
    <3>4. g[d[n]].next = c[n + 1]
      BY <1>3, <1>7, <3>1, <3>2, <3>3
    <3>5. n # m /\ d[n + 1] = c[n + 1]
      BY <1>7, <1>9, <3>1, <3>4
    <3> QED BY <1>7, <1>8, <3>1, <3>5
  <2>3. k - 1 \in Nat
    BY <1>7, <1>8
  <2> HIDE DEF T
  <2> QED BY <2>1, <2>2, <2>3, UpTo
<1>11. ASSUME NEW i \in 1 .. k
       PROVE  c[i] \in Range(d)
  <2>1. i - 1 \in 0 .. k - 1 /\ (i - 1) + 1 = i
    BY <1>7
  <2>2. i \in 1 .. m /\ d[i] = c[i]
    BY <1>10, <2>1
  <2> QED BY <1>7, <2>2 DEF Range
<1> QED BY <1>7, <1>11 DEF Range, c, d

(* Only symbols of the list get a new link.                                  *)
LEMMA ChangedListed ==
    ASSUME NEW h \in Heaps, NEW syms \in Seq(DOMAIN h), syms # << >>,
           NEW list, list = ListOf(h, syms),
           list.endless = FALSE, ~ Endless(list.heap, syms[1]),
           NEW y \in DOMAIN h, y \notin Range(Chain(list.heap, syms[1]))
    PROVE  list.heap[y].next = h[y].next
<1>1. PICK lists : IsListing(h, syms, lists)
  BY ListingExists
<1> DEFINE N == Len(h)
           K == Len(syms) - 1
           Open(l) == l.endless = FALSE /\ ~ Endless(l.heap, syms[1])
           Good(l) == Open(l) => (y \notin Range(Chain(l.heap, syms[1])) => l.heap[y].next = h[y].next)
           T == {n \in 0 .. K : Good(lists[n])}
<1>2. /\ N \in Nat /\ DOMAIN h = 1 .. N /\ K \in Nat
      /\ \A i \in 1 .. K + 1 : syms[i] \in 1 .. N
  BY HeapFacts
<1>3. /\ \A n \in 0 .. K : lists[n] \in Lists(N)
      /\ lists[0] = [heap |-> h, endless |-> FALSE]
      /\ \A n \in 1 .. K : lists[n] = Extended(lists[n - 1], syms[1], syms[n + 1])
      /\ list = lists[K]
  BY <1>1 DEF IsListing
<1> HIDE DEF N, K
<1>4. Good(lists[0])
  BY <1>3
<1>5. ASSUME NEW n \in 1 .. K, Good(lists[n - 1])
      PROVE  Good(lists[n])
  <2> DEFINE l == lists[n - 1]
             t == Tail0(l.heap, syms[1])
             g == Link(l.heap, t, syms[n + 1])
  <2>0. n - 1 \in 0 .. K /\ n + 1 \in 1 .. K + 1 /\ 1 \in 1 .. K + 1
    BY <1>2
  <2>1. l \in Lists(N) /\ lists[n] = Extended(l, syms[1], syms[n + 1])
    BY <1>3, <2>0
  <2>2. syms[1] \in 1 .. N /\ syms[n + 1] \in 1 .. N
    BY <1>2, <2>0
  <2>3. SUFFICES ASSUME Open(lists[n]), y \notin Range(Chain(lists[n].heap, syms[1]))
                 PROVE  lists[n].heap[y].next = h[y].next
    OBVIOUS
  <2> HIDE DEF l
  <2>4. l.heap \in Heaps /\ Len(l.heap) = N /\ DOMAIN l.heap = 1 .. N /\ l.endless \in BOOLEAN
    BY <2>1, HeapFacts DEF Lists
  <2>5. ~ (l.endless \/ Endless(l.heap, syms[1]))
    <3>1. SUFFICES ASSUME l.endless \/ Endless(l.heap, syms[1]) PROVE FALSE
      OBVIOUS
    <3>2. lists[n] = [heap |-> l.heap, endless |-> TRUE]
      BY <1>2, <2>1, <2>2, <3>1, ExtendedFacts, ZenonT(40)
    <3> QED BY <2>3, <3>2
  <2>6. lists[n] = [heap |-> g, endless |-> FALSE]
    <3>1. N \in Nat
      BY <1>2
    <3> QED BY <2>1, <2>2, <2>5, <3>1, ExtendedFacts, ZenonT(40)
  <2>7. Open(l)
    BY <2>4, <2>5
  <2>8. ~ Endless(g, syms[1]) /\ y \notin Range(Chain(g, syms[1]))
    BY <2>3, <2>6
  <2>9. Range(Chain(l.heap, syms[1])) \subseteq Range(Chain(g, syms[1]))
    BY <2>2, <2>4, <2>5, <2>8, ChainGrows
  <2>10. l.heap[y].next = h[y].next
    <3> HIDE DEF g
    <3> QED BY <1>5, <2>7, <2>8, <2>9 DEF l
  <2>11. t \in DOMAIN l.heap /\ t \in Range(Chain(l.heap, syms[1]))
    BY <2>2, <2>4, <2>5, TailFacts
  <2>12. y # t /\ y \in DOMAIN l.heap /\ syms[n + 1] \in 0 .. Len(l.heap)
    BY <1>2, <2>2, <2>4, <2>8, <2>9, <2>11
  <2>13. g[y] = l.heap[y]
    <3> HIDE DEF t
    <3>1. \A x \in DOMAIN l.heap : x # t => g[x] = l.heap[x]
      BY <2>4, <2>11, <2>12, LinkFacts
    <3> HIDE DEF g
    <3> QED BY <2>12, <3>1
  <2> QED BY <2>6, <2>10, <2>13
<1>6. \A n \in 0 .. K : n \in T
  <2>1. 0 \in T
    <3> HIDE DEF Good
    <3> QED BY <1>2, <1>4
  <2>2. ASSUME NEW n \in 1 .. K, n - 1 \in T
        PROVE  n \in T
    <3>1. Good(lists[n - 1])
      <4> HIDE DEF Good
      <4> QED BY <2>2
    <3>2. Good(lists[n])
      BY <1>5, <3>1
    <3> HIDE DEF Good
    <3> QED BY <1>2, <3>2
  <2> HIDE DEF T
  <2> QED BY <1>2, <2>1, <2>2, UpTo
<1>7. Good(list)
  <2> HIDE DEF Good
  <2>1. K \in T
    BY <1>2, <1>6
  <2> QED BY <1>3, <2>1
<1> QED BY <1>7

-----------------------------------------------------------------------------
(* The lexer.                                                               *)

(* A symbol that the lexer makes is a symbol. *)
LEMMA SymbolTyped ==
    ASSUME NEW name \in Name \cup {"1"}, NEW type \in Type
    PROVE  Symbol(name, type) \in SymbolRec
BY DEF Symbol, SymbolRec, NULL, Type

(* A new symbol at the end of a heap leaves the others alone. *)
LEMMA AppendHeap ==
    ASSUME NEW h \in Heaps, NEW name \in Name \cup {"1"}, NEW type \in Type
    PROVE  /\ Append(h, Symbol(name, type)) \in Heaps
           /\ Len(Append(h, Symbol(name, type))) = Len(h) + 1
           /\ \A x \in DOMAIN h : Append(h, Symbol(name, type))[x] = h[x]
           /\ Append(h, Symbol(name, type))[Len(h) + 1] = Symbol(name, type)
<1> DEFINE s == Symbol(name, type)
           g == Append(h, s)
<1>1. s \in SymbolRec /\ s.next = NULL
  <2>1. s \in SymbolRec
    BY SymbolTyped
  <2>2. s.next = NULL
    BY DEF Symbol
  <2> QED BY <2>1, <2>2
<1>2. /\ h \in Seq(SymbolRec) /\ Len(h) \in Nat /\ DOMAIN h = 1 .. Len(h)
      /\ \A x \in DOMAIN h : h[x].next \in 0 .. Len(h)
  BY DEF Heaps
<1> HIDE DEF s
<1>3. /\ g \in Seq(SymbolRec) /\ Len(g) = Len(h) + 1 /\ DOMAIN g = 1 .. Len(h) + 1
      /\ \A x \in 1 .. Len(h) : g[x] = h[x]
      /\ g[Len(h) + 1] = s
  BY <1>1, <1>2
<1> HIDE DEF g
<1>4. ASSUME NEW x \in DOMAIN g
      PROVE  g[x].next \in 0 .. Len(g)
  <2>1. CASE x = Len(h) + 1
    BY <1>1, <1>2, <1>3, <2>1 DEF NULL
  <2>2. CASE x # Len(h) + 1
    <3>1. x \in DOMAIN h
      BY <1>2, <1>3, <2>2
    <3>2. g[x] = h[x] /\ h[x].next \in 0 .. Len(h)
      BY <1>2, <1>3, <3>1
    <3> QED BY <1>2, <1>3, <3>2
  <2> QED BY <2>1, <2>2
<1> QED BY <1>2, <1>3, <1>4 DEF Heaps, g, s

\* What is typed in the state, as far as the lexer needs it.
Lexed ==
    /\ heap \in Heaps
    /\ scope \in Scope
    /\ symtab \in [Scope \X Name -> 0 .. Len(heap)]
    /\ \A key \in DOMAIN symtab : symtab[key] # NULL => heap[symtab[key]].name = key[2]

(* An entry of the symbol table is a symbol with the name it is found under. *)
LEMMA LexedFacts ==
    ASSUME Lexed, NEW z \in Scope, NEW name \in Name
    PROVE  /\ symtab[<<z, name>>] \in 0 .. Len(heap)
           /\ symtab[<<z, name>>] # NULL => /\ symtab[<<z, name>>] \in DOMAIN heap
                                        /\ heap[symtab[<<z, name>>]].name = name
<1>1. <<z, name>> \in Scope \X Name /\ <<z, name>>[2] = name
  OBVIOUS
<1>2. symtab[<<z, name>>] \in 0 .. Len(heap)
  BY <1>1 DEF Lexed
<1>3. symtab[<<z, name>>] # NULL => heap[symtab[<<z, name>>]].name = name
  BY <1>1 DEF Lexed
<1>4. Len(heap) \in Nat /\ DOMAIN heap = 1 .. Len(heap)
  BY HeapFacts DEF Lexed
<1> QED BY <1>2, <1>3, <1>4 DEF NULL

\* A heap has symbols behind those of the state, each new and with such a type.
Grown(h, type) ==
    /\ h \in Heaps /\ Len(heap) <= Len(h)
    /\ \A x \in DOMAIN heap : h[x] = heap[x]
    /\ \A x \in DOMAIN h \ DOMAIN heap : \E name \in Name : h[x] = Symbol(name, type)

\* s is the symbol that the lexer gives for name, in h.
Given(h, s, name) ==
    /\ s \in DOMAIN h /\ h[s].name = name
    /\ symtab[<<scope, name>>] # NULL => s = symtab[<<scope, name>>]
    /\ symtab[<<scope, name>>] = NULL => s \notin DOMAIN heap

(* A heap that has grown has the old symbols, unchanged. *)
LEMMA GrownFacts ==
    ASSUME Lexed, NEW type, NEW h, Grown(h, type)
    PROVE  /\ Len(heap) \in Nat /\ DOMAIN heap = 1 .. Len(heap)
           /\ Len(h) \in Nat /\ DOMAIN h = 1 .. Len(h) /\ DOMAIN heap \subseteq DOMAIN h
           /\ \A x \in DOMAIN heap : h[x] = heap[x]
<1>1. /\ Len(heap) \in Nat /\ DOMAIN heap = 1 .. Len(heap)
      /\ Len(h) \in Nat /\ DOMAIN h = 1 .. Len(h) /\ Len(heap) <= Len(h)
  BY HeapFacts DEF Lexed, Grown
<1> QED BY <1>1 DEF Grown

(* The lexer gives the symbol of the scope, or makes one. *)
LEMMA ScanFacts ==
    ASSUME Lexed, NEW type \in Type, NEW h, Grown(h, type), NEW name \in Name,
           NEW scan, scan = Scan(h, name, type)
    PROVE  /\ Grown(scan.heap, type) /\ Len(h) <= Len(scan.heap)
           /\ Given(scan.heap, scan.sym, name)
           /\ \A x \in DOMAIN h : scan.heap[x] = h[x]
           /\ symtab[<<scope, name>>] # NULL => scan.heap = h
           /\ symtab[<<scope, name>>] = NULL => /\ scan.sym = Len(h) + 1
                                            /\ scan.heap[scan.sym] = Symbol(name, type)
                                            /\ Len(scan.heap) = Len(h) + 1
<1> DEFINE s == symtab[<<scope, name>>]
<1>1. /\ s \in 0 .. Len(heap) /\ scope \in Scope
      /\ s # NULL => s \in DOMAIN heap /\ heap[s].name = name
  <2>1. scope \in Scope
    BY DEF Lexed
  <2> QED BY <2>1, LexedFacts
<1>2. /\ Len(heap) \in Nat /\ DOMAIN heap = 1 .. Len(heap)
      /\ Len(h) \in Nat /\ DOMAIN h = 1 .. Len(h) /\ DOMAIN heap \subseteq DOMAIN h
      /\ Len(heap) <= Len(h) /\ h \in Heaps
      /\ \A x \in DOMAIN heap : h[x] = heap[x]
  <2>1. Len(heap) <= Len(h) /\ h \in Heaps
    BY DEF Grown
  <2> QED BY <2>1, GrownFacts
<1>3. CASE s # NULL
  <2>1. scan.heap = h /\ scan.sym = s
    BY <1>3 DEF Scan
  <2>2. Given(scan.heap, scan.sym, name)
    BY <1>1, <1>2, <1>3, <2>1 DEF Given
  <2>3. Grown(scan.heap, type)
    BY <2>1, Zenon
  <2>4. Len(h) <= Len(scan.heap) /\ \A x \in DOMAIN h : scan.heap[x] = h[x]
    BY <1>2, <2>1
  <2> QED BY <1>3, <2>1, <2>2, <2>3, <2>4
<1>4. CASE s = NULL
  <2> DEFINE g == Append(h, Symbol(name, type))
  <2>1. scan.heap = g /\ scan.sym = Len(h) + 1
    BY <1>4 DEF Scan
  <2>2. /\ g \in Heaps /\ Len(g) = Len(h) + 1
        /\ \A x \in DOMAIN h : g[x] = h[x]
        /\ g[Len(h) + 1] = Symbol(name, type)
    BY <1>2, AppendHeap
  <2> HIDE DEF g
  <2>3. DOMAIN g = 1 .. Len(h) + 1
    BY <2>2, HeapFacts
  <2>4. Grown(g, type)
    <3>1. \A x \in DOMAIN heap : g[x] = heap[x]
      BY <1>2, <2>2
    <3>2. ASSUME NEW x \in DOMAIN g \ DOMAIN heap
          PROVE  \E m \in Name : g[x] = Symbol(m, type)
      <4>1. CASE x = Len(h) + 1
        BY <2>2, <4>1
      <4>2. CASE x # Len(h) + 1
        <5>1. x \in DOMAIN h /\ x \notin DOMAIN heap
          BY <1>2, <2>3, <4>2
        <5>2. g[x] = h[x]
          BY <2>2, <5>1
        <5> QED BY <5>1, <5>2 DEF Grown
      <4> QED BY <4>1, <4>2
    <3> QED BY <1>2, <2>2, <3>1, <3>2 DEF Grown
  <2>5. Given(g, Len(h) + 1, name)
    <3>1. g[Len(h) + 1].name = name
      BY <2>2 DEF Symbol
    <3>2. Len(h) + 1 \in DOMAIN g /\ Len(h) + 1 \notin DOMAIN heap
      BY <1>2, <2>3
    <3> QED BY <1>4, <3>1, <3>2 DEF Given
  <2> QED BY <1>2, <1>4, <2>1, <2>2, <2>4, <2>5
<1> QED BY <1>3, <1>4

\* The steps of the lexer through a list of names.
ScanStep(l, name) ==
    LET one == Scan(l.heap, name, "VOID")
    IN  [heap |-> one.heap, syms |-> Append(l.syms, one.sym)]

\* What the recursion in ScanAll passes on.
Scans == [heap : Heaps, syms : Seq(Nat)]

\* The intermediate results of ScanAll.
IsScanning(names, scan) ==
    /\ scan \in [0 .. Len(names) -> Scans]
    /\ scan[0] = [heap |-> heap, syms |-> << >>]
    /\ \A i \in 1 .. Len(names) : scan[i] = ScanStep(scan[i - 1], names[i])
    /\ ScanAll(names) = scan[Len(names)]

(* One step of ScanAll. *)
LEMMA ScanStepTyped ==
    ASSUME Lexed, NEW l \in Scans, NEW name \in Name
    PROVE  ScanStep(l, name) \in Scans
<1> DEFINE one == Scan(l.heap, name, "VOID")
           s == symtab[<<scope, name>>]
<1>1. s \in Nat /\ l.heap \in Heaps /\ l.syms \in Seq(Nat)
  <2>1. scope \in Scope /\ Len(heap) \in Nat
    BY HeapFacts DEF Lexed
  <2>2. s \in 0 .. Len(heap)
    BY <2>1, LexedFacts
  <2> QED BY <2>1, <2>2 DEF Scans
<1>2. one.heap \in Heaps /\ one.sym \in Nat
  <2>1. CASE s # NULL
    BY <1>1, <2>1 DEF Scan
  <2>2. CASE s = NULL
    <3> DEFINE g == Append(l.heap, Symbol(name, "VOID"))
    <3>1. one.heap = g /\ one.sym = Len(l.heap) + 1
      BY <2>2 DEF Scan
    <3>2. g \in Heaps
      <4>1. "VOID" \in Type
        BY DEF Type
      <4> QED BY <1>1, <4>1, AppendHeap
    <3>3. Len(l.heap) \in Nat
      BY <1>1, HeapFacts
    <3> HIDE DEF g, one
    <3> QED BY <3>1, <3>2, <3>3
  <2> QED BY <2>1, <2>2
<1> HIDE DEF one
<1>3. Append(l.syms, one.sym) \in Seq(Nat)
  BY <1>1, <1>2
<1> QED BY <1>2, <1>3 DEF ScanStep, Scans, one

(* The recursion in ScanAll has a solution. *)
LEMMA ScanningExists ==
    ASSUME Lexed, NEW names \in Seq(Name)
    PROVE  \E scan : IsScanning(names, scan)
<1> DEFINE K == Len(names)
           A == Scans
           a == [heap |-> heap, syms |-> << >>]
           G == [n \in 1 .. K |-> [l \in A |-> ScanStep(l, names[n])]]
           P(scan) == scan = [i \in 0 .. Len(names) |->
                                IF i = 0 THEN [heap |-> heap, syms |-> << >>]
                                ELSE LET one == Scan(scan[i - 1].heap, names[i], "VOID")
                                     IN  [heap |-> one.heap,
                                          syms |-> Append(scan[i - 1].syms, one.sym)]]
<1>1. K \in Nat /\ \A i \in 1 .. K : names[i] \in Name
  OBVIOUS
<1>2. a \in A
  BY DEF Scans, Lexed
<1>3. \A n \in 1 .. K, l \in A : ScanStep(l, names[n]) \in A
  BY <1>1, ScanStepTyped
<1> HIDE DEF K, A, a
<1>4. G \in [1 .. K -> [A -> A]]
  BY <1>3
<1>5. \A n \in 1 .. K, l \in A : G[n][l] = ScanStep(l, names[n])
  OBVIOUS
<1> HIDE DEF G
<1>6. \E f \in [0 .. K -> A] : Solves(f, K, a, G)
  BY <1>1, <1>2, <1>4, RecursionExists
<1>7. PICK f \in [0 .. K -> A] : f[0] = a /\ \A n \in 1 .. K : f[n] = G[n][f[n - 1]]
  BY <1>6 DEF Solves
<1>8. ASSUME NEW n \in 1 .. K
      PROVE  f[n] = ScanStep(f[n - 1], names[n])
  <2>1. n - 1 \in 0 .. K
    BY <1>1
  <2>2. f[n - 1] \in A
    BY <2>1
  <2> QED BY <1>5, <1>7, <2>2
<1>9. P(f)
  <2>1. ASSUME NEW n \in 0 .. K
        PROVE  f[n] = IF n = 0 THEN a ELSE ScanStep(f[n - 1], names[n])
    <3>1. n = 0 \/ (n \in 1 .. K /\ n # 0)
      BY <1>1
    <3> QED BY <1>7, <1>8, <3>1
  <2>2. f = [n \in 0 .. K |-> f[n]]
    BY <1>7
  <2>3. f = [n \in 0 .. K |-> IF n = 0 THEN a ELSE ScanStep(f[n - 1], names[n])]
    BY <2>1, <2>2
  <2> QED BY <2>3 DEF K, a, ScanStep
<1> DEFINE g == CHOOSE scan : P(scan)
<1>10. P(g)
  <2> HIDE DEF P
  <2> QED BY <1>9
<1>11. ScanAll(names) = g[K]
  BY DEF ScanAll, K
<1> HIDE DEF g
<1>12. g = [n \in 0 .. K |-> IF n = 0 THEN a ELSE ScanStep(g[n - 1], names[n])]
  BY <1>10 DEF K, a, ScanStep
<1> HIDE DEF P
<1> DEFINE e(n) == IF n = 0 THEN a ELSE ScanStep(g[n - 1], names[n])
<1>13. /\ DOMAIN g = 0 .. K /\ g[0] = a
       /\ \A n \in 1 .. K : g[n] = ScanStep(g[n - 1], names[n])
       /\ g = [n \in 0 .. K |-> g[n]]
  <2>1. g = [n \in 0 .. K |-> e(n)]
    BY <1>12
  <2>e. e(0) = a /\ \A n \in 1 .. K : e(n) = ScanStep(g[n - 1], names[n])
    OBVIOUS
  <2> HIDE DEF e
  <2>2. DOMAIN g = 0 .. K /\ \A n \in 0 .. K : g[n] = e(n)
    BY <2>1
  <2>3. g = [n \in 0 .. K |-> g[n]]
    BY <2>1, <2>2
  <2>4. 0 \in 0 .. K /\ \A n \in 1 .. K : n \in 0 .. K
    BY <1>1
  <2> QED BY <2>2, <2>3, <2>4, <2>e
<1> DEFINE T == {n \in 0 .. K : g[n] \in A}
<1>14. \A n \in 0 .. K : n \in T
  <2>1. 0 \in T
    BY <1>1, <1>2, <1>13
  <2>2. ASSUME NEW n \in 1 .. K, n - 1 \in T
        PROVE  n \in T
    <3>1. g[n - 1] \in A
      BY <2>2
    <3>2. g[n] \in A
      BY <1>3, <1>13, <3>1
    <3> QED BY <1>1, <3>2
  <2> HIDE DEF T
  <2> QED BY <1>1, <2>1, <2>2, UpTo
<1>15. g \in [0 .. K -> A]
  BY <1>13, <1>14
<1>16. IsScanning(names, g)
  BY <1>11, <1>13, <1>15 DEF IsScanning, K, A, a
<1> QED BY <1>16

(* The lexer gives a symbol for each name, and new ones in their order.      *)
LEMMA ScanAllFacts ==
    ASSUME Lexed, NEW names \in Seq(Name), NEW scan, scan = ScanAll(names)
    PROVE  /\ Grown(scan.heap, "VOID")
           /\ scan.syms \in Seq(DOMAIN scan.heap) /\ Len(scan.syms) = Len(names)
           /\ \A i \in 1 .. Len(names) : Given(scan.heap, scan.syms[i], names[i])
           /\ \A i, j \in 1 .. Len(names) :
                 i < j /\ scan.syms[j] \notin DOMAIN heap => scan.syms[i] < scan.syms[j]
<1>1. PICK all : IsScanning(names, all)
  BY ScanningExists
<1> DEFINE K == Len(names)
           Good(l, n) ==
              /\ Grown(l.heap, "VOID")
              /\ l.syms \in Seq(Nat) /\ Len(l.syms) = n
              /\ \A i \in 1 .. n : Given(l.heap, l.syms[i], names[i])
              /\ \A i, j \in 1 .. n :
                    i < j /\ l.syms[j] \notin DOMAIN heap => l.syms[i] < l.syms[j]
           T == {n \in 0 .. K : Good(all[n], n)}
<1>2. K \in Nat /\ \A i \in 1 .. K : names[i] \in Name
  OBVIOUS
<1>3. /\ \A n \in 0 .. K : all[n] \in Scans
      /\ all[0] = [heap |-> heap, syms |-> << >>]
      /\ \A n \in 1 .. K : all[n] = ScanStep(all[n - 1], names[n])
      /\ scan = all[K]
  BY <1>1 DEF IsScanning
<1> HIDE DEF K
<1>4. Good(all[0], 0)
  <2>1. Grown(heap, "VOID")
    BY HeapFacts DEF Grown, Lexed
  <2>2. all[0].heap = heap /\ all[0].syms = << >>
    BY <1>3
  <2>3. << >> \in Seq(Nat) /\ Len(<< >>) = 0
    OBVIOUS
  <2>4. Grown(all[0].heap, "VOID")
    BY <2>1, <2>2, Zenon
  <2>5. \A i \in 1 .. 0 : FALSE
    OBVIOUS
  <2> QED BY <2>2, <2>3, <2>4, <2>5
<1>5. ASSUME NEW n \in 1 .. K, Good(all[n - 1], n - 1)
      PROVE  Good(all[n], n)
  <2> DEFINE h == all[n - 1].heap
             syms == all[n - 1].syms
             one == Scan(h, names[n], "VOID")
             next == Append(syms, one.sym)
  <2>1. /\ Grown(h, "VOID")
        /\ syms \in Seq(Nat) /\ Len(syms) = n - 1
        /\ \A i \in 1 .. n - 1 : Given(h, syms[i], names[i])
        /\ \A i, j \in 1 .. n - 1 :
              i < j /\ syms[j] \notin DOMAIN heap => syms[i] < syms[j]
    BY <1>5
  <2>2. all[n].heap = one.heap /\ all[n].syms = next
    <3>1. all[n] = ScanStep(all[n - 1], names[n])
      BY <1>3
    <3> QED BY <3>1 DEF ScanStep
  <2> HIDE DEF h, syms
  <2>3. /\ Grown(one.heap, "VOID") /\ Len(h) <= Len(one.heap)
        /\ Given(one.heap, one.sym, names[n])
        /\ \A x \in DOMAIN h : one.heap[x] = h[x]
        /\ symtab[<<scope, names[n]>>] = NULL => one.sym = Len(h) + 1
    <3>1. "VOID" \in Type
      BY DEF Type
    <3>2. names[n] \in Name
      BY <1>2
    <3> HIDE DEF one
    <3> QED BY <2>1, <3>1, <3>2, ScanFacts DEF one
  <2>4. /\ Len(h) \in Nat /\ DOMAIN h = 1 .. Len(h)
        /\ Len(one.heap) \in Nat /\ DOMAIN one.heap = 1 .. Len(one.heap)
        /\ Len(heap) \in Nat /\ DOMAIN heap = 1 .. Len(heap)
    BY <2>1, <2>3, GrownFacts
  <2> HIDE DEF one
  <2>5. one.sym \in Nat /\ one.sym \in DOMAIN one.heap
    BY <2>3, <2>4 DEF Given
  <2>6. /\ next \in Seq(Nat) /\ Len(next) = n
        /\ next[n] = one.sym /\ \A i \in 1 .. n - 1 : next[i] = syms[i]
    BY <1>2, <2>1, <2>5
  <2> HIDE DEF next
  <2>7. ASSUME NEW i \in 1 .. n
        PROVE  Given(one.heap, next[i], names[i])
    <3>1. CASE i = n
      BY <2>3, <2>6, <3>1, Zenon
    <3>2. CASE i # n
      <4>1. i \in 1 .. n - 1
        BY <3>2
      <4>2. Given(h, syms[i], names[i]) /\ next[i] = syms[i]
        BY <2>1, <2>6, <4>1
      <4>3. one.heap[syms[i]] = h[syms[i]] /\ syms[i] \in DOMAIN one.heap
        BY <2>3, <2>4, <4>2 DEF Given
      <4>4. Given(one.heap, syms[i], names[i])
        BY <4>2, <4>3 DEF Given
      <4> QED BY <4>2, <4>4
    <3> QED BY <3>1, <3>2
  <2>8. ASSUME NEW i \in 1 .. n, NEW j \in 1 .. n, i < j, next[j] \notin DOMAIN heap
        PROVE  next[i] < next[j]
    <3>0. i \in 1 .. n - 1
      BY <2>8
    <3>1. CASE j = n
      <4>1. next[j] = one.sym /\ next[i] = syms[i]
        BY <2>6, <3>0, <3>1
      <4>2. symtab[<<scope, names[n]>>] = NULL
        <5>1. one.sym \notin DOMAIN heap
          BY <2>8, <4>1
        <5>2. scope \in Scope /\ names[n] \in Name
          BY <1>2 DEF Lexed
        <5>3. symtab[<<scope, names[n]>>] # NULL => symtab[<<scope, names[n]>>] \in DOMAIN heap
          BY <5>2, LexedFacts
        <5> QED BY <2>3, <5>1, <5>3 DEF Given
      <4>3. syms[i] \in DOMAIN h
        BY <2>1, <3>0 DEF Given
      <4> QED BY <2>3, <2>4, <4>1, <4>2, <4>3
    <3>2. CASE j # n
      <4>1. j \in 1 .. n - 1
        BY <3>2
      <4> QED BY <2>1, <2>6, <2>8, <3>0, <4>1
    <3> QED BY <3>1, <3>2
  <2> QED BY <2>2, <2>3, <2>6, <2>7, <2>8
<1>6. \A n \in 0 .. K : n \in T
  <2>1. 0 \in T
    BY <1>2, <1>4
  <2>2. ASSUME NEW n \in 1 .. K, n - 1 \in T
        PROVE  n \in T
    <3>1. Good(all[n - 1], n - 1)
      BY <2>2
    <3>2. Good(all[n], n)
      BY <1>5, <3>1
    <3> HIDE DEF Good
    <3> QED BY <1>2, <3>2
  <2> HIDE DEF T
  <2> QED BY <1>2, <2>1, <2>2, UpTo
<1>7. Good(scan, K)
  <2> HIDE DEF Good
  <2>1. K \in T
    BY <1>2, <1>6
  <2> QED BY <1>3, <2>1
<1>8. \A i \in 1 .. K : scan.syms[i] \in DOMAIN scan.heap
  BY <1>7 DEF Given
<1>9. scan.syms \in Seq(DOMAIN scan.heap)
  BY <1>2, <1>7, <1>8
<1> QED BY <1>7, <1>9 DEF K

-----------------------------------------------------------------------------
(* What a step may change in the symbols.                                   *)

\* The type and the place of the declaration are kept.
Kept(r) == r.marks \cap {"member", "field", "call"} = {} => r.type = r.decl /\ r.place = "own"

\* The number of parameters that was counted is the one in the declaration.
Counted(r) ==
    /\ r.kind # "FUNCTION" => r.arity = 0
    /\ r.arity # -1 => r.n_param = r.arity

\* What every step keeps of a symbol.
SameRole(r, q) ==
    /\ q.name = r.name
    /\ r.marks \subseteq q.marks
    /\ r.kind = "FUNCTION" => q.kind = "FUNCTION"
    /\ Kept(r) => Kept(q)
    /\ Counted(r) => Counted(q)

\* What every step keeps of the heap.
Evolves(h, g) ==
    /\ g \in Heaps /\ Len(h) <= Len(g)
    /\ \A x \in DOMAIN h : SameRole(h[x], g[x])
    /\ \A x \in DOMAIN g \ DOMAIN h : Kept(g[x]) /\ Counted(g[x])

\* The type objects that symbols refer to are there.
Pointed(h) == Len(types) \in Nat /\ \A x \in DOMAIN h : h[x].type_ptr <= Len(types)

\* A link is kept, or the symbol is marked as one of a list that was disturbed.
LinksKept(h, g) ==
    \A x \in DOMAIN h : g[x].next = h[x].next \/ g[x].marks \cap {"arg", "field"} # {}

\* A new link goes to a symbol of the table or to a new one.
Reach(h, g) ==
    \A x \in DOMAIN g :
        \/ x \in DOMAIN h /\ g[x].next = h[x].next
        \/ g[x].next \notin DOMAIN h
        \/ \E key \in DOMAIN symtab : g[x].next = symtab[key]

\* No list has named a symbol again.
Unmarked(h) == \A x \in DOMAIN h : h[x].marks \cap {"again", "twice"} = {}

\* A heap that a step inside or outside of a function may leave.
Stepped(g) ==
    /\ Evolves(heap, g)
    /\ Pointed(g)
    /\ LinksKept(heap, g)
    /\ Reach(heap, g)
    /\ Unmarked(g) /\ Ranked(heap) => Ranked(g)

(* What two steps keep is kept by both together. *)
LEMMA EvolvesTwice ==
    ASSUME NEW h \in Heaps, NEW g, NEW k, Evolves(h, g), Evolves(g, k)
    PROVE  Evolves(h, k)
<1>1. /\ Len(h) \in Nat /\ DOMAIN h = 1 .. Len(h) /\ Len(g) \in Nat /\ DOMAIN g = 1 .. Len(g)
      /\ Len(k) \in Nat /\ DOMAIN k = 1 .. Len(k) /\ k \in Heaps
      /\ Len(h) <= Len(g) /\ Len(g) <= Len(k)
  BY HeapFacts DEF Evolves
<1>2. ASSUME NEW x \in DOMAIN h
      PROVE  SameRole(h[x], k[x])
  <2>1. SameRole(h[x], g[x])
    BY DEF Evolves
  <2>2. SameRole(g[x], k[x])
    BY <1>1 DEF Evolves
  <2> QED BY <2>1, <2>2 DEF SameRole
<1>3. ASSUME NEW x \in DOMAIN k, x \notin DOMAIN h
      PROVE  Kept(k[x]) /\ Counted(k[x])
  <2>1. CASE x \in DOMAIN g
    <3>1. Kept(g[x]) /\ Counted(g[x]) /\ SameRole(g[x], k[x])
      BY <1>3, <2>1 DEF Evolves
    <3> QED BY <3>1 DEF SameRole
  <2>2. CASE x \notin DOMAIN g
    BY <2>2 DEF Evolves
  <2> QED BY <2>1, <2>2
<1> QED BY <1>1, <1>2, <1>3 DEF Evolves

(* A symbol with another link has the role that it had. *)
LEMMA SameRoleNext ==
    ASSUME NEW r, NEW q, SameButNext(r, q)
    PROVE  SameRole(r, q)
BY DEF SameButNext, SameRole, Kept, Counted

(* Changes of links keep all symbols to their declarations. *)
LEMMA RelinkedEvolves ==
    ASSUME NEW h, NEW g, Relinked(h, g)
    PROVE  Evolves(h, g)
<1>1. \A x \in DOMAIN h : SameRole(h[x], g[x])
  BY SameRoleNext DEF Relinked
<1>2. DOMAIN g = DOMAIN h /\ Len(g) = Len(h) /\ g \in Heaps
  BY DEF Relinked
<1>3. Len(g) \in Nat
  BY <1>2, HeapFacts
<1> QED BY <1>1, <1>2, <1>3 DEF Evolves

(* A new symbol is one that nothing has happened to.                         *)
LEMMA SymbolNew ==
    ASSUME NEW name, NEW type
    PROVE  /\ Kept(Symbol(name, type)) /\ Counted(Symbol(name, type))
           /\ Symbol(name, type).next = NULL /\ Symbol(name, type).type_ptr = 0
           /\ Symbol(name, type).marks = {} /\ Symbol(name, type).name = name
BY DEF Symbol, Kept, Counted, NULL

\* Two symbols that differ in their marks at most.
Marked(r, q) ==
    /\ q.name = r.name /\ q.type = r.type /\ q.kind = r.kind /\ q.next = r.next
    /\ q.n_param = r.n_param /\ q.type_ptr = r.type_ptr /\ q.place = r.place
    /\ q.decl = r.decl /\ q.arity = r.arity /\ r.marks \subseteq q.marks

(* A symbol with more marks has the role that it had. *)
LEMMA MarkedRole ==
    ASSUME NEW r, NEW q, Marked(r, q)
    PROVE  SameRole(r, q)
BY DEF Marked, SameRole, Kept, Counted

(* A symbol with more marks is a symbol. *)
LEMMA MarkSymbol ==
    ASSUME NEW r \in SymbolRec,
           NEW m, m \subseteq {"member", "field", "call", "arg", "twice", "again"}
    PROVE  /\ [r EXCEPT !.marks = @ \cup m] \in SymbolRec
           /\ Marked(r, [r EXCEPT !.marks = @ \cup m])
           /\ [r EXCEPT !.marks = @ \cup m].marks = r.marks \cup m
BY DEF SymbolRec, Marked

\* A heap with more marks.
Remarked(h, g) ==
    /\ g \in Heaps
    /\ Len(g) = Len(h) /\ DOMAIN g = DOMAIN h
    /\ \A x \in DOMAIN h : Marked(h[x], g[x])

(* More marks on the symbols of a heap keep them to their declarations. *)
LEMMA RemarkedIntro ==
    ASSUME NEW h \in Heaps, NEW g, DOMAIN g = DOMAIN h, g = [x \in DOMAIN h |-> g[x]],
           \A x \in DOMAIN h : g[x] \in SymbolRec /\ Marked(h[x], g[x])
    PROVE  Remarked(h, g) /\ Evolves(h, g)
<1>1. /\ Len(h) \in Nat /\ DOMAIN h = 1 .. Len(h)
      /\ \A x \in DOMAIN h : h[x].next \in 0 .. Len(h)
  BY HeapFacts DEF Pointers
<1>2. \A x \in DOMAIN h : g[x].next \in 0 .. Len(h)
  BY <1>1 DEF Marked
<1>3. g \in [1 .. Len(h) -> SymbolRec]
  BY <1>1
<1>4. g \in Heaps /\ Len(g) = Len(h)
  BY <1>1, <1>2, <1>3, HeapIntro
<1>5. \A x \in DOMAIN h : SameRole(h[x], g[x])
  BY MarkedRole
<1>6. Remarked(h, g)
  BY <1>4 DEF Remarked
<1> QED BY <1>1, <1>4, <1>5, <1>6 DEF Evolves

(* Again marks the symbols that a list has named again, and no other ones. *)
LEMMA AgainFacts ==
    ASSUME NEW h \in Heaps, NEW syms
    PROVE  /\ Remarked(h, Again(h, syms)) /\ Evolves(h, Again(h, syms))
           /\ \A x \in DOMAIN h : x \in Reused(syms) => "again" \in Again(h, syms)[x].marks
           /\ \A x \in DOMAIN h : x \notin Reused(syms) => Again(h, syms)[x] = h[x]
<1> DEFINE g == Again(h, syms)
           m(x) == [h[x] EXCEPT !.marks = @ \cup {"again"}]
<1>1. g = [x \in DOMAIN h |-> IF x \in Reused(syms) THEN m(x) ELSE h[x]]
  BY DEF Again
<1>2. \A x \in DOMAIN h : h[x] \in SymbolRec
  BY HeapFacts
<1>3. ASSUME NEW x \in DOMAIN h
      PROVE  m(x) \in SymbolRec /\ Marked(h[x], m(x)) /\ "again" \in m(x).marks
  <2> DEFINE mark == {"again"}
  <2>1. mark \subseteq {"member", "field", "call", "arg", "twice", "again"} /\ "again" \in mark
    OBVIOUS
  <2>2. m(x) = [h[x] EXCEPT !.marks = @ \cup mark]
    OBVIOUS
  <2> HIDE DEF mark
  <2>3. m(x) \in SymbolRec /\ Marked(h[x], m(x)) /\ m(x).marks = h[x].marks \cup mark
    BY <1>2, <2>1, <2>2, MarkSymbol
  <2> QED BY <2>1, <2>3
<1>4. \A x \in DOMAIN h : Marked(h[x], h[x])
  BY DEF Marked
<1> HIDE DEF m, g
<1>5. /\ DOMAIN g = DOMAIN h /\ g = [x \in DOMAIN h |-> g[x]]
      /\ \A x \in DOMAIN h : g[x] = IF x \in Reused(syms) THEN m(x) ELSE h[x]
  BY <1>1
<1>6. \A x \in DOMAIN h : g[x] \in SymbolRec /\ Marked(h[x], g[x])
  BY <1>2, <1>3, <1>4, <1>5
<1>7. Remarked(h, g) /\ Evolves(h, g)
  BY <1>5, <1>6, RemarkedIntro
<1> QED BY <1>3, <1>5, <1>7 DEF g

(* More marks change no link.                                                *)
LEMMA RemarkedRanked ==
    ASSUME NEW h, NEW g, Remarked(h, g), Ranked(h)
    PROVE  Ranked(g)
<1>1. DOMAIN g = DOMAIN h /\ \A x \in DOMAIN h : g[x].next = h[x].next
  BY DEF Remarked, Marked
<1>2. PICK r \in [DOMAIN h -> Nat] : IsRank(h, r)
  BY DEF Ranked
<1>3. IsRank(g, r)
  BY <1>1, <1>2 DEF IsRank
<1> QED BY <1>1, <1>2, <1>3 DEF Ranked

(* The marks of Again are a step that the invariants allow. *)
LEMMA AgainStepped ==
    ASSUME Lexed, Pointed(heap), NEW syms
    PROVE  Stepped(Again(heap, syms))
<1> DEFINE g == Again(heap, syms)
<1>1. Remarked(heap, g) /\ Evolves(heap, g)
  BY AgainFacts DEF Lexed
<1> HIDE DEF g
<1>2. DOMAIN g = DOMAIN heap /\ \A x \in DOMAIN heap : Marked(heap[x], g[x])
  BY <1>1 DEF Remarked
<1>3. \A x \in DOMAIN heap : g[x].next = heap[x].next /\ g[x].type_ptr = heap[x].type_ptr
  BY <1>2 DEF Marked
<1>4. Pointed(g) /\ LinksKept(heap, g) /\ Reach(heap, g)
  BY <1>2, <1>3 DEF Pointed, LinksKept, Reach
<1>5. Ranked(heap) => Ranked(g)
  BY <1>1, RemarkedRanked
<1> QED BY <1>1, <1>4, <1>5 DEF Stepped, g

-----------------------------------------------------------------------------
(* Declarators and members.                                                 *)

(* Ranks depend on the links alone. *)
LEMMA RankedSame ==
    ASSUME NEW h, NEW g, DOMAIN g = DOMAIN h, \A x \in DOMAIN h : g[x].next = h[x].next, Ranked(h)
    PROVE  Ranked(g)
<1>1. PICK r \in [DOMAIN h -> Nat] : IsRank(h, r)
  BY DEF Ranked
<1>2. IsRank(g, r)
  BY <1>1 DEF IsRank
<1> QED BY <1>1, <1>2 DEF Ranked

(* A walk looks at the links only.                                           *)
LEMMA WalkSame ==
    ASSUME NEW h, Pointers(h), NEW g, Pointers(g), Len(g) = Len(h), NEW s \in 0 .. Len(h),
           \A x \in DOMAIN h : g[x].next = h[x].next
    PROVE  Endless(g, s) = Endless(h, s) /\ Chain(g, s) = Chain(h, s)
<1> DEFINE N == Len(h)
           v == Walk(h, s)
           w == Walk(g, s)
           T == {n \in 0 .. N : w[n] = v[n]}
<1>1. IsWalk(h, s, v) /\ IsWalk(g, s, w)
  BY WalkFacts
<1>2. N \in Nat /\ DOMAIN h = 1 .. N
  BY DEF Pointers
<1> HIDE DEF v, w
<1>3. /\ v \in [0 .. N -> 0 .. N] /\ w \in [0 .. N -> 0 .. N] /\ v[0] = s /\ w[0] = s
      /\ \A n \in 1 .. N : v[n] = IF v[n - 1] = NULL THEN NULL ELSE h[v[n - 1]].next
      /\ \A n \in 1 .. N : w[n] = IF w[n - 1] = NULL THEN NULL ELSE g[w[n - 1]].next
  BY <1>1 DEF IsWalk
<1> HIDE DEF N
<1>4. \A n \in 0 .. N : n \in T
  <2>1. 0 \in T
    BY <1>2, <1>3
  <2>2. ASSUME NEW n \in 1 .. N, n - 1 \in T
        PROVE  n \in T
    <3>1. w[n - 1] = v[n - 1] /\ v[n - 1] \in 0 .. N
      BY <1>2, <1>3, <2>2
    <3>2. v[n - 1] # NULL => g[v[n - 1]].next = h[v[n - 1]].next
      BY <1>2, <3>1 DEF NULL
    <3>3. w[n] = v[n]
      <4>1. CASE v[n - 1] = NULL
        BY <1>3, <3>1, <4>1
      <4>2. CASE v[n - 1] # NULL
        BY <1>3, <3>1, <3>2, <4>2
      <4> QED BY <4>1, <4>2
    <3> QED BY <1>2, <3>3
  <2> HIDE DEF T
  <2> QED BY <1>2, <2>1, <2>2, UpTo
<1>5. w = v
  <2>1. w = [n \in 0 .. N |-> w[n]] /\ v = [n \in 0 .. N |-> v[n]]
    BY <1>3
  <2>2. \A n \in 0 .. N : w[n] = v[n]
    BY <1>4
  <2> QED BY <2>1, <2>2
<1> QED BY <1>5 DEF Endless, Chain, N, v, w

(* New symbols are not linked, and each is given once.                       *)
LEMMA NewSyms ==
    ASSUME Lexed, NEW names \in Seq(Name), NEW scan, scan = ScanAll(names),
           Range(scan.syms) \cap DOMAIN heap = {}
    PROVE  Fresh(scan.heap, scan.syms)
<1> DEFINE K == Len(names)
           syms == scan.syms
<1>1. /\ Grown(scan.heap, "VOID")
      /\ syms \in Seq(DOMAIN scan.heap) /\ Len(syms) = K
      /\ \A i, j \in 1 .. K : i < j /\ syms[j] \notin DOMAIN heap => syms[i] < syms[j]
  BY ScanAllFacts
<1> HIDE DEF syms
<1>2. /\ K \in Nat /\ DOMAIN syms = 1 .. K
      /\ \A i \in 1 .. K : syms[i] \in DOMAIN scan.heap /\ syms[i] \in Range(syms)
  BY <1>1 DEF Range
<1>3. \A i \in 1 .. K : syms[i] \notin DOMAIN heap
  BY <1>2 DEF syms
<1>4. DOMAIN scan.heap = 1 .. Len(scan.heap)
  BY <1>1, GrownFacts
<1>5. ASSUME NEW i \in 1 .. K, NEW j \in 1 .. K, syms[i] = syms[j]
      PROVE  i = j
  <2>1. syms[i] \in Int /\ syms[j] \in Int
    BY <1>2, <1>4
  <2>2. ~ (i < j) /\ ~ (j < i)
    BY <1>1, <1>3, <1>5, <2>1
  <2> QED BY <1>2, <2>2
<1>6. ASSUME NEW i \in 1 .. K
      PROVE  scan.heap[syms[i]].next = NULL
  <2>1. PICK m \in Name : scan.heap[syms[i]] = Symbol(m, "VOID")
    BY <1>1, <1>2, <1>3 DEF Grown
  <2> QED BY <2>1, SymbolNew
<1>7. IsInjective(syms)
  BY <1>2, <1>5 DEF IsInjective
<1> QED BY <1>2, <1>6, <1>7 DEF Fresh, syms

(* Symbols that the lexer adds have no links and no marks. *)
LEMMA GrownEvolves ==
    ASSUME Lexed, Pointed(heap), NEW type, NEW h, Grown(h, type)
    PROVE  /\ Evolves(heap, h) /\ Pointed(h)
           /\ \A x \in DOMAIN h \ DOMAIN heap : h[x].next = NULL /\ h[x].marks = {}
           /\ Ranked(heap) => Ranked(h)
<1>1. /\ h \in Heaps /\ Len(heap) <= Len(h) /\ DOMAIN heap \subseteq DOMAIN h
      /\ \A x \in DOMAIN heap : h[x] = heap[x]
  BY GrownFacts DEF Grown
<1>2. ASSUME NEW x \in DOMAIN h \ DOMAIN heap
      PROVE  /\ Kept(h[x]) /\ Counted(h[x]) /\ h[x].type_ptr = 0 /\ h[x].next = NULL
             /\ h[x].marks = {}
  <2>1. PICK name \in Name : h[x] = Symbol(name, type)
    BY DEF Grown
  <2> DEFINE s == Symbol(name, type)
  <2>2. Kept(s) /\ Counted(s) /\ s.next = NULL /\ s.type_ptr = 0 /\ s.marks = {}
    BY SymbolNew
  <2>3. h[x] = s
    BY <2>1
  <2> HIDE DEF s
  <2> QED BY <2>2, <2>3
<1>3. \A r : SameRole(r, r)
  BY DEF SameRole
<1>4. Evolves(heap, h)
  BY <1>1, <1>2, <1>3 DEF Evolves
<1>5. Pointed(h)
  <2> SUFFICES ASSUME NEW x \in DOMAIN h PROVE h[x].type_ptr <= Len(types)
    BY DEF Pointed
  <2>1. CASE x \in DOMAIN heap
    BY <1>1, <2>1 DEF Pointed
  <2>2. CASE x \notin DOMAIN heap
    <3>1. Len(types) \in Nat
      BY DEF Pointed
    <3> QED BY <1>2, <2>2, <3>1
  <2> QED BY <2>1, <2>2
<1>6. Ranked(heap) => Ranked(h)
  <2>1. Pointers(heap) /\ Pointers(h)
    BY <1>1, HeapFacts DEF Lexed
  <2> QED BY <1>1, <1>2, <2>1, RankedExtended
<1> QED BY <1>2, <1>4, <1>5, <1>6

\* The lists of declarators and members that the lexer and id_list make.
Listed(names, scan, list) ==
    /\ names \in Seq(Name) /\ names # << >>
    /\ scan = ScanAll(names)
    /\ list = ListOf(scan.heap, scan.syms)

(* What the lexer and id_list make of a list of names. *)
LEMMA ListedFacts ==
    ASSUME Lexed, NEW names, NEW scan, NEW list, Listed(names, scan, list)
    PROVE  /\ Grown(scan.heap, "VOID") /\ scan.heap \in Heaps
           /\ scan.syms \in Seq(DOMAIN scan.heap) /\ Len(scan.syms) = Len(names)
           /\ scan.syms # << >> /\ scan.syms[1] \in DOMAIN scan.heap
           /\ Relinked(scan.heap, list.heap) /\ list.endless \in BOOLEAN
           /\ list.heap \in Heaps /\ DOMAIN list.heap = DOMAIN scan.heap
           /\ \A x \in DOMAIN scan.heap :
                 list.heap[x].next \in {scan.heap[x].next} \cup Range(scan.syms)
           /\ Len(scan.syms) = 1 => list = [heap |-> scan.heap, endless |-> FALSE]
<1>1. /\ Grown(scan.heap, "VOID")
      /\ scan.syms \in Seq(DOMAIN scan.heap) /\ Len(scan.syms) = Len(names)
  BY ScanAllFacts DEF Listed
<1>2. scan.syms # << >> /\ scan.syms[1] \in DOMAIN scan.heap
  <2>1. Len(names) # 0 /\ Len(names) \in Nat
    BY DEF Listed
  <2> QED BY <1>1, <2>1
<1>3. scan.heap \in Heaps
  BY <1>1 DEF Grown
<1>4. /\ list \in Lists(Len(scan.heap))
      /\ Relinked(scan.heap, list.heap)
      /\ \A x \in DOMAIN scan.heap :
            list.heap[x].next \in {scan.heap[x].next} \cup Range(scan.syms)
      /\ Len(scan.syms) = 1 => list = [heap |-> scan.heap, endless |-> FALSE]
  BY <1>1, <1>2, <1>3, ListOfFacts DEF Listed
<1>5. list.endless \in BOOLEAN
  BY <1>4 DEF Lists
<1>6. list.heap \in Heaps /\ DOMAIN list.heap = DOMAIN scan.heap
  BY <1>4 DEF Relinked
<1> QED BY <1>1, <1>2, <1>3, <1>4, <1>5, <1>6

(* A list that names no symbol again has an end and links no circle.         *)
LEMMA Unreused ==
    ASSUME Lexed, Pointed(heap), NEW names, NEW scan, NEW list, Listed(names, scan, list),
           Reused(scan.syms) = {}
    PROVE  list.endless = FALSE /\ (Ranked(heap) => Ranked(list.heap))
<1>1. /\ Grown(scan.heap, "VOID") /\ scan.heap \in Heaps
      /\ scan.syms \in Seq(DOMAIN scan.heap) /\ scan.syms # << >>
      /\ list.heap \in Heaps /\ DOMAIN list.heap = DOMAIN scan.heap
      /\ Len(scan.syms) = 1 => list = [heap |-> scan.heap, endless |-> FALSE]
  BY ListedFacts
<1>2. Ranked(heap) => Ranked(scan.heap)
  BY <1>1, GrownEvolves
<1>3. CASE Len(scan.syms) = 1
  <2>1. list.heap = scan.heap /\ list.endless = FALSE
    BY <1>1, <1>3
  <2> QED BY <1>2, <2>1
<1>4. CASE Len(scan.syms) # 1
  <2>1. Len(scan.syms) \in Nat /\ Len(scan.syms) # 0
    BY <1>1
  <2>2. Range(scan.syms) \cap DOMAIN heap = {}
    <3> DEFINE k == Len(scan.syms)
    <3>1. k > 1
      <4>1. k \in Nat /\ k # 0 /\ k # 1
        BY <1>4, <2>1
      <4> HIDE DEF k
      <4> QED BY <4>1
    <3>2. Reused(scan.syms) = Range(scan.syms) \cap DOMAIN heap
      BY <3>1 DEF Reused
    <3> QED BY <3>2
  <2>3. Fresh(scan.heap, scan.syms)
    BY <2>2, NewSyms DEF Listed
  <2>4. /\ list.endless = FALSE
        /\ IsChain(list.heap, scan.syms)
        /\ \A x \in DOMAIN scan.heap : x \notin Range(scan.syms) => list.heap[x] = scan.heap[x]
    BY <1>1, <2>3, FreshList, ZenonT(40) DEF Listed
  <2>5. Ranked(scan.heap) => Ranked(list.heap)
    <3>1. Pointers(scan.heap) /\ Pointers(list.heap)
      BY <1>1, HeapFacts
    <3>2. IsInjective(scan.syms)
      BY <2>3 DEF Fresh
    <3> QED BY <1>1, <2>4, <3>1, <3>2, RankedLinked
  <2> QED BY <1>2, <2>4, <2>5
<1> QED BY <1>3, <1>4

(* A walk of id_list or create_field that does not end marks a symbol.       *)
LEMMA ReusedMarked ==
    ASSUME Lexed, NEW syms, Reused(syms) # {}, NEW h \in Heaps, DOMAIN heap \subseteq DOMAIN h
    PROVE  ~ Unmarked(Again(h, syms))
<1>1. PICK x \in Reused(syms) : TRUE
  OBVIOUS
<1>2. x \in DOMAIN h
  BY <1>1 DEF Reused
<1>3. "again" \in Again(h, syms)[x].marks /\ DOMAIN Again(h, syms) = DOMAIN h
  BY <1>1, <1>2, AgainFacts DEF Remarked
<1> QED BY <1>2, <1>3 DEF Unmarked

\* What becomes of a symbol that is declared as a variable.
Variable(r, type) == [r EXCEPT !.type = type[1], !.decl = type[1], !.type_ptr = type[2]]

(* The symbol of a variable once its declaration has given it a type. *)
LEMMA VariableFacts ==
    ASSUME NEW r \in SymbolRec, NEW type \in Type \X Nat
    PROVE  /\ Variable(r, type) \in SymbolRec
           /\ Variable(r, type).next = r.next /\ Variable(r, type).name = r.name
           /\ Variable(r, type).type_ptr = type[2] /\ Variable(r, type).marks = r.marks
           /\ r.place = "own" => Kept(Variable(r, type))
           /\ Counted(r) => Counted(Variable(r, type))
<1>1. type[1] \in Type /\ type[2] \in Nat
  OBVIOUS
<1> QED BY <1>1 DEF Variable, SymbolRec, Kept, Counted

\* The heap after a declaration of variables.
VariablesIn(h, syms, type) ==
    [k \in DOMAIN h |-> IF k \in Range(syms) THEN Variable(h[k], type) ELSE h[k]]

(* A declaration that is not refused makes new symbols, and a list of them.  *)
LEMMA VarsFacts ==
    ASSUME Lexed, Pointed(heap), NEW names, NEW scan, NEW list, Listed(names, scan, list),
           NEW type \in Type \X Nat, type[2] <= Len(types),
           \A n \in Range(names) : symtab[<<scope, n>>] = NULL
    PROVE  /\ Stepped(VariablesIn(list.heap, scan.syms, type))
           /\ \A i \in 1 .. Len(names) :
                 /\ scan.syms[i] \in DOMAIN VariablesIn(list.heap, scan.syms, type) \ DOMAIN heap
                 /\ VariablesIn(list.heap, scan.syms, type)[scan.syms[i]].name = names[i]
<1> DEFINE syms == scan.syms
           h == list.heap
           g == VariablesIn(h, syms, type)
<1>1. /\ Grown(scan.heap, "VOID") /\ scan.heap \in Heaps
      /\ syms \in Seq(DOMAIN scan.heap) /\ syms # << >> /\ Len(syms) = Len(names)
      /\ h \in Heaps /\ DOMAIN h = DOMAIN scan.heap /\ Relinked(scan.heap, h)
      /\ \A x \in DOMAIN scan.heap : h[x].next \in {scan.heap[x].next} \cup Range(syms)
  BY ListedFacts
<1>2. \A i \in 1 .. Len(names) : Given(scan.heap, syms[i], names[i])
  BY ScanAllFacts DEF Listed
<1> HIDE DEF h, syms
<1>3. ASSUME NEW i \in 1 .. Len(names)
      PROVE  syms[i] \in DOMAIN h \ DOMAIN heap /\ h[syms[i]].name = names[i]
  <2>1. names[i] \in Range(names)
    BY DEF Range, Listed
  <2>2. symtab[<<scope, names[i]>>] = NULL
    BY <2>1
  <2>3. syms[i] \in DOMAIN scan.heap \ DOMAIN heap /\ scan.heap[syms[i]].name = names[i]
    BY <1>2, <2>2 DEF Given
  <2>4. h[syms[i]].name = scan.heap[syms[i]].name
    BY <1>1, <2>3 DEF Relinked, SameButNext
  <2> QED BY <1>1, <2>3, <2>4
<1>4. \A x \in Range(syms) : x \in DOMAIN h \ DOMAIN heap
  <2>1. DOMAIN syms = 1 .. Len(names)
    BY <1>1
  <2> QED BY <1>3, <2>1 DEF Range
<1>5. Fresh(scan.heap, syms)
  BY <1>4, NewSyms DEF Listed, syms
<1>6. /\ list.endless = FALSE
      /\ IsChain(h, syms)
      /\ \A x \in DOMAIN scan.heap : x \notin Range(syms) => h[x] = scan.heap[x]
  BY <1>1, <1>5, FreshList, ZenonT(40) DEF Listed, h, syms
<1>7. /\ Len(h) \in Nat /\ DOMAIN h = 1 .. Len(h) /\ DOMAIN heap \subseteq DOMAIN h
      /\ Len(heap) <= Len(h) /\ Len(heap) \in Nat /\ DOMAIN heap = 1 .. Len(heap)
      /\ \A x \in DOMAIN h : h[x] \in SymbolRec /\ h[x].next \in 0 .. Len(h)
      /\ \A x \in DOMAIN heap : scan.heap[x] = heap[x]
  <2>1. /\ Len(h) \in Nat /\ DOMAIN h = 1 .. Len(h)
        /\ \A x \in DOMAIN h : h[x] \in SymbolRec /\ h[x].next \in 0 .. Len(h)
    BY <1>1, HeapFacts DEF Pointers
  <2>2. /\ Len(heap) \in Nat /\ DOMAIN heap = 1 .. Len(heap) /\ DOMAIN heap \subseteq DOMAIN h
        /\ \A x \in DOMAIN heap : scan.heap[x] = heap[x]
    BY <1>1, GrownFacts
  <2>3. Len(heap) <= Len(scan.heap) /\ Len(scan.heap) = Len(h)
    BY <1>1 DEF Grown, Relinked
  <2> QED BY <2>1, <2>2, <2>3
<1>8. \A x \in DOMAIN heap : h[x] = heap[x]
  BY <1>1, <1>4, <1>6, <1>7
<1>9. /\ Evolves(heap, h) /\ Pointed(h)
      /\ Ranked(heap) => Ranked(h)
      /\ \A x \in DOMAIN h \ DOMAIN heap : h[x].next = NULL \/ h[x].next \in Range(syms)
  <2>1. /\ Evolves(heap, scan.heap) /\ Pointed(scan.heap)
        /\ \A x \in DOMAIN scan.heap \ DOMAIN heap : scan.heap[x].next = NULL
    BY <1>1, GrownEvolves
  <2>2. Evolves(heap, h)
    BY <1>1, <2>1, RelinkedEvolves, EvolvesTwice DEF Lexed
  <2>3. Pointed(h)
    BY <1>1, <2>1 DEF Pointed, Relinked, SameButNext
  <2>4. Ranked(heap) => Ranked(h)
    <3>1. Reused(scan.syms) = {}
      BY <1>4 DEF Reused, syms
    <3> QED BY <3>1, Unreused DEF h
  <2> QED BY <1>1, <2>1, <2>2, <2>3, <2>4
<1>10. \A x \in DOMAIN h \ DOMAIN heap : h[x].place = "own"
  <2> SUFFICES ASSUME NEW x \in DOMAIN h \ DOMAIN heap
               PROVE  h[x].place = "own"
    OBVIOUS
  <2>1. PICK m \in Name : scan.heap[x] = Symbol(m, "VOID")
    BY <1>1 DEF Grown
  <2>2. scan.heap[x].place = "own"
    BY <2>1 DEF Symbol
  <2> QED BY <1>1, <2>2 DEF Relinked, SameButNext
<1>11. /\ DOMAIN g = DOMAIN h /\ g = [x \in DOMAIN h |-> g[x]]
       /\ \A x \in DOMAIN h : g[x] = IF x \in Range(syms) THEN Variable(h[x], type) ELSE h[x]
  BY DEF VariablesIn
<1> HIDE DEF g
<1>12. \A x \in DOMAIN heap : g[x] = heap[x]
  BY <1>4, <1>7, <1>8, <1>11
<1>13. ASSUME NEW x \in DOMAIN h
       PROVE  /\ g[x] \in SymbolRec /\ g[x].next = h[x].next /\ g[x].name = h[x].name
              /\ g[x].type_ptr <= Len(types) /\ g[x].marks = h[x].marks
              /\ x \notin DOMAIN heap => Kept(g[x]) /\ Counted(g[x])
  <2>1. CASE x \in Range(syms)
    <3>1. g[x] = Variable(h[x], type) /\ x \notin DOMAIN heap
      BY <1>4, <1>11, <2>1
    <3>2. Counted(h[x]) /\ h[x].place = "own" /\ h[x] \in SymbolRec
      BY <1>7, <1>9, <1>10, <3>1 DEF Evolves
    <3> QED BY <3>1, <3>2, VariableFacts
  <2>2. CASE x \notin Range(syms)
    <3>1. g[x] = h[x]
      BY <1>11, <2>2
    <3>2. h[x].type_ptr <= Len(types)
      BY <1>9 DEF Pointed
    <3>3. x \notin DOMAIN heap => Kept(h[x]) /\ Counted(h[x])
      BY <1>9 DEF Evolves
    <3> QED BY <1>7, <3>1, <3>2, <3>3
  <2> QED BY <2>1, <2>2
<1>14. g \in Heaps /\ Len(g) = Len(h)
  <2>1. g \in [1 .. Len(h) -> SymbolRec]
    BY <1>7, <1>11, <1>13
  <2>2. \A x \in 1 .. Len(h) : g[x].next \in 0 .. Len(h)
    BY <1>7, <1>13
  <2> QED BY <1>7, <2>1, <2>2, HeapIntro
<1>15. Evolves(heap, g)
  <2>1. \A r : SameRole(r, r)
    BY DEF SameRole
  <2>2. \A x \in DOMAIN heap : SameRole(heap[x], g[x])
    BY <1>12, <2>1
  <2> QED BY <1>7, <1>11, <1>13, <1>14, <2>2 DEF Evolves
<1>16. Pointed(g) /\ LinksKept(heap, g)
  <2>1. Len(types) \in Nat
    BY DEF Pointed
  <2> QED BY <1>11, <1>12, <1>13, <2>1 DEF Pointed, LinksKept
<1>17. Reach(heap, g)
  <2> SUFFICES ASSUME NEW x \in DOMAIN g
               PROVE  \/ x \in DOMAIN heap /\ g[x].next = heap[x].next
                      \/ g[x].next \notin DOMAIN heap
    BY DEF Reach
  <2>1. CASE x \in DOMAIN heap
    BY <1>12, <2>1
  <2>2. CASE x \notin DOMAIN heap
    <3>1. NULL \notin DOMAIN heap
      BY <1>7 DEF NULL
    <3> QED BY <1>4, <1>9, <1>11, <1>13, <2>2, <3>1
  <2> QED BY <2>1, <2>2
<1>18. Ranked(heap) => Ranked(g)
  BY <1>9, <1>11, <1>13, RankedSame
<1>19. Stepped(g)
  BY <1>15, <1>16, <1>17, <1>18 DEF Stepped
<1> QED BY <1>3, <1>11, <1>13, <1>19 DEF g, h, syms

\* What becomes of a symbol in the list of a member.
Member(r, type) == [r EXCEPT !.type = type[1], !.marks = @ \cup {"field"},
                             !.type_ptr = IF type[2] = NULL THEN @ ELSE type[2]]

(* The symbol of a member once create_field has used it. *)
LEMMA MemberFacts ==
    ASSUME NEW r \in SymbolRec, NEW type \in Type \X Nat
    PROVE  /\ Member(r, type) \in SymbolRec
           /\ Member(r, type).next = r.next /\ "field" \in Member(r, type).marks
           /\ Member(r, type).type_ptr \in {r.type_ptr, type[2]}
           /\ SameRole(r, Member(r, type)) /\ Kept(Member(r, type))
<1>1. type[1] \in Type /\ type[2] \in Nat
  OBVIOUS
<1>2. /\ Member(r, type).next = r.next /\ Member(r, type).name = r.name
      /\ Member(r, type).kind = r.kind /\ Member(r, type).n_param = r.n_param
      /\ Member(r, type).arity = r.arity
      /\ Member(r, type).marks = r.marks \cup {"field"}
      /\ Member(r, type).type_ptr = IF type[2] = NULL THEN r.type_ptr ELSE type[2]
  BY DEF Member, SymbolRec
<1>3. Member(r, type) \in SymbolRec
  <2>1. r.marks \cup {"field"} \in SUBSET {"member", "field", "call", "arg", "twice", "again"}
    BY DEF SymbolRec
  <2>2. (IF type[2] = NULL THEN r.type_ptr ELSE type[2]) \in Nat
    BY <1>1 DEF SymbolRec
  <2> QED BY <1>1, <2>1, <2>2 DEF Member, SymbolRec
<1>4. Kept(Member(r, type))
  BY <1>2 DEF Kept
<1>5. SameRole(r, Member(r, type))
  <2> HIDE DEF Member
  <2>1. Counted(r) => Counted(Member(r, type))
    BY <1>2 DEF Counted
  <2> QED BY <1>2, <1>4, <2>1 DEF SameRole
<1> QED BY <1>2, <1>3, <1>4, <1>5

\* The heap after a declaration of members.
MembersIn(h, listed, type) ==
    [k \in DOMAIN h |-> IF k \in listed THEN Member(h[k], type) ELSE h[k]]

(* Members change links of their list only, and the symbols of that list are *)
(* marked.                                                                   *)
LEMMA MembersFacts ==
    ASSUME Lexed, Pointed(heap), NEW names, NEW scan, NEW list, Listed(names, scan, list),
           NEW type \in Type \X Nat, type[2] <= Len(types),
           ~ list.endless, ~ Endless(list.heap, scan.syms[1]),
           NEW g, g = MembersIn(Again(list.heap, scan.syms),
                                Range(Chain(list.heap, scan.syms[1])), type)
    PROVE  /\ Stepped(g)
           /\ Chain(g, scan.syms[1]) \in Seq(DOMAIN g)
<1> DEFINE syms == scan.syms
           h == list.heap
           before == Again(h, syms)
           listed == Range(Chain(h, syms[1]))
<1>1. /\ Grown(scan.heap, "VOID") /\ scan.heap \in Heaps
      /\ syms \in Seq(DOMAIN scan.heap) /\ syms # << >> /\ Len(syms) = Len(names)
      /\ h \in Heaps /\ DOMAIN h = DOMAIN scan.heap /\ Relinked(scan.heap, h)
      /\ \A x \in DOMAIN scan.heap : h[x].next \in {scan.heap[x].next} \cup Range(syms)
      /\ list.endless = FALSE /\ syms[1] \in DOMAIN h
  BY ListedFacts
<1>2. \A i \in 1 .. Len(names) : Given(scan.heap, syms[i], names[i])
  BY ScanAllFacts DEF Listed
<1>3. \A x \in DOMAIN scan.heap : x \notin listed => h[x].next = scan.heap[x].next
  <2>1. list = ListOf(scan.heap, scan.syms) /\ ~ Endless(list.heap, scan.syms[1])
    BY DEF Listed
  <2> SUFFICES ASSUME NEW x \in DOMAIN scan.heap, x \notin listed
               PROVE  list.heap[x].next = scan.heap[x].next
    OBVIOUS
  <2>2. /\ scan.heap \in Heaps /\ scan.syms \in Seq(DOMAIN scan.heap) /\ scan.syms # << >>
        /\ list.endless = FALSE /\ x \notin Range(Chain(list.heap, scan.syms[1]))
    BY <1>1
  <2> QED BY <2>1, <2>2, ChangedListed, ZenonT(40)
<1>4. /\ Remarked(h, before) /\ Evolves(h, before)
      /\ Reused(syms) # {} => ~ Unmarked(before)
  <2>1. DOMAIN heap \subseteq DOMAIN h
    BY <1>1, GrownFacts
  <2> HIDE DEF h, syms
  <2>2. Remarked(h, before) /\ Evolves(h, before)
    BY <1>1, AgainFacts
  <2>3. Reused(syms) # {} => ~ Unmarked(before)
    BY <1>1, <2>1, ReusedMarked
  <2> QED BY <2>2, <2>3
<1>5. Reused(syms) = {} => (Ranked(heap) => Ranked(h))
  BY Unreused
<1>6. /\ DOMAIN g = DOMAIN before /\ g = [x \in DOMAIN before |-> g[x]]
      /\ \A x \in DOMAIN before :
            g[x] = IF x \in listed THEN Member(before[x], type) ELSE before[x]
  BY DEF MembersIn
<1>7. ~ Endless(h, syms[1])
  OBVIOUS
<1>8. Evolves(heap, scan.heap) /\ Pointed(scan.heap)
      /\ \A x \in DOMAIN scan.heap \ DOMAIN heap : scan.heap[x].next = NULL
  BY <1>1, GrownEvolves
<1>9. /\ Len(heap) \in Nat /\ DOMAIN heap = 1 .. Len(heap)
      /\ DOMAIN heap \subseteq DOMAIN scan.heap
      /\ \A x \in DOMAIN heap : scan.heap[x] = heap[x]
  BY <1>1, GrownFacts
<1> HIDE DEF h, before, listed, syms
<1>10. /\ Len(h) \in Nat /\ DOMAIN h = 1 .. Len(h)
       /\ before \in Heaps /\ Len(before) = Len(h) /\ DOMAIN before = DOMAIN h
       /\ \A x \in DOMAIN h : before[x] \in SymbolRec /\ Marked(h[x], before[x])
       /\ \A x \in DOMAIN h : h[x].next \in 0 .. Len(h)
  <2>1. before \in Heaps /\ Len(before) = Len(h) /\ DOMAIN before = DOMAIN h
    BY <1>4 DEF Remarked
  <2>2. Len(h) \in Nat /\ DOMAIN h = 1 .. Len(h) /\ \A x \in DOMAIN h : h[x].next \in 0 .. Len(h)
    BY <1>1, HeapFacts DEF Pointers
  <2>3. \A x \in DOMAIN h : before[x] \in SymbolRec /\ Marked(h[x], before[x])
    BY <1>4, <2>1, HeapFacts DEF Remarked
  <2> QED BY <2>1, <2>2, <2>3
<1>11. \A x \in DOMAIN h : h[x].type_ptr <= Len(types) /\ Len(types) \in Nat
  BY <1>1, <1>8 DEF Pointed, Relinked, SameButNext
<1>12. ASSUME NEW x \in DOMAIN h
       PROVE  /\ g[x] \in SymbolRec /\ g[x].next = h[x].next
              /\ g[x].type_ptr <= Len(types)
              /\ SameRole(before[x], g[x])
              /\ x \in listed => "field" \in g[x].marks
  <2>0. /\ before[x] \in SymbolRec /\ before[x].next = h[x].next
        /\ before[x].type_ptr <= Len(types)
    BY <1>10, <1>11 DEF Marked
  <2>1. CASE x \in listed
    <3>1. g[x] = Member(before[x], type)
      BY <1>6, <1>10, <2>1
    <3> QED BY <2>0, <3>1, MemberFacts
  <2>2. CASE x \notin listed
    <3>1. g[x] = before[x]
      BY <1>6, <1>10, <2>2
    <3>2. \A r : SameRole(r, r)
      BY DEF SameRole
    <3> QED BY <2>0, <2>2, <3>1, <3>2
  <2> QED BY <2>1, <2>2
<1>13. g \in Heaps /\ Len(g) = Len(h) /\ DOMAIN g = DOMAIN h
  <2>1. g \in [1 .. Len(h) -> SymbolRec]
    BY <1>6, <1>10, <1>12
  <2>2. \A x \in 1 .. Len(h) : g[x].next \in 0 .. Len(h)
    BY <1>10, <1>12
  <2> QED BY <1>10, <2>1, <2>2, HeapIntro
<1>14. Evolves(heap, g)
  <2>1. Evolves(before, g)
    BY <1>10, <1>12, <1>13 DEF Evolves
  <2>2. Evolves(heap, h)
    BY <1>1, <1>8, RelinkedEvolves, EvolvesTwice DEF Lexed
  <2>3. Evolves(heap, before)
    BY <1>4, <2>2, EvolvesTwice DEF Lexed
  <2> QED BY <2>1, <2>3, EvolvesTwice DEF Lexed
<1>15. Pointed(g)
  <2>1. Len(types) \in Nat
    BY DEF Pointed
  <2> QED BY <1>12, <1>13, <2>1 DEF Pointed
<1>16. LinksKept(heap, g)
  <2> SUFFICES ASSUME NEW x \in DOMAIN heap
               PROVE  g[x].next = heap[x].next \/ "field" \in g[x].marks
    BY DEF LinksKept
  <2>1. x \in DOMAIN h
    BY <1>1, <1>9
  <2> QED BY <1>1, <1>3, <1>9, <1>12, <2>1
<1>17. Reach(heap, g)
  <2> SUFFICES ASSUME NEW x \in DOMAIN g
               PROVE  \/ x \in DOMAIN heap /\ g[x].next = heap[x].next
                      \/ g[x].next \notin DOMAIN heap
                      \/ \E key \in DOMAIN symtab : g[x].next = symtab[key]
    BY DEF Reach
  <2>1. g[x].next = h[x].next /\ x \in DOMAIN scan.heap
    BY <1>1, <1>12, <1>13
  <2>2. CASE h[x].next = scan.heap[x].next
    <3>1. NULL \notin DOMAIN heap
      BY <1>9 DEF NULL
    <3> QED BY <1>8, <1>9, <2>1, <2>2, <3>1
  <2>3. CASE h[x].next \in Range(syms)
    <3>1. PICK i \in 1 .. Len(names) : h[x].next = syms[i]
      BY <1>1, <2>3 DEF Range
    <3>2. names[i] \in Name /\ scope \in Scope
      BY DEF Listed, Lexed
    <3>3. <<scope, names[i]>> \in DOMAIN symtab
      BY <3>2 DEF Lexed
    <3> QED BY <1>2, <2>1, <3>1, <3>3 DEF Given
  <2> QED BY <1>1, <2>1, <2>2, <2>3
<1>18. Unmarked(g) /\ Ranked(heap) => Ranked(g)
  <2> SUFFICES ASSUME Unmarked(g), Ranked(heap) PROVE Ranked(g)
    OBVIOUS
  <2>1. Unmarked(before)
    BY <1>10, <1>12, <1>13 DEF Unmarked, SameRole
  <2>2. Ranked(h)
    BY <1>4, <1>5, <2>1
  <2> QED BY <1>12, <1>13, <2>2, RankedSame
<1>19. Stepped(g)
  BY <1>14, <1>15, <1>16, <1>17, <1>18 DEF Stepped
<1>20. Chain(g, syms[1]) \in Seq(DOMAIN g)
  <2>1. Pointers(h) /\ Pointers(g) /\ syms[1] \in 0 .. Len(h)
    BY <1>1, <1>10, <1>13, HeapFacts
  <2>2. Chain(g, syms[1]) = Chain(h, syms[1])
    BY <1>12, <1>13, <2>1, WalkSame
  <2>3. Chain(h, syms[1]) \in Seq(DOMAIN h)
    BY <1>7, <2>1, ChainFacts DEF IsChain
  <2> QED BY <1>13, <2>2, <2>3
<1> QED BY <1>19, <1>20 DEF syms

-----------------------------------------------------------------------------
(* Operands and arguments.                                                  *)

\* The type objects.
TypesTyped ==
    types \in Seq([name : Name, type : {"TYPEDEF", "STRUCT"}, fields : FieldSeq, depth : Nat])

(* The type of a member that a structure has is a type. *)
LEMMA FieldTyped ==
    ASSUME TypesTyped, NEW obj \in DOMAIN types, NEW member \in FieldNames(obj)
    PROVE  FieldType(obj, member) \in Type
<1> DEFINE fields == types[obj].fields
           k == Len(fields)
           I == {i \in 1 .. k : fields[i][1] = member}
           at == SelectInSeq(fields, LAMBDA f : f[1] = member)
<1>1. fields \in Seq((Name \cup {"1"}) \X Type)
  <2> DEFINE Types == [name : Name, type : {"TYPEDEF", "STRUCT"}, fields : FieldSeq, depth : Nat]
  <2>1. types \in Seq(Types)
    BY DEF TypesTyped
  <2> HIDE DEF Types
  <2>2. types[obj] \in Types
    BY <2>1
  <2>3. types[obj].fields \in FieldSeq
    BY <2>2 DEF Types
  <2> QED BY <2>3 DEF FieldSeq
<1>2. I # {} /\ I \subseteq Nat
  BY <1>1 DEF FieldNames
<1>3. Min(I) \in I
  BY <1>2, MinFacts
<1>4. at = Min(I)
  BY <1>2 DEF SelectInSeq
<1>5. at \in 1 .. k
  BY <1>3, <1>4
<1> HIDE DEF at, fields
<1>6. fields[at] \in (Name \cup {"1"}) \X Type
  BY <1>1, <1>5
<1> QED BY <1>6 DEF FieldType, at, fields

\* References with names that may not be declared, and constants.
RefSet == [name : Name, member : Name \cup {""}] \cup {Constant}

\* A symbol of which a member may have been read.
MemberRead(r, q) ==
    /\ q.name = r.name /\ q.kind = r.kind /\ q.next = r.next
    /\ q.n_param = r.n_param /\ q.type_ptr = r.type_ptr /\ q.place = r.place
    /\ q.decl = r.decl /\ q.arity = r.arity
    /\ q.marks \in {r.marks, r.marks \cup {"member"}}
    /\ "member" \notin q.marks => q.type = r.type

\* The heap after members have been read and constants have been made.
ReadHeap(h) ==
    /\ h \in Heaps /\ Pointed(h) /\ Len(heap) <= Len(h)
    /\ \A x \in DOMAIN heap : MemberRead(heap[x], h[x])
    /\ \A x \in DOMAIN h \ DOMAIN heap : h[x] = Symbol("1", "INT")

\* What the evaluation of references has found so far.
Accs == [heap : {h \in Heaps : ReadHeap(h)}, syms : Seq(Nat), ok : BOOLEAN]

\* lhs finds what it looks for.
Opaque(acc, ref) == ref.member = "" \/ acc.heap[Visible(ref.name)].type_ptr = NULL
\* lhs finds the symbol, and the member.
Found(acc, ref) ==
    LET s == Visible(ref.name)
    IN  /\ acc.ok
        /\ s # NULL
        /\ ref.member # "" => acc.heap[s].type = "STRUCT"
        /\ ~ Opaque(acc, ref) => ref.member \in FieldNames(acc.heap[s].type_ptr)

\* The type of a member is left in the symbol.
Read(h, s, type) == [h EXCEPT ![s].type = type, ![s].marks = @ \cup {"member"}]

(* find_in_symbol_table gives NULL, or a symbol of the table with that name. *)
LEMMA VisibleFacts ==
    ASSUME Lexed, NEW name \in Name
    PROVE  /\ Visible(name) \in 0 .. Len(heap)
           /\ \E key \in DOMAIN symtab : Visible(name) = symtab[key]
           /\ Visible(name) # NULL => Visible(name) \in DOMAIN heap /\ heap[Visible(name)].name = name
<1>1. 0 \in Scope /\ 1 \in Scope
  BY DEF Scope
<1>2. \A z \in Scope : /\ symtab[<<z, name>>] \in 0 .. Len(heap)
                       /\ <<z, name>> \in DOMAIN symtab
                       /\ symtab[<<z, name>>] # NULL => /\ symtab[<<z, name>>] \in DOMAIN heap
                                                        /\ heap[symtab[<<z, name>>]].name = name
  BY LexedFacts DEF Lexed
<1>3. CASE symtab[<<1, name>>] # NULL
  <2>1. Visible(name) = symtab[<<1, name>>]
    BY <1>3 DEF Visible
  <2> QED BY <1>1, <1>2, <2>1
<1>4. CASE symtab[<<1, name>>] = NULL
  <2>1. Visible(name) = symtab[<<0, name>>]
    BY <1>4 DEF Visible
  <2> QED BY <1>1, <1>2, <2>1
<1> QED BY <1>3, <1>4

(* A heap in which members have been read has the old symbols, and links inside of it. *)
LEMMA ReadHeapFacts ==
    ASSUME Lexed, NEW h, ReadHeap(h)
    PROVE  /\ Len(heap) \in Nat /\ DOMAIN heap = 1 .. Len(heap)
           /\ Len(h) \in Nat /\ DOMAIN h = 1 .. Len(h) /\ DOMAIN heap \subseteq DOMAIN h
           /\ h \in Seq(SymbolRec)
           /\ \A x \in DOMAIN h : h[x] \in SymbolRec /\ h[x].next \in 0 .. Len(h)
<1>1. /\ Len(heap) \in Nat /\ DOMAIN heap = 1 .. Len(heap)
      /\ Len(h) \in Nat /\ DOMAIN h = 1 .. Len(h) /\ Len(heap) <= Len(h)
      /\ h \in Seq(SymbolRec)
      /\ \A x \in DOMAIN h : h[x] \in SymbolRec /\ h[x].next \in 0 .. Len(h)
  BY HeapFacts DEF ReadHeap, Lexed, Pointers
<1> QED BY <1>1

(* Reading a member changes the type of one symbol, and marks it.            *)
LEMMA ReadFacts ==
    ASSUME Lexed, NEW h, ReadHeap(h), NEW s \in DOMAIN heap, NEW type \in Type
    PROVE  /\ ReadHeap(Read(h, s, type))
           /\ Len(Read(h, s, type)) = Len(h)
           /\ Read(h, s, type)[s].type = type
           /\ Read(h, s, type)[s].type_ptr = h[s].type_ptr
           /\ \A x \in DOMAIN h : x # s => Read(h, s, type)[x] = h[x]
<1> DEFINE g == Read(h, s, type)
           q == [h[s] EXCEPT !.type = type, !.marks = @ \cup {"member"}]
<1>1. /\ Len(heap) \in Nat /\ DOMAIN heap = 1 .. Len(heap)
      /\ Len(h) \in Nat /\ DOMAIN h = 1 .. Len(h) /\ DOMAIN heap \subseteq DOMAIN h
      /\ h \in Seq(SymbolRec)
      /\ \A x \in DOMAIN h : h[x] \in SymbolRec /\ h[x].next \in 0 .. Len(h)
  BY ReadHeapFacts
<1>2. s \in DOMAIN h /\ h[s] \in SymbolRec
  BY <1>1
<1>3. MemberRead(heap[s], h[s]) /\ h[s].type_ptr <= Len(types) /\ h[s].next \in 0 .. Len(h)
  BY <1>1 DEF ReadHeap, Pointed
<1>4. /\ q.name = h[s].name /\ q.kind = h[s].kind /\ q.next = h[s].next
      /\ q.n_param = h[s].n_param /\ q.type_ptr = h[s].type_ptr /\ q.place = h[s].place
      /\ q.decl = h[s].decl /\ q.arity = h[s].arity
      /\ q.marks = h[s].marks \cup {"member"} /\ q.type = type
  BY <1>2 DEF SymbolRec
<1>5. q \in SymbolRec
  <2>1. h[s].marks \cup {"member"} \in SUBSET {"member", "field", "call", "arg", "twice", "again"}
    BY <1>2 DEF SymbolRec
  <2> QED BY <1>2, <2>1 DEF SymbolRec
<1>6. g = [h EXCEPT ![s] = q]
  BY <1>2 DEF Read
<1> HIDE DEF q, g
<1>7. /\ DOMAIN g = DOMAIN h /\ g[s] = q /\ \A x \in DOMAIN h : x # s => g[x] = h[x]
      /\ g = [x \in DOMAIN h |-> g[x]]
  BY <1>2, <1>6
<1>8. MemberRead(heap[s], q)
  BY <1>3, <1>4 DEF MemberRead
<1>9. g \in Heaps /\ Len(g) = Len(h)
  <2>1. \A x \in 1 .. Len(h) : g[x] \in SymbolRec /\ g[x].next \in 0 .. Len(h)
    BY <1>1, <1>3, <1>4, <1>5, <1>7
  <2>2. g \in [1 .. Len(h) -> SymbolRec]
    BY <1>1, <1>7, <2>1
  <2> QED BY <1>1, <2>1, <2>2, HeapIntro
<1>10. Pointed(g)
  BY <1>3, <1>4, <1>7 DEF Pointed, ReadHeap
<1>11. ReadHeap(g)
  <2>1. \A x \in DOMAIN heap : MemberRead(heap[x], g[x])
    BY <1>1, <1>7, <1>8 DEF ReadHeap
  <2>2. \A x \in DOMAIN g \ DOMAIN heap : g[x] = Symbol("1", "INT")
    BY <1>7 DEF ReadHeap
  <2>3. Len(heap) <= Len(g)
    BY <1>9 DEF ReadHeap
  <2> QED BY <1>9, <1>10, <2>1, <2>2, <2>3 DEF ReadHeap
<1> QED BY <1>4, <1>7, <1>9, <1>11 DEF g

(* A constant is a new symbol.                                               *)
LEMMA ConstantFacts ==
    ASSUME Lexed, NEW h, ReadHeap(h)
    PROVE  /\ ReadHeap(Append(h, Symbol("1", "INT")))
           /\ Len(Append(h, Symbol("1", "INT"))) = Len(h) + 1
           /\ \A x \in DOMAIN h : Append(h, Symbol("1", "INT"))[x] = h[x]
           /\ Append(h, Symbol("1", "INT"))[Len(h) + 1] = Symbol("1", "INT")
<1> DEFINE s == Symbol("1", "INT")
           g == Append(h, s)
<1>1. /\ Len(heap) \in Nat /\ DOMAIN heap = 1 .. Len(heap)
      /\ Len(h) \in Nat /\ DOMAIN h = 1 .. Len(h) /\ DOMAIN heap \subseteq DOMAIN h
  BY ReadHeapFacts
<1>2. /\ g \in Heaps /\ Len(g) = Len(h) + 1
      /\ \A x \in DOMAIN h : g[x] = h[x]
      /\ g[Len(h) + 1] = s
  <2>1. "INT" \in Type /\ "1" \in Name \cup {"1"} /\ h \in Heaps
    BY DEF Type, ReadHeap
  <2> QED BY <2>1, AppendHeap
<1>3. s.type_ptr = 0
  BY SymbolNew
<1> HIDE DEF g, s
<1>4. DOMAIN g = 1 .. Len(h) + 1
  BY <1>2, HeapFacts
<1>5. \A x \in DOMAIN g : x = Len(h) + 1 \/ x \in DOMAIN h
  BY <1>1, <1>4
<1>6. Pointed(g)
  <2>1. Len(types) \in Nat /\ \A x \in DOMAIN h : h[x].type_ptr <= Len(types)
    BY DEF ReadHeap, Pointed
  <2>2. \A x \in DOMAIN g : g[x].type_ptr <= Len(types)
    BY <1>2, <1>3, <1>5, <2>1
  <2> QED BY <2>1, <2>2 DEF Pointed
<1>7. \A x \in DOMAIN heap : MemberRead(heap[x], g[x])
  BY <1>1, <1>2 DEF ReadHeap
<1>8. \A x \in DOMAIN g \ DOMAIN heap : g[x] = s
  BY <1>2, <1>5 DEF ReadHeap, s
<1>9. Len(heap) <= Len(g)
  BY <1>1, <1>2 DEF ReadHeap
<1> QED BY <1>2, <1>6, <1>7, <1>8, <1>9 DEF ReadHeap, g, s

(* lhs takes one of four ways: a constant, nothing found, a symbol, or a member of it. *)
LEMMA LhsFacts ==
    ASSUME Lexed, TypesTyped, NEW acc \in Accs, NEW ref \in RefSet, NEW l, l = lhs(acc, ref)
    PROVE  /\ l \in Accs
           /\ ref = Constant => /\ l.heap = Append(acc.heap, Symbol("1", "INT"))
                                /\ l.syms = Append(acc.syms, Len(acc.heap) + 1)
                                /\ l.ok = acc.ok
           /\ ref # Constant /\ ~ Found(acc, ref) =>
                 l.heap = acc.heap /\ l.syms = acc.syms /\ l.ok = FALSE
           /\ ref # Constant /\ Found(acc, ref) =>
                 /\ l.syms = Append(acc.syms, Visible(ref.name)) /\ l.ok = TRUE
                 /\ Visible(ref.name) \in DOMAIN heap
                 /\ Opaque(acc, ref) => l.heap = acc.heap
                 /\ ~ Opaque(acc, ref) =>
                       LET obj == acc.heap[Visible(ref.name)].type_ptr
                       IN  /\ FieldType(obj, ref.member) \in Type
                           /\ l.heap = Read(acc.heap, Visible(ref.name),
                                            FieldType(obj, ref.member))
<1> DEFINE s == Visible(ref.name)
           obj == acc.heap[s].type_ptr
           type == FieldType(obj, ref.member)
<1>1. /\ ReadHeap(acc.heap) /\ acc.heap \in Heaps /\ acc.syms \in Seq(Nat)
      /\ acc.ok \in BOOLEAN
      /\ acc = [heap |-> acc.heap, syms |-> acc.syms, ok |-> acc.ok]
  BY DEF Accs
<1>2. CASE ref = Constant
  <2> DEFINE g == Append(acc.heap, Symbol("1", "INT"))
             n == Len(acc.heap) + 1
  <2>1. l = [acc EXCEPT !.heap = g, !.syms = Append(@, n)]
    BY <1>2 DEF lhs
  <2>2. ReadHeap(g)
    BY <1>1, ConstantFacts
  <2>3. g \in Heaps /\ n \in Nat
    BY <1>1, <2>2, HeapFacts DEF ReadHeap
  <2> HIDE DEF g, n
  <2>4. l.heap = g /\ l.syms = Append(acc.syms, n) /\ l.ok = acc.ok
        /\ l = [heap |-> g, syms |-> Append(acc.syms, n), ok |-> acc.ok]
    BY <1>1, <2>1
  <2>5. l \in Accs
    <3>1. Append(acc.syms, n) \in Seq(Nat)
      BY <1>1, <2>3
    <3> QED BY <1>1, <2>2, <2>3, <2>4, <3>1 DEF Accs
  <2> QED BY <1>2, <2>4, <2>5 DEF g, n
<1>3. CASE ref # Constant /\ ~ Found(acc, ref)
  <2>1. l = [acc EXCEPT !.ok = FALSE]
    BY <1>1, <1>3 DEF lhs, Found, Opaque
  <2>2. l.heap = acc.heap /\ l.syms = acc.syms /\ l.ok = FALSE
        /\ l = [heap |-> acc.heap, syms |-> acc.syms, ok |-> FALSE]
    BY <1>1, <2>1
  <2>3. l \in Accs
    BY <1>1, <2>2 DEF Accs
  <2> QED BY <1>3, <2>2, <2>3
<1>4. CASE ref # Constant /\ Found(acc, ref)
  <2> DEFINE opaque == ref.member = "" \/ obj = NULL
             g == IF opaque THEN acc.heap ELSE Read(acc.heap, s, type)
  <2>1. l = [acc EXCEPT !.syms = Append(@, s), !.heap = g]
    BY <1>1, <1>4 DEF lhs, Found, Opaque, Read
  <2>2. s \in DOMAIN heap /\ s \in Nat /\ acc.ok = TRUE
    <3>1. ref.name \in Name
      BY <1>4 DEF RefSet
    <3>2. s \in 0 .. Len(heap) /\ (s # NULL => s \in DOMAIN heap) /\ Len(heap) \in Nat
      BY <3>1, VisibleFacts, HeapFacts DEF Lexed
    <3>3. s # NULL /\ acc.ok = TRUE
      BY <1>1, <1>4 DEF Found
    <3> QED BY <3>2, <3>3
  <2>3. ~ opaque => type \in Type
    <3>1. SUFFICES ASSUME ~ opaque PROVE type \in Type
      OBVIOUS
    <3>2. ref.member \in FieldNames(obj)
      BY <1>4, <3>1 DEF Found, Opaque
    <3>3. obj \in DOMAIN types
      <4>1. s \in DOMAIN acc.heap
        BY <1>1, <2>2, ReadHeapFacts
      <4>2. obj \in Nat /\ obj <= Len(types) /\ obj # 0 /\ Len(types) \in Nat
        BY <1>1, <3>1, <4>1, ReadHeapFacts DEF ReadHeap, Pointed, SymbolRec, NULL
      <4> HIDE DEF obj
      <4>3. obj \in 1 .. Len(types)
        BY <4>2
      <4> QED BY <4>3 DEF TypesTyped
    <3> HIDE DEF obj
    <3> QED BY <3>2, <3>3, FieldTyped
  <2>4. ReadHeap(g) /\ g \in Heaps
    <3>1. CASE opaque
      BY <1>1, <3>1
    <3>2. CASE ~ opaque
      <4>1. g = Read(acc.heap, s, type)
        BY <3>2
      <4> HIDE DEF g, type
      <4>2. ReadHeap(Read(acc.heap, s, type))
        BY <1>1, <2>2, <2>3, <3>2, ReadFacts
      <4> QED BY <4>1, <4>2 DEF ReadHeap
    <3> QED BY <3>1, <3>2
  <2>5. Opaque(acc, ref) <=> opaque
    BY DEF Opaque
  <2>6. /\ Opaque(acc, ref) => g = acc.heap
        /\ ~ Opaque(acc, ref) => type \in Type /\ g = Read(acc.heap, s, type)
    BY <2>3, <2>5
  <2> HIDE DEF g
  <2>7. l.heap = g /\ l.syms = Append(acc.syms, s) /\ l.ok = TRUE
        /\ l = [heap |-> g, syms |-> Append(acc.syms, s), ok |-> TRUE]
    BY <1>1, <2>1, <2>2
  <2>8. l \in Accs
    <3>1. Append(acc.syms, s) \in Seq(Nat)
      BY <1>1, <2>2
    <3> HIDE DEF s
    <3> QED BY <2>4, <2>7, <3>1 DEF Accs
  <2>9. l.syms = Append(acc.syms, Visible(ref.name)) /\ l.ok = TRUE
        /\ Visible(ref.name) \in DOMAIN heap
    BY <2>2, <2>7
  <2>10. /\ Opaque(acc, ref) => l.heap = acc.heap
         /\ ~ Opaque(acc, ref) =>
               /\ FieldType(acc.heap[Visible(ref.name)].type_ptr, ref.member) \in Type
               /\ l.heap = Read(acc.heap, Visible(ref.name),
                                FieldType(acc.heap[Visible(ref.name)].type_ptr, ref.member))
    BY <2>6, <2>7
  <2> QED BY <1>4, <2>8, <2>9, <2>10
<1> QED BY <1>2, <1>3, <1>4

\* The intermediate results of Evaluate.
IsEvaluation(refs, ev) ==
    /\ ev \in [0 .. Len(refs) -> Accs]
    /\ ev[0] = [heap |-> heap, syms |-> << >>, ok |-> TRUE]
    /\ \A i \in 1 .. Len(refs) : ev[i] = lhs(ev[i - 1], refs[i])
    /\ Evaluate(refs) = ev[Len(refs)]

(* The recursion in Evaluate has a solution. *)
LEMMA EvaluationExists ==
    ASSUME Lexed, TypesTyped, Pointed(heap), NEW refs \in Seq(RefSet)
    PROVE  \E ev : IsEvaluation(refs, ev)
<1> DEFINE K == Len(refs)
           A == Accs
           a == [heap |-> heap, syms |-> << >>, ok |-> TRUE]
           G == [n \in 1 .. K |-> [l \in A |-> lhs(l, refs[n])]]
           P(ev) == ev = [i \in 0 .. Len(refs) |->
                            IF i = 0 THEN [heap |-> heap, syms |-> << >>, ok |-> TRUE]
                            ELSE lhs(ev[i - 1], refs[i])]
<1>1. K \in Nat /\ \A i \in 1 .. K : refs[i] \in RefSet
  OBVIOUS
<1>2. a \in A
  <2>1. ReadHeap(heap)
    <3>1. \A r : MemberRead(r, r)
      BY DEF MemberRead
    <3>2. Len(heap) \in Nat /\ heap \in Heaps
      BY HeapFacts DEF Lexed
    <3> QED BY <3>1, <3>2 DEF ReadHeap
  <2>2. << >> \in Seq(Nat) /\ heap \in Heaps
    BY DEF Lexed
  <2> QED BY <2>1, <2>2 DEF Accs
<1>3. \A n \in 1 .. K, l \in A : lhs(l, refs[n]) \in A
  BY <1>1, LhsFacts
<1> HIDE DEF K, A, a
<1>4. G \in [1 .. K -> [A -> A]]
  BY <1>3
<1>5. \A n \in 1 .. K, l \in A : G[n][l] = lhs(l, refs[n])
  OBVIOUS
<1> HIDE DEF G
<1>6. \E f \in [0 .. K -> A] : Solves(f, K, a, G)
  BY <1>1, <1>2, <1>4, RecursionExists
<1>7. PICK f \in [0 .. K -> A] : f[0] = a /\ \A n \in 1 .. K : f[n] = G[n][f[n - 1]]
  BY <1>6 DEF Solves
<1>8. ASSUME NEW n \in 1 .. K
      PROVE  f[n] = lhs(f[n - 1], refs[n])
  <2>1. n - 1 \in 0 .. K
    BY <1>1
  <2>2. f[n - 1] \in A
    BY <2>1
  <2> QED BY <1>5, <1>7, <2>2
<1>9. P(f)
  <2>1. ASSUME NEW n \in 0 .. K
        PROVE  f[n] = IF n = 0 THEN a ELSE lhs(f[n - 1], refs[n])
    <3>1. n = 0 \/ (n \in 1 .. K /\ n # 0)
      BY <1>1
    <3> QED BY <1>7, <1>8, <3>1
  <2>2. f = [n \in 0 .. K |-> f[n]]
    BY <1>7
  <2>3. f = [n \in 0 .. K |-> IF n = 0 THEN a ELSE lhs(f[n - 1], refs[n])]
    BY <2>1, <2>2
  <2> QED BY <2>3 DEF K, a
<1> DEFINE g == CHOOSE ev : P(ev)
<1>10. P(g)
  <2> HIDE DEF P
  <2> QED BY <1>9
<1>11. Evaluate(refs) = g[K]
  BY DEF Evaluate, K
<1> HIDE DEF g
<1>12. g = [n \in 0 .. K |-> IF n = 0 THEN a ELSE lhs(g[n - 1], refs[n])]
  BY <1>10 DEF K, a
<1> HIDE DEF P
<1> DEFINE e(n) == IF n = 0 THEN a ELSE lhs(g[n - 1], refs[n])
<1>13. /\ DOMAIN g = 0 .. K /\ g[0] = a
       /\ \A n \in 1 .. K : g[n] = lhs(g[n - 1], refs[n])
       /\ g = [n \in 0 .. K |-> g[n]]
  <2>1. g = [n \in 0 .. K |-> e(n)]
    BY <1>12
  <2>e. e(0) = a /\ \A n \in 1 .. K : e(n) = lhs(g[n - 1], refs[n])
    OBVIOUS
  <2> HIDE DEF e
  <2>2. DOMAIN g = 0 .. K /\ \A n \in 0 .. K : g[n] = e(n)
    BY <2>1
  <2>3. g = [n \in 0 .. K |-> g[n]]
    BY <2>1, <2>2
  <2>4. 0 \in 0 .. K /\ \A n \in 1 .. K : n \in 0 .. K
    BY <1>1
  <2> QED BY <2>2, <2>3, <2>4, <2>e
<1> DEFINE T == {n \in 0 .. K : g[n] \in A}
<1>14. \A n \in 0 .. K : n \in T
  <2>1. 0 \in T
    BY <1>1, <1>2, <1>13
  <2>2. ASSUME NEW n \in 1 .. K, n - 1 \in T
        PROVE  n \in T
    <3>1. g[n - 1] \in A
      BY <2>2
    <3>2. g[n] \in A
      BY <1>3, <1>13, <3>1
    <3> QED BY <1>1, <3>2
  <2> HIDE DEF T
  <2> QED BY <1>1, <2>1, <2>2, UpTo
<1>15. g \in [0 .. K -> A]
  BY <1>13, <1>14
<1>16. IsEvaluation(refs, g)
  BY <1>11, <1>13, <1>15 DEF IsEvaluation, K, A, a
<1> QED BY <1>16

\* A symbol that the evaluation of references may find.
FromTable(s) == s \notin DOMAIN heap \/ \E key \in DOMAIN symtab : s = symtab[key]

(* What the evaluation of references finds, and what it leaves.              *)
LEMMA EvaluateFacts ==
    ASSUME Lexed, TypesTyped, Pointed(heap), NEW refs \in Seq(RefSet),
           NEW acc, acc = Evaluate(refs)
    PROVE  /\ ReadHeap(acc.heap) /\ acc.ok \in BOOLEAN
           /\ acc.syms \in Seq(DOMAIN acc.heap)
           /\ \A i \in DOMAIN acc.syms : FromTable(acc.syms[i])
           /\ acc.ok => /\ Len(acc.syms) = Len(refs)
                        /\ \A i \in 1 .. Len(refs) :
                              refs[i] # Constant => acc.syms[i] = Visible(refs[i].name)
<1>1. PICK ev : IsEvaluation(refs, ev)
  BY EvaluationExists
<1> DEFINE K == Len(refs)
           Good(l, n) ==
              /\ \A i \in 1 .. Len(l.syms) : l.syms[i] \in DOMAIN l.heap /\ FromTable(l.syms[i])
              /\ l.ok => /\ Len(l.syms) = n
                         /\ \A i \in 1 .. n :
                               refs[i] # Constant => l.syms[i] = Visible(refs[i].name)
           T == {n \in 0 .. K : Good(ev[n], n)}
<1>2. K \in Nat /\ \A i \in 1 .. K : refs[i] \in RefSet
  OBVIOUS
<1>3. /\ \A n \in 0 .. K : ev[n] \in Accs
      /\ ev[0] = [heap |-> heap, syms |-> << >>, ok |-> TRUE]
      /\ \A n \in 1 .. K : ev[n] = lhs(ev[n - 1], refs[n])
      /\ acc = ev[K]
  BY <1>1 DEF IsEvaluation
<1> HIDE DEF K
<1>4. Good(ev[0], 0)
  BY <1>3
<1>5. ASSUME NEW n \in 1 .. K, Good(ev[n - 1], n - 1)
      PROVE  Good(ev[n], n)
  <2> DEFINE l == ev[n - 1]
             ref == refs[n]
             m == ev[n]
             s == Visible(ref.name)
  <2>0. n - 1 \in 0 .. K
    BY <1>2
  <2>1. l \in Accs /\ m = lhs(l, ref) /\ ref \in RefSet
    BY <1>2, <1>3, <2>0
  <2>2. /\ \A i \in 1 .. Len(l.syms) : l.syms[i] \in DOMAIN l.heap /\ FromTable(l.syms[i])
        /\ l.ok => /\ Len(l.syms) = n - 1
                   /\ \A i \in 1 .. n - 1 :
                         refs[i] # Constant => l.syms[i] = Visible(refs[i].name)
    BY <1>5
  <2>r. ref = refs[n]
    OBVIOUS
  <2> SUFFICES Good(m, n)
    OBVIOUS
  <2> HIDE DEF l, m, ref
  <2>3. /\ ReadHeap(l.heap) /\ l.syms \in Seq(Nat) /\ Len(l.syms) \in Nat
        /\ Len(l.heap) \in Nat /\ DOMAIN l.heap = 1 .. Len(l.heap)
        /\ DOMAIN heap \subseteq DOMAIN l.heap /\ DOMAIN heap = 1 .. Len(heap)
        /\ Len(heap) \in Nat
    <3>1. ReadHeap(l.heap) /\ l.syms \in Seq(Nat)
      BY <2>1 DEF Accs
    <3> QED BY <3>1, ReadHeapFacts
  <2>4. CASE ref = Constant
    <3> DEFINE k == Len(l.heap) + 1
    <3>1. /\ m.heap = Append(l.heap, Symbol("1", "INT"))
          /\ m.syms = Append(l.syms, k) /\ m.ok = l.ok
      BY <2>1, <2>4, LhsFacts
    <3>2. Len(m.heap) = Len(l.heap) + 1 /\ ReadHeap(m.heap)
      <4> DEFINE g == Append(l.heap, Symbol("1", "INT"))
      <4>1. Len(g) = Len(l.heap) + 1 /\ ReadHeap(g)
        BY <2>3, ConstantFacts
      <4>2. m.heap = g
        BY <3>1
      <4> HIDE DEF g
      <4> QED BY <4>1, <4>2
    <3>3. DOMAIN m.heap = 1 .. Len(l.heap) + 1
      BY <3>2, ReadHeapFacts
    <3>4. FromTable(k) /\ k \in DOMAIN m.heap /\ k \in Nat
      BY <2>3, <3>3 DEF FromTable
    <3> HIDE DEF k
    <3>5. /\ Len(m.syms) = Len(l.syms) + 1 /\ m.syms[Len(l.syms) + 1] = k
          /\ \A i \in 1 .. Len(l.syms) : m.syms[i] = l.syms[i]
      BY <2>3, <3>1, <3>4
    <3>6. \A i \in 1 .. Len(m.syms) : m.syms[i] \in DOMAIN m.heap /\ FromTable(m.syms[i])
      <4> SUFFICES ASSUME NEW i \in 1 .. Len(m.syms)
                   PROVE  m.syms[i] \in DOMAIN m.heap /\ FromTable(m.syms[i])
        OBVIOUS
      <4>1. CASE i = Len(l.syms) + 1
        BY <3>4, <3>5, <4>1
      <4>2. CASE i # Len(l.syms) + 1
        <5>1. i \in 1 .. Len(l.syms)
          BY <2>3, <3>5, <4>2
        <5>2. m.syms[i] = l.syms[i] /\ l.syms[i] \in DOMAIN l.heap /\ FromTable(l.syms[i])
          BY <2>2, <3>5, <5>1
        <5> QED BY <2>3, <3>3, <5>2
      <4> QED BY <4>1, <4>2
    <3>7. ASSUME m.ok
          PROVE  /\ Len(m.syms) = n
                 /\ \A i \in 1 .. n :
                       refs[i] # Constant => m.syms[i] = Visible(refs[i].name)
      <4>1. Len(l.syms) = n - 1
        BY <2>2, <3>1, <3>7
      <4>2. Len(m.syms) = n
        BY <3>5, <4>1
      <4>3. ASSUME NEW i \in 1 .. n, refs[i] # Constant
            PROVE  m.syms[i] = Visible(refs[i].name)
        <5>1. i \in 1 .. n - 1
          BY <2>4, <2>r, <4>3
        <5> QED BY <2>2, <3>1, <3>5, <3>7, <4>1, <4>3, <5>1
      <4> QED BY <4>2, <4>3
    <3> QED BY <3>6, <3>7
  <2>5. CASE ref # Constant /\ ~ Found(l, ref)
    <3>1. m.heap = l.heap /\ m.syms = l.syms /\ m.ok = FALSE
      BY <2>1, <2>5, LhsFacts
    <3> QED BY <2>2, <3>1
  <2>6. CASE ref # Constant /\ Found(l, ref)
    <3>1. /\ m.syms = Append(l.syms, s) /\ m.ok = TRUE /\ s \in DOMAIN heap
          /\ m \in Accs
          /\ Opaque(l, ref) => m.heap = l.heap
          /\ ~ Opaque(l, ref) => \E type \in Type : m.heap = Read(l.heap, s, type)
      BY <2>1, <2>6, LhsFacts
    <3>2. ReadHeap(m.heap) /\ Len(m.heap) = Len(l.heap)
      <4>1. CASE Opaque(l, ref)
        BY <2>3, <3>1, <4>1
      <4>2. CASE ~ Opaque(l, ref)
        <5>1. PICK type \in Type : m.heap = Read(l.heap, s, type)
          BY <3>1, <4>2
        <5> HIDE DEF s
        <5>2. ReadHeap(Read(l.heap, s, type)) /\ Len(Read(l.heap, s, type)) = Len(l.heap)
          BY <2>3, <3>1, ReadFacts
        <5> QED BY <5>1, <5>2
      <4> QED BY <4>1, <4>2
    <3>3. DOMAIN m.heap = DOMAIN l.heap
      BY <2>3, <3>2, ReadHeapFacts
    <3>4. FromTable(s) /\ s \in DOMAIN m.heap /\ s \in Nat
      <4>1. ref.name \in Name
        BY <2>1, <2>6 DEF RefSet
      <4>2. \E key \in DOMAIN symtab : s = symtab[key]
        BY <4>1, VisibleFacts
      <4> QED BY <2>3, <3>1, <3>3, <4>2 DEF FromTable
    <3> HIDE DEF s
    <3>5. /\ Len(m.syms) = Len(l.syms) + 1 /\ m.syms[Len(l.syms) + 1] = s
          /\ \A i \in 1 .. Len(l.syms) : m.syms[i] = l.syms[i]
      BY <2>3, <3>1, <3>4
    <3>6. \A i \in 1 .. Len(m.syms) : m.syms[i] \in DOMAIN m.heap /\ FromTable(m.syms[i])
      <4> SUFFICES ASSUME NEW i \in 1 .. Len(m.syms)
                   PROVE  m.syms[i] \in DOMAIN m.heap /\ FromTable(m.syms[i])
        OBVIOUS
      <4>1. CASE i = Len(l.syms) + 1
        BY <3>4, <3>5, <4>1
      <4>2. CASE i # Len(l.syms) + 1
        <5>1. i \in 1 .. Len(l.syms)
          BY <2>3, <3>5, <4>2
        <5>2. m.syms[i] = l.syms[i] /\ l.syms[i] \in DOMAIN l.heap /\ FromTable(l.syms[i])
          BY <2>2, <3>5, <5>1
        <5> QED BY <3>3, <5>2
      <4> QED BY <4>1, <4>2
    <3>7. Len(l.syms) = n - 1 /\ l.ok
      BY <2>2, <2>6 DEF Found
    <3>8. ASSUME NEW i \in 1 .. n, refs[i] # Constant
          PROVE  m.syms[i] = Visible(refs[i].name)
      <4>1. CASE i = n
        BY <2>r, <3>5, <3>7, <4>1 DEF s
      <4>2. CASE i # n
        <5>1. i \in 1 .. n - 1
          BY <4>2
        <5> QED BY <2>2, <3>5, <3>7, <3>8, <5>1
      <4> QED BY <4>1, <4>2
    <3> QED BY <3>5, <3>6, <3>7, <3>8
  <2> QED BY <2>4, <2>5, <2>6
<1>6. \A n \in 0 .. K : n \in T
  <2>1. 0 \in T
    BY <1>2, <1>4
  <2>2. ASSUME NEW n \in 1 .. K, n - 1 \in T
        PROVE  n \in T
    <3>1. Good(ev[n - 1], n - 1)
      BY <2>2
    <3>2. Good(ev[n], n)
      BY <1>5, <3>1
    <3> HIDE DEF Good
    <3> QED BY <1>2, <3>2
  <2> HIDE DEF T
  <2> QED BY <1>2, <2>1, <2>2, UpTo
<1>7. Good(acc, K)
  <2> HIDE DEF Good
  <2>1. K \in T
    BY <1>2, <1>6
  <2> QED BY <1>3, <2>1
<1>8. acc \in Accs
  BY <1>2, <1>3
<1>9. ReadHeap(acc.heap) /\ acc.ok \in BOOLEAN /\ acc.syms \in Seq(Nat)
  BY <1>8 DEF Accs
<1>10. acc.syms \in Seq(DOMAIN acc.heap)
  BY <1>7, <1>9, SMTT(30)
<1> QED BY <1>7, <1>9, <1>10 DEF K

(* Operands leave no link behind.                                            *)
LEMMA ReadStepped ==
    ASSUME Lexed, NEW h, ReadHeap(h)
    PROVE  Stepped(h)
<1>1. /\ Len(heap) \in Nat /\ DOMAIN heap = 1 .. Len(heap)
      /\ Len(h) \in Nat /\ DOMAIN h = 1 .. Len(h) /\ DOMAIN heap \subseteq DOMAIN h
      /\ h \in Heaps /\ Pointed(h) /\ Len(heap) <= Len(h) /\ heap \in Heaps
  BY ReadHeapFacts DEF ReadHeap, Lexed
<1>2. ASSUME NEW x \in DOMAIN heap
      PROVE  SameRole(heap[x], h[x]) /\ h[x].next = heap[x].next
  <2>1. MemberRead(heap[x], h[x])
    BY DEF ReadHeap
  <2>2. Kept(heap[x]) => Kept(h[x])
    BY <2>1 DEF MemberRead, Kept
  <2>3. Counted(heap[x]) => Counted(h[x])
    BY <2>1 DEF MemberRead, Counted
  <2> QED BY <2>1, <2>2, <2>3 DEF MemberRead, SameRole
<1>3. ASSUME NEW x \in DOMAIN h \ DOMAIN heap
      PROVE  Kept(h[x]) /\ Counted(h[x]) /\ h[x].next = NULL
  <2> DEFINE s == Symbol("1", "INT")
  <2>1. h[x] = s
    BY DEF ReadHeap
  <2>2. Kept(s) /\ Counted(s) /\ s.next = NULL
    BY SymbolNew
  <2> HIDE DEF s
  <2> QED BY <2>1, <2>2
<1>4. Evolves(heap, h)
  BY <1>1, <1>2, <1>3 DEF Evolves
<1>5. LinksKept(heap, h) /\ Reach(heap, h)
  <2>1. NULL \notin DOMAIN heap
    BY <1>1 DEF NULL
  <2> QED BY <1>2, <1>3, <2>1 DEF LinksKept, Reach
<1>6. Ranked(heap) => Ranked(h)
  <2>1. Pointers(heap) /\ Pointers(h)
    BY <1>1, HeapFacts
  <2> QED BY <1>1, <1>2, <1>3, <2>1, RankedExtended
<1> QED BY <1>1, <1>4, <1>5, <1>6 DEF Stepped

\* The marks of arguments.
ArgMarks(args, k) ==
    {"arg"} \cup IF Cardinality({i \in DOMAIN args : args[i] = k}) > 1 THEN {"twice"} ELSE {}
\* The heap with the arguments of a call marked.
MarkedArgs(h, args) ==
    [k \in DOMAIN h |->
        IF k \in Range(args) THEN [h[k] EXCEPT !.marks = @ \cup ArgMarks(args, k)] ELSE h[k]]

(* The arguments of a call are marked, and one that occurs twice shows it. *)
LEMMA MarkedArgsFacts ==
    ASSUME NEW h \in Heaps, NEW args \in Seq(DOMAIN h)
    PROVE  /\ Remarked(h, MarkedArgs(h, args)) /\ Evolves(h, MarkedArgs(h, args))
           /\ \A x \in Range(args) : "arg" \in MarkedArgs(h, args)[x].marks
           /\ Unmarked(MarkedArgs(h, args)) => IsInjective(args)
<1> DEFINE g == MarkedArgs(h, args)
           m(x) == [h[x] EXCEPT !.marks = @ \cup ArgMarks(args, x)]
<1>1. g = [x \in DOMAIN h |-> IF x \in Range(args) THEN m(x) ELSE h[x]]
  BY DEF MarkedArgs
<1>2. \A x \in DOMAIN h : h[x] \in SymbolRec
  BY HeapFacts
<1>3. ASSUME NEW x \in DOMAIN h
      PROVE  /\ m(x) \in SymbolRec /\ Marked(h[x], m(x))
             /\ m(x).marks = h[x].marks \cup ArgMarks(args, x)
  <2> DEFINE mark == ArgMarks(args, x)
  <2>1. mark \subseteq {"member", "field", "call", "arg", "twice", "again"}
    BY DEF ArgMarks
  <2> HIDE DEF mark
  <2>2. /\ [h[x] EXCEPT !.marks = @ \cup mark] \in SymbolRec
        /\ Marked(h[x], [h[x] EXCEPT !.marks = @ \cup mark])
        /\ [h[x] EXCEPT !.marks = @ \cup mark].marks = h[x].marks \cup mark
    BY <1>2, <2>1, MarkSymbol
  <2> QED BY <2>2 DEF mark
<1>4. \A x \in DOMAIN h : Marked(h[x], h[x])
  BY DEF Marked
<1> HIDE DEF m, g
<1>5. /\ DOMAIN g = DOMAIN h /\ g = [x \in DOMAIN h |-> g[x]]
      /\ \A x \in DOMAIN h : g[x] = IF x \in Range(args) THEN m(x) ELSE h[x]
  BY <1>1
<1>6. \A x \in DOMAIN h : g[x] \in SymbolRec /\ Marked(h[x], g[x])
  BY <1>2, <1>3, <1>4, <1>5
<1>7. Remarked(h, g) /\ Evolves(h, g)
  BY <1>5, <1>6, RemarkedIntro
<1>8. \A i \in DOMAIN args : args[i] \in DOMAIN h /\ args[i] \in Range(args)
  BY DEF Range
<1>9. \A x \in Range(args) : x \in DOMAIN h
  BY <1>8 DEF Range
<1>10. \A x \in Range(args) : g[x].marks = h[x].marks \cup ArgMarks(args, x)
  BY <1>3, <1>5, <1>9
<1>11. ASSUME Unmarked(g), NEW i \in DOMAIN args, NEW j \in DOMAIN args, args[i] = args[j]
       PROVE  i = j
  <2> DEFINE k == args[i]
             I == {n \in DOMAIN args : args[n] = k}
  <2>1. "twice" \notin ArgMarks(args, k)
    <3>1. k \in DOMAIN g /\ k \in Range(args)
      BY <1>5, <1>8
    <3> HIDE DEF k
    <3>2. g[k].marks \cap {"again", "twice"} = {}
      BY <1>11, <3>1 DEF Unmarked
    <3>3. g[k].marks = h[k].marks \cup ArgMarks(args, k)
      BY <1>10, <3>1
    <3> QED BY <3>2, <3>3
  <2>2. ~ (Cardinality(I) > 1)
    BY <2>1 DEF ArgMarks
  <2>3. IsFiniteSet(I)
    <3>1. IsFiniteSet(1 .. Len(args)) /\ I \subseteq 1 .. Len(args)
      <4>1. Len(args) \in Nat
        OBVIOUS
      <4>2. IsFiniteSet(1 .. Len(args))
        BY <4>1, FS_Interval
      <4> QED BY <4>2
    <3> HIDE DEF I
    <3> QED BY <3>1, FS_Subset
  <2>4. i \in I /\ j \in I
    BY <1>11
  <2> HIDE DEF I
  <2>5. Cardinality(I) \in Nat /\ Cardinality(I) # 0
    BY <2>3, <2>4, FS_CardinalityType, FS_EmptySet
  <2>6. Cardinality(I) = 1
    BY <2>2, <2>5
  <2>7. \E x : I = {x}
    BY <2>3, <2>6, FS_Singleton
  <2> QED BY <2>4, <2>7
<1>12. Unmarked(g) => IsInjective(args)
  BY <1>11 DEF IsInjective
<1>13. \A x \in Range(args) : "arg" \in g[x].marks
  BY <1>10 DEF ArgMarks
<1> QED BY <1>7, <1>12, <1>13 DEF g

\* The heap after the arguments have been linked.
ArgsLinked(h, args) == IF args = << >> THEN h ELSE Linked(MarkedArgs(h, args), args)

(* The arguments of a call become a list, which has no circle unless one occurs twice. *)
LEMMA ArgsLinkedFacts ==
    ASSUME Lexed, NEW h, ReadHeap(h), NEW args \in Seq(DOMAIN h),
           NEW g, g = ArgsLinked(h, args)
    PROVE  /\ g \in Heaps /\ Len(g) = Len(h) /\ DOMAIN g = DOMAIN h
           /\ Evolves(h, g)
           /\ \A x \in DOMAIN h : g[x].type = h[x].type /\ g[x].type_ptr = h[x].type_ptr
           /\ \A x \in DOMAIN h :
                 g[x].next = h[x].next \/ ("arg" \in g[x].marks /\ g[x].next \in {NULL} \cup Range(args))
           /\ Unmarked(g) => IsInjective(args)
           /\ IsInjective(args) => IsChain(g, args)
           /\ Unmarked(g) /\ Ranked(h) => Ranked(g)
<1> DEFINE m == MarkedArgs(h, args)
<1>1. h \in Heaps /\ DOMAIN h = 1 .. Len(h) /\ Len(h) \in Nat
  BY ReadHeapFacts DEF ReadHeap
<1>2. CASE args = << >>
  <2>1. g = h
    BY <1>2 DEF ArgsLinked
  <2>2. Evolves(h, h)
    <3>1. Relinked(h, h)
      BY <1>1, RelinkedSelf
    <3> QED BY <3>1, RelinkedEvolves
  <2>3. IsInjective(args) /\ IsChain(h, args)
    <3>1. DOMAIN args = {}
      BY <1>2
    <3> QED BY <3>1 DEF IsInjective, IsChain
  <2>4. Evolves(h, g) /\ IsChain(g, args)
    BY <2>1, <2>2, <2>3, Zenon
  <2> QED BY <1>1, <2>1, <2>3, <2>4
<1>3. CASE args # << >>
  <2>1. g = Linked(m, args)
    BY <1>3 DEF ArgsLinked
  <2>2. /\ Remarked(h, m) /\ Evolves(h, m)
        /\ \A x \in Range(args) : "arg" \in m[x].marks
        /\ Unmarked(m) => IsInjective(args)
    BY <1>1, MarkedArgsFacts
  <2> HIDE DEF m
  <2>3. /\ m \in Heaps /\ Len(m) = Len(h) /\ DOMAIN m = DOMAIN h
        /\ \A x \in DOMAIN h : m[x].next = h[x].next /\ m[x].type = h[x].type
                               /\ m[x].type_ptr = h[x].type_ptr
    BY <2>2 DEF Remarked, Marked
  <2>4. /\ Relinked(m, g)
        /\ \A x \in DOMAIN m : x \notin Range(args) => g[x] = m[x]
        /\ \A x \in DOMAIN m : g[x].next \in {NULL, m[x].next} \cup Range(args)
        /\ IsInjective(args) => IsChain(g, args)
    <3>1. args \in Seq(DOMAIN m)
      BY <2>3
    <3> QED BY <2>1, <2>3, <3>1, LinkedFacts
  <2>5. g \in Heaps /\ Len(g) = Len(h) /\ DOMAIN g = DOMAIN h
    BY <2>3, <2>4 DEF Relinked
  <2>6. \A x \in DOMAIN h : /\ g[x].marks = m[x].marks /\ g[x].type = h[x].type
                            /\ g[x].type_ptr = h[x].type_ptr
    BY <2>3, <2>4 DEF Relinked, SameButNext
  <2>7. Evolves(h, g)
    BY <1>1, <2>2, <2>4, RelinkedEvolves, EvolvesTwice
  <2>8. \A x \in DOMAIN h :
           g[x].next = h[x].next \/ ("arg" \in g[x].marks /\ g[x].next \in {NULL} \cup Range(args))
    <3> SUFFICES ASSUME NEW x \in DOMAIN h, g[x].next # h[x].next
                 PROVE  "arg" \in g[x].marks /\ g[x].next \in {NULL} \cup Range(args)
      OBVIOUS
    <3>1. x \in Range(args)
      BY <2>3, <2>4
    <3>2. "arg" \in m[x].marks
      BY <2>2, <3>1
    <3> QED BY <2>3, <2>4, <2>6, <3>2
  <2>9. Unmarked(g) => IsInjective(args)
    BY <2>2, <2>3, <2>5, <2>6 DEF Unmarked
  <2>10. Unmarked(g) /\ Ranked(h) => Ranked(g)
    <3> SUFFICES ASSUME Unmarked(g), Ranked(h) PROVE Ranked(g)
      OBVIOUS
    <3>1. Ranked(m)
      BY <2>2, RemarkedRanked
    <3>2. Pointers(m) /\ Pointers(g)
      BY <2>3, <2>5, HeapFacts
    <3>3. IsChain(g, args) /\ IsInjective(args)
      BY <2>4, <2>9
    <3> QED BY <2>3, <2>4, <2>5, <3>1, <3>2, <3>3, RankedLinked
  <2> QED BY <2>4, <2>5, <2>6, <2>7, <2>8, <2>9, <2>10
<1> QED BY <1>2, <1>3

\* What becomes of the symbol that stands for the value of a call.
Value(r, type) == [r EXCEPT !.type = type, !.place = "$v0", !.marks = @ \cup {"call"}]

(* The symbol that holds the value of a call. *)
LEMMA ValueFacts ==
    ASSUME NEW r \in SymbolRec, NEW type \in Type
    PROVE  /\ Value(r, type) \in SymbolRec
           /\ Value(r, type).next = r.next /\ Value(r, type).type_ptr = r.type_ptr
           /\ r.marks \subseteq Value(r, type).marks
           /\ Value(r, type).marks \subseteq r.marks \cup {"call"}
           /\ SameRole(r, Value(r, type))
<1>1. /\ Value(r, type).next = r.next /\ Value(r, type).name = r.name
      /\ Value(r, type).kind = r.kind /\ Value(r, type).n_param = r.n_param
      /\ Value(r, type).arity = r.arity /\ Value(r, type).type_ptr = r.type_ptr
      /\ Value(r, type).marks = r.marks \cup {"call"}
  BY DEF Value, SymbolRec
<1>2. Value(r, type) \in SymbolRec
  <2>1. r.marks \cup {"call"} \in SUBSET {"member", "field", "call", "arg", "twice", "again"}
    BY DEF SymbolRec
  <2> QED BY <2>1 DEF Value, SymbolRec
<1>3. Kept(Value(r, type))
  BY <1>1 DEF Kept
<1>4. Counted(r) => Counted(Value(r, type))
  BY <1>1 DEF Counted
<1>5. SameRole(r, Value(r, type))
  BY <1>1, <1>3, <1>4 DEF SameRole
<1> QED BY <1>1, <1>2, <1>5

(* A call links its arguments, and writes to one symbol at most.             *)
LEMMA CalledFacts ==
    ASSUME Lexed, NEW h, ReadHeap(h), NEW name \in Name, fn \in DOMAIN heap,
           NEW args \in Seq(DOMAIN h), \A i \in DOMAIN args : FromTable(args[i]),
           NEW g, g = Called(h, name, args)
    PROVE  /\ Stepped(g) /\ DOMAIN g = DOMAIN h /\ g \in Heaps
           /\ Unmarked(g) => IsInjective(args)
           /\ IsInjective(args) => IsChain(g, args)
           /\ symtab[<<1, name>>] = NULL => \A x \in DOMAIN h : /\ g[x].type = h[x].type
                                                               /\ g[x].type_ptr = h[x].type_ptr
<1> DEFINE l == ArgsLinked(h, args)
           self == symtab[<<1, name>>]
           callee == symtab[<<0, name>>]
           from == IF callee = NULL THEN fn ELSE callee
           type == l[from].type
<1>1. /\ Len(heap) \in Nat /\ DOMAIN heap = 1 .. Len(heap)
      /\ Len(h) \in Nat /\ DOMAIN h = 1 .. Len(h) /\ DOMAIN heap \subseteq DOMAIN h
      /\ h \in Heaps /\ Stepped(h)
  BY ReadHeapFacts, ReadStepped DEF ReadHeap
<1>2. /\ l \in Heaps /\ Len(l) = Len(h) /\ DOMAIN l = DOMAIN h
      /\ Evolves(h, l)
      /\ \A x \in DOMAIN h : l[x].type = h[x].type /\ l[x].type_ptr = h[x].type_ptr
      /\ \A x \in DOMAIN h :
            l[x].next = h[x].next \/ ("arg" \in l[x].marks /\ l[x].next \in {NULL} \cup Range(args))
      /\ Unmarked(l) => IsInjective(args)
      /\ IsInjective(args) => IsChain(l, args)
      /\ Unmarked(l) /\ Ranked(h) => Ranked(l)
  BY ArgsLinkedFacts
<1>3. g = IF self = NULL THEN l
          ELSE [l EXCEPT ![self].type = type, ![self].place = "$v0",
                         ![self].marks = @ \cup {"call"}]
  BY ZenonT(40) DEF Called, ArgsLinked, MarkedArgs, ArgMarks
<1>4. \A x \in DOMAIN l : l[x] \in SymbolRec /\ l[x].next \in 0 .. Len(l)
  BY <1>2, HeapFacts DEF Pointers
<1>5. /\ self # NULL => self \in DOMAIN heap
      /\ from \in DOMAIN heap
  <2>1. 0 \in Scope /\ 1 \in Scope
    BY DEF Scope
  <2> QED BY <2>1, LexedFacts
<1> HIDE DEF l
<1>6. type \in Type
  BY <1>1, <1>2, <1>4, <1>5 DEF SymbolRec
<1>7. self # NULL => g = [l EXCEPT ![self] = Value(l[self], type)]
  BY <1>1, <1>2, <1>3, <1>5 DEF Value
<1> HIDE DEF self, from, type
<1>8. /\ DOMAIN g = DOMAIN l /\ g = [x \in DOMAIN l |-> g[x]]
      /\ self # NULL => g[self] = Value(l[self], type)
      /\ \A x \in DOMAIN l : self = NULL \/ x # self => g[x] = l[x]
  <2>1. CASE self = NULL
    <3>1. g = l
      BY <1>3, <2>1
    <3> QED BY <1>2, <2>1, <3>1, HeapFacts
  <2>2. CASE self # NULL
    BY <1>1, <1>2, <1>5, <1>7, <2>2
  <2> QED BY <2>1, <2>2
<1>9. ASSUME NEW x \in DOMAIN l
      PROVE  /\ g[x] \in SymbolRec /\ g[x].next = l[x].next /\ g[x].type_ptr = l[x].type_ptr
             /\ l[x].marks \subseteq g[x].marks /\ g[x].marks \subseteq l[x].marks \cup {"call"}
             /\ SameRole(l[x], g[x])
  <2>1. CASE self # NULL /\ x = self
    <3>1. g[x] = Value(l[x], type)
      BY <1>8, <2>1
    <3> QED BY <1>4, <1>6, <3>1, ValueFacts
  <2>2. CASE self = NULL \/ x # self
    <3>1. g[x] = l[x]
      BY <1>8, <2>2
    <3>2. SameRole(l[x], l[x])
      BY DEF SameRole
    <3> QED BY <1>4, <3>1, <3>2
  <2> QED BY <2>1, <2>2
<1>10. g \in Heaps /\ Len(g) = Len(l) /\ DOMAIN g = DOMAIN h
  <2>1. DOMAIN l = 1 .. Len(l) /\ Len(l) \in Nat
    BY <1>2, HeapFacts
  <2>2. g \in [1 .. Len(l) -> SymbolRec]
    BY <1>8, <1>9, <2>1
  <2>3. \A x \in 1 .. Len(l) : g[x].next \in 0 .. Len(l)
    BY <1>4, <1>9, <2>1
  <2> QED BY <1>2, <2>1, <2>2, <2>3, HeapIntro
<1>11. Evolves(heap, g)
  <2>1. Evolves(l, g)
    <3>1. Len(l) \in Nat
      BY <1>2, HeapFacts
    <3> QED BY <1>2, <1>9, <1>10, <3>1 DEF Evolves
  <2>2. Evolves(heap, l)
    BY <1>1, <1>2, EvolvesTwice DEF Stepped, Lexed
  <2> QED BY <2>1, <2>2, EvolvesTwice DEF Lexed
<1>12. Pointed(g)
  <2>1. Len(types) \in Nat /\ \A x \in DOMAIN h : h[x].type_ptr <= Len(types)
    BY <1>1 DEF Stepped, Pointed
  <2> QED BY <1>2, <1>9, <1>10, <2>1 DEF Pointed
<1>13. \A x \in DOMAIN h :
         g[x].next = h[x].next \/ ("arg" \in g[x].marks /\ g[x].next \in {NULL} \cup Range(args))
  BY <1>2, <1>9
<1>14. \A x \in DOMAIN heap : h[x].next = heap[x].next
  BY DEF ReadHeap, MemberRead
<1>15. LinksKept(heap, g)
  BY <1>1, <1>13, <1>14 DEF LinksKept
<1>16. Reach(heap, g)
  <2> SUFFICES ASSUME NEW x \in DOMAIN g
               PROVE  \/ x \in DOMAIN heap /\ g[x].next = heap[x].next
                      \/ g[x].next \notin DOMAIN heap
                      \/ \E key \in DOMAIN symtab : g[x].next = symtab[key]
    BY DEF Reach
  <2>0. x \in DOMAIN h /\ NULL \notin DOMAIN heap
    BY <1>1, <1>10 DEF NULL
  <2>1. CASE g[x].next = h[x].next
    BY <1>1, <2>0, <2>1 DEF Stepped, Reach
  <2>2. CASE g[x].next \in Range(args)
    <3>1. PICK i \in DOMAIN args : g[x].next = args[i]
      BY <2>2 DEF Range
    <3> QED BY <3>1 DEF FromTable
  <2> QED BY <1>13, <2>0, <2>1, <2>2
<1>17. Unmarked(g) => Unmarked(l)
  BY <1>2, <1>9, <1>10 DEF Unmarked
<1>18. Unmarked(g) /\ Ranked(heap) => Ranked(g)
  <2> SUFFICES ASSUME Unmarked(g), Ranked(heap) PROVE Ranked(g)
    OBVIOUS
  <2>1. Unmarked(h)
    <3>1. \A x \in DOMAIN h : h[x].marks \subseteq l[x].marks
      BY <1>2 DEF Evolves, SameRole
    <3> QED BY <1>2, <1>17, <3>1 DEF Unmarked
  <2>2. Ranked(h)
    BY <1>1, <2>1 DEF Stepped
  <2>3. Ranked(l)
    BY <1>2, <1>17, <2>2
  <2> QED BY <1>8, <1>9, <2>3, RankedSame
<1>19. Stepped(g)
  BY <1>11, <1>12, <1>15, <1>16, <1>18 DEF Stepped
<1>20. IsInjective(args) => IsChain(g, args)
  <2> SUFFICES ASSUME IsInjective(args) PROVE IsChain(g, args)
    OBVIOUS
  <2>1. IsChain(l, args)
    BY <1>2
  <2>2. \A i \in DOMAIN args : args[i] \in DOMAIN l
    BY <1>2
  <2> QED BY <1>8, <1>9, <2>1, <2>2 DEF IsChain
<1>21. self = NULL => \A x \in DOMAIN h : g[x].type = h[x].type /\ g[x].type_ptr = h[x].type_ptr
  BY <1>2, <1>8
<1> QED BY <1>2, <1>10, <1>17, <1>19, <1>20, <1>21 DEF self

-----------------------------------------------------------------------------
(* Type correctness.                                                        *)

\* The part of TypeOK about symbols.
SymbolsTyped(h, tab, f, ps, n) ==
    /\ h \in Heaps
    /\ \A x \in DOMAIN h : h[x].type_ptr <= n
    /\ tab \in [Scope \X Name -> 0 .. Len(h)]
    /\ \A key \in DOMAIN tab : tab[key] # NULL => h[tab[key]].name = key[2]
    /\ f \in 0 .. Len(h)
    /\ ps \in Seq(DOMAIN h)

\* The part of TypeOK about types.
NamesTyped ==
    /\ TypesTyped
    /\ typetab \in [Name -> 0 .. Len(types)]
    /\ structs \in Seq([tag : Name, fields : FieldSeq])

\* The part of TypeOK about the rest.
ModesTyped ==
    /\ scope \in Scope
    /\ pc \in {"decls", "declarators", "params", "stmts", "error", "hang", "undefined"}
    /\ misjudged \in BOOLEAN

(* TypeOK and Heaps say the same of a heap. *)
LEMMA HeapsAre ==
    ASSUME NEW h
    PROVE  h \in Heaps <=> h \in Seq(SymbolRec) /\ \A x \in DOMAIN h : h[x].next <= Len(h)
<1>1. ASSUME h \in Seq(SymbolRec)
      PROVE  \A x \in DOMAIN h : h[x].next \in 0 .. Len(h) <=> h[x].next <= Len(h)
  <2> SUFFICES ASSUME NEW x \in DOMAIN h
               PROVE  h[x].next \in 0 .. Len(h) <=> h[x].next <= Len(h)
    OBVIOUS
  <2>1. h[x] \in SymbolRec /\ Len(h) \in Nat
    BY <1>1
  <2>2. h[x].next \in Nat
    BY <2>1 DEF SymbolRec
  <2> QED BY <2>1, <2>2
<1> QED BY <1>1 DEF Heaps

(* TypeOK in three parts. *)
LEMMA TypeParts ==
    TypeOK <=> SymbolsTyped(heap, symtab, fn, params, Len(types)) /\ NamesTyped /\ ModesTyped
<1>1. heap \in Heaps <=> heap \in Seq(SymbolRec) /\ \A x \in DOMAIN heap : heap[x].next <= Len(heap)
  BY HeapsAre
<1> QED BY <1>1 DEF TypeOK, SymbolsTyped, NamesTyped, ModesTyped, TypesTyped

(* TypeOK in three parts, after a step. *)
LEMMA TypePartsNext ==
    TypeOK' <=> /\ SymbolsTyped(heap', symtab', fn', params', Len(types'))
                /\ NamesTyped' /\ ModesTyped'
<1>1. heap' \in Heaps <=>
        heap' \in Seq(SymbolRec) /\ \A x \in DOMAIN heap' : heap'[x].next <= Len(heap')
  BY HeapsAre
<1> QED BY <1>1 DEF TypeOK, SymbolsTyped, NamesTyped, ModesTyped, TypesTyped

(* What the lemmas about the operators need of TypeOK. *)
LEMMA TypeFacts ==
    ASSUME TypeOK
    PROVE  /\ Lexed /\ Pointed(heap) /\ TypesTyped /\ NamesTyped /\ ModesTyped
           /\ SymbolsTyped(heap, symtab, fn, params, Len(types))
           /\ Len(types) \in Nat /\ DOMAIN types = 1 .. Len(types)
           /\ Len(heap) \in Nat /\ DOMAIN heap = 1 .. Len(heap)
<1>1. SymbolsTyped(heap, symtab, fn, params, Len(types)) /\ NamesTyped /\ ModesTyped
  BY TypeParts
<1>2. TypesTyped
  BY <1>1 DEF NamesTyped
<1>3. Len(types) \in Nat /\ DOMAIN types = 1 .. Len(types)
  BY <1>2 DEF TypesTyped
<1>4. Lexed /\ Pointed(heap)
  BY <1>1, <1>3 DEF SymbolsTyped, ModesTyped, Lexed, Pointed
<1>5. Len(heap) \in Nat /\ DOMAIN heap = 1 .. Len(heap)
  BY <1>4, HeapFacts DEF Lexed
<1> QED BY <1>1, <1>2, <1>3, <1>4, <1>5

(* Symbols that evolve stay typed.                                           *)
LEMMA SteppedTyped ==
    ASSUME TypeOK, NEW h, Evolves(heap, h), Pointed(h)
    PROVE  /\ SymbolsTyped(h, symtab, fn, params, Len(types))
           /\ h \in Heaps /\ Len(h) \in Nat /\ DOMAIN h = 1 .. Len(h)
           /\ Len(heap) <= Len(h) /\ DOMAIN heap \subseteq DOMAIN h
           /\ \A x \in DOMAIN heap : h[x].name = heap[x].name /\ heap[x].marks \subseteq h[x].marks
<1>1. /\ SymbolsTyped(heap, symtab, fn, params, Len(types))
      /\ Len(heap) \in Nat /\ DOMAIN heap = 1 .. Len(heap)
  BY TypeFacts
<1>2. h \in Heaps /\ Len(heap) <= Len(h)
  BY DEF Evolves
<1>3. Len(h) \in Nat /\ DOMAIN h = 1 .. Len(h)
  BY <1>2, HeapFacts
<1>4. DOMAIN heap \subseteq DOMAIN h /\ 0 .. Len(heap) \subseteq 0 .. Len(h)
  BY <1>1, <1>2, <1>3
<1>5. \A x \in DOMAIN heap : h[x].name = heap[x].name /\ heap[x].marks \subseteq h[x].marks
  BY DEF Evolves, SameRole
<1>6. symtab \in [Scope \X Name -> 0 .. Len(h)]
  BY <1>1, <1>4 DEF SymbolsTyped
<1>7. \A key \in DOMAIN symtab : symtab[key] # NULL => h[symtab[key]].name = key[2]
  <2> SUFFICES ASSUME NEW key \in DOMAIN symtab, symtab[key] # NULL
               PROVE  h[symtab[key]].name = key[2]
    OBVIOUS
  <2>1. symtab[key] \in DOMAIN heap
    BY <1>1 DEF SymbolsTyped, NULL
  <2> QED BY <1>1, <1>5, <2>1 DEF SymbolsTyped
<1>8. fn \in 0 .. Len(h) /\ params \in Seq(DOMAIN h)
  <2>1. params \in Seq(DOMAIN heap)
    BY <1>1 DEF SymbolsTyped
  <2>2. params \in Seq(DOMAIN h)
    BY <1>4, <2>1
  <2> QED BY <1>1, <1>4, <2>2 DEF SymbolsTyped
<1> QED BY <1>2, <1>3, <1>4, <1>5, <1>6, <1>7, <1>8 DEF SymbolsTyped, Pointed

\* There is a current function in scope 1.
InFunction == /\ scope = 1 <=> fn # NULL
              /\ pc = "params" => scope = 1

\* A link leads in a circle only after a list has named a symbol again.
Links == Unmarked(heap) => Ranked(heap)

\* New entries of the symbol table are symbols that are new.
Enters ==
    /\ DOMAIN symtab' = DOMAIN symtab
    /\ \A key \in DOMAIN symtab :
          symtab'[key] = symtab[key] \/ (key[1] = scope /\ symtab'[key] \notin DOMAIN heap)

\* A step inside or outside of a function.
Quiet ==
    /\ Stepped(heap')
    /\ Enters
    /\ UNCHANGED <<scope, fn, params>>
    /\ pc # "params" /\ pc' # "params"

\* A hang leaves a mark.
HangMarked == pc' = "hang" /\ Links => ~ Unmarked(heap')

(* yyerror leaves nothing. *)
LEMMA ErrorStep ==
    ASSUME yyerror, misjudged' \in BOOLEAN
    PROVE  TypeOK' /\ InFunction' /\ heap' = << >> /\ pc' = "error"
<1>0. /\ heap' = << >> /\ symtab' = [key \in Scope \X Name |-> NULL]
      /\ types' = << >> /\ typetab' = [name \in Name |-> NULL] /\ scope' = 0
      /\ structs' = << >> /\ fn' = NULL /\ params' = << >> /\ pc' = "error"
  BY DEF yyerror
<1>1. heap' \in Heaps /\ Len(heap') = 0 /\ DOMAIN heap' = {}
  BY <1>0 DEF Heaps
<1>2. SymbolsTyped(heap', symtab', fn', params', Len(types'))
  BY <1>0, <1>1 DEF SymbolsTyped, NULL
<1>3. NamesTyped'
  BY <1>0 DEF NamesTyped, TypesTyped, NULL
<1>4. ModesTyped'
  BY <1>0 DEF ModesTyped, Scope
<1>5. InFunction'
  BY <1>0 DEF InFunction
<1> QED BY <1>0, <1>2, <1>3, <1>4, <1>5, TypePartsNext

(* A step that leaves the types and the function alone.                      *)
LEMMA QuietTyped ==
    ASSUME TypeOK, InFunction, Stepped(heap'), UNCHANGED <<symtab, types, typetab, scope, fn, params>>,
           pc' \in {"decls", "declarators", "stmts", "error", "hang", "undefined"},
           misjudged' \in BOOLEAN, structs' \in Seq([tag : Name, fields : FieldSeq]),
           pc # "params"
    PROVE  TypeOK' /\ InFunction' /\ Quiet
<1>1. NamesTyped /\ ModesTyped
  BY TypeFacts
<1>2. SymbolsTyped(heap', symtab, fn, params, Len(types))
  BY SteppedTyped DEF Stepped
<1>3. NamesTyped'
  BY <1>1 DEF NamesTyped, TypesTyped
<1>4. ModesTyped'
  BY <1>1 DEF ModesTyped
<1>5. InFunction'
  BY DEF InFunction
<1>6. SymbolsTyped(heap', symtab', fn', params', Len(types'))
  BY <1>2
<1>7. Quiet
  BY DEF Quiet, Enters
<1> QED BY <1>3, <1>4, <1>5, <1>6, <1>7, TypePartsNext

-----------------------------------------------------------------------------
(* The steps.                                                               *)

(* The type of a declarator refers to a type object that is there. *)
LEMMA DeclaratorTyped ==
    ASSUME TypeOK, NEW type \in DeclaratorType
    PROVE  type \in Type \X Nat /\ type[2] <= Len(types)
<1>1. typetab \in [Name -> 0 .. Len(types)] /\ Len(types) \in Nat
  BY TypeFacts DEF NamesTyped
<1>2. BaseType \subseteq Type /\ "TYPEDEF" \in Type /\ "STRUCT" \in Type
  BY DEF Type
<1>3. CASE pc = "declarators"
  BY <1>1, <1>2, <1>3 DEF DeclaratorType
<1>4. CASE type \in Plain
  BY <1>1, <1>2, <1>4 DEF Plain, NULL
<1>5. CASE type \in Struct
  BY <1>1, <1>2, <1>5 DEF Struct
<1> QED BY <1>3, <1>4, <1>5 DEF DeclaratorType

(* A list of declarators has names, and one of them at least. *)
LEMMA IdentifiersTyped ==
    ASSUME NEW names \in Identifiers
    PROVE  names \in Seq(Name) /\ names # << >>
<1>1. names \in SeqOf({n \in Name : Token(n) = "ID"}, MaxDeclarator) /\ names # << >>
  BY DEF Identifiers
<1>2. MaxDeclarator \in Nat
  BY NameAssumption
<1>3. PICK m \in 0 .. MaxDeclarator : names \in [1 .. m -> {n \in Name : Token(n) = "ID"}]
  BY <1>1 DEF SeqOf
<1>4. m \in Nat /\ names \in [1 .. m -> Name]
  BY <1>2, <1>3
<1> QED BY <1>1, <1>4

(* New symbols in heap h for the names of a list. *)
SymbolsOf(names, syms, h) ==
    /\ names \in Seq(Name)
    /\ h \in Heaps /\ Len(heap) <= Len(h)
    /\ \A x \in DOMAIN heap : h[x].name = heap[x].name
    /\ \A i \in 1 .. Len(names) : /\ syms[i] \in DOMAIN h \ DOMAIN heap
                                  /\ h[syms[i]].name = names[i]

(* A symbol table for heap h, that differs from symtab in new symbols of the *)
(* current scope. *)
TableFor(tab, h) ==
    /\ tab \in [Scope \X Name -> 0 .. Len(h)]
    /\ \A key \in DOMAIN symtab : tab[key] # NULL => h[tab[key]].name = key[2]
    /\ \A key \in DOMAIN symtab :
          tab[key] = symtab[key] \/ (key[1] = scope /\ tab[key] \notin DOMAIN heap)

(* The names of a list are entered with their own symbols. *)
LEMMA EnteredFacts ==
    ASSUME TypeOK, NEW names, NEW syms, NEW h, SymbolsOf(names, syms, h)
    PROVE  TableFor(Entered(names, syms), h)
<1> DEFINE tab == Entered(names, syms)
           at(key) == SelectInSeq(names, LAMBDA n : n = key[2])
           Here == {scope} \X Range(names)
<1>1. /\ symtab \in [Scope \X Name -> 0 .. Len(heap)]
      /\ \A key \in DOMAIN symtab : symtab[key] # NULL => heap[symtab[key]].name = key[2]
      /\ Len(heap) \in Nat /\ DOMAIN heap = 1 .. Len(heap)
      /\ Len(h) \in Nat /\ DOMAIN h = 1 .. Len(h)
      /\ Len(heap) <= Len(h) /\ names \in Seq(Name)
      /\ \A x \in DOMAIN heap : h[x].name = heap[x].name
  BY TypeFacts, HeapFacts DEF Lexed, SymbolsOf
<1>2. tab = [key \in DOMAIN symtab |-> IF key \in Here THEN syms[at(key)] ELSE symtab[key]]
  BY DEF Entered
<1>3. ASSUME NEW key \in Here
      PROVE  /\ syms[at(key)] \in DOMAIN h \ DOMAIN heap /\ h[syms[at(key)]].name = key[2]
             /\ key[1] = scope
  <2>1. key[2] \in Range(names) /\ key[1] = scope
    OBVIOUS
  <2>2. at(key) \in 1 .. Len(names) /\ names[at(key)] = key[2]
    <3> DEFINE I == {i \in 1 .. Len(names) : names[i] = key[2]}
    <3>1. I # {} /\ I \subseteq Nat
      BY <2>1 DEF Range
    <3>2. Min(I) \in I
      BY <3>1, MinFacts
    <3>3. at(key) = Min(I)
      BY <3>1 DEF SelectInSeq
    <3> QED BY <3>2, <3>3
  <2> QED BY <2>1, <2>2 DEF SymbolsOf
<1> HIDE DEF tab, at, Here
<1>4. /\ DOMAIN tab = DOMAIN symtab /\ tab = [key \in DOMAIN symtab |-> tab[key]]
      /\ \A key \in DOMAIN symtab : tab[key] = IF key \in Here THEN syms[at(key)] ELSE symtab[key]
  BY <1>2
<1>5. ASSUME NEW key \in DOMAIN symtab
      PROVE  /\ tab[key] \in 0 .. Len(h)
             /\ tab[key] # NULL => h[tab[key]].name = key[2]
             /\ tab[key] = symtab[key] \/ (key[1] = scope /\ tab[key] \notin DOMAIN heap)
  <2>1. CASE key \in Here
    BY <1>1, <1>3, <1>4, <2>1
  <2>2. CASE key \notin Here
    <3>1. tab[key] = symtab[key]
      BY <1>4, <2>2
    <3>2. symtab[key] \in 0 .. Len(heap)
      BY <1>1
    <3>3. symtab[key] # NULL => symtab[key] \in DOMAIN heap
      BY <1>1, <3>2 DEF NULL
    <3> QED BY <1>1, <3>1, <3>2, <3>3
  <2> QED BY <2>1, <2>2
<1>6. tab \in [Scope \X Name -> 0 .. Len(h)]
  BY <1>1, <1>4, <1>5
<1>7. TableFor(tab, h)
  BY <1>5, <1>6 DEF TableFor
<1> QED BY <1>7 DEF tab

(* A declaration of variables keeps the types, and a hang in it leaves a mark. *)
LEMMA DeclareVarsStep ==
    ASSUME TypeOK, InFunction, pc # "params", misjudged' = misjudged, structs = << >>,
           NEW type \in DeclaratorType, NEW names \in Identifiers,
           DeclareVars(type, names)
    PROVE  TypeOK' /\ InFunction' /\ (yyerror \/ Quiet) /\ HangMarked
<1> DEFINE scan == ScanAll(names)
           list == ListOf(scan.heap, scan.syms)
           refused == ~ IsInjective(names) \/ \E n \in Range(names) : symtab[<<scope, n>>] # NULL
           h == VariablesIn(list.heap, scan.syms, type)
<1>0. /\ Lexed /\ Pointed(heap) /\ NamesTyped /\ ModesTyped /\ misjudged' \in BOOLEAN
      /\ structs \in Seq([tag : Name, fields : FieldSeq])
  BY TypeFacts DEF ModesTyped, NamesTyped
<1>1. names \in Seq(Name) /\ names # << >> /\ type \in Type \X Nat /\ type[2] <= Len(types)
  BY IdentifiersTyped, DeclaratorTyped
<1>2. Listed(names, scan, list)
  BY <1>1 DEF Listed
<1>3. \/ /\ list.endless
         /\ pc' = "hang"
         /\ UNCHANGED <<symtab, types, typetab, scope, structs, fn, params>>
         /\ heap' = Again(heap, scan.syms)
      \/ yyerror
      \/ /\ ~ list.endless /\ ~ refused
         /\ pc' = "decls"
         /\ UNCHANGED <<types, typetab, scope, structs, fn, params>>
         /\ heap' = h
         /\ symtab' = Entered(names, scan.syms)
  BY DEF DeclareVars, VariablesIn, Variable
<1>4. CASE yyerror
  <2>1. TypeOK' /\ InFunction' /\ pc' = "error"
    BY <1>0, <1>4, ErrorStep
  <2> QED BY <1>4, <2>1 DEF HangMarked
<1> HIDE DEF list, scan
<1>5. CASE /\ list.endless
           /\ pc' = "hang"
           /\ UNCHANGED <<symtab, types, typetab, scope, structs, fn, params>>
           /\ heap' = Again(heap, scan.syms)
  <2>1. Stepped(heap')
    BY <1>0, <1>5, AgainStepped
  <2>2. TypeOK' /\ InFunction' /\ Quiet
    BY <1>0, <1>5, <2>1, QuietTyped
  <2>3. Reused(scan.syms) # {}
    BY <1>0, <1>2, <1>5, Unreused
  <2>4. ~ Unmarked(heap')
    BY <1>0, <1>5, <2>3, ReusedMarked DEF Lexed
  <2> QED BY <2>2, <2>4 DEF HangMarked
<1>6. CASE /\ ~ list.endless /\ ~ refused
           /\ pc' = "decls"
           /\ UNCHANGED <<types, typetab, scope, structs, fn, params>>
           /\ heap' = h
           /\ symtab' = Entered(names, scan.syms)
  <2>1. /\ Stepped(h)
        /\ \A i \in 1 .. Len(names) :
              scan.syms[i] \in DOMAIN h \ DOMAIN heap /\ h[scan.syms[i]].name = names[i]
    BY <1>0, <1>1, <1>2, <1>6, VarsFacts, SMTT(30)
  <2> HIDE DEF h, refused
  <2>2. /\ SymbolsTyped(h, symtab, fn, params, Len(types))
        /\ h \in Heaps /\ Len(heap) <= Len(h) /\ DOMAIN heap \subseteq DOMAIN h
        /\ \A x \in DOMAIN heap : h[x].name = heap[x].name
    BY <2>1, SteppedTyped DEF Stepped
  <2>3. /\ symtab' \in [Scope \X Name -> 0 .. Len(h)]
        /\ \A key \in DOMAIN symtab : symtab'[key] # NULL => h[symtab'[key]].name = key[2]
        /\ \A key \in DOMAIN symtab :
              symtab'[key] = symtab[key] \/ (key[1] = scope /\ symtab'[key] \notin DOMAIN heap)
    <3>1. SymbolsOf(names, scan.syms, h)
      BY <1>1, <2>1, <2>2 DEF SymbolsOf
    <3>2. TableFor(Entered(names, scan.syms), h)
      BY <3>1, EnteredFacts
    <3>3. TableFor(symtab', h)
      BY <1>6, <3>2, Zenon
    <3> QED BY <3>3 DEF TableFor
  <2>4. DOMAIN symtab' = DOMAIN symtab
    BY <1>0, <2>3 DEF Lexed
  <2>5. SymbolsTyped(heap', symtab', fn', params', Len(types'))
    BY <1>6, <2>2, <2>3, <2>4 DEF SymbolsTyped
  <2>6. NamesTyped' /\ ModesTyped'
    BY <1>0, <1>6 DEF NamesTyped, TypesTyped, ModesTyped
  <2>7. InFunction'
    BY <1>6 DEF InFunction
  <2>8. Quiet
    BY <1>6, <2>1, <2>3, <2>4 DEF Quiet, Enters
  <2>9. HangMarked
    BY <1>6 DEF HangMarked
  <2> QED BY <2>5, <2>6, <2>7, <2>8, <2>9, TypePartsNext
<1> QED BY <1>3, <1>4, <1>5, <1>6

(* var_decl keeps the types, and a hang in it leaves a mark. *)
LEMMA VarDeclStep ==
    ASSUME TypeOK, InFunction, VarDecl
    PROVE  TypeOK' /\ InFunction' /\ (yyerror \/ Quiet) /\ HangMarked
<1>1. pc # "params" /\ misjudged' = misjudged /\ structs = << >>
  BY DEF VarDecl, AtDeclarators
<1>2. PICK type \in DeclaratorType, names \in Identifiers : DeclareVars(type, names)
  BY DEF VarDecl
<1> QED BY <1>1, <1>2, DeclareVarsStep

(* To leave the heap alone is a step that the invariants allow. *)
LEMMA StayStepped ==
    ASSUME Lexed, Pointed(heap)
    PROVE  Stepped(heap)
<1>1. heap \in Heaps /\ Len(heap) \in Nat /\ DOMAIN heap = 1 .. Len(heap)
  BY HeapFacts DEF Lexed
<1>2. ReadHeap(heap)
  BY <1>1 DEF ReadHeap, MemberRead
<1> QED BY <1>2, ReadStepped

(* Without marks after a step there were none before, and no circle. *)
LEMMA UnmarkedBefore ==
    ASSUME TypeOK, NEW g, Stepped(g), Unmarked(g), Links
    PROVE  Unmarked(heap) /\ Ranked(heap)
<1>1. /\ DOMAIN heap \subseteq DOMAIN g
      /\ \A x \in DOMAIN heap : heap[x].marks \subseteq g[x].marks
  BY SteppedTyped DEF Stepped
<1>2. \A x \in DOMAIN g : g[x].marks \cap {"again", "twice"} = {}
  BY DEF Unmarked
<1>3. Unmarked(heap)
  BY <1>1, <1>2 DEF Unmarked
<1> QED BY <1>3 DEF Links

(* The fields that a list of members makes. *)
LEMMA FieldsTyped ==
    ASSUME NEW h \in Heaps, NEW s, Chain(h, s) \in Seq(DOMAIN h)
    PROVE  Fields(h, s) \in FieldSeq
<1> DEFINE c == Chain(h, s)
           f == [i \in DOMAIN c |-> <<h[c[i]].name, h[c[i]].type>>]
<1>1. Fields(h, s) = f
  BY DEF Fields
<1>2. PICK n \in Nat : DOMAIN c = 1 .. n /\ \A i \in 1 .. n : c[i] \in DOMAIN h
  <2>1. Len(c) \in Nat /\ DOMAIN c = 1 .. Len(c) /\ \A i \in 1 .. Len(c) : c[i] \in DOMAIN h
    OBVIOUS
  <2> QED BY <2>1
<1> HIDE DEF c
<1>3. \A i \in 1 .. n : <<h[c[i]].name, h[c[i]].type>> \in (Name \cup {"1"}) \X Type
  <2>1. \A x \in DOMAIN h : h[x].name \in Name \cup {"1"} /\ h[x].type \in Type
    BY HeapFacts DEF SymbolRec
  <2> QED BY <1>2, <2>1
<1>4. f \in [1 .. n -> (Name \cup {"1"}) \X Type]
  BY <1>2, <1>3
<1> HIDE DEF f
<1> QED BY <1>1, <1>4 DEF FieldSeq

(* The innermost structure that is not complete. *)
LEMMA LastTyped ==
    ASSUME structs \in Seq([tag : Name, fields : FieldSeq]), structs # << >>
    PROVE  /\ Len(structs) \in Nat /\ Len(structs) \in 1 .. Len(structs)
           /\ structs \in [1 .. Len(structs) -> [tag : Name, fields : FieldSeq]]
           /\ Last(structs) = structs[Len(structs)]
           /\ Last(structs).fields \in FieldSeq /\ Last(structs).tag \in Name
           /\ Front(structs) \in Seq([tag : Name, fields : FieldSeq])
           /\ Len(Front(structs)) = Len(structs) - 1
           /\ \A i \in 1 .. Len(structs) - 1 : Front(structs)[i] = structs[i]
<1> DEFINE T == [tag : Name, fields : FieldSeq]
           k == Len(structs)
<1> HIDE DEF T
<1>1. structs \in Seq(T)
  BY DEF T
<1>2. k \in Nat /\ structs \in [1 .. k -> T]
  BY <1>1
<1>3. k # 0
  BY <1>1
<1>4. Last(structs) = structs[k] /\ Front(structs) = [i \in 1 .. k - 1 |-> structs[i]]
  BY DEF Last, Front
<1> HIDE DEF k
<1>5. k \in 1 .. k /\ structs[k] \in T
  BY <1>2, <1>3
<1>6. structs[k].fields \in FieldSeq /\ structs[k].tag \in Name
  BY <1>5 DEF T
<1>7. k - 1 \in Nat /\ Front(structs) \in [1 .. k - 1 -> T]
  BY <1>2, <1>3, <1>4
<1>8. /\ Front(structs) \in Seq(T) /\ Len(Front(structs)) = k - 1
      /\ \A i \in 1 .. k - 1 : Front(structs)[i] = structs[i]
  BY <1>4, <1>7
<1> QED BY <1>2, <1>4, <1>5, <1>6, <1>8 DEF k, T

(* struct_var_decl keeps the types, and a hang in it leaves a mark. *)
LEMMA MembersStep ==
    ASSUME TypeOK, InFunction, Members
    PROVE  TypeOK' /\ InFunction' /\ (yyerror \/ Quiet) /\ HangMarked
<1>1. /\ pc # "params" /\ misjudged' = misjudged /\ structs # << >>
      /\ UNCHANGED <<symtab, types, typetab, scope, fn, params>>
  BY DEF Members, AtDeclarators
<1>2. /\ Lexed /\ Pointed(heap) /\ NamesTyped /\ misjudged' \in BOOLEAN
      /\ structs \in Seq([tag : Name, fields : FieldSeq])
  BY <1>1, TypeFacts DEF ModesTyped, NamesTyped
<1>3. PICK type \in DeclaratorType, names \in Identifiers : AddMembers(structs, type, names)
  BY DEF Members
<1>4. names \in Seq(Name) /\ names # << >> /\ type \in Type \X Nat /\ type[2] <= Len(types)
  BY IdentifiersTyped, DeclaratorTyped
<1> DEFINE scan == ScanAll(names)
           list == ListOf(scan.heap, scan.syms)
           head == scan.syms[1]
           new == MembersIn(Again(list.heap, scan.syms), Range(Chain(list.heap, head)), type)
           fields == Last(structs).fields \o Fields(new, head)
<1>5. \/ /\ list.endless \/ Endless(list.heap, head)
         /\ pc' = "hang" /\ heap' = Again(heap, scan.syms) /\ structs' = structs
      \/ /\ ~ (list.endless \/ Endless(list.heap, head))
         /\ heap' = new
         /\ structs' = [structs EXCEPT ![Len(structs)].fields = fields]
         /\ pc' = "decls"
  BY <1>3 DEF AddMembers, MembersIn, Member
<1>6. Listed(names, scan, list)
  BY <1>4 DEF Listed
<1> HIDE DEF list, scan
<1>7. CASE /\ list.endless \/ Endless(list.heap, head)
           /\ pc' = "hang" /\ heap' = Again(heap, scan.syms) /\ structs' = structs
  <2>1. Stepped(heap')
    BY <1>2, <1>7, AgainStepped
  <2>2. TypeOK' /\ InFunction' /\ Quiet
    BY <1>1, <1>2, <1>7, <2>1, QuietTyped
  <2>3. ASSUME Links, Unmarked(heap') PROVE FALSE
    <3>1. Ranked(heap)
      BY <2>1, <2>3, UnmarkedBefore
    <3>2. Reused(scan.syms) = {}
      BY <1>2, <1>7, <2>3, ReusedMarked DEF Lexed
    <3>3. list.endless = FALSE /\ Ranked(list.heap)
      BY <1>2, <1>6, <3>1, <3>2, Unreused
    <3>4. /\ list.heap \in Heaps /\ head \in DOMAIN list.heap
      BY <1>2, <1>6, ListedFacts
    <3> HIDE DEF head
    <3>5. Pointers(list.heap) /\ head \in 0 .. Len(list.heap)
      BY <3>4, HeapFacts
    <3>6. ~ Endless(list.heap, head)
      BY <3>3, <3>5, RankedEnds
    <3> QED BY <1>7, <3>3, <3>6
  <2> QED BY <2>2, <2>3 DEF HangMarked
<1>8. CASE /\ ~ (list.endless \/ Endless(list.heap, head))
           /\ heap' = new
           /\ structs' = [structs EXCEPT ![Len(structs)].fields = fields]
           /\ pc' = "decls"
  <2>1. Stepped(new) /\ Chain(new, head) \in Seq(DOMAIN new)
    BY <1>2, <1>4, <1>6, <1>8, MembersFacts
  <2> HIDE DEF new, head
  <2>2. new \in Heaps
    BY <2>1 DEF Stepped, Evolves
  <2>3. Fields(new, head) \in FieldSeq
    BY <2>1, <2>2, FieldsTyped
  <2>4. Last(structs).fields \in FieldSeq
    BY <1>1, <1>2, LastTyped
  <2>5. fields \in FieldSeq
    BY <2>3, <2>4 DEF FieldSeq
  <2> HIDE DEF fields
  <2>6. structs' \in Seq([tag : Name, fields : FieldSeq])
    <3> DEFINE k == Len(structs)
               T == [tag : Name, fields : FieldSeq]
    <3>1. k \in Nat /\ k \in 1 .. k /\ structs \in [1 .. k -> T]
      BY <1>1, <1>2, LastTyped
    <3>2. [structs[k] EXCEPT !.fields = fields] \in T
      BY <2>5, <3>1
    <3>3. structs' = [structs EXCEPT ![k] = [structs[k] EXCEPT !.fields = fields]]
      BY <1>8
    <3> HIDE DEF k, T
    <3>4. structs' \in [1 .. k -> T]
      BY <3>1, <3>2, <3>3
    <3>5. structs' \in Seq(T)
      BY <3>1, <3>4
    <3> QED BY <3>5 DEF T
  <2>7. TypeOK' /\ InFunction' /\ Quiet
    BY <1>1, <1>2, <1>8, <2>1, <2>6, QuietTyped
  <2> QED BY <1>8, <2>7 DEF HangMarked
<1> QED BY <1>5, <1>7, <1>8

(* A new type object, and its name. *)
LEMMA InsertFacts ==
    ASSUME NamesTyped, NEW name \in Name, NEW type \in {"TYPEDEF", "STRUCT"},
           NEW fields \in FieldSeq, insert_type(name, type, fields)
    PROVE  /\ TypesTyped' /\ Len(types) \in Nat /\ Len(types') = Len(types) + 1
           /\ typetab' \in [Name -> 0 .. Len(types')]
           /\ types'[Len(types) + 1] =
                 [name |-> name, type |-> type, fields |-> fields, depth |-> Len(structs)]
           /\ \A i \in 1 .. Len(types) : types'[i] = types[i]
           /\ typetab'[name] # NULL
           /\ \A n \in Name : typetab[n] # NULL => typetab'[n] = typetab[n]
<1> DEFINE T == [name : Name, type : {"TYPEDEF", "STRUCT"}, fields : FieldSeq, depth : Nat]
           t == [name |-> name, type |-> type, fields |-> fields, depth |-> Len(structs)]
<1>1. types \in Seq(T) /\ typetab \in [Name -> 0 .. Len(types)] /\ Len(structs) \in Nat
  BY DEF NamesTyped, TypesTyped
<1>2. t \in T
  BY <1>1
<1>3. /\ types' = Append(types, t)
      /\ typetab' = IF typetab[name] = NULL
                    THEN [typetab EXCEPT ![name] = Len(types) + 1] ELSE typetab
  BY DEF insert_type
<1> HIDE DEF T
<1>4. types' \in Seq(T) /\ Len(types) \in Nat /\ Len(types') = Len(types) + 1
      /\ types'[Len(types) + 1] = t /\ \A i \in 1 .. Len(types) : types'[i] = types[i]
  <2> HIDE DEF t
  <2> QED BY <1>1, <1>2, <1>3
<1> DEFINE k == Len(types)
<1> HIDE DEF t
<1>5. k \in Nat /\ Len(types') = k + 1 /\ typetab \in [Name -> 0 .. k]
      /\ typetab' = IF typetab[name] = NULL THEN [typetab EXCEPT ![name] = k + 1] ELSE typetab
  BY <1>1, <1>3, <1>4
<1> HIDE DEF k
<1>6. /\ typetab' \in [Name -> 0 .. k + 1] /\ typetab'[name] # NULL
      /\ \A n \in Name : typetab[n] # NULL => typetab'[n] = typetab[n]
  BY <1>5 DEF NULL
<1> QED BY <1>4, <1>5, <1>6 DEF TypesTyped, T, t

(* A step that makes a type leaves the symbols alone. *)
LEMMA InsertTyped ==
    ASSUME TypeOK, InFunction, NEW name \in Name, NEW type \in {"TYPEDEF", "STRUCT"},
           NEW fields \in FieldSeq, insert_type(name, type, fields),
           UNCHANGED <<heap, symtab, scope, fn, params, misjudged>>,
           pc # "params", pc' \in {"decls", "declarators", "undefined"},
           structs' \in Seq([tag : Name, fields : FieldSeq])
    PROVE  TypeOK' /\ InFunction' /\ Quiet
<1>1. /\ NamesTyped /\ ModesTyped /\ Lexed /\ Pointed(heap)
      /\ SymbolsTyped(heap, symtab, fn, params, Len(types))
  BY TypeFacts
<1>2. /\ TypesTyped' /\ Len(types) \in Nat /\ Len(types') = Len(types) + 1
      /\ typetab' \in [Name -> 0 .. Len(types')]
  BY <1>1, InsertFacts
<1>3. NamesTyped'
  BY <1>2 DEF NamesTyped
<1>4. ModesTyped'
  BY <1>1 DEF ModesTyped
<1>5. SymbolsTyped(heap, symtab, fn, params, Len(types'))
  <2>1. \A x \in DOMAIN heap : heap[x].type_ptr \in Nat /\ heap[x].type_ptr <= Len(types)
    BY <1>1, HeapFacts DEF Lexed, Pointed, SymbolRec
  <2>2. \A x \in DOMAIN heap : heap[x].type_ptr <= Len(types')
    BY <1>2, <2>1
  <2> QED BY <1>1, <2>2 DEF SymbolsTyped
<1>6. InFunction'
  BY DEF InFunction
<1>7. Stepped(heap)
  BY <1>1, StayStepped
<1>8. Quiet
  BY <1>7 DEF Quiet, Enters
<1> QED BY <1>3, <1>4, <1>5, <1>6, <1>8, TypePartsNext

(* A typedef keeps the types. *)
LEMMA TypedefStep ==
    ASSUME TypeOK, InFunction, NEW name \in Name, TypedefDecl(name)
    PROVE  TypeOK' /\ InFunction' /\ (yyerror \/ Quiet) /\ HangMarked
<1>1. /\ pc = "decls" /\ insert_type(name, "TYPEDEF", << >>)
      /\ UNCHANGED <<heap, symtab, scope, pc, structs, fn, params, misjudged>>
  BY DEF TypedefDecl, AtDecl
<1>2. structs' \in Seq([tag : Name, fields : FieldSeq]) /\ << >> \in FieldSeq
  BY <1>1, TypeFacts DEF NamesTyped, FieldSeq
<1>3. TypeOK' /\ InFunction' /\ Quiet
  BY <1>1, <1>2, InsertTyped
<1> QED BY <1>1, <1>3 DEF HangMarked

(* The opening brace of a structure keeps the types. *)
LEMMA StructBeginStep ==
    ASSUME TypeOK, InFunction, NEW tag \in Name, StructBegin(tag)
    PROVE  TypeOK' /\ InFunction' /\ (yyerror \/ Quiet) /\ HangMarked
<1> DEFINE new == [tag |-> tag, fields |-> << >>]
           T == [tag : Name, fields : FieldSeq]
<1>1. /\ pc = "decls" /\ structs' = Append(structs, new)
      /\ UNCHANGED <<heap, symtab, types, typetab, scope, pc, fn, params, misjudged>>
  BY DEF StructBegin
<1>2. /\ structs \in Seq(T) /\ Lexed /\ Pointed(heap) /\ misjudged \in BOOLEAN
  BY TypeFacts DEF NamesTyped, ModesTyped
<1>3. new \in T
  BY DEF FieldSeq
<1>4. structs' \in Seq(T)
  <2> HIDE DEF new, T
  <2> QED BY <1>1, <1>2, <1>3
<1>5. Stepped(heap')
  BY <1>1, <1>2, StayStepped
<1>6. TypeOK' /\ InFunction' /\ Quiet
  BY <1>1, <1>2, <1>4, <1>5, QuietTyped
<1> QED BY <1>1, <1>6 DEF HangMarked

(* The closing brace of a structure keeps the types. *)
LEMMA StructEndStep ==
    ASSUME TypeOK, InFunction, StructEnd
    PROVE  TypeOK' /\ InFunction' /\ (yyerror \/ Quiet) /\ HangMarked
<1> DEFINE this == Last(structs)
<1>1. /\ pc = "decls" /\ structs # << >> /\ misjudged' = misjudged
      /\ \/ /\ pc' \in {"declarators", "undefined", "decls"}
            /\ structs' = Front(structs)
            /\ insert_type(this.tag, "STRUCT", this.fields)
            /\ UNCHANGED <<heap, symtab, scope, fn, params>>
         \/ yyerror
  BY DEF StructEnd
<1>2. /\ structs \in Seq([tag : Name, fields : FieldSeq]) /\ misjudged \in BOOLEAN
  BY TypeFacts DEF NamesTyped, ModesTyped
<1>3. CASE yyerror
  BY <1>1, <1>2, <1>3, ErrorStep DEF HangMarked
<1>4. CASE /\ pc' \in {"declarators", "undefined", "decls"}
           /\ structs' = Front(structs)
           /\ insert_type(this.tag, "STRUCT", this.fields)
           /\ UNCHANGED <<heap, symtab, scope, fn, params>>
  <2>1. /\ this.tag \in Name /\ this.fields \in FieldSeq
        /\ Front(structs) \in Seq([tag : Name, fields : FieldSeq])
    BY <1>1, <1>2, LastTyped
  <2> HIDE DEF this
  <2>2. TypeOK' /\ InFunction' /\ Quiet
    BY <1>1, <1>4, <2>1, InsertTyped
  <2> QED BY <1>4, <2>2 DEF HangMarked
<1> QED BY <1>1, <1>3, <1>4

(* The references and lists of them that statements have. *)
LEMMA SeqOfFacts ==
    ASSUME NEW S, NEW T, S \subseteq T, NEW n \in Int, NEW s \in SeqOf(S, n)
    PROVE  s \in Seq(T) /\ Len(s) <= n /\ Len(s) \in Nat
<1>1. PICK m \in 0 .. n : s \in [1 .. m -> S]
  BY DEF SeqOf
<1>2. s \in [1 .. m -> T] /\ m \in Nat
  BY <1>1
<1>3. s \in Seq(T) /\ Len(s) = m
  BY <1>2
<1> QED BY <1>1, <1>2, <1>3

(* The references of statements are names with members, and no constants. *)
LEMMA ReferencesTyped ==
    References \subseteq RefSet /\ Constant \notin References
<1>1. ASSUME NEW ref \in References
      PROVE  ref \in [name : Name, member : Name \cup {""}]
  <2> DEFINE members == Name \cap UNION {FieldNames(obj) : obj \in DOMAIN types}
             names == {n \in Name : Visible(n) # NULL}
  <2>1. ref \in [name : names, member : members \cup {""}]
    BY DEF References
  <2>2. names \subseteq Name /\ members \subseteq Name
    OBVIOUS
  <2> HIDE DEF names, members
  <2> QED BY <2>1, <2>2
<1>2. Constant.name = "1"
  BY DEF Constant
<1>3. "1" \notin Name
  BY NameAssumption
<1> QED BY <1>1, <1>2, <1>3 DEF RefSet

(* A step that evaluates operands, or refuses them. *)
LEMMA AfterStep ==
    ASSUME TypeOK, InFunction, NEW accepted, NEW h, After(accepted, h), Stepped(h),
           misjudged' \in BOOLEAN, pc # "params"
    PROVE  TypeOK' /\ InFunction' /\ (yyerror \/ Quiet) /\ HangMarked
<1>1. \/ /\ pc' = "stmts" /\ heap' = h
         /\ UNCHANGED <<symtab, types, typetab, scope, structs, fn, params>>
      \/ yyerror
  BY DEF After
<1>2. CASE yyerror
  BY <1>2, ErrorStep DEF HangMarked
<1>3. CASE /\ pc' = "stmts" /\ heap' = h
           /\ UNCHANGED <<symtab, types, typetab, scope, structs, fn, params>>
  <2>1. structs' \in Seq([tag : Name, fields : FieldSeq])
    BY <1>3, TypeFacts DEF NamesTyped
  <2>2. TypeOK' /\ InFunction' /\ Quiet
    BY <1>3, <2>1, QuietTyped
  <2> QED BY <1>3, <2>2 DEF HangMarked
<1> QED BY <1>1, <1>2, <1>3

(* The judgement of a statement is a Boolean. *)
LEMMA JudgeTyped ==
    ASSUME misjudged \in BOOLEAN, NEW clean, NEW accepted, NEW right,
           Judge(clean, accepted, right)
    PROVE  misjudged' \in BOOLEAN
<1>1. misjudged' = (misjudged \/ (clean /\ accepted # right))
  BY DEF Judge
<1> QED BY <1>1

(* The arguments are what the evaluation found behind the target. *)
LEMMA ArgumentsTyped ==
    ASSUME NEW S, NEW s \in Seq(S), NEW k \in Nat, NEW args, args = SubSeq(s, k + 1, Len(s))
    PROVE  /\ args \in Seq(S)
           /\ \A i \in DOMAIN args : i + k \in DOMAIN s /\ args[i] = s[i + k]
           /\ k <= Len(s) => Len(args) = Len(s) - k
<1> DEFINE n == Len(s)
<1>1. n \in Nat /\ DOMAIN s = 1 .. n /\ \A i \in 1 .. n : s[i] \in S
  OBVIOUS
<1>2. args = [i \in 1 .. n - k |-> s[i + k]]
  <2>1. args = [i \in 1 .. 1 + n - (k + 1) |-> s[i + (k + 1) - 1]]
    OBVIOUS
  <2>2. 1 + n - (k + 1) = n - k /\ \A i \in 1 .. n - k : i + (k + 1) - 1 = i + k
    BY <1>1
  <2> HIDE DEF n
  <2> QED BY <1>1, <2>1, <2>2
<1> HIDE DEF n
<1>3. CASE k <= n
  <2>0. n - k \in Nat /\ \A i \in 1 .. n - k : i + k \in 1 .. n /\ s[i + k] \in S
    BY <1>1, <1>3
  <2>1. n - k \in Nat /\ args \in [1 .. n - k -> S]
    BY <1>2, <2>0
  <2>2. args \in Seq(S) /\ Len(args) = n - k /\ DOMAIN args = 1 .. n - k
    BY <2>1
  <2>3. \A i \in 1 .. n - k : i + k \in 1 .. n /\ args[i] = s[i + k]
    BY <1>1, <1>2, <1>3
  <2> QED BY <1>1, <2>2, <2>3 DEF n
<1>4. CASE ~ k <= n
  <2>1. args \in [1 .. 0 -> S] /\ DOMAIN args = {}
    BY <1>1, <1>2, <1>4
  <2>2. args \in Seq(S)
    BY <2>1
  <2> QED BY <1>4, <2>1, <2>2 DEF n
<1> QED BY <1>3, <1>4

(* A statement is in the body of a function. *)
LEMMA InBody ==
    ASSUME TypeOK, InFunction, AtStmt
    PROVE  pc # "params" /\ pc # "error" /\ scope = 1 /\ fn \in DOMAIN heap
<1>1. scope = 1 /\ pc # "params" /\ pc # "error"
  BY DEF AtStmt
<1>2. fn # NULL /\ fn \in 0 .. Len(heap) /\ Len(heap) \in Nat /\ DOMAIN heap = 1 .. Len(heap)
  BY <1>1, TypeFacts DEF InFunction, SymbolsTyped
<1> QED BY <1>1, <1>2 DEF NULL

(* function_call keeps the types, and hangs only on arguments that occur twice. *)
LEMMA CallStep ==
    ASSUME TypeOK, InFunction, AtStmt, NEW target \in Seq(RefSet), NEW refs \in Seq(RefSet),
           NEW ev, ev = Evaluate(target \o refs), NEW name \in Name,
           Call(target, name, refs, ev)
    PROVE  TypeOK' /\ InFunction' /\ (yyerror \/ Quiet) /\ HangMarked
<1> DEFINE args == SubSeq(ev.syms, Len(target) + 1, Len(ev.syms))
           h == Called(ev.heap, name, args)
           all == target \o refs
<1>1. PICK accepted, clean, right :
        \/ /\ pc' = "hang" /\ heap' = h
           /\ UNCHANGED <<symtab, types, typetab, scope, structs, fn, params, misjudged>>
           /\ ev.ok /\ refs # << >> /\ Endless(h, args[1])
        \/ After(accepted, h) /\ Judge(clean, accepted, right)
  <2> DEFINE callee == symtab[<<0, name>>]
             known  == ev.ok /\ (callee # NULL \/ heap[fn].name = name)
             counts == known /\ refs # << >> /\ callee # NULL
             value  == <<heap[IF callee = NULL THEN fn ELSE callee].type, NULL>>
             accepted == /\ known
                         /\ counts => ArgumentCount(h, args[1]) = heap[callee].n_param
                         /\ target # << >> => match_type(TypeNow(h, ev.syms[1]), value)
             right  == /\ Len(refs) = heap[callee].arity
                       /\ \A i \in DOMAIN target :
                             Takes(DeclaredType(target[i]), <<<<heap[callee].decl, NULL>>>>)
             loops  == counts /\ Endless(h, args[1])
             clean == ev.ok /\ CleanCall(target, name, refs, args)
  <2>1. \/ /\ loops /\ pc' = "hang" /\ heap' = h
           /\ UNCHANGED <<symtab, types, typetab, scope, structs, fn, params, misjudged>>
        \/ After(accepted, h) /\ Judge(clean, accepted, right)
    BY DEF Call
  <2> HIDE DEF accepted, right, clean, args, h
  <2> QED BY <2>1
<1>2. /\ Lexed /\ Pointed(heap) /\ TypesTyped /\ misjudged \in BOOLEAN
      /\ fn \in DOMAIN heap /\ pc # "params" /\ all \in Seq(RefSet)
      /\ Len(target) \in Nat /\ Len(refs) \in Nat /\ Len(all) = Len(target) + Len(refs)
  BY TypeFacts, InBody DEF ModesTyped
<1>3. /\ ReadHeap(ev.heap) /\ ev.syms \in Seq(DOMAIN ev.heap)
      /\ \A i \in DOMAIN ev.syms : FromTable(ev.syms[i])
      /\ ev.ok => Len(ev.syms) = Len(all)
  BY <1>2, EvaluateFacts
<1>4. /\ args \in Seq(DOMAIN ev.heap)
      /\ \A i \in DOMAIN args : FromTable(args[i])
      /\ ev.ok => Len(args) = Len(refs)
  <2>1. /\ \A i \in DOMAIN args : i + Len(target) \in DOMAIN ev.syms
                                  /\ args[i] = ev.syms[i + Len(target)]
        /\ args \in Seq(DOMAIN ev.heap)
        /\ Len(target) <= Len(ev.syms) => Len(args) = Len(ev.syms) - Len(target)
    <3> DEFINE S == DOMAIN ev.heap
               s == ev.syms
               k == Len(target)
    <3>1. s \in Seq(S) /\ k \in Nat /\ args = SubSeq(s, k + 1, Len(s))
      BY <1>2, <1>3
    <3> HIDE DEF S, s, k, args
    <3>2. /\ args \in Seq(S)
          /\ \A i \in DOMAIN args : i + k \in DOMAIN s /\ args[i] = s[i + k]
          /\ k <= Len(s) => Len(args) = Len(s) - k
      BY <3>1, ArgumentsTyped
    <3> QED BY <3>2 DEF S, s, k
  <2> HIDE DEF args
  <2>2. \A i \in DOMAIN args : FromTable(args[i])
    BY <1>3, <2>1
  <2>3. ASSUME ev.ok PROVE Len(args) = Len(refs)
    <3> DEFINE t == Len(target)
               r == Len(refs)
               n == Len(ev.syms)
    <3>1. t \in Nat /\ r \in Nat /\ n = t + r /\ (t <= n => Len(args) = n - t)
      BY <1>2, <1>3, <2>1, <2>3
    <3> HIDE DEF t, r, n
    <3>2. Len(args) = r
      BY <3>1
    <3> QED BY <3>2 DEF r
  <2> QED BY <2>1, <2>2, <2>3
<1> HIDE DEF args, all
<1>5. /\ Stepped(h) /\ h \in Heaps /\ DOMAIN h = DOMAIN ev.heap
      /\ Unmarked(h) => IsInjective(args)
      /\ IsInjective(args) => IsChain(h, args)
  <2> DEFINE eh == ev.heap
  <2>1. ReadHeap(eh) /\ args \in Seq(DOMAIN eh) /\ \A i \in DOMAIN args : FromTable(args[i])
    BY <1>3, <1>4
  <2>2. h = Called(eh, name, args)
    OBVIOUS
  <2> HIDE DEF eh, h
  <2>3. /\ Stepped(h) /\ DOMAIN h = DOMAIN eh /\ h \in Heaps
        /\ Unmarked(h) => IsInjective(args)
        /\ IsInjective(args) => IsChain(h, args)
    BY <1>2, <2>1, <2>2, CalledFacts
  <2> QED BY <2>3 DEF eh
<1> HIDE DEF h
<1>6. CASE After(accepted, h) /\ Judge(clean, accepted, right)
  <2>1. misjudged' \in BOOLEAN
    BY <1>2, <1>6, JudgeTyped
  <2> QED BY <1>2, <1>5, <1>6, <2>1, AfterStep
<1>7. CASE /\ pc' = "hang" /\ heap' = h
           /\ UNCHANGED <<symtab, types, typetab, scope, structs, fn, params, misjudged>>
           /\ ev.ok /\ refs # << >> /\ Endless(h, args[1])
  <2>1. structs' \in Seq([tag : Name, fields : FieldSeq])
    BY <1>7, TypeFacts DEF NamesTyped
  <2>2. TypeOK' /\ InFunction' /\ Quiet
    BY <1>2, <1>5, <1>7, <2>1, QuietTyped
  <2>3. args # << >>
    BY <1>4, <1>7
  <2>4. IsInjective(args) => ~ Endless(h, args[1])
    <3>1. Pointers(h)
      BY <1>5, HeapFacts
    <3>2. args[1] = IF args = << >> THEN NULL ELSE args[1]
      BY <2>3
    <3> QED BY <1>5, <3>1, <3>2, ChainIs
  <2>5. ~ Unmarked(heap')
    BY <1>5, <1>7, <2>4
  <2> QED BY <2>2, <2>5 DEF HangMarked
<1> QED BY <1>1, <1>6, <1>7

(* A statement keeps the types, and a hang in it leaves a mark. *)
LEMMA StatementStep ==
    ASSUME TypeOK, InFunction, Statement
    PROVE  TypeOK' /\ InFunction' /\ (yyerror \/ Quiet) /\ HangMarked
<1>0. PICK target \in SeqOf(References, 1) :
        \E refs \in SeqOf(References \cup {Constant}, MaxReference - Len(target)) :
           \/ \E name \in Callees : Call(target, name, refs, Evaluate(target \o refs))
           \/ Return(refs, Evaluate(target \o refs))
           \/ Assign(target[1], refs, Evaluate(target \o refs))
  BY Zenon DEF Statement
<1>1. PICK refs \in SeqOf(References \cup {Constant}, MaxReference - Len(target)) :
           \/ \E name \in Callees : Call(target, name, refs, Evaluate(target \o refs))
           \/ Return(refs, Evaluate(target \o refs))
           \/ Assign(target[1], refs, Evaluate(target \o refs))
  BY <1>0
<1>2. AtStmt
  BY DEF Statement
<1> DEFINE ev == Evaluate(target \o refs)
<1>3. References \subseteq RefSet /\ References \cup {Constant} \subseteq RefSet /\ MaxReference \in Nat
  BY ReferencesTyped, NameAssumption DEF RefSet
<1>4. target \in Seq(RefSet) /\ Len(target) \in Nat
  BY <1>3, SeqOfFacts
<1>5. MaxReference - Len(target) \in Int
  BY <1>3, <1>4
<1>6. refs \in Seq(RefSet)
  BY <1>3, <1>5, SeqOfFacts
<1>7. target \o refs \in Seq(RefSet)
  BY <1>4, <1>6
<1>8. Callees \subseteq Name
  BY DEF Callees
<1>9. ASSUME NEW name \in Callees, Call(target, name, refs, ev)
      PROVE  TypeOK' /\ InFunction' /\ (yyerror \/ Quiet) /\ HangMarked
  BY <1>2, <1>4, <1>6, <1>8, <1>9, CallStep
<1>10. /\ Lexed /\ Pointed(heap) /\ TypesTyped /\ misjudged \in BOOLEAN /\ pc # "params"
  BY <1>2, TypeFacts, InBody DEF ModesTyped
<1>11. Stepped(ev.heap)
  BY <1>7, <1>10, EvaluateFacts, ReadStepped
<1> HIDE DEF ev
<1>12. ASSUME Return(refs, ev) \/ Assign(target[1], refs, ev)
       PROVE  TypeOK' /\ InFunction' /\ (yyerror \/ Quiet) /\ HangMarked
  <2>1. \E clean, accepted, right : After(accepted, ev.heap) /\ Judge(clean, accepted, right)
    BY <1>12, Zenon DEF Return, Assign
  <2>2. PICK clean, accepted, right : After(accepted, ev.heap) /\ Judge(clean, accepted, right)
    BY <2>1
  <2>3. misjudged' \in BOOLEAN
    BY <1>10, <2>2, JudgeTyped
  <2> QED BY <1>10, <1>11, <2>2, <2>3, AfterStep
<1>13. \/ \E name \in Callees : Call(target, name, refs, ev)
       \/ Return(refs, ev)
       \/ Assign(target[1], refs, ev)
  BY <1>1 DEF ev
<1> QED BY <1>9, <1>12, <1>13

-----------------------------------------------------------------------------
(* The steps of functions.                                                   *)

\* The symbol s of h, from the lexer, becomes r.
OneChange(h, type, s, r) ==
    /\ Lexed /\ Pointed(heap) /\ Grown(h, type) /\ s \in DOMAIN h
    /\ r \in SymbolRec /\ r.next = h[s].next /\ r.type_ptr = h[s].type_ptr
    /\ s \in DOMAIN heap => SameRole(heap[s], r)
    /\ s \notin DOMAIN heap => Kept(r) /\ Counted(r)

\* The heap with r for one symbol.
OneChanged(g, h, s, r) ==
    /\ Evolves(heap, g) /\ Pointed(g)
    /\ DOMAIN g = DOMAIN h /\ Len(g) = Len(h) /\ g[s] = r
    /\ \A x \in DOMAIN h : x # s => g[x] = h[x]
    /\ \A x \in DOMAIN heap : g[x].next = heap[x].next
    /\ \A x \in DOMAIN g \ DOMAIN heap : g[x].next = NULL

(* One symbol changes, and no link does. *)
LEMMA OneSymbol ==
    ASSUME NEW type, NEW h, NEW s, NEW r, OneChange(h, type, s, r)
    PROVE  OneChanged([h EXCEPT ![s] = r], h, s, r)
<1> DEFINE g == [h EXCEPT ![s] = r]
<1>0. /\ Lexed /\ Pointed(heap) /\ Grown(h, type) /\ s \in DOMAIN h
      /\ r \in SymbolRec /\ r.next = h[s].next /\ r.type_ptr = h[s].type_ptr
      /\ s \in DOMAIN heap => SameRole(heap[s], r)
      /\ s \notin DOMAIN heap => Kept(r) /\ Counted(r)
  BY DEF OneChange
<1>1. /\ Len(heap) \in Nat /\ DOMAIN heap = 1 .. Len(heap)
      /\ Len(h) \in Nat /\ DOMAIN h = 1 .. Len(h) /\ DOMAIN heap \subseteq DOMAIN h
      /\ \A x \in DOMAIN heap : h[x] = heap[x]
  BY <1>0, GrownFacts
<1>2. /\ Evolves(heap, h) /\ Pointed(h) /\ h \in Heaps
      /\ \A x \in DOMAIN h \ DOMAIN heap : h[x].next = NULL
  BY <1>0, GrownEvolves, ZenonT(40) DEF Grown
<1>3. \A x \in DOMAIN h : h[x] \in SymbolRec /\ h[x].next \in 0 .. Len(h)
  BY <1>2, HeapFacts DEF Heaps
<1>4. /\ DOMAIN g = DOMAIN h /\ g[s] = r /\ g = [x \in DOMAIN h |-> g[x]]
      /\ \A x \in DOMAIN h : x # s => g[x] = h[x]
  BY <1>0
<1> HIDE DEF g
<1>5. \A x \in DOMAIN h : g[x] \in SymbolRec /\ g[x].next = h[x].next /\ g[x].type_ptr = h[x].type_ptr
  BY <1>0, <1>3, <1>4
<1>6. g \in [1 .. Len(h) -> SymbolRec] /\ \A x \in 1 .. Len(h) : g[x].next \in 0 .. Len(h)
  BY <1>1, <1>3, <1>4, <1>5
<1>7. g \in Heaps /\ Len(g) = Len(h)
  BY <1>1, <1>6, HeapIntro
<1>8. \A x \in DOMAIN heap : SameRole(heap[x], g[x])
  BY <1>0, <1>1, <1>2, <1>4 DEF Evolves
<1>9. \A x \in DOMAIN g \ DOMAIN heap : Kept(g[x]) /\ Counted(g[x])
  BY <1>0, <1>2, <1>4 DEF Evolves
<1>10. Evolves(heap, g)
  BY <1>2, <1>7, <1>8, <1>9 DEF Evolves
<1>11. Pointed(g)
  BY <1>2, <1>4, <1>5 DEF Pointed
<1>12. /\ \A x \in DOMAIN heap : g[x].next = heap[x].next
       /\ \A x \in DOMAIN g \ DOMAIN heap : g[x].next = NULL
  BY <1>1, <1>2, <1>4, <1>5
<1>13. OneChanged(g, h, s, r)
  BY <1>4, <1>7, <1>10, <1>11, <1>12 DEF OneChanged
<1> QED BY <1>13 DEF g

(* What becomes of the symbol of a function, and of a parameter. *)
LEMMA FunctionSymbol ==
    ASSUME NEW r \in SymbolRec, NEW type \in Type, NEW q,
           q = [r EXCEPT !.type = type, !.decl = type, !.kind = "FUNCTION"]
    PROVE  /\ q \in SymbolRec /\ q.next = r.next /\ q.type_ptr = r.type_ptr
           /\ q.name = r.name /\ q.kind = "FUNCTION"
           /\ SameRole(r, q)
BY DEF SymbolRec, SameRole, Kept, Counted

(* The symbol of a function agrees with its declaration from the start. *)
LEMMA FunctionNew ==
    ASSUME NEW r \in SymbolRec, Kept(r), Counted(r), NEW type \in Type, NEW q,
           q = [r EXCEPT !.type = type, !.decl = type, !.kind = "FUNCTION"]
    PROVE  Kept(q) /\ Counted(q)
BY DEF SymbolRec, Kept, Counted

\* The symbol of a new parameter.
ParameterOf(q, name, type) ==
    /\ q \in SymbolRec /\ q.next = Symbol(name, type).next
    /\ q.type_ptr = Symbol(name, type).type_ptr
    /\ q.name = name /\ Kept(q) /\ Counted(q)

(* The symbol of a parameter agrees with its declaration. *)
LEMMA ParameterSymbol ==
    ASSUME NEW name \in Name, NEW type \in Type
    PROVE  ParameterOf([Symbol(name, type) EXCEPT !.type = type, !.kind = "PARAMETER"], name, type)
<1>1. Symbol(name, type) \in SymbolRec
  BY SymbolTyped
<1> QED BY <1>1 DEF ParameterOf, SymbolRec, Symbol, Kept, Counted

\* A function is begun.
Begun ==
    /\ scope = 0 /\ scope' = 1
    /\ pc = "decls" /\ pc' = "params" /\ params' = << >>
    /\ UNCHANGED <<symtab, types, typetab, structs, misjudged>>
    /\ fn' \in DOMAIN heap' /\ heap'[fn'].kind = "FUNCTION" /\ heap'[fn'].name \in Name
    /\ symtab[<<0, heap'[fn'].name>>] = NULL => fn' \notin DOMAIN heap
    /\ Evolves(heap, heap')
    /\ \A x \in DOMAIN heap : heap'[x].next = heap[x].next
    /\ \A x \in DOMAIN heap' \ DOMAIN heap : heap'[x].next = NULL

(* The head of a function keeps the types, and is the step Begun. *)
LEMMA FuncBeginStep ==
    ASSUME TypeOK, InFunction, NEW type \in Type, NEW name \in Name, FuncBegin(type, name)
    PROVE  TypeOK' /\ InFunction' /\ Begun
<1> DEFINE scan == Scan(heap, name, type)
           s == scan.sym
           h == scan.heap
           r == [h[s] EXCEPT !.type = type, !.decl = type, !.kind = "FUNCTION"]
<1>1. /\ pc = "decls" /\ scope = 0 /\ fn' = s /\ scope' = 1 /\ pc' = "params" /\ params' = << >>
      /\ UNCHANGED <<symtab, types, typetab, structs, misjudged>>
      /\ heap' = [h EXCEPT ![s].type = type, ![s].decl = type, ![s].kind = "FUNCTION"]
  BY DEF FuncBegin, AtDecl
<1>2. /\ Lexed /\ Pointed(heap) /\ NamesTyped /\ ModesTyped
      /\ SymbolsTyped(heap, symtab, fn, params, Len(types))
  BY TypeFacts
<1>3. Grown(heap, type)
  BY <1>2 DEF Grown, Lexed
<1>4. /\ Grown(h, type) /\ Given(h, s, name)
  BY <1>2, <1>3, ScanFacts
<1> HIDE DEF scan
<1>5. /\ s \in DOMAIN h /\ h[s].name = name
      /\ symtab[<<0, name>>] = NULL => s \notin DOMAIN heap
  BY <1>1, <1>4 DEF Given
<1>6. h \in Heaps /\ h[s] \in SymbolRec /\ \A x \in DOMAIN heap : h[x] = heap[x]
  BY <1>2, <1>4, <1>5, GrownFacts, HeapFacts DEF Grown
<1>7. /\ r \in SymbolRec /\ r.next = h[s].next /\ r.type_ptr = h[s].type_ptr
      /\ r.name = h[s].name /\ r.kind = "FUNCTION" /\ SameRole(h[s], r)
  BY <1>6, FunctionSymbol
<1>8. s \notin DOMAIN heap => Kept(r) /\ Counted(r)
  <2>1. Evolves(heap, h)
    BY <1>2, <1>4, GrownEvolves
  <2>2. s \notin DOMAIN heap => Kept(h[s]) /\ Counted(h[s])
    BY <1>5, <2>1 DEF Evolves
  <2> QED BY <1>6, <2>2, FunctionNew
<1>9. heap' = [h EXCEPT ![s] = r]
  <2>1. heap' = [h EXCEPT ![s] = [h[s] EXCEPT !.type = type, !.decl = type, !.kind = "FUNCTION"]]
    BY <1>1, <1>5, <1>6 DEF SymbolRec
  <2> QED BY <2>1
<1> HIDE DEF r, h, s
<1>10. /\ Evolves(heap, heap') /\ Pointed(heap')
       /\ DOMAIN heap' = DOMAIN h /\ heap'[s] = r
       /\ \A x \in DOMAIN heap : heap'[x].next = heap[x].next
       /\ \A x \in DOMAIN heap' \ DOMAIN heap : heap'[x].next = NULL
  <2>1. s \in DOMAIN heap => SameRole(heap[s], r)
    BY <1>6, <1>7
  <2>2. OneChange(h, type, s, r)
    BY <1>2, <1>4, <1>5, <1>7, <1>8, <2>1 DEF OneChange
  <2>3. OneChanged([h EXCEPT ![s] = r], h, s, r)
    BY <2>2, OneSymbol, Zenon
  <2>4. OneChanged(heap', h, s, r)
    BY <1>9, <2>3, Zenon
  <2> QED BY <2>4 DEF OneChanged
<1>11. Begun
  BY <1>1, <1>5, <1>7, <1>10 DEF Begun
<1>12. /\ SymbolsTyped(heap', symtab, fn, params, Len(types))
       /\ Len(heap') \in Nat /\ DOMAIN heap' = 1 .. Len(heap')
  BY <1>10, SteppedTyped
<1>13. SymbolsTyped(heap', symtab', fn', params', Len(types'))
  <2>1. fn' \in 0 .. Len(heap')
    BY <1>1, <1>5, <1>10, <1>12
  <2>2. params' \in Seq(DOMAIN heap')
    BY <1>1
  <2>3. UNCHANGED <<symtab, types>>
    BY <1>1
  <2> QED BY <1>12, <2>1, <2>2, <2>3 DEF SymbolsTyped
<1>14. NamesTyped' /\ ModesTyped'
  BY <1>1, <1>2 DEF NamesTyped, TypesTyped, ModesTyped, Scope
<1>15. InFunction'
  BY <1>1, <1>5, <1>10, <1>12 DEF InFunction, NULL
<1> QED BY <1>11, <1>13, <1>14, <1>15, TypePartsNext

\* A parameter is added.
Passed ==
    /\ scope = 1 /\ pc = "params"
    /\ UNCHANGED <<pc, types, typetab, scope, structs, fn, misjudged>>
    /\ \E s \in DOMAIN heap' \ DOMAIN heap : params' = Append(params, s)
    /\ Enters
    /\ Evolves(heap, heap')
    /\ \A x \in DOMAIN heap : heap'[x].next = heap[x].next
    /\ \A x \in DOMAIN heap' \ DOMAIN heap : heap'[x].next = NULL

(* A parameter keeps the types, and is the step Passed or an error. *)
LEMMA ParamStep ==
    ASSUME TypeOK, InFunction, NEW type \in Type, NEW name \in Name, Param(type, name)
    PROVE  TypeOK' /\ InFunction' /\ (yyerror \/ Passed) /\ pc' # "hang"
<1> DEFINE scan == Scan(heap, name, type)
           s == scan.sym
           h == scan.heap
           r == [h[s] EXCEPT !.type = type, !.kind = "PARAMETER"]
<1>1. /\ pc = "params" /\ misjudged' = misjudged
      /\ \/ /\ symtab[<<1, name>>] = NULL
            /\ heap' = [h EXCEPT ![s].type = type, ![s].kind = "PARAMETER"]
            /\ symtab' = [symtab EXCEPT ![<<1, name>>] = s]
            /\ params' = Append(params, s)
            /\ UNCHANGED <<pc, types, typetab, scope, structs, fn>>
         \/ yyerror
  BY DEF Param
<1>2. /\ Lexed /\ Pointed(heap) /\ NamesTyped /\ ModesTyped /\ scope = 1
      /\ SymbolsTyped(heap, symtab, fn, params, Len(types))
      /\ Len(heap) \in Nat /\ DOMAIN heap = 1 .. Len(heap)
  BY <1>1, TypeFacts DEF InFunction
<1>3. CASE yyerror
  <2>1. misjudged' \in BOOLEAN
    BY <1>1, <1>2 DEF ModesTyped
  <2> QED BY <1>3, <2>1, ErrorStep
<1>4. CASE /\ symtab[<<1, name>>] = NULL
           /\ heap' = [h EXCEPT ![s].type = type, ![s].kind = "PARAMETER"]
           /\ symtab' = [symtab EXCEPT ![<<1, name>>] = s]
           /\ params' = Append(params, s)
           /\ UNCHANGED <<pc, types, typetab, scope, structs, fn>>
  <2>1. Grown(heap, type)
    BY <1>2 DEF Grown, Lexed
  <2>2. /\ Grown(h, type) /\ Given(h, s, name) /\ s = Len(heap) + 1
        /\ h[s] = Symbol(name, type)
    BY <1>2, <1>4, <2>1, ScanFacts
  <2> HIDE DEF scan
  <2>3. s \in DOMAIN h /\ s \notin DOMAIN heap
    BY <1>2, <2>2 DEF Given
  <2>4. /\ r \in SymbolRec /\ r.next = h[s].next /\ r.type_ptr = h[s].type_ptr
        /\ r.name = name /\ Kept(r) /\ Counted(r)
    <3>1. r = [Symbol(name, type) EXCEPT !.type = type, !.kind = "PARAMETER"]
      BY <2>2
    <3> HIDE DEF r, h
    <3>2. ParameterOf([Symbol(name, type) EXCEPT !.type = type, !.kind = "PARAMETER"], name, type)
      BY ParameterSymbol
    <3>3. ParameterOf(r, name, type)
      BY <3>1, <3>2, Zenon
    <3> QED BY <2>2, <3>3 DEF ParameterOf
  <2>5. heap' = [h EXCEPT ![s] = r]
    <3>1. heap' = [h EXCEPT ![s] = [h[s] EXCEPT !.type = type, !.kind = "PARAMETER"]]
      BY <1>4, <2>2, <2>3 DEF Symbol
    <3> QED BY <3>1
  <2> HIDE DEF r, h, s
  <2>6. OneChange(h, type, s, r)
    BY <1>2, <2>2, <2>3, <2>4 DEF OneChange
  <2>7. OneChanged([h EXCEPT ![s] = r], h, s, r)
    BY <2>6, OneSymbol, Zenon
  <2>8. OneChanged(heap', h, s, r)
    BY <2>5, <2>7, Zenon
  <2>9. /\ Evolves(heap, heap') /\ Pointed(heap')
        /\ DOMAIN heap' = DOMAIN h /\ heap'[s] = r
        /\ \A x \in DOMAIN heap : heap'[x].next = heap[x].next
        /\ \A x \in DOMAIN heap' \ DOMAIN heap : heap'[x].next = NULL
    BY <2>8 DEF OneChanged
  <2>10. /\ SymbolsTyped(heap', symtab, fn, params, Len(types))
         /\ Len(heap') \in Nat /\ DOMAIN heap' = 1 .. Len(heap')
    BY <2>9, SteppedTyped
  <2>11. s \in 0 .. Len(heap') /\ s \in DOMAIN heap'
    BY <2>3, <2>9, <2>10
  <2>12. /\ symtab' \in [Scope \X Name -> 0 .. Len(heap')]
         /\ \A key \in DOMAIN symtab' : symtab'[key] # NULL => heap'[symtab'[key]].name = key[2]
         /\ Enters
    <3>1. /\ symtab \in [Scope \X Name -> 0 .. Len(heap')]
          /\ \A key \in DOMAIN symtab : symtab[key] # NULL => heap'[symtab[key]].name = key[2]
      BY <2>10 DEF SymbolsTyped
    <3>2. heap'[s].name = name
      BY <2>4, <2>9
    <3> DEFINE key1 == <<1, name>>
               N == Len(heap')
    <3>3. key1 \in Scope \X Name /\ key1[1] = scope /\ key1[2] = name
      BY <1>2 DEF Scope
    <3>4. symtab' = [symtab EXCEPT ![key1] = s]
      BY <1>4
    <3> HIDE DEF key1, N
    <3>5. symtab \in [Scope \X Name -> 0 .. N] /\ s \in 0 .. N
      BY <2>11, <3>1 DEF N
    <3>6. /\ symtab' \in [Scope \X Name -> 0 .. N] /\ DOMAIN symtab' = DOMAIN symtab
          /\ symtab'[key1] = s
          /\ \A key \in DOMAIN symtab : key # key1 => symtab'[key] = symtab[key]
      BY <3>3, <3>4, <3>5
    <3>7. \A key \in DOMAIN symtab' : symtab'[key] # NULL => heap'[symtab'[key]].name = key[2]
      BY <3>1, <3>2, <3>3, <3>6
    <3>8. Enters
      BY <2>3, <3>3, <3>6 DEF Enters
    <3> QED BY <3>6, <3>7, <3>8 DEF N
  <2>13. params' \in Seq(DOMAIN heap')
    <3>1. params \in Seq(DOMAIN heap')
      BY <2>10 DEF SymbolsTyped
    <3> QED BY <1>4, <2>11, <3>1
  <2>14. SymbolsTyped(heap', symtab', fn', params', Len(types'))
    <3>1. fn' = fn /\ types' = types
      BY <1>4
    <3> QED BY <2>10, <2>12, <2>13, <3>1 DEF SymbolsTyped
  <2>15. NamesTyped' /\ ModesTyped'
    BY <1>1, <1>2, <1>4 DEF NamesTyped, TypesTyped, ModesTyped
  <2>16. InFunction'
    BY <1>2, <1>4 DEF InFunction
  <2>17. Passed
    BY <1>1, <1>2, <1>4, <2>3, <2>9, <2>11, <2>12 DEF Passed
  <2> QED BY <1>1, <1>4, <2>14, <2>15, <2>16, <2>17, TypePartsNext
<1> QED BY <1>1, <1>3, <1>4

\* The parameters are linked.
Bodied ==
    /\ pc = "params" /\ pc' = "decls"
    /\ UNCHANGED <<symtab, types, typetab, scope, structs, fn, params, misjudged>>
    /\ Relinked(heap, heap')
    /\ \A x \in DOMAIN heap : x \notin Range(params) => heap'[x] = heap[x]
    /\ \A x \in DOMAIN heap : heap'[x].next \in {NULL, heap[x].next} \cup Range(params)
    /\ IsInjective(params) => IsChain(heap', params)

(* The end of the list of parameters keeps the types, and is the step Bodied. *)
LEMMA FuncBodyStep ==
    ASSUME TypeOK, InFunction, FuncBody
    PROVE  TypeOK' /\ InFunction' /\ Bodied
<1>1. /\ pc = "params" /\ pc' = "decls"
      /\ heap' = IF params = << >> THEN heap ELSE Linked(heap, params)
      /\ UNCHANGED <<symtab, types, typetab, scope, structs, fn, params, misjudged>>
  BY DEF FuncBody
<1>2. /\ Lexed /\ Pointed(heap) /\ NamesTyped /\ ModesTyped
      /\ heap \in Heaps /\ params \in Seq(DOMAIN heap)
  BY TypeFacts DEF SymbolsTyped
<1>3. /\ Relinked(heap, heap')
      /\ \A x \in DOMAIN heap : x \notin Range(params) => heap'[x] = heap[x]
      /\ \A x \in DOMAIN heap : heap'[x].next \in {NULL, heap[x].next} \cup Range(params)
      /\ IsInjective(params) => IsChain(heap', params)
  <2>1. CASE params = << >>
    <3>1. heap' = heap
      BY <1>1, <2>1
    <3>2. Relinked(heap, heap)
      BY <1>2, RelinkedSelf
    <3>3. IsChain(heap, params)
      BY <2>1 DEF IsChain
    <3> QED BY <3>1, <3>2, <3>3
  <2>2. CASE params # << >>
    <3>1. heap' = Linked(heap, params)
      BY <1>1, <2>2
    <3> QED BY <1>2, <3>1, LinkedFacts
  <2> QED BY <2>1, <2>2
<1>4. Bodied
  BY <1>1, <1>3 DEF Bodied
<1>5. Evolves(heap, heap')
  BY <1>3, RelinkedEvolves
<1>6. Pointed(heap')
  BY <1>2, <1>3 DEF Pointed, Relinked, SameButNext
<1>7. SymbolsTyped(heap', symtab, fn, params, Len(types))
  BY <1>5, <1>6, SteppedTyped
<1>8. SymbolsTyped(heap', symtab', fn', params', Len(types'))
  BY <1>1, <1>7
<1>9. NamesTyped' /\ ModesTyped'
  BY <1>1, <1>2 DEF NamesTyped, TypesTyped, ModesTyped
<1>10. InFunction'
  BY <1>1 DEF InFunction
<1> QED BY <1>4, <1>8, <1>9, <1>10, TypePartsNext

(* Until the scope has a symbol of its name, the current function is in no *)
(* list and is no entry of the symbol table. *)
FnApart ==
    fn # NULL =>
        /\ heap[fn].name \in Name /\ heap[fn].kind = "FUNCTION"
        /\ symtab[<<0, heap[fn].name>>] = NULL =>
              /\ \A x \in DOMAIN heap : heap[x].next # fn
              /\ \A key \in DOMAIN symtab : symtab[key] # fn
              /\ fn \notin Range(params)

(* The parameters are linked, as long as no call or structure has had them. *)
ParamsListed ==
    /\ IsInjective(params)
    /\ pc # "params" /\ (\A i \in DOMAIN params : ~ Disturbed(params[i])) => IsChain(heap, params)

\* The end of a function.
FirstParam == IF params = << >> THEN NULL ELSE params[1]

\* The function with its number of parameters.
Completed(r) ==
    [r EXCEPT !.n_param = Len(Chain(heap, FirstParam)), !.next = FirstParam,
              !.arity = IF \E s \in Range(params) : Disturbed(s) THEN -1 ELSE Len(params)]

\* The count of the parameters does not end.
Hung ==
    /\ pc' = "hang" /\ pc # "params" /\ FirstParam \in 0 .. Len(heap) /\ Endless(heap, FirstParam)
    /\ UNCHANGED <<heap, symtab, types, typetab, scope, structs, fn, params, misjudged>>

\* A function is complete.
Ended ==
    /\ pc' = "decls" /\ scope' = 0 /\ fn' = NULL /\ params' = << >>
    /\ UNCHANGED <<types, typetab, structs, misjudged>>
    /\ fn \in DOMAIN heap /\ Evolves(heap, heap') /\ DOMAIN heap' = DOMAIN heap
    /\ \A x \in DOMAIN heap : x # fn => heap'[x].next = heap[x].next
    /\ \A x \in DOMAIN heap' : heap'[x].next # fn

(* The first parameter is a symbol, or NULL without parameters. *)
LEMMA FirstParamFacts ==
    ASSUME TypeOK
    PROVE  /\ FirstParam \in 0 .. Len(heap) /\ params \in Seq(DOMAIN heap)
           /\ FirstParam \in {NULL} \cup Range(params) /\ Len(params) \in Nat
<1>1. /\ params \in Seq(DOMAIN heap) /\ Len(heap) \in Nat /\ DOMAIN heap = 1 .. Len(heap)
  BY TypeFacts DEF SymbolsTyped
<1>2. Len(params) \in Nat
  BY <1>1
<1>3. CASE params = << >>
  BY <1>1, <1>2, <1>3 DEF FirstParam, NULL
<1>4. CASE params # << >>
  <2>1. 1 \in DOMAIN params /\ params[1] \in DOMAIN heap
    BY <1>1, <1>4
  <2> QED BY <1>1, <1>2, <1>4, <2>1 DEF FirstParam, Range
<1> QED BY <1>3, <1>4

(* A function counts its parameters, if nothing has disturbed them. *)
LEMMA CompletedFacts ==
    ASSUME TypeOK, ParamsListed, pc # "params", ~ Endless(heap, FirstParam),
           NEW r \in SymbolRec, r.kind = "FUNCTION"
    PROVE  /\ Completed(r) \in SymbolRec /\ SameRole(r, Completed(r))
           /\ Completed(r).next = FirstParam /\ Completed(r).type_ptr = r.type_ptr
<1> DEFINE n == Len(Chain(heap, FirstParam))
           a == IF \E s \in Range(params) : Disturbed(s) THEN -1 ELSE Len(params)
           q == [r EXCEPT !.n_param = n, !.next = FirstParam, !.arity = a]
<1>1. /\ FirstParam \in 0 .. Len(heap) /\ FirstParam \in Nat /\ Len(params) \in Nat
      /\ Pointers(heap) /\ params \in Seq(DOMAIN heap)
  BY FirstParamFacts, TypeFacts, HeapFacts DEF Lexed
<1>2. n \in Nat
  <2>1. Chain(heap, FirstParam) \in Seq(DOMAIN heap)
    BY <1>1, ChainFacts DEF IsChain
  <2> HIDE DEF n
  <2>2. Len(Chain(heap, FirstParam)) \in Nat
    BY <2>1
  <2> QED BY <2>2 DEF n
<1>3. a \in Nat \cup {-1}
  BY <1>1
<1>4. a # -1 => n = a
  <2> SUFFICES ASSUME a # -1 PROVE n = a
    OBVIOUS
  <2>1. ~ \E s \in Range(params) : Disturbed(s)
    OBVIOUS
  <2>2. \A i \in DOMAIN params : ~ Disturbed(params[i])
    BY <2>1 DEF Range
  <2>3. IsInjective(params) /\ IsChain(heap, params)
    BY <2>2 DEF ParamsListed
  <2>4. Chain(heap, FirstParam) = params
    BY <1>1, <2>3, ChainIs DEF FirstParam
  <2> QED BY <2>1, <2>4
<1> HIDE DEF n, a
<1>5. q \in SymbolRec
  BY <1>1, <1>2, <1>3 DEF SymbolRec
<1>6. /\ q.next = FirstParam /\ q.type_ptr = r.type_ptr /\ q.name = r.name /\ q.marks = r.marks
      /\ q.kind = r.kind /\ q.type = r.type /\ q.decl = r.decl /\ q.place = r.place
      /\ q.arity = a /\ q.n_param = n
  BY DEF SymbolRec
<1>7. Completed(r) = q
  BY DEF Completed, n, a
<1> HIDE DEF q
<1>8. SameRole(r, q)
  BY <1>4, <1>6 DEF SameRole, Kept, Counted
<1> QED BY <1>5, <1>6, <1>7, <1>8

(* The end of a function keeps the types, and is the step Ended, a hang or an error. *)
LEMMA FuncEndStep ==
    ASSUME TypeOK, InFunction, FnApart, ParamsListed, FuncEnd
    PROVE  TypeOK' /\ InFunction' /\ (yyerror \/ Hung \/ Ended)
<1> DEFINE name  == heap[fn].name
           outer == [key \in DOMAIN symtab |->
                        IF key[1] = 1 /\ symtab[key] # NULL /\ heap[symtab[key]].kind # "PARAMETER"
                        THEN NULL ELSE symtab[key]]
           counted == [heap EXCEPT ![fn] = Completed(heap[fn])]
<1>1. /\ pc # "params" /\ scope = 1 /\ structs = << >> /\ misjudged' = misjudged
      /\ \/ /\ Endless(heap, FirstParam)
            /\ pc' = "hang"
            /\ UNCHANGED <<heap, symtab, types, typetab, scope, structs, fn, params>>
         \/ yyerror
         \/ /\ ~ Endless(heap, FirstParam) /\ outer[<<0, name>>] = NULL
            /\ UNCHANGED <<types, typetab, structs>>
            /\ heap' = [heap EXCEPT ![fn].n_param = Len(Chain(heap, FirstParam)),
                                    ![fn].next = FirstParam,
                                    ![fn].arity = IF \E s \in Range(params) : Disturbed(s)
                                                  THEN -1 ELSE Len(params)]
            /\ symtab' = [outer EXCEPT ![<<0, name>>] = fn]
            /\ scope' = 0 /\ pc' = "decls" /\ fn' = NULL /\ params' = << >>
  BY DEF FuncEnd, FirstParam
<1>2. /\ Lexed /\ Pointed(heap) /\ NamesTyped /\ ModesTyped /\ heap \in Heaps
      /\ SymbolsTyped(heap, symtab, fn, params, Len(types))
      /\ Len(heap) \in Nat /\ DOMAIN heap = 1 .. Len(heap)
      /\ FirstParam \in 0 .. Len(heap) /\ params \in Seq(DOMAIN heap)
      /\ FirstParam \in {NULL} \cup Range(params)
      /\ misjudged' \in BOOLEAN
  BY <1>1, TypeFacts, FirstParamFacts DEF ModesTyped, SymbolsTyped
<1>3. fn \in DOMAIN heap /\ name \in Name /\ heap[fn].kind = "FUNCTION"
  <2>1. fn # NULL /\ fn \in 0 .. Len(heap)
    BY <1>1, <1>2 DEF InFunction, SymbolsTyped
  <2> QED BY <1>2, <2>1 DEF FnApart, NULL
<1>4. CASE yyerror
  BY <1>2, <1>4, ErrorStep
<1>5. CASE /\ Endless(heap, FirstParam)
           /\ pc' = "hang"
           /\ UNCHANGED <<heap, symtab, types, typetab, scope, structs, fn, params>>
  <2>1. Stepped(heap') /\ structs' \in Seq([tag : Name, fields : FieldSeq])
    BY <1>2, <1>5, StayStepped DEF NamesTyped
  <2>2. TypeOK' /\ InFunction'
    BY <1>1, <1>2, <1>5, <2>1, QuietTyped
  <2>3. Hung
    BY <1>1, <1>2, <1>5 DEF Hung
  <2> QED BY <2>2, <2>3
<1>6. ASSUME ~ Endless(heap, FirstParam), outer[<<0, name>>] = NULL,
             UNCHANGED <<types, typetab, structs>>,
             heap' = [heap EXCEPT ![fn].n_param = Len(Chain(heap, FirstParam)),
                                  ![fn].next = FirstParam,
                                  ![fn].arity = IF \E s \in Range(params) : Disturbed(s)
                                                THEN -1 ELSE Len(params)],
             symtab' = [outer EXCEPT ![<<0, name>>] = fn],
             scope' = 0, pc' = "decls", fn' = NULL, params' = << >>
      PROVE  TypeOK' /\ InFunction' /\ Ended
  <2>1. heap[fn] \in SymbolRec /\ \A x \in DOMAIN heap : heap[x].next \in 0 .. Len(heap)
    BY <1>2, <1>3, HeapFacts DEF Heaps
  <2>2. heap' = counted
    BY <1>3, <1>6 DEF Completed
  <2> DEFINE q == Completed(heap[fn])
  <2>3. /\ q \in SymbolRec /\ SameRole(heap[fn], q)
        /\ q.next = FirstParam /\ q.type_ptr = heap[fn].type_ptr
    BY <1>1, <1>3, <1>6, <2>1, CompletedFacts
  <2>4. /\ heap' = [heap EXCEPT ![fn] = q] /\ DOMAIN heap' = DOMAIN heap /\ heap'[fn] = q
        /\ \A x \in DOMAIN heap : x # fn => heap'[x] = heap[x]
    BY <1>3, <2>2
  <2> HIDE DEF q, counted
  <2>5. heap' \in Heaps /\ Len(heap') = Len(heap)
    <3>1. \A x \in DOMAIN heap : heap[x] \in SymbolRec
      BY <1>2, HeapFacts
    <3>2. heap' \in [1 .. Len(heap) -> SymbolRec]
      BY <1>2, <2>3, <2>4, <3>1
    <3>3. \A x \in 1 .. Len(heap) : heap'[x].next \in 0 .. Len(heap)
      BY <1>2, <2>1, <2>3, <2>4
    <3> QED BY <1>2, <3>2, <3>3, HeapIntro
  <2>6. Evolves(heap, heap')
    <3>1. \A x \in DOMAIN heap : SameRole(heap[x], heap'[x])
      BY <2>3, <2>4 DEF SameRole
    <3> QED BY <1>2, <2>4, <2>5, <3>1 DEF Evolves
  <2>7. Pointed(heap')
    BY <1>2, <2>3, <2>4 DEF Pointed
  <2>8. symtab[<<0, name>>] = NULL
    <3>1. <<0, name>> \in DOMAIN symtab
      BY <1>2, <1>3 DEF Lexed, Scope
    <3>2. outer[<<0, name>>] = symtab[<<0, name>>]
      BY <3>1
    <3> QED BY <1>6, <3>2
  <2>9. \A x \in DOMAIN heap' : heap'[x].next # fn
    <3>1. fn # NULL /\ (\A x \in DOMAIN heap : heap[x].next # fn) /\ fn \notin Range(params)
      BY <1>2, <1>3, <2>8 DEF FnApart, NULL
    <3> QED BY <1>2, <2>3, <2>4, <3>1
  <2>10. Ended
    BY <1>1, <1>3, <1>6, <2>4, <2>6, <2>9 DEF Ended
  <2>11. /\ SymbolsTyped(heap', symtab, fn, params, Len(types)) /\ heap'[fn].name = name
    BY <1>3, <2>6, <2>7, SteppedTyped
  <2>12. /\ symtab' \in [Scope \X Name -> 0 .. Len(heap')]
         /\ \A key \in DOMAIN symtab' : symtab'[key] # NULL => heap'[symtab'[key]].name = key[2]
    <3> DEFINE key0 == <<0, name>>
               N == Len(heap')
    <3>1. /\ symtab \in [Scope \X Name -> 0 .. N] /\ fn \in 0 .. N /\ N \in Nat
          /\ \A key \in DOMAIN symtab : symtab[key] # NULL => heap'[symtab[key]].name = key[2]
      BY <1>2, <2>5, <2>11 DEF SymbolsTyped
    <3>2. key0[2] = name /\ symtab' = [outer EXCEPT ![key0] = fn]
      BY <1>6
    <3>3. /\ outer \in [Scope \X Name -> 0 .. N]
          /\ \A key \in DOMAIN symtab : outer[key] \in {NULL, symtab[key]}
      BY <3>1 DEF NULL
    <3> HIDE DEF outer, N, key0
    <3>4. symtab' \in [Scope \X Name -> 0 .. N]
      BY <3>1, <3>2, <3>3
    <3>5. ASSUME NEW key \in DOMAIN symtab', symtab'[key] # NULL
          PROVE  heap'[symtab'[key]].name = key[2]
      <4>1. CASE key = key0
        BY <2>11, <3>2, <3>3, <3>4, <3>5, <4>1
      <4>2. CASE key # key0
        BY <3>1, <3>2, <3>3, <3>4, <3>5, <4>2
      <4> QED BY <4>1, <4>2
    <3> QED BY <3>4, <3>5 DEF N
  <2>13. SymbolsTyped(heap', symtab', fn', params', Len(types'))
    <3>1. params' \in Seq(DOMAIN heap') /\ fn' \in 0 .. Len(heap') /\ types' = types
      BY <1>2, <1>6, <2>5 DEF NULL
    <3> QED BY <2>11, <2>12, <3>1 DEF SymbolsTyped
  <2>14. NamesTyped' /\ ModesTyped'
    BY <1>2, <1>6 DEF NamesTyped, TypesTyped, ModesTyped, Scope
  <2>15. InFunction'
    BY <1>6 DEF InFunction
  <2> QED BY <2>10, <2>13, <2>14, <2>15, TypePartsNext
<1> QED BY <1>1, <1>4, <1>5, <1>6

-----------------------------------------------------------------------------
(* The inductive invariant.                                                  *)

\* A step that changes nothing.
Idle == UNCHANGED vars

(* Every step is one of eight kinds, and what follows is shown for the kinds. *)
LEMMA NextCases ==
    ASSUME TypeOK, InFunction, FnApart, ParamsListed, [Next]_vars
    PROVE  /\ TypeOK' /\ InFunction'
           /\ \/ Idle
              \/ yyerror
              \/ Quiet /\ HangMarked
              \/ Begun
              \/ Passed
              \/ Bodied
              \/ Ended
              \/ Hung
<1>1. CASE UNCHANGED vars
  BY <1>1 DEF vars, TypeOK, InFunction, Idle
<1>2. CASE VarDecl
  BY <1>2, VarDeclStep
<1>3. ASSUME NEW name \in Name, TypedefDecl(name) PROVE TypeOK' /\ InFunction' /\ (yyerror \/ Quiet) /\ HangMarked
  BY <1>3, TypedefStep
<1>4. ASSUME NEW name \in Name, StructBegin(name) PROVE TypeOK' /\ InFunction' /\ (yyerror \/ Quiet) /\ HangMarked
  BY <1>4, StructBeginStep
<1>5. CASE Members
  BY <1>5, MembersStep
<1>6. CASE StructEnd
  BY <1>6, StructEndStep
<1>7. ASSUME NEW type \in Plain, NEW name \in Name, FuncBegin(type[1], name)
      PROVE  TypeOK' /\ InFunction' /\ Begun
  <2>1. type[1] \in Type
    BY DEF Plain, Type
  <2> QED BY <1>7, <2>1, FuncBeginStep
<1>8. ASSUME NEW type \in BaseType \cup {"STRUCT"}, NEW name \in Name, Param(type, name)
      PROVE  TypeOK' /\ InFunction' /\ (yyerror \/ Passed)
  <2>1. type \in Type
    BY DEF Type
  <2> QED BY <1>8, <2>1, ParamStep
<1>9. CASE FuncBody
  BY <1>9, FuncBodyStep
<1>10. CASE FuncEnd
  BY <1>10, FuncEndStep
<1>11. CASE Statement
  BY <1>11, StatementStep
<1> QED BY <1>1, <1>2, <1>3, <1>4, <1>5, <1>6, <1>7, <1>8, <1>9, <1>10, <1>11 DEF Next

\* The symbols that nothing has retyped are as declared, and functions are counted.
AllKept == \A x \in DOMAIN heap : Kept(heap[x]) /\ Counted(heap[x])

(* What symbols evolve to keeps to its declaration. *)
LEMMA KeptNext ==
    ASSUME AllKept, Evolves(heap, heap')
    PROVE  AllKept'
<1>1. \A x \in DOMAIN heap' : Kept(heap'[x]) /\ Counted(heap'[x])
  BY DEF AllKept, Evolves, SameRole
<1> QED BY <1>1 DEF AllKept

(* Links are in order if they were, and no more symbols are marked. *)
LEMMA LinksNext ==
    ASSUME TypeOK, Links, Evolves(heap, heap'), Unmarked(heap) /\ Ranked(heap) => Ranked(heap')
    PROVE  Links'
<1>1. SUFFICES ASSUME Unmarked(heap') PROVE Ranked(heap')
  BY DEF Links
<1>2. /\ heap \in Heaps /\ heap' \in Heaps /\ Len(heap) <= Len(heap')
      /\ Len(heap) \in Nat /\ Len(heap') \in Nat
      /\ DOMAIN heap = 1 .. Len(heap) /\ DOMAIN heap' = 1 .. Len(heap')
  BY TypeFacts, HeapFacts DEF Evolves, Lexed
<1>3. DOMAIN heap \subseteq DOMAIN heap'
  BY <1>2
<1>4. \A x \in DOMAIN heap : heap[x].marks \subseteq heap'[x].marks
  BY DEF Evolves, SameRole
<1>5. Unmarked(heap)
  BY <1>1, <1>3, <1>4 DEF Unmarked
<1> QED BY <1>5 DEF Links

\* The inductive invariant: types, the current function and its parameters, links and marks.
IInv ==
    /\ TypeOK /\ InFunction /\ FnApart /\ ParamsListed
    /\ AllKept /\ Links /\ HangsOnlyOnReuse

(* HangsOnlyOnReuse in terms of Unmarked, after a step. *)
LEMMA MarkedHangNext ==
    HangsOnlyOnReuse' <=> (pc' = "hang" => ~ Unmarked(heap'))
BY DEF HangsOnlyOnReuse, Unmarked

(* Without symbols there is no circle. *)
LEMMA EmptyRanked == Ranked(<< >>)
<1> DEFINE r == [x \in DOMAIN << >> |-> 0]
<1>1. r \in [DOMAIN << >> -> Nat] /\ IsRank(<< >>, r)
  BY DEF IsRank
<1> QED BY <1>1 DEF Ranked

(* yyerror establishes the invariant anew. *)
LEMMA ErrorIInv ==
    ASSUME TypeOK', InFunction', yyerror
    PROVE  IInv'
<1>1. heap' = << >> /\ fn' = NULL /\ params' = << >> /\ pc' = "error"
  BY DEF yyerror
<1>2. FnApart' /\ HangsOnlyOnReuse'
  BY <1>1 DEF FnApart, HangsOnlyOnReuse
<1>3. ParamsListed'
  BY <1>1 DEF ParamsListed, IsChain, IsInjective
<1>4. AllKept'
  BY <1>1 DEF AllKept
<1>5. Links'
  BY <1>1, EmptyRanked DEF Links
<1> QED BY <1>2, <1>3, <1>4, <1>5 DEF IInv

(* The invariant holds before the first declaration. *)
LEMMA InitIInv ==
    ASSUME Init
    PROVE  IInv
<1>1. /\ heap = << >> /\ symtab = [key \in Scope \X Name |-> NULL] /\ types = << >>
      /\ typetab = [name \in Name |-> NULL] /\ scope = 0 /\ pc = "decls" /\ structs = << >>
      /\ fn = NULL /\ params = << >> /\ misjudged = FALSE
  BY DEF Init
<1>2. heap \in Heaps /\ DOMAIN heap = {}
  BY <1>1 DEF Heaps
<1>3. SymbolsTyped(heap, symtab, fn, params, Len(types))
  BY <1>1, <1>2 DEF SymbolsTyped, NULL
<1>4. NamesTyped
  BY <1>1 DEF NamesTyped, TypesTyped, NULL
<1>5. ModesTyped
  BY <1>1 DEF ModesTyped, Scope
<1>6. TypeOK
  BY <1>3, <1>4, <1>5, TypeParts
<1>7. InFunction /\ FnApart /\ HangsOnlyOnReuse
  BY <1>1 DEF InFunction, FnApart, HangsOnlyOnReuse
<1>8. ParamsListed
  BY <1>1 DEF ParamsListed, IsChain, IsInjective
<1>9. AllKept
  BY <1>2 DEF AllKept
<1>10. Links
  BY <1>1, EmptyRanked DEF Links
<1> QED BY <1>6, <1>7, <1>8, <1>9, <1>10 DEF IInv

(* Inside of a function nothing new leads to it. *)
LEMMA ApartNext ==
    ASSUME TypeOK, InFunction, FnApart, Evolves(heap, heap'), Enters, Reach(heap, heap'),
           UNCHANGED <<scope, fn>>,
           params' = params \/ \E s \in DOMAIN heap' \ DOMAIN heap : params' = Append(params, s)
    PROVE  FnApart'
<1>1. SUFFICES ASSUME fn # NULL
      PROVE  /\ heap'[fn].name \in Name /\ heap'[fn].kind = "FUNCTION"
             /\ symtab'[<<0, heap'[fn].name>>] = NULL =>
                  /\ \A x \in DOMAIN heap' : heap'[x].next # fn
                  /\ \A key \in DOMAIN symtab' : symtab'[key] # fn
                  /\ fn \notin Range(params')
  BY DEF FnApart
<1>2. /\ Len(heap) \in Nat /\ DOMAIN heap = 1 .. Len(heap) /\ heap \in Heaps
      /\ fn \in 0 .. Len(heap) /\ params \in Seq(DOMAIN heap)
      /\ symtab \in [Scope \X Name -> 0 .. Len(heap)]
  BY TypeFacts DEF SymbolsTyped
<1>3. fn \in DOMAIN heap /\ scope = 1
  BY <1>1, <1>2 DEF InFunction, NULL
<1>4. heap'[fn].name = heap[fn].name /\ heap'[fn].name \in Name /\ heap'[fn].kind = "FUNCTION"
  BY <1>1, <1>3 DEF Evolves, SameRole, FnApart
<1>5. ASSUME symtab'[<<0, heap'[fn].name>>] = NULL
      PROVE  /\ \A x \in DOMAIN heap' : heap'[x].next # fn
             /\ \A key \in DOMAIN symtab' : symtab'[key] # fn
             /\ fn \notin Range(params')
  <2> DEFINE key0 == <<0, heap'[fn].name>>
  <2>1. key0 \in DOMAIN symtab /\ key0[1] # scope
    BY <1>2, <1>3, <1>4 DEF Scope
  <2>2. symtab[key0] = NULL
    BY <1>5, <2>1 DEF Enters
  <2>3. /\ \A x \in DOMAIN heap : heap[x].next # fn
        /\ \A key \in DOMAIN symtab : symtab[key] # fn
        /\ fn \notin Range(params)
    BY <1>1, <1>4, <2>2 DEF FnApart
  <2>4. \A x \in DOMAIN heap' : heap'[x].next # fn
    BY <1>3, <2>3 DEF Reach
  <2>5. \A key \in DOMAIN symtab' : symtab'[key] # fn
    BY <1>3, <2>3 DEF Enters
  <2>6. fn \notin Range(params')
    <3>1. CASE params' = params
      BY <2>3, <3>1
    <3>2. ASSUME NEW s \in DOMAIN heap' \ DOMAIN heap, params' = Append(params, s)
          PROVE  fn \notin Range(params')
      <4>1. /\ Len(params) \in Nat /\ DOMAIN params = 1 .. Len(params)
            /\ DOMAIN params' = 1 .. Len(params) + 1
            /\ \A i \in 1 .. Len(params) : params'[i] = params[i]
            /\ params'[Len(params) + 1] = s
        BY <1>2, <3>2
      <4>2. \A i \in DOMAIN params' : params'[i] = s \/ params'[i] \in Range(params)
        BY <4>1 DEF Range
      <4> QED BY <1>3, <2>3, <4>2 DEF Range
    <3> QED BY <3>1, <3>2
  <2> QED BY <2>4, <2>5, <2>6
<1> QED BY <1>4, <1>5

(* The parameters stay in their list, or one of them is marked. *)
LEMMA ListedNext ==
    ASSUME TypeOK, ParamsListed, Evolves(heap, heap'), LinksKept(heap, heap'),
           params' = params, pc # "params"
    PROVE  ParamsListed'
<1>1. /\ params \in Seq(DOMAIN heap) /\ DOMAIN heap = 1 .. Len(heap) /\ Len(heap) \in Nat
      /\ DOMAIN heap' = 1 .. Len(heap') /\ Len(heap') \in Nat /\ Len(heap) <= Len(heap')
  BY TypeFacts, HeapFacts DEF Evolves, SymbolsTyped
<1>2. DOMAIN heap \subseteq DOMAIN heap' /\ \A i \in DOMAIN params : params[i] \in DOMAIN heap
  BY <1>1
<1>3. ASSUME \A i \in DOMAIN params : heap'[params[i]].marks \cap {"arg", "field"} = {}
      PROVE  IsChain(heap', params)
  <2>1. \A i \in DOMAIN params : heap'[params[i]].next = heap[params[i]].next
    BY <1>2, <1>3 DEF LinksKept
  <2>2. \A i \in DOMAIN params : heap[params[i]].marks \subseteq heap'[params[i]].marks
    BY <1>2 DEF Evolves, SameRole
  <2>3. \A i \in DOMAIN params : heap[params[i]].marks \cap {"arg", "field"} = {}
    BY <1>3, <2>2
  <2>4. IsChain(heap, params)
    BY <2>3 DEF ParamsListed, Disturbed
  <2>5. params \in Seq(DOMAIN heap')
    BY <1>1, <1>2
  <2> QED BY <2>1, <2>4, <2>5 DEF IsChain
<1>4. (\A i \in DOMAIN params' : ~ (heap'[params'[i]].marks \cap {"arg", "field"} # {}))
         => IsChain(heap', params')
  BY <1>3
<1>5. IsInjective(params')
  BY Zenon DEF ParamsListed
<1> QED BY <1>4, <1>5 DEF ParamsListed, Disturbed

(* Declarations and statements keep the invariant. *)
LEMMA QuietIInv ==
    ASSUME IInv, TypeOK', InFunction', Quiet, HangMarked
    PROVE  IInv'
<1>1. /\ Evolves(heap, heap') /\ LinksKept(heap, heap') /\ Reach(heap, heap')
      /\ Unmarked(heap') /\ Ranked(heap) => Ranked(heap')
      /\ Stepped(heap')
  BY DEF Quiet, Stepped
<1>2. AllKept'
  BY <1>1, KeptNext DEF IInv
<1>3. FnApart'
  BY <1>1, ApartNext DEF IInv, Quiet
<1>4. ParamsListed'
  BY <1>1, ListedNext DEF IInv, Quiet
<1>5. Links'
  <2>1. SUFFICES ASSUME Unmarked(heap') PROVE Ranked(heap')
    BY DEF Links
  <2>2. Ranked(heap)
    BY <1>1, <2>1, UnmarkedBefore DEF IInv
  <2> QED BY <1>1, <2>1, <2>2
<1>6. HangsOnlyOnReuse'
  BY MarkedHangNext DEF HangMarked, IInv
<1> QED BY <1>2, <1>3, <1>4, <1>5, <1>6 DEF IInv

(* New symbols at the end of the heap lead nowhere. *)
LEMMA NewLinks ==
    ASSUME TypeOK, Links, Evolves(heap, heap'),
           \A x \in DOMAIN heap : heap'[x].next = heap[x].next,
           \A x \in DOMAIN heap' \ DOMAIN heap : heap'[x].next = NULL
    PROVE  Links' /\ Reach(heap, heap')
<1>1. heap \in Heaps /\ heap' \in Heaps /\ Len(heap) <= Len(heap')
  BY TypeFacts DEF Evolves, Lexed
<1>2. Pointers(heap) /\ Pointers(heap')
  BY <1>1, HeapFacts
<1>3. Ranked(heap) => Ranked(heap')
  BY <1>1, <1>2, RankedExtended
<1>4. Links'
  BY <1>3, LinksNext
<1>5. Reach(heap, heap')
  <2>1. NULL \notin DOMAIN heap
    BY <1>1, HeapFacts DEF NULL
  <2> QED BY <2>1 DEF Reach
<1> QED BY <1>4, <1>5

(* The head of a function keeps the invariant. *)
LEMMA BegunIInv ==
    ASSUME IInv, TypeOK', InFunction', Begun
    PROVE  IInv'
<1>1. Evolves(heap, heap')
  BY DEF Begun
<1>2. AllKept'
  BY <1>1, KeptNext DEF IInv
<1>3. Links'
  BY <1>1, NewLinks DEF IInv, Begun
<1>4. FnApart'
  <2>1. /\ fn' \in DOMAIN heap' /\ heap'[fn'].kind = "FUNCTION" /\ heap'[fn'].name \in Name
        /\ symtab[<<0, heap'[fn'].name>>] = NULL => fn' \notin DOMAIN heap
        /\ symtab' = symtab /\ params' = << >>
    BY DEF Begun
  <2>2. ASSUME fn' \notin DOMAIN heap
        PROVE  /\ \A x \in DOMAIN heap' : heap'[x].next # fn'
               /\ \A key \in DOMAIN symtab' : symtab'[key] # fn'
               /\ fn' \notin Range(params')
    <3>1. /\ \A x \in DOMAIN heap : heap[x].next \in 0 .. Len(heap)
          /\ symtab \in [Scope \X Name -> 0 .. Len(heap)]
          /\ DOMAIN heap = 1 .. Len(heap) /\ Len(heap) \in Nat
      BY TypeFacts DEF IInv, SymbolsTyped, Heaps
    <3>2. DOMAIN heap' = 1 .. Len(heap') /\ Len(heap') \in Nat
      BY <1>1, HeapFacts DEF Evolves
    <3>3. fn' \notin 0 .. Len(heap) /\ fn' # NULL
      BY <2>1, <2>2, <3>1, <3>2 DEF NULL
    <3>4. \A x \in DOMAIN heap' : heap'[x].next # fn'
      BY <3>1, <3>3 DEF Begun
    <3> QED BY <2>1, <3>1, <3>3, <3>4 DEF Range
  <2> QED BY <2>1, <2>2 DEF FnApart
<1>5. ParamsListed' /\ HangsOnlyOnReuse'
  BY DEF Begun, ParamsListed, IsInjective, HangsOnlyOnReuse
<1> QED BY <1>2, <1>3, <1>4, <1>5 DEF IInv

(* A parameter keeps the invariant. *)
LEMMA PassedIInv ==
    ASSUME IInv, TypeOK', InFunction', Passed
    PROVE  IInv'
<1>1. Evolves(heap, heap')
  BY DEF Passed
<1>2. AllKept'
  BY <1>1, KeptNext DEF IInv
<1>3. Links' /\ Reach(heap, heap')
  BY <1>1, NewLinks DEF IInv, Passed
<1>4. FnApart'
  BY <1>1, <1>3, ApartNext DEF IInv, Passed
<1>5. IsInjective(params')
  <2>1. PICK s \in DOMAIN heap' \ DOMAIN heap : params' = Append(params, s)
    BY DEF Passed
  <2>2. /\ Len(params) \in Nat /\ DOMAIN params = 1 .. Len(params)
        /\ \A i \in 1 .. Len(params) : params[i] \in DOMAIN heap
    <3>1. params \in Seq(DOMAIN heap)
      BY TypeFacts DEF IInv, SymbolsTyped
    <3> QED BY <3>1
  <2>3. /\ DOMAIN params' = 1 .. Len(params) + 1
        /\ \A i \in 1 .. Len(params) : params'[i] = params[i]
        /\ params'[Len(params) + 1] = s
    <3>1. params \in Seq(DOMAIN heap)
      BY TypeFacts DEF IInv, SymbolsTyped
    <3> QED BY <2>1, <3>1
  <2>4. \A i, j \in DOMAIN params : params[i] = params[j] => i = j
    BY DEF IInv, ParamsListed, IsInjective
  <2>5. \A i, j \in DOMAIN params' : params'[i] = params'[j] => i = j
    BY <2>2, <2>3, <2>4
  <2> QED BY <2>5 DEF IsInjective
<1>6. ParamsListed' /\ HangsOnlyOnReuse'
  BY <1>5 DEF Passed, ParamsListed, HangsOnlyOnReuse
<1> QED BY <1>2, <1>3, <1>4, <1>6 DEF IInv

(* The list of the parameters keeps the invariant. *)
LEMMA BodiedIInv ==
    ASSUME IInv, TypeOK', InFunction', Bodied
    PROVE  IInv'
<1>1. /\ Relinked(heap, heap') /\ DOMAIN heap' = DOMAIN heap
      /\ \A x \in DOMAIN heap : x \notin Range(params) => heap'[x].next = heap[x].next
      /\ \A x \in DOMAIN heap : heap'[x].next \in {NULL, heap[x].next} \cup Range(params)
      /\ IsInjective(params) /\ IsChain(heap', params)
      /\ UNCHANGED <<symtab, fn, params>> /\ pc' = "decls"
  BY DEF Bodied, IInv, ParamsListed, Relinked
<1>2. Evolves(heap, heap')
  BY <1>1, RelinkedEvolves
<1>3. AllKept'
  BY <1>2, KeptNext DEF IInv
<1>4. Links'
  <2>1. Pointers(heap) /\ Pointers(heap')
    BY <1>1, TypeFacts, HeapFacts DEF IInv, Lexed, Relinked
  <2>2. Ranked(heap) => Ranked(heap')
    BY <1>1, <2>1, RankedLinked
  <2> QED BY <1>2, <2>2, LinksNext DEF IInv
<1>5. FnApart'
  <2>1. SUFFICES ASSUME fn # NULL
        PROVE  /\ heap'[fn].name \in Name /\ heap'[fn].kind = "FUNCTION"
               /\ symtab[<<0, heap'[fn].name>>] = NULL =>
                    /\ \A x \in DOMAIN heap' : heap'[x].next # fn
                    /\ \A key \in DOMAIN symtab : symtab[key] # fn
                    /\ fn \notin Range(params)
    BY <1>1 DEF FnApart
  <2>2. fn \in DOMAIN heap
    BY <2>1, TypeFacts DEF IInv, SymbolsTyped, NULL
  <2>3. heap'[fn].name = heap[fn].name /\ heap'[fn].kind = heap[fn].kind
    BY <1>1, <2>2 DEF Relinked, SameButNext
  <2>4. FnApart
    BY DEF IInv
  <2> QED BY <1>1, <2>1, <2>3, <2>4 DEF FnApart
<1>6. ParamsListed' /\ HangsOnlyOnReuse'
  BY <1>1 DEF ParamsListed, HangsOnlyOnReuse
<1> QED BY <1>3, <1>4, <1>5, <1>6 DEF IInv

(* The end of a function keeps the invariant. *)
LEMMA EndedIInv ==
    ASSUME IInv, TypeOK', InFunction', Ended
    PROVE  IInv'
<1>1. /\ fn \in DOMAIN heap /\ Evolves(heap, heap') /\ DOMAIN heap' = DOMAIN heap
      /\ \A x \in DOMAIN heap : x # fn => heap'[x].next = heap[x].next
      /\ \A x \in DOMAIN heap' : heap'[x].next # fn
      /\ fn' = NULL /\ params' = << >> /\ pc' = "decls"
  BY DEF Ended
<1>2. AllKept'
  BY <1>1, KeptNext DEF IInv
<1>3. Links'
  <2>1. Pointers(heap) /\ Pointers(heap')
    BY <1>1, TypeFacts, HeapFacts DEF IInv, Lexed, Evolves
  <2>2. Ranked(heap) => Ranked(heap')
    BY <1>1, <2>1, RankedHead
  <2> QED BY <1>1, <2>2, LinksNext DEF IInv
<1>4. FnApart' /\ HangsOnlyOnReuse'
  BY <1>1 DEF FnApart, HangsOnlyOnReuse
<1>5. ParamsListed'
  BY <1>1 DEF ParamsListed, IsInjective, IsChain
<1> QED BY <1>2, <1>3, <1>4, <1>5 DEF IInv

(* A hang in the count of the parameters keeps the invariant: their list was disturbed. *)
LEMMA HungIInv ==
    ASSUME IInv, TypeOK', InFunction', Hung
    PROVE  IInv'
<1>1. /\ UNCHANGED <<heap, symtab, fn, params>> /\ pc # "params" /\ pc' = "hang"
      /\ FirstParam \in 0 .. Len(heap) /\ Endless(heap, FirstParam)
  BY DEF Hung
<1>2. FnApart' /\ ParamsListed' /\ AllKept' /\ Links'
  BY <1>1 DEF IInv, FnApart, ParamsListed, Disturbed, AllKept, Links
<1>3. ~ Unmarked(heap)
  <2>1. Pointers(heap)
    BY TypeFacts, HeapFacts DEF IInv, Lexed
  <2>2. Ranked(heap) => ~ Endless(heap, FirstParam)
    BY <1>1, <2>1, RankedEnds
  <2> QED BY <1>1, <2>2 DEF IInv, Links
<1>4. HangsOnlyOnReuse'
  BY <1>1, <1>3, MarkedHangNext
<1> QED BY <1>2, <1>4 DEF IInv

(* A step that changes nothing keeps the invariant. *)
LEMMA IdleIInv ==
    ASSUME IInv, Idle
    PROVE  IInv'
<1>1. IInv' = IInv
  BY DEF Idle, vars, IInv, TypeOK, InFunction, FnApart, ParamsListed, Disturbed, AllKept, Links,
         HangsOnlyOnReuse
<1> QED BY <1>1

(* The conjuncts of IInv hold in every state that the parser reaches. *)
THEOREM Inductive == Spec => []IInv
<1>1. Init => IInv
  BY InitIInv
<1>2. IInv /\ [Next]_vars => IInv'
  <2> SUFFICES ASSUME IInv, [Next]_vars PROVE IInv'
    OBVIOUS
  <2>1. /\ TypeOK' /\ InFunction'
        /\ \/ Idle
           \/ yyerror
           \/ Quiet /\ HangMarked
           \/ Begun
           \/ Passed
           \/ Bodied
           \/ Ended
           \/ Hung
    BY NextCases DEF IInv
  <2> QED BY <2>1, IdleIInv, ErrorIInv, QuietIInv, BegunIInv, PassedIInv, BodiedIInv, EndedIInv,
             HungIInv
<1> QED BY <1>1, <1>2, PTL DEF Spec

(* Every state has the types of TypeOK: links and entries of the tables stay *)
(* inside of the heap, and an entry is found under its own name. *)
THEOREM TypeCorrect == Spec => []TypeOK
<1>1. IInv => TypeOK
  BY DEF IInv
<1> QED BY <1>1, Inductive, PTL

(* The walks of id_list, create_field, function_call and function_decl along *)
(* next end, unless a list has named a symbol again. *)
THEOREM HangsOnlyAfterReuse == Spec => []HangsOnlyOnReuse
<1>1. IInv => HangsOnlyOnReuse
  BY DEF IInv
<1> QED BY <1>1, Inductive, PTL

(* What no statement, call or member has retyped is as it was declared. *)
THEOREM SymbolsStay == Spec => []SymbolsKept
<1>1. IInv => SymbolsKept
  <2> SUFFICES ASSUME IInv, NEW key \in DOMAIN symtab, symtab[key] # NULL, ~ Retyped(symtab[key])
               PROVE  heap[symtab[key]].type = heap[symtab[key]].decl /\ heap[symtab[key]].place = "own"
    BY DEF SymbolsKept
  <2>1. symtab[key] \in DOMAIN heap
    BY TypeFacts DEF IInv, SymbolsTyped, NULL
  <2>2. Kept(heap[symtab[key]])
    BY <2>1 DEF IInv, AllKept
  <2> QED BY <2>2 DEF Kept, Retyped
<1> QED BY <1>1, Inductive, PTL

-----------------------------------------------------------------------------
(* Type names.                                                               *)

\* The name of a type is known to the lexer.
NamesKnown == \A i \in DOMAIN types : typetab[types[i].name] # NULL

\* A type with the tag of a structure that is not complete is inside of it.
OpenTags ==
    \A i \in DOMAIN types : \A k \in DOMAIN structs :
        types[i].name = structs[k].tag => types[i].depth > k

\* The inductive invariant of the type names.
NamesInv == NamesKnown /\ OpenTags /\ TypeNamesUnique /\ MembersDiffer

\* The step leaves types and the tags of open structures alone.
SameTypes ==
    /\ types' = types /\ typetab' = typetab
    /\ DOMAIN structs' = DOMAIN structs
    /\ \A k \in DOMAIN structs : structs'[k].tag = structs[k].tag

\* A structure is opened.
Opened(tag) ==
    /\ Token(tag) = "ID" /\ tag \in Name
    /\ types' = types /\ typetab' = typetab
    /\ structs' = Append(structs, [tag |-> tag, fields |-> << >>])

\* A structure is complete.
Closed ==
    /\ structs # << >> /\ structs' = Front(structs)
    /\ NamesDiffer(Last(structs).fields)
    /\ insert_type(Last(structs).tag, "STRUCT", Last(structs).fields)

\* A typedef is complete.
Typedefd(name) ==
    /\ Token(name) = "ID" /\ name \in Name /\ structs = << >> /\ structs' = structs
    /\ insert_type(name, "TYPEDEF", << >>)

(* After yyerror there are no types. *)
LEMMA NoTypes ==
    ASSUME yyerror
    PROVE  NamesInv'
<1>1. types' = << >> /\ structs' = << >>
  BY DEF yyerror
<1> QED BY <1>1 DEF NamesInv, NamesKnown, OpenTags, TypeNamesUnique, MembersDiffer

(* Steps that leave types and open structures alone keep the invariant of the names. *)
LEMMA SameTypesNames ==
    ASSUME NamesInv, SameTypes
    PROVE  NamesInv'
<1>1. NamesKnown' /\ TypeNamesUnique' /\ MembersDiffer'
  BY DEF SameTypes, NamesInv, NamesKnown, TypeNamesUnique, MembersDiffer
<1>2. OpenTags'
  BY DEF SameTypes, NamesInv, OpenTags
<1> QED BY <1>1, <1>2 DEF NamesInv

(* The token for a name that is no type says so. *)
LEMMA UntypedName ==
    ASSUME NamesTyped, NamesKnown, NEW name \in Name, Token(name) = "ID"
    PROVE  typetab[name] = NULL /\ \A i \in DOMAIN types : types[i].name # name
<1>1. typetab[name] = NULL
  BY DEF Token
<1> QED BY <1>1 DEF NamesKnown

(* A structure is opened with a tag that is not a type. *)
LEMMA OpenedNames ==
    ASSUME NamesTyped, NamesInv, NEW tag, Opened(tag)
    PROVE  NamesInv'
<1>1. NamesKnown' /\ TypeNamesUnique' /\ MembersDiffer'
  BY DEF Opened, NamesInv, NamesKnown, TypeNamesUnique, MembersDiffer
<1>2. \A i \in DOMAIN types : types[i].name # tag
  BY UntypedName DEF Opened, NamesInv
<1>3. /\ Len(structs) \in Nat /\ DOMAIN structs = 1 .. Len(structs)
      /\ DOMAIN structs' = 1 .. Len(structs) + 1
      /\ \A k \in 1 .. Len(structs) : structs'[k] = structs[k]
      /\ structs'[Len(structs) + 1].tag = tag
  BY DEF NamesTyped, Opened
<1>4. OpenTags'
  <2> SUFFICES ASSUME NEW i \in DOMAIN types, NEW k \in DOMAIN structs',
                      types[i].name = structs'[k].tag
               PROVE  types[i].depth > k
    BY DEF OpenTags, Opened
  <2>1. k \in DOMAIN structs /\ structs'[k] = structs[k]
    BY <1>2, <1>3
  <2> QED BY <2>1 DEF NamesInv, OpenTags
<1> QED BY <1>1, <1>4 DEF NamesInv

(* A type that is made. *)
LEMMA InsertedNames ==
    ASSUME NamesTyped, NamesInv, NEW name \in Name, NEW type \in {"TYPEDEF", "STRUCT"},
           NEW fields \in FieldSeq, insert_type(name, type, fields),
           \A i \in DOMAIN types : types[i].name = name => types[i].depth > Len(structs),
           \A m, n \in DOMAIN fields : fields[m][1] = fields[n][1] => m = n
    PROVE  NamesKnown' /\ TypeNamesUnique' /\ MembersDiffer'
<1> DEFINE k == Len(types)
           t == [name |-> name, type |-> type, fields |-> fields, depth |-> Len(structs)]
<1>1. /\ k \in Nat /\ DOMAIN types = 1 .. k /\ DOMAIN types' = 1 .. k + 1
      /\ types'[k + 1] = t /\ \A i \in 1 .. k : types'[i] = types[i]
      /\ typetab'[name] # NULL /\ \A n \in Name : typetab[n] # NULL => typetab'[n] = typetab[n]
  BY InsertFacts DEF TypesTyped
<1>2. \A i \in 1 .. k : types[i].name \in Name
  <2> DEFINE T == [name : Name, type : {"TYPEDEF", "STRUCT"}, fields : FieldSeq, depth : Nat]
  <2>1. types \in Seq(T)
    BY DEF NamesTyped, TypesTyped
  <2> HIDE DEF T
  <2>2. \A i \in 1 .. k : types[i] \in T
    BY <2>1
  <2> QED BY <2>2 DEF T
<1>3. t.name = name /\ t.fields = fields /\ t.depth = Len(structs)
  OBVIOUS
<1> HIDE DEF k, t
<1>4. NamesKnown'
  <2> SUFFICES ASSUME NEW i \in 1 .. k + 1 PROVE typetab'[types'[i].name] # NULL
    BY <1>1 DEF NamesKnown
  <2>1. CASE i = k + 1
    BY <1>1, <1>3, <2>1
  <2>2. CASE i # k + 1
    <3>1. i \in 1 .. k
      BY <1>1, <2>2
    <3> QED BY <1>1, <1>2, <3>1 DEF NamesInv, NamesKnown
  <2> QED BY <2>1, <2>2
<1>5. TypeNamesUnique'
  <2> SUFFICES ASSUME NEW i \in 1 .. k + 1, NEW j \in 1 .. k + 1, i < j,
                      types'[i].name = types'[j].name
               PROVE  types'[i].depth > types'[j].depth
    BY <1>1 DEF TypeNamesUnique
  <2>1. i \in 1 .. k
    BY <1>1
  <2>2. CASE j = k + 1
    BY <1>1, <1>3, <2>1, <2>2
  <2>3. CASE j # k + 1
    <3>1. j \in 1 .. k
      BY <1>1, <2>3
    <3> QED BY <1>1, <2>1, <3>1 DEF NamesInv, TypeNamesUnique
  <2> QED BY <2>2, <2>3
<1>6. MembersDiffer'
  <2> SUFFICES ASSUME NEW i \in 1 .. k + 1, NEW m \in DOMAIN types'[i].fields,
                      NEW n \in DOMAIN types'[i].fields,
                      types'[i].fields[m][1] = types'[i].fields[n][1]
               PROVE  m = n
    BY <1>1 DEF MembersDiffer
  <2>1. CASE i = k + 1
    BY <1>1, <1>3, <2>1
  <2>2. CASE i # k + 1
    <3>1. i \in 1 .. k
      BY <1>1, <2>2
    <3> QED BY <1>1, <3>1 DEF NamesInv, MembersDiffer
  <2> QED BY <2>1, <2>2
<1> QED BY <1>4, <1>5, <1>6

(* A typedef has a name that is not a type. *)
LEMMA TypedefNames ==
    ASSUME NamesTyped, NamesInv, NEW name, Typedefd(name)
    PROVE  NamesInv'
<1>1. \A i \in DOMAIN types : types[i].name # name
  BY UntypedName DEF Typedefd, NamesInv
<1>2. << >> \in FieldSeq /\ structs' = << >> /\ name \in Name
      /\ insert_type(name, "TYPEDEF", << >>)
  BY DEF Typedefd, FieldSeq
<1>3. NamesKnown' /\ TypeNamesUnique' /\ MembersDiffer'
  BY <1>1, <1>2, InsertedNames
<1>4. OpenTags'
  BY <1>2 DEF OpenTags
<1> QED BY <1>3, <1>4 DEF NamesInv

(* A structure that is complete is inside of those that are open, and its members differ. *)
LEMMA ClosedNames ==
    ASSUME NamesTyped, NamesInv, Closed
    PROVE  NamesInv'
<1> DEFINE this == Last(structs)
           n == Len(structs)
<1>1. /\ structs \in Seq([tag : Name, fields : FieldSeq]) /\ structs # << >>
      /\ structs' = Front(structs)
      /\ insert_type(this.tag, "STRUCT", this.fields)
      /\ NamesDiffer(this.fields)
  BY DEF NamesTyped, Closed
<1>2. /\ n \in Nat /\ n \in 1 .. n /\ this = structs[n]
      /\ this.tag \in Name /\ this.fields \in FieldSeq
      /\ DOMAIN structs = 1 .. n /\ DOMAIN structs' = 1 .. n - 1
      /\ \A i \in 1 .. n - 1 : structs'[i] = structs[i]
  <2>1. Front(structs) \in Seq([tag : Name, fields : FieldSeq])
    BY <1>1, LastTyped
  <2>2. DOMAIN structs' = 1 .. n - 1
    BY <1>1, <2>1, LastTyped
  <2> QED BY <1>1, <2>2, LastTyped
<1>3. \A i \in DOMAIN types : types[i].name = this.tag => types[i].depth > n
  BY <1>2 DEF NamesInv, OpenTags
<1> HIDE DEF this
<1>4. \A x, y \in DOMAIN this.fields : this.fields[x][1] = this.fields[y][1] => x = y
  <2> DEFINE names == [i \in DOMAIN this.fields |-> this.fields[i][1]]
  <2>1. IsInjective(names)
    BY <1>1 DEF NamesDiffer
  <2>2. \A x, y \in DOMAIN names : names[x] = names[y] => x = y
    BY <2>1 DEF IsInjective
  <2> QED BY <2>2
<1>5. NamesKnown' /\ TypeNamesUnique' /\ MembersDiffer'
  BY <1>1, <1>2, <1>3, <1>4, InsertedNames
<1>6. OpenTags'
  <2> DEFINE k == Len(types)
             t == [name |-> this.tag, type |-> "STRUCT", fields |-> this.fields, depth |-> n]
  <2>1. /\ k \in Nat /\ DOMAIN types = 1 .. k /\ DOMAIN types' = 1 .. k + 1
        /\ types'[k + 1] = t /\ \A i \in 1 .. k : types'[i] = types[i]
    <3> DEFINE tag == this.tag
               fields == this.fields
    <3>1. tag \in Name /\ fields \in FieldSeq /\ insert_type(tag, "STRUCT", fields)
      BY <1>1, <1>2
    <3> HIDE DEF tag, fields
    <3>2. /\ TypesTyped' /\ k \in Nat /\ Len(types') = k + 1
          /\ types'[k + 1] =
                [name |-> tag, type |-> "STRUCT", fields |-> fields, depth |-> Len(structs)]
          /\ \A i \in 1 .. k : types'[i] = types[i]
      BY <3>1, InsertFacts
    <3>3. DOMAIN types = 1 .. k /\ DOMAIN types' = 1 .. k + 1
      BY <3>2 DEF NamesTyped, TypesTyped
    <3> QED BY <3>2, <3>3 DEF tag, fields
  <2>2. t.depth = n
    OBVIOUS
  <2> HIDE DEF k, t, n
  <2> SUFFICES ASSUME NEW i \in 1 .. k + 1, NEW j \in 1 .. n - 1,
                      types'[i].name = structs'[j].tag
               PROVE  types'[i].depth > j
    BY <1>2, <2>1 DEF OpenTags
  <2>3. CASE i = k + 1
    BY <1>2, <2>1, <2>2, <2>3
  <2>4. CASE i # k + 1
    <3>1. i \in 1 .. k /\ j \in DOMAIN structs /\ structs'[j] = structs[j]
      BY <1>2, <2>1, <2>4
    <3> QED BY <2>1, <3>1 DEF NamesInv, OpenTags
  <2> QED BY <2>3, <2>4
<1> QED BY <1>5, <1>6 DEF NamesInv

(* Members change no tag and no type. *)
LEMMA MembersTags ==
    ASSUME NamesTyped, Members
    PROVE  SameTypes
<1>1. structs # << >> /\ UNCHANGED <<types, typetab>>
  BY DEF Members
<1>2. PICK type \in DeclaratorType, names \in Identifiers : AddMembers(structs, type, names)
  BY DEF Members
<1>3. \/ structs' = structs
      \/ \E fields : structs' = [structs EXCEPT ![Len(structs)].fields = fields]
  BY <1>2 DEF AddMembers
<1>4. structs' = structs => SameTypes
  BY <1>1 DEF SameTypes
<1>5. ASSUME NEW fields, structs' = [structs EXCEPT ![Len(structs)].fields = fields]
      PROVE  SameTypes
  <2> DEFINE n == Len(structs)
             s == structs[n]
             new == [s EXCEPT !.fields = fields]
  <2>1. n \in DOMAIN structs /\ s \in [tag : Name, fields : FieldSeq]
    BY <1>1, LastTyped DEF NamesTyped
  <2>2. new.tag = s.tag
    BY <2>1
  <2>3. structs' = [structs EXCEPT ![n] = new]
    BY <1>5
  <2> HIDE DEF new, n
  <2>4. DOMAIN structs' = DOMAIN structs /\ \A k \in DOMAIN structs : structs'[k].tag = structs[k].tag
    BY <2>1, <2>2, <2>3
  <2> QED BY <1>1, <2>4 DEF SameTypes
<1> QED BY <1>3, <1>4, <1>5

(* A statement changes no type, unless it is an error. *)
LEMMA StatementTypes ==
    ASSUME Statement
    PROVE  SameTypes \/ yyerror
<1>1. UNCHANGED <<types, typetab, structs>> \/ yyerror
  <2>1. PICK target, refs :
           \/ \E name \in Callees : Call(target, name, refs, Evaluate(target \o refs))
           \/ Return(refs, Evaluate(target \o refs))
           \/ Assign(target[1], refs, Evaluate(target \o refs))
    BY Zenon DEF Statement
  <2> QED BY <2>1 DEF Call, Return, Assign, After
<1> QED BY <1>1 DEF SameTypes

(* Every step keeps the invariant of the names. *)
LEMMA NextNames ==
    ASSUME TypeOK, NamesInv, [Next]_vars
    PROVE  NamesInv'
<1>0. NamesTyped
  BY TypeFacts
<1>1. CASE UNCHANGED vars
  <2>1. SameTypes
    BY <1>1 DEF vars, SameTypes
  <2> QED BY <2>1, SameTypesNames
<1>2. CASE VarDecl
  <2>1. SameTypes \/ yyerror
    BY <1>2 DEF VarDecl, DeclareVars, SameTypes
  <2> QED BY <2>1, SameTypesNames, NoTypes
<1>3. ASSUME NEW name \in Name, TypedefDecl(name) PROVE NamesInv'
  <2>1. Typedefd(name)
    BY <1>3 DEF TypedefDecl, Typedefd, AtDecl
  <2> QED BY <1>0, <2>1, TypedefNames
<1>4. ASSUME NEW name \in Name, StructBegin(name) PROVE NamesInv'
  <2>1. Opened(name)
    BY <1>4 DEF StructBegin, Opened
  <2> QED BY <1>0, <2>1, OpenedNames
<1>5. CASE Members
  BY <1>0, <1>5, MembersTags, SameTypesNames
<1>6. CASE StructEnd
  <2>1. Closed \/ yyerror
    BY <1>6 DEF StructEnd, Closed
  <2> QED BY <1>0, <2>1, ClosedNames, NoTypes
<1>7. ASSUME NEW type \in Plain, NEW name \in Name, FuncBegin(type[1], name) PROVE NamesInv'
  <2>1. SameTypes
    BY <1>7 DEF FuncBegin, SameTypes
  <2> QED BY <2>1, SameTypesNames
<1>8. ASSUME NEW type \in BaseType \cup {"STRUCT"}, NEW name \in Name, Param(type, name)
      PROVE  NamesInv'
  <2>1. SameTypes \/ yyerror
    BY <1>8 DEF Param, SameTypes
  <2> QED BY <2>1, SameTypesNames, NoTypes
<1>9. CASE FuncBody
  <2>1. SameTypes
    BY <1>9 DEF FuncBody, SameTypes
  <2> QED BY <2>1, SameTypesNames
<1>10. CASE FuncEnd
  <2>1. SameTypes \/ yyerror
    BY <1>10 DEF FuncEnd, SameTypes
  <2> QED BY <2>1, SameTypesNames, NoTypes
<1>11. CASE Statement
  BY <1>11, StatementTypes, SameTypesNames, NoTypes
<1> QED BY <1>1, <1>2, <1>3, <1>4, <1>5, <1>6, <1>7, <1>8, <1>9, <1>10, <1>11 DEF Next

(* The names of types are known, and a type with the tag of an open structure *)
(* is inside of it. *)
THEOREM TypeNamesInvariant == Spec => []NamesInv
<1>1. Init => NamesInv
  <2>1. Init => types = << >> /\ structs = << >>
    BY DEF Init
  <2> QED BY <2>1 DEF NamesInv, NamesKnown, OpenTags, TypeNamesUnique, MembersDiffer
<1>2. TypeOK /\ NamesInv /\ [Next]_vars => NamesInv'
  BY NextNames
<1> QED BY <1>1, <1>2, TypeCorrect, PTL DEF Spec

(* Of two types with the same name, one was declared inside the other: the   *)
(* lexer does not give a name that is a type as an ID. *)
THEOREM TypeNamesOnce == Spec => []TypeNamesUnique
<1>1. NamesInv => TypeNamesUnique
  BY DEF NamesInv
<1> QED BY <1>1, TypeNamesInvariant, PTL

(* A structure with two members of the same name is refused. *)
THEOREM MembersChecked == Spec => []MembersDiffer
<1>1. NamesInv => MembersDiffer
  BY DEF NamesInv
<1> QED BY <1>1, TypeNamesInvariant, PTL

-----------------------------------------------------------------------------
(* The judgement of statements.                                              *)

\* The types after the first n references of a statement have been evaluated.
TypesRead(acc, refs, n) ==
    /\ \A x \in DOMAIN heap :
          (\A i \in 1 .. n :
              refs[i] # Constant /\ refs[i].member # "" => Visible(refs[i].name) # x)
             => acc.heap[x].type = heap[x].type
    /\ acc.ok <=> \A i \in 1 .. n : refs[i] # Constant => Resolves(refs[i])
    /\ acc.ok => \A i \in 1 .. n :
          refs[i] # Constant =>
             acc.heap[Visible(refs[i].name)].type = DeclaredType(refs[i])[1]

(* The three forms of DeclaredType. *)
LEMMA DeclaredFacts ==
    ASSUME NEW ref, NEW s, s = Visible(ref.name)
    PROVE  /\ heap[s].decl # "STRUCT"
                 => DeclaredType(ref)[1] = heap[s].decl /\ DeclaredType(ref)[2] = NULL
           /\ heap[s].decl = "STRUCT" /\ (ref.member = "" \/ heap[s].type_ptr = NULL)
                 => DeclaredType(ref)[1] = "STRUCT" /\ DeclaredType(ref)[2] = heap[s].type_ptr
           /\ heap[s].decl = "STRUCT" /\ ref.member # "" /\ heap[s].type_ptr # NULL
                 => /\ DeclaredType(ref)[1] = FieldType(heap[s].type_ptr, ref.member)
                    /\ DeclaredType(ref)[2] = NULL
           /\ DeclaredType(ref) = <<DeclaredType(ref)[1], DeclaredType(ref)[2]>>
BY DEF DeclaredType

(* On clean references lhs finds what the declarations have. *)
LEMMA FoundResolves ==
    ASSUME Lexed, NEW acc \in Accs, NEW ref \in RefSet, ref # Constant,
           NEW s, s = Visible(ref.name),
           s # NULL => acc.heap[s].type = heap[s].decl
    PROVE  /\ Found(acc, ref) <=> acc.ok /\ Resolves(ref)
           /\ Found(acc, ref) => /\ s \in DOMAIN heap
                                 /\ acc.heap[s].type_ptr = heap[s].type_ptr
                                 /\ Opaque(acc, ref) => DeclaredType(ref)[1] = heap[s].decl
                                 /\ ~ Opaque(acc, ref) => DeclaredType(ref)[1] =
                                       FieldType(heap[s].type_ptr, ref.member)
<1>1. ref.name \in Name
  BY DEF RefSet
<1>2. s # NULL => s \in DOMAIN heap
  BY <1>1, VisibleFacts
<1>3. acc.ok \in BOOLEAN /\ ReadHeap(acc.heap)
  BY DEF Accs
<1>4. s # NULL => acc.heap[s].type_ptr = heap[s].type_ptr
  BY <1>2, <1>3 DEF ReadHeap, MemberRead
<1>5. Found(acc, ref) <=> acc.ok /\ Resolves(ref)
  BY <1>4 DEF Found, Resolves, Opaque
<1>6. ASSUME Found(acc, ref)
      PROVE  /\ Opaque(acc, ref) => DeclaredType(ref)[1] = heap[s].decl
             /\ ~ Opaque(acc, ref) => DeclaredType(ref)[1] = FieldType(heap[s].type_ptr, ref.member)
  <2>1. s # NULL /\ (ref.member # "" => heap[s].decl = "STRUCT")
    BY <1>5, <1>6 DEF Resolves
  <2>2. Opaque(acc, ref) <=> ref.member = "" \/ heap[s].type_ptr = NULL
    BY <1>4, <2>1 DEF Opaque
  <2>3. CASE Opaque(acc, ref)
    <3>1. heap[s].decl # "STRUCT" => DeclaredType(ref)[1] = heap[s].decl
      BY DeclaredFacts
    <3>2. heap[s].decl = "STRUCT" => DeclaredType(ref)[1] = "STRUCT"
      BY <2>2, <2>3, DeclaredFacts
    <3> QED BY <2>3, <3>1, <3>2
  <2>4. CASE ~ Opaque(acc, ref)
    <3>1. heap[s].decl = "STRUCT" /\ ref.member # "" /\ heap[s].type_ptr # NULL
      BY <2>1, <2>2, <2>4
    <3>2. DeclaredType(ref)[1] = FieldType(heap[s].type_ptr, ref.member)
      BY <3>1, DeclaredFacts
    <3> QED BY <2>4, <3>2
  <2> QED BY <2>3, <2>4
<1>7. Found(acc, ref) => s # NULL
  BY DEF Found
<1> QED BY <1>2, <1>4, <1>5, <1>6, <1>7

(* TypesRead is kept by the evaluation of one more clean reference. *)
LEMMA CleanStep ==
    ASSUME Lexed, TypesTyped, AllKept, NEW refs \in Seq(RefSet), Clean(refs),
           NEW n \in 1 .. Len(refs), NEW l \in Accs, TypesRead(l, refs, n - 1),
           NEW m, m = lhs(l, refs[n])
    PROVE  TypesRead(m, refs, n)
<1> DEFINE ref == refs[n]
           s == Visible(ref.name)
           K == Len(refs)
           Named(i) == refs[i] # Constant
           Before(x) == \A i \in 1 .. n - 1 :
                           Named(i) /\ refs[i].member # "" => Visible(refs[i].name) # x
           Until(x) == \A i \in 1 .. n :
                           Named(i) /\ refs[i].member # "" => Visible(refs[i].name) # x
<1>1. K \in Nat /\ DOMAIN refs = 1 .. K /\ \A i \in 1 .. K : refs[i] \in RefSet
  OBVIOUS
<1>2. n \in Nat /\ 1 .. n - 1 \subseteq 1 .. K /\ 1 .. n = 1 .. n - 1 \cup {n} /\ n \in 1 .. K
      /\ n \notin 1 .. n - 1
  BY <1>1
<1>3. /\ \A x \in DOMAIN heap : Before(x) => l.heap[x].type = heap[x].type
      /\ l.ok <=> \A i \in 1 .. n - 1 : Named(i) => Resolves(refs[i])
      /\ l.ok => \A i \in 1 .. n - 1 :
                    Named(i) => l.heap[Visible(refs[i].name)].type = DeclaredType(refs[i])[1]
  BY DEF TypesRead
<1>4. l.ok \in BOOLEAN /\ ReadHeap(l.heap) /\ DOMAIN heap \subseteq DOMAIN l.heap
  BY ReadHeapFacts DEF Accs
<1>5. SUFFICES /\ \A x \in DOMAIN heap : Until(x) => m.heap[x].type = heap[x].type
               /\ m.ok <=> \A i \in 1 .. n : Named(i) => Resolves(refs[i])
               /\ m.ok => \A i \in 1 .. n :
                    Named(i) => m.heap[Visible(refs[i].name)].type = DeclaredType(refs[i])[1]
  BY DEF TypesRead
<1>6. \A i \in 1 .. K : Named(i) => /\ refs[i].name \in Name
                                    /\ Visible(refs[i].name) \in 0 .. Len(heap)
                                    /\ Visible(refs[i].name) # NULL =>
                                         /\ Visible(refs[i].name) \in DOMAIN heap
                                         /\ heap[Visible(refs[i].name)].name = refs[i].name
  <2> SUFFICES ASSUME NEW i \in 1 .. K, Named(i)
               PROVE  /\ refs[i].name \in Name
                      /\ Visible(refs[i].name) \in 0 .. Len(heap)
                      /\ Visible(refs[i].name) # NULL =>
                           /\ Visible(refs[i].name) \in DOMAIN heap
                           /\ heap[Visible(refs[i].name)].name = refs[i].name
    OBVIOUS
  <2>1. refs[i].name \in Name
    BY <1>1 DEF RefSet
  <2> QED BY <2>1, VisibleFacts
<1>7. /\ \A i \in 1 .. K : Named(i) /\ Visible(refs[i].name) # NULL => ~ Retyped(Visible(refs[i].name))
      /\ \A i, j \in 1 .. K : Named(i) /\ Named(j) /\ i # j /\ refs[i].name = refs[j].name
                                => refs[i].member = "" /\ refs[j].member = ""
  BY <1>1 DEF Clean
<1> HIDE DEF Before, Until, K
<1>8. CASE ~ Named(n)
  <2>1. m.ok = l.ok /\ \A x \in DOMAIN l.heap : m.heap[x] = l.heap[x]
    <3>1. m.heap = Append(l.heap, Symbol("1", "INT")) /\ m.ok = l.ok
      BY <1>1, <1>2, <1>8, LhsFacts, ZenonT(40)
    <3> QED BY <1>4, <3>1, ConstantFacts
  <2>2. \A x \in DOMAIN heap : Until(x) => Before(x)
    BY <1>2 DEF Until, Before
  <2>3. \A i \in 1 .. n - 1 : Named(i) /\ Resolves(refs[i]) => Visible(refs[i].name) \in DOMAIN heap
    BY <1>2, <1>6 DEF Resolves
  <2> QED BY <1>2, <1>3, <1>4, <1>8, <2>1, <2>2, <2>3
<1>9. CASE Named(n)
  <2>1. ref \in RefSet /\ ref # Constant /\ m = lhs(l, ref)
    BY <1>1, <1>2, <1>9
  <2>2. s # NULL => s \in DOMAIN heap /\ Before(s) /\ heap[s].type = heap[s].decl
    <3> SUFFICES ASSUME s # NULL PROVE s \in DOMAIN heap /\ Before(s) /\ heap[s].type = heap[s].decl
      OBVIOUS
    <3>1. s \in DOMAIN heap /\ heap[s].name = ref.name
      BY <1>2, <1>6, <1>9
    <3>2. ~ Retyped(s) /\ Kept(heap[s])
      BY <1>2, <1>7, <1>9, <3>1 DEF AllKept
    <3>3. ASSUME NEW i \in 1 .. n - 1, Named(i), refs[i].member # "", Visible(refs[i].name) = s
          PROVE  FALSE
      <4>1. i \in 1 .. K /\ i # n
        BY <1>2, <3>3
      <4>2. refs[i].name = ref.name
        BY <1>6, <3>1, <3>3, <4>1
      <4> QED BY <1>2, <1>7, <1>9, <3>3, <4>1, <4>2
    <3> QED BY <3>1, <3>2, <3>3 DEF Before, Kept, Retyped
  <2>3. s # NULL => l.heap[s].type = heap[s].decl
    BY <1>3, <2>2
  <2>4. /\ Found(l, ref) <=> l.ok /\ Resolves(ref)
        /\ Found(l, ref) => /\ s \in DOMAIN heap
                            /\ l.heap[s].type_ptr = heap[s].type_ptr
                            /\ Opaque(l, ref) => DeclaredType(ref)[1] = heap[s].decl
                            /\ ~ Opaque(l, ref) => DeclaredType(ref)[1] =
                                  FieldType(heap[s].type_ptr, ref.member)
    BY <2>1, <2>3, FoundResolves
  <2>5. \A x \in DOMAIN heap : Until(x) => Before(x)
    BY <1>2 DEF Until, Before
  <2>6. CASE ~ Found(l, ref)
    <3>1. m.heap = l.heap /\ m.ok = FALSE
      BY <2>1, <2>6, LhsFacts
    <3>2. ~ \A i \in 1 .. n : Named(i) => Resolves(refs[i])
      BY <1>2, <1>3, <1>9, <2>4, <2>6
    <3> QED BY <1>3, <2>5, <3>1, <3>2
  <2>7. CASE Found(l, ref)
    <3>1. l.ok /\ Resolves(ref) /\ s \in DOMAIN heap /\ l.heap[s].type = heap[s].decl
      BY <2>3, <2>4, <2>7 DEF Found
    <3>2. m.ok = TRUE
      BY <2>1, <2>7, LhsFacts
    <3>3. \A i \in 1 .. n : Named(i) => Resolves(refs[i])
      BY <1>2, <1>3, <3>1
    <3>4. \A i \in 1 .. n - 1 : Named(i) => Visible(refs[i].name) \in DOMAIN heap
      BY <1>2, <1>6, <3>3 DEF Resolves
    <3>5. CASE Opaque(l, ref)
      <4>1. m.heap = l.heap
        BY <2>1, <2>7, <3>5, LhsFacts, ZenonT(40)
      <4>2. m.heap[s].type = DeclaredType(ref)[1]
        BY <2>4, <2>7, <3>1, <3>5, <4>1
      <4> QED BY <1>2, <1>3, <2>5, <3>1, <3>2, <3>3, <4>1, <4>2
    <3>6. CASE ~ Opaque(l, ref)
      <4> DEFINE ft == FieldType(l.heap[s].type_ptr, ref.member)
      <4>1. ft \in Type /\ m.heap = Read(l.heap, s, ft)
        BY <2>1, <2>7, <3>6, LhsFacts, ZenonT(40)
      <4>2. ft = DeclaredType(ref)[1] /\ ref.member # ""
        BY <2>4, <2>7, <3>6 DEF Opaque
      <4> HIDE DEF ft
      <4>3. /\ m.heap[s].type = ft
            /\ \A x \in DOMAIN l.heap : x # s => m.heap[x] = l.heap[x]
        <5> HIDE DEF s
        <5> QED BY <1>4, <3>1, <4>1, ReadFacts
      <4>4. \A i \in 1 .. n - 1 : Named(i) => Visible(refs[i].name) # s
        <5> SUFFICES ASSUME NEW i \in 1 .. n - 1, Named(i), Visible(refs[i].name) = s PROVE FALSE
          OBVIOUS
        <5>1. i \in 1 .. K /\ i # n
          BY <1>2
        <5>2. heap[s].name = refs[i].name /\ heap[s].name = ref.name
          BY <1>2, <1>6, <1>9, <3>1, <3>4, <5>1 DEF Resolves
        <5> QED BY <1>2, <1>7, <1>9, <4>2, <5>1, <5>2
      <4>5. \A x \in DOMAIN heap : Until(x) => x # s
        BY <1>2, <1>9, <4>2 DEF Until
      <4>6. \A x \in DOMAIN heap : Until(x) => m.heap[x].type = heap[x].type
        BY <1>3, <1>4, <2>5, <4>3, <4>5
      <4>7. \A i \in 1 .. n : Named(i) => m.heap[Visible(refs[i].name)].type = DeclaredType(refs[i])[1]
        <5> SUFFICES ASSUME NEW i \in 1 .. n, Named(i)
                     PROVE  m.heap[Visible(refs[i].name)].type = DeclaredType(refs[i])[1]
          OBVIOUS
        <5>1. CASE i = n
          BY <4>2, <4>3, <5>1
        <5>2. CASE i # n
          <6>1. i \in 1 .. n - 1
            BY <1>2, <5>2
          <6>2. Visible(refs[i].name) \in DOMAIN l.heap /\ Visible(refs[i].name) # s
            BY <1>4, <3>4, <4>4, <6>1
          <6>3. m.heap[Visible(refs[i].name)] = l.heap[Visible(refs[i].name)]
            <7> HIDE DEF s
            <7> QED BY <4>3, <6>2
          <6> QED BY <1>3, <3>1, <6>1, <6>3
        <5> QED BY <5>1, <5>2
      <4> QED BY <3>2, <3>3, <4>6, <4>7
    <3> QED BY <3>5, <3>6
  <2> QED BY <2>6, <2>7
<1> QED BY <1>8, <1>9

\* A type that was found, and the type that was declared.
Agrees(t, d) ==
    /\ t[1] = d[1] /\ d = <<d[1], d[2]>>
    /\ d[1] = "STRUCT" => t[2] = d[2]
    /\ d[1] # "STRUCT" => d[2] = NULL

(* The evaluation of clean references succeeds if the declarations have them, *)
(* and finds the types of the declarations. *)
LEMMA CleanEvaluation ==
    ASSUME Lexed, TypesTyped, Pointed(heap), AllKept, NEW refs \in Seq(RefSet), Clean(refs),
           NEW acc, acc = Evaluate(refs)
    PROVE  /\ acc.ok <=> \A i \in 1 .. Len(refs) : refs[i] # Constant => Resolves(refs[i])
           /\ acc.ok => \A i \in 1 .. Len(refs) :
                refs[i] # Constant => Agrees(TypeNow(acc.heap, acc.syms[i]), DeclaredType(refs[i]))
<1>1. PICK ev : IsEvaluation(refs, ev)
  BY EvaluationExists
<1> DEFINE K == Len(refs)
           T == {n \in 0 .. K : TypesRead(ev[n], refs, n)}
<1>2. K \in Nat /\ \A i \in 1 .. K : refs[i] \in RefSet
  OBVIOUS
<1>3. /\ \A n \in 0 .. K : ev[n] \in Accs
      /\ ev[0] = [heap |-> heap, syms |-> << >>, ok |-> TRUE]
      /\ \A n \in 1 .. K : ev[n] = lhs(ev[n - 1], refs[n])
      /\ acc = ev[K]
  BY <1>1 DEF IsEvaluation
<1>4. TypesRead(ev[0], refs, 0)
  BY <1>3 DEF TypesRead
<1>5. ASSUME NEW n \in 1 .. K, TypesRead(ev[n - 1], refs, n - 1)
      PROVE  TypesRead(ev[n], refs, n)
  <2>1. n - 1 \in 0 .. K
    BY <1>2
  <2>2. ev[n - 1] \in Accs /\ ev[n] = lhs(ev[n - 1], refs[n])
    BY <1>3, <2>1
  <2> QED BY <1>5, <2>2, CleanStep
<1> HIDE DEF K
<1>6. \A n \in 0 .. K : n \in T
  <2>1. 0 \in T
    BY <1>2, <1>4
  <2>2. ASSUME NEW n \in 1 .. K, n - 1 \in T
        PROVE  n \in T
    <3>1. TypesRead(ev[n], refs, n)
      BY <1>5, <2>2
    <3> QED BY <1>2, <3>1
  <2> HIDE DEF T
  <2> QED BY <1>2, <2>1, <2>2, UpTo
<1>7. TypesRead(acc, refs, K)
  <2>1. K \in T
    BY <1>2, <1>6
  <2> QED BY <1>3, <2>1
<1>8. ASSUME acc.ok, NEW i \in 1 .. K, refs[i] # Constant
      PROVE  Agrees(TypeNow(acc.heap, acc.syms[i]), DeclaredType(refs[i]))
  <2> DEFINE s == Visible(refs[i].name)
             d == DeclaredType(refs[i])
             t == TypeNow(acc.heap, acc.syms[i])
  <2>1. acc.syms[i] = s /\ ReadHeap(acc.heap)
    BY <1>8, EvaluateFacts DEF K
  <2>2. acc.heap[s].type = d[1] /\ Resolves(refs[i])
    BY <1>7, <1>8 DEF TypesRead
  <2>3. refs[i].name \in Name
    BY <1>2, <1>8 DEF RefSet
  <2>4. s \in DOMAIN heap
    BY <2>2, <2>3, VisibleFacts DEF Resolves
  <2>5. acc.heap[s].type_ptr = heap[s].type_ptr
    BY <2>1, <2>4 DEF ReadHeap, MemberRead
  <2>6. t[1] = d[1] /\ t[2] = heap[s].type_ptr
    BY <2>1, <2>2, <2>5 DEF TypeNow
  <2>7. refs[i].member # "" => d[1] # "STRUCT"
    <3>1. i \in DOMAIN refs
      BY <1>8 DEF K
    <3>2. \A k \in DOMAIN refs :
             refs[k] # Constant /\ Resolves(refs[k]) /\ refs[k].member # ""
                => DeclaredType(refs[k])[1] # "STRUCT"
      BY DEF Clean
    <3> QED BY <1>8, <2>2, <3>1, <3>2
  <2> HIDE DEF s, d, t
  <2>8. /\ heap[s].decl # "STRUCT" => d[1] = heap[s].decl /\ d[2] = NULL
        /\ heap[s].decl = "STRUCT" /\ (refs[i].member = "" \/ heap[s].type_ptr = NULL)
              => d[1] = "STRUCT" /\ d[2] = heap[s].type_ptr
        /\ heap[s].decl = "STRUCT" /\ refs[i].member # "" /\ heap[s].type_ptr # NULL
              => d[2] = NULL
        /\ d = <<d[1], d[2]>>
    <3> USE DEF s, d
    <3>1. /\ heap[s].decl # "STRUCT"
                => DeclaredType(refs[i])[1] = heap[s].decl /\ DeclaredType(refs[i])[2] = NULL
          /\ heap[s].decl = "STRUCT" /\ (refs[i].member = "" \/ heap[s].type_ptr = NULL)
                => /\ DeclaredType(refs[i])[1] = "STRUCT"
                   /\ DeclaredType(refs[i])[2] = heap[s].type_ptr
          /\ heap[s].decl = "STRUCT" /\ refs[i].member # "" /\ heap[s].type_ptr # NULL
                => DeclaredType(refs[i])[2] = NULL
          /\ DeclaredType(refs[i]) = <<DeclaredType(refs[i])[1], DeclaredType(refs[i])[2]>>
      BY DeclaredFacts
    <3> QED BY <3>1
  <2>9. Agrees(t, d)
    BY <2>6, <2>7, <2>8 DEF Agrees
  <2> QED BY <2>9 DEF t, d
<1> QED BY <1>7, <1>8 DEF TypesRead, K

(* match_type judges the types that were found as it would judge those declared. *)
LEMMA MatchAgrees ==
    ASSUME NEW l, NEW r, NEW dl, NEW dr, Agrees(l, dl), Agrees(r, dr)
    PROVE  match_type(l, r) <=> dl = dr \/ (dl[1] = "FLOAT" /\ dr[1] = "INT")
<1>1. dl = dr <=> dl[1] = dr[1] /\ dl[2] = dr[2]
  BY DEF Agrees
<1> QED BY <1>1 DEF Agrees, match_type

(* A set of two equal elements has one. *)
LEMMA OneElement ==
    ASSUME NEW a, NEW b
    PROVE  Cardinality({a, b}) = 1 <=> a = b
<1>1. IsFiniteSet({a, b})
  <2>1. IsFiniteSet({a} \cup {b})
    BY FS_Singleton, FS_AddElement
  <2>2. {a, b} = {a} \cup {b}
    OBVIOUS
  <2> QED BY <2>1, <2>2
<1>2. Cardinality({a, b}) = 1 <=> \E x : {a, b} = {x}
  BY <1>1, FS_Singleton
<1> QED BY <1>2

(* The check of an operator judges the types that were found as those declared. *)
LEMMA BinopAgrees ==
    ASSUME NEW a, NEW b, NEW da, NEW db, Agrees(a, da), Agrees(b, db), NEW rs, rs = <<da, db>>
    PROVE  BinopAllowed(a[1], b[1]) <=> Combine(rs)
<1>1. Range(rs) = {da, db} /\ Len(rs) = 2 /\ {r[1] : r \in Range(rs)} = {da[1], db[1]}
  <2>1. DOMAIN rs = {1, 2} /\ rs[1] = da /\ rs[2] = db /\ Len(rs) = 2
    OBVIOUS
  <2>2. Range(rs) = {da, db}
    BY <2>1 DEF Range
  <2> QED BY <2>1, <2>2
<1>2. Cardinality(Range(rs)) = 1 <=> da = db
  BY <1>1, OneElement
<1>3. da = db <=> da[1] = db[1] /\ da[2] = db[2]
  BY DEF Agrees
<1>4. Combine(rs) <=> /\ da[1] # "STRUCT" /\ db[1] # "STRUCT"
                      /\ {da[1], db[1]} \subseteq Numeric \/ da = db
  BY <1>1, <1>2 DEF Combine
<1>5. a[1] = da[1] /\ b[1] = db[1]
      /\ (da[1] # "STRUCT" => da[2] = NULL) /\ (db[1] # "STRUCT" => db[2] = NULL)
  BY DEF Agrees
<1>6. BinopAllowed(a[1], b[1]) <=> /\ da[1] # "STRUCT" /\ db[1] # "STRUCT"
                                   /\ da[1] # db[1] => {da[1], db[1]} = {"INT", "FLOAT"}
  BY <1>5 DEF BinopAllowed
<1> QED BY <1>3, <1>4, <1>5, <1>6 DEF Numeric

(* The operands of a statement can be combined if their declarations can. *)
LEMMA OperandsJudged ==
    ASSUME NEW S, NEW ops \in Seq(S), Len(ops) \in {1, 2}, NEW h, NEW syms,
           Len(syms) = Len(ops),
           \A i \in 1 .. Len(ops) : Agrees(TypeNow(h, syms[i]), DeclaredType(ops[i]))
    PROVE  OperatorAllowed(h, syms) <=> Combine(Declared(ops))
<1> DEFINE rs == Declared(ops)
<1>1. /\ DOMAIN ops = 1 .. Len(ops) /\ rs = [i \in DOMAIN ops |-> DeclaredType(ops[i])]
  BY DEF Declared
<1>2. CASE Len(ops) = 1
  <2>1. rs \in [1 .. 1 -> {DeclaredType(ops[1])}]
    BY <1>1, <1>2
  <2>2. Len(rs) = 1
    BY <2>1
  <2> HIDE DEF rs
  <2> QED BY <1>2, <2>2 DEF Combine, OperatorAllowed, rs
<1>3. CASE Len(ops) = 2
  <2> DEFINE a == TypeNow(h, syms[1])
             b == TypeNow(h, syms[2])
             da == DeclaredType(ops[1])
             db == DeclaredType(ops[2])
  <2>1. Agrees(a, da) /\ Agrees(b, db)
    BY <1>3
  <2>2. rs = <<da, db>>
    BY <1>1, <1>3
  <2>3. a[1] = h[syms[1]].type /\ b[1] = h[syms[2]].type
    BY DEF TypeNow
  <2> HIDE DEF a, b, da, db, rs
  <2>4. BinopAllowed(a[1], b[1]) <=> Combine(rs)
    BY <2>1, <2>2, BinopAgrees
  <2> QED BY <1>3, <2>3, <2>4 DEF OperatorAllowed, rs
<1> QED BY <1>2, <1>3

(* A statement is judged when this holds of it. *)
Right(clean, accepted, right) == clean => (accepted <=> right)

(* A decision that is right leaves misjudged alone. *)
LEMMA JudgedRight ==
    ASSUME NEW clean, NEW accepted \in BOOLEAN, NEW right \in BOOLEAN,
           Right(clean, accepted, right), misjudged = FALSE, Judge(clean, accepted, right)
    PROVE  misjudged' = FALSE
<1>1. misjudged' = (misjudged \/ (clean /\ accepted # right))
  BY DEF Judge
<1>2. clean => accepted = right
  BY DEF Right
<1> QED BY <1>1, <1>2

\* References that are not constants.
Variables(refs) == \A i \in 1 .. Len(refs) : refs[i] # Constant

(* A return on clean operands is accepted if and only if the declarations allow it. *)
LEMMA ReturnJudged ==
    ASSUME Lexed, TypesTyped, Pointed(heap), AllKept, fn \in DOMAIN heap, misjudged = FALSE,
           NEW ops \in Seq(RefSet), Len(ops) \in {1, 2}, Variables(ops),
           NEW ev, ev = Evaluate(ops), Return(ops, ev)
    PROVE  misjudged' = FALSE
<1> DEFINE accepted == /\ ev.ok
                       /\ OperatorAllowed(ev.heap, ev.syms)
                       /\ ev.heap[ev.syms[1]].type = heap[fn].type
           clean == Clean(ops) /\ ~ Retyped(fn)
           right == /\ \A i \in DOMAIN ops : Resolves(ops[i])
                    /\ Combine(Declared(ops))
                    /\ DeclaredType(ops[1])[1] = heap[fn].decl
<1>1. Judge(clean, accepted, right)
  BY DEF Return
<1>2. DOMAIN ops = 1 .. Len(ops) /\ 1 \in 1 .. Len(ops)
  <2>1. DOMAIN ops = 1 .. Len(ops)
    OBVIOUS
  <2> DEFINE k == Len(ops)
  <2>2. k \in {1, 2}
    OBVIOUS
  <2> HIDE DEF k
  <2>3. 1 \in 1 .. k
    BY <2>2
  <2> QED BY <2>1, <2>3 DEF k
<1>3. ASSUME clean PROVE accepted <=> right
  <2>1. /\ ev.ok <=> \A i \in DOMAIN ops : Resolves(ops[i])
        /\ ev.ok => \A i \in 1 .. Len(ops) : Agrees(TypeNow(ev.heap, ev.syms[i]), DeclaredType(ops[i]))
        /\ ev.ok => Len(ev.syms) = Len(ops)
    BY <1>2, <1>3, CleanEvaluation, EvaluateFacts DEF Variables
  <2>2. heap[fn].type = heap[fn].decl
    BY <1>3 DEF AllKept, Kept, Retyped
  <2>3. ASSUME ev.ok
        PROVE  /\ OperatorAllowed(ev.heap, ev.syms) <=> Combine(Declared(ops))
               /\ ev.heap[ev.syms[1]].type = DeclaredType(ops[1])[1]
    <3>1. \A i \in 1 .. Len(ops) : Agrees(TypeNow(ev.heap, ev.syms[i]), DeclaredType(ops[i]))
      BY <2>1, <2>3
    <3>2. OperatorAllowed(ev.heap, ev.syms) <=> Combine(Declared(ops))
      BY <2>1, <2>3, <3>1, OperandsJudged
    <3>3. Agrees(TypeNow(ev.heap, ev.syms[1]), DeclaredType(ops[1]))
      BY <1>2, <3>1
    <3> QED BY <3>2, <3>3 DEF Agrees, TypeNow
  <2> QED BY <2>1, <2>2, <2>3
<1>4. accepted \in BOOLEAN /\ right \in BOOLEAN
  OBVIOUS
<1> HIDE DEF accepted, clean, right
<1> QED BY <1>1, <1>3, <1>4, JudgedRight DEF Right

(* So is an assignment. *)
LEMMA AssignJudged ==
    ASSUME Lexed, TypesTyped, Pointed(heap), AllKept, misjudged = FALSE,
           NEW l \in RefSet, NEW ops \in Seq(RefSet), Len(ops) \in {1, 2},
           l # Constant, Variables(ops),
           NEW ev, ev = Evaluate(<<l>> \o ops), Assign(l, ops, ev)
    PROVE  misjudged' = FALSE
<1> DEFINE refs == <<l>> \o ops
           rest == Tail(ev.syms)
           accepted == /\ ev.ok
                       /\ OperatorAllowed(ev.heap, rest)
                       /\ match_type(TypeNow(ev.heap, ev.syms[1]), TypeNow(ev.heap, rest[1]))
           clean == Clean(refs)
           right == /\ \A i \in DOMAIN refs : Resolves(refs[i])
                    /\ Takes(DeclaredType(l), Declared(ops))
<1>1. Judge(clean, accepted, right)
  BY DEF Assign
<1>2. /\ refs \in Seq(RefSet) /\ Len(refs) = Len(ops) + 1 /\ DOMAIN refs = 1 .. Len(ops) + 1
      /\ refs[1] = l /\ \A i \in 1 .. Len(ops) : refs[i + 1] = ops[i]
      /\ Len(ops) \in Nat /\ DOMAIN ops = 1 .. Len(ops)
  OBVIOUS
<1> HIDE DEF refs
<1>3. \A i \in 1 .. Len(refs) : refs[i] # Constant
  <2> SUFFICES ASSUME NEW i \in 1 .. Len(refs) PROVE refs[i] # Constant
    OBVIOUS
  <2>1. CASE i = 1
    BY <1>2, <2>1
  <2>2. CASE i # 1
    <3>1. i - 1 \in 1 .. Len(ops) /\ (i - 1) + 1 = i
      BY <1>2, <2>2
    <3>2. refs[i] = ops[i - 1]
      BY <1>2, <3>1
    <3> QED BY <3>1, <3>2 DEF Variables
  <2> QED BY <2>1, <2>2
<1>4. ASSUME clean PROVE accepted <=> right
  <2>1. /\ ev.ok <=> \A i \in DOMAIN refs : Resolves(refs[i])
        /\ ev.ok => \A i \in 1 .. Len(refs) : Agrees(TypeNow(ev.heap, ev.syms[i]), DeclaredType(refs[i]))
        /\ ev.ok => Len(ev.syms) = Len(refs)
        /\ ev.syms \in Seq(DOMAIN ev.heap)
    <3>1. ev = Evaluate(refs)
      BY DEF refs
    <3> QED BY <1>2, <1>3, <1>4, <3>1, CleanEvaluation, EvaluateFacts
  <2>2. ASSUME ev.ok
        PROVE  /\ OperatorAllowed(ev.heap, rest) <=> Combine(Declared(ops))
               /\ match_type(TypeNow(ev.heap, ev.syms[1]), TypeNow(ev.heap, rest[1]))
                     <=> \/ DeclaredType(l) = Declared(ops)[1]
                         \/ DeclaredType(l)[1] = "FLOAT" /\ Declared(ops)[1][1] = "INT"
    <3>1. Len(rest) = Len(ops) /\ \A i \in 1 .. Len(ops) : rest[i] = ev.syms[i + 1]
      BY <1>2, <2>1, <2>2
    <3> HIDE DEF rest
    <3>2. \A i \in 1 .. Len(refs) : Agrees(TypeNow(ev.heap, ev.syms[i]), DeclaredType(refs[i]))
      BY <2>1, <2>2
    <3>3. \A i \in 1 .. Len(ops) : Agrees(TypeNow(ev.heap, rest[i]), DeclaredType(ops[i]))
      <4> SUFFICES ASSUME NEW i \in 1 .. Len(ops)
                   PROVE  Agrees(TypeNow(ev.heap, rest[i]), DeclaredType(ops[i]))
        OBVIOUS
      <4>1. i + 1 \in 1 .. Len(refs)
        BY <1>2
      <4>2. rest[i] = ev.syms[i + 1] /\ refs[i + 1] = ops[i]
        BY <1>2, <3>1
      <4>3. Agrees(TypeNow(ev.heap, ev.syms[i + 1]), DeclaredType(refs[i + 1]))
        BY <3>2, <4>1
      <4> QED BY <4>2, <4>3
    <3>4. OperatorAllowed(ev.heap, rest) <=> Combine(Declared(ops))
      BY <3>1, <3>3, OperandsJudged
    <3>5. Agrees(TypeNow(ev.heap, ev.syms[1]), DeclaredType(l))
      <4>1. 1 \in 1 .. Len(refs)
        BY <1>2
      <4> QED BY <1>2, <3>2, <4>1
    <3>6. Agrees(TypeNow(ev.heap, rest[1]), DeclaredType(ops[1])) /\ Declared(ops)[1] = DeclaredType(ops[1])
      BY <1>2, <3>3 DEF Declared
    <3> DEFINE a == TypeNow(ev.heap, ev.syms[1])
               b == TypeNow(ev.heap, rest[1])
               da == DeclaredType(l)
               db == DeclaredType(ops[1])
    <3>7. match_type(a, b) <=> da = db \/ (da[1] = "FLOAT" /\ db[1] = "INT")
      <4>1. Agrees(a, da) /\ Agrees(b, db)
        BY <3>5, <3>6
      <4> HIDE DEF a, b, da, db
      <4> QED BY <4>1, MatchAgrees
    <3> QED BY <3>4, <3>6, <3>7
  <2> QED BY <2>1, <2>2 DEF Takes
<1>5. accepted \in BOOLEAN /\ right \in BOOLEAN
  OBVIOUS
<1> HIDE DEF accepted, clean, right
<1> QED BY <1>1, <1>4, <1>5, JudgedRight DEF Right

(* The number of arguments of a call is compared with the declaration. *)
LEMMA CountJudged ==
    ASSUME Lexed, AllKept, NEW name \in Name, NEW callee, callee = symtab[<<0, name>>],
           callee # NULL, heap[callee].kind = "FUNCTION" => heap[callee].arity # -1,
           NEW g \in Heaps, NEW args, args # << >>, IsInjective(args), IsChain(g, args)
    PROVE  /\ ~ Endless(g, args[1])
           /\ ArgumentCount(g, args[1]) = heap[callee].n_param <=> Len(args) = heap[callee].arity
<1>1. Pointers(g)
  BY HeapFacts
<1>2. ~ Endless(g, args[1]) /\ Chain(g, args[1]) = args
  <2>1. args[1] = IF args = << >> THEN NULL ELSE args[1]
    OBVIOUS
  <2> QED BY <1>1, <2>1, ChainIs
<1>3. callee \in DOMAIN heap
  BY LexedFacts DEF Scope
<1>4. Counted(heap[callee])
  BY <1>3 DEF AllKept
<1>5. heap[callee].n_param = heap[callee].arity
  BY <1>4 DEF Counted
<1> QED BY <1>2, <1>5 DEF ArgumentCount

(* The value of a call is compared with the declaration of the place. *)
LEMMA ValueJudged ==
    ASSUME NEW t, NEW l, Agrees(t, l), NEW d
    PROVE  match_type(t, <<d, NULL>>) <=> Takes(l, <<<<d, NULL>>>>)
<1> DEFINE r == <<d, NULL>>
<1>1. Agrees(r, r)
  BY DEF Agrees
<1>2. r[1] = d
  OBVIOUS
<1> HIDE DEF r
<1>3. match_type(t, r) <=> l = r \/ (l[1] = "FLOAT" /\ r[1] = "INT")
  BY <1>1, MatchAgrees
<1>4. Takes(l, <<r>>) <=> l = r \/ (l[1] = "FLOAT" /\ r[1] = "INT")
  BY DEF Takes, Combine
<1> QED BY <1>3, <1>4 DEF r

(* The arguments of a call are the symbols behind the one of its target. *)
IsArguments(args, s, k) == args = SubSeq(s, k + 1, Len(s))

LEMMA ArgumentsFound ==
    ASSUME NEW S, NEW s \in Seq(S), NEW k \in Nat, NEW n \in Nat,
           \A i \in DOMAIN s : FromTable(s[i]), NEW args, IsArguments(args, s, k)
    PROVE  /\ args \in Seq(S) /\ \A i \in DOMAIN args : FromTable(args[i])
           /\ Len(s) = k + n => Len(args) = n
<1>1. /\ args \in Seq(S)
      /\ \A i \in DOMAIN args : i + k \in DOMAIN s /\ args[i] = s[i + k]
      /\ k <= Len(s) => Len(args) = Len(s) - k
  <2>1. args = SubSeq(s, k + 1, Len(s))
    BY DEF IsArguments
  <2> QED BY <2>1, ArgumentsTyped
<1>2. Len(s) = k + n => Len(args) = n
  <2> DEFINE l == Len(s)
             m == Len(args)
  <2>1. k <= l => m = l - k
    BY <1>1
  <2> HIDE DEF l, m
  <2>2. l = k + n => m = n
    BY <2>1
  <2> QED BY <2>2 DEF l, m
<1> QED BY <1>1, <1>2

(* A call that does not hang. *)
LEMMA CallDecided ==
    ASSUME Lexed, TypesTyped, Pointed(heap), AllKept, fn \in DOMAIN heap,
           NEW target \in Seq(RefSet), Len(target) \in {0, 1}, Variables(target),
           NEW refs \in Seq(RefSet), NEW name \in Name,
           NEW ev, ev = Evaluate(target \o refs), ev.ok,
           NEW args, IsArguments(args, ev.syms, Len(target)),
           CleanCall(target, name, refs, args),
           NEW callee, callee = symtab[<<0, name>>],
           NEW g, g = Called(ev.heap, name, args)
    PROVE  /\ callee # NULL
           /\ ArgumentCount(g, args[1]) = heap[callee].n_param <=> Len(refs) = heap[callee].arity
           /\ target # << >> =>
                 (match_type(TypeNow(g, ev.syms[1]), <<heap[callee].type, NULL>>)
                    <=> Takes(DeclaredType(target[1]), <<<<heap[callee].decl, NULL>>>>))
<1> DEFINE all == target \o refs
           eh == ev.heap
<1>1. /\ all \in Seq(RefSet) /\ Len(target) \in Nat /\ Len(refs) \in Nat
      /\ Len(all) = Len(target) + Len(refs)
  OBVIOUS
<1>2. /\ callee # NULL /\ refs # << >> /\ IsInjective(args)
      /\ heap[callee].kind = "FUNCTION" => heap[callee].arity # -1
      /\ target # << >> => Clean(all) /\ ~ Retyped(callee) /\ symtab[<<1, name>>] = NULL
  BY DEF CleanCall
<1>3. /\ ReadHeap(eh) /\ ev.syms \in Seq(DOMAIN eh)
      /\ \A i \in DOMAIN ev.syms : FromTable(ev.syms[i])
      /\ Len(ev.syms) = Len(all)
  BY <1>1, EvaluateFacts
<1>4. /\ args \in Seq(DOMAIN eh) /\ \A i \in DOMAIN args : FromTable(args[i])
      /\ Len(args) = Len(refs)
  <2>1. Len(ev.syms) = Len(target) + Len(refs)
    BY <1>1, <1>3
  <2> QED BY <1>1, <1>3, <2>1, ArgumentsFound
<1> HIDE DEF all, eh
<1>5. /\ g \in Heaps /\ IsChain(g, args)
      /\ symtab[<<1, name>>] = NULL => \A x \in DOMAIN eh : /\ g[x].type = eh[x].type
                                                           /\ g[x].type_ptr = eh[x].type_ptr
  <2>1. g = Called(eh, name, args)
    BY DEF eh
  <2>2. \A i \in DOMAIN args : FromTable(args[i])
    BY <1>4
  <2>3. /\ g \in Heaps
        /\ IsInjective(args) => IsChain(g, args)
        /\ symtab[<<1, name>>] = NULL => \A x \in DOMAIN eh : /\ g[x].type = eh[x].type
                                                             /\ g[x].type_ptr = eh[x].type_ptr
    BY <1>3, <1>4, <2>1, <2>2, CalledFacts
  <2> QED BY <1>2, <2>3
<1>6. args # << >>
  <2> DEFINE n == Len(refs)
  <2>1. n # 0 /\ Len(args) = n
    BY <1>2, <1>4
  <2> HIDE DEF n
  <2>2. args # << >>
    BY <2>1
  <2> QED BY <2>2
<1>7. ArgumentCount(g, args[1]) = heap[callee].n_param <=> Len(args) = heap[callee].arity
  BY <1>2, <1>5, <1>6, CountJudged, ZenonT(40)
<1>8. ASSUME target # << >>
      PROVE  match_type(TypeNow(g, ev.syms[1]), <<heap[callee].type, NULL>>)
                <=> Takes(DeclaredType(target[1]), <<<<heap[callee].decl, NULL>>>>)
  <2>1. Len(target) = 1 /\ 1 \in 1 .. Len(target)
    BY <1>8
  <2>2. 1 \in 1 .. Len(all) /\ all[1] = target[1] /\ target[1] # Constant
    BY <1>1, <2>1 DEF all, Variables
  <2>3. Agrees(TypeNow(eh, ev.syms[1]), DeclaredType(target[1]))
    <3>1. Clean(all) /\ ev = Evaluate(all)
      BY <1>2, <1>8 DEF all
    <3>2. \A i \in 1 .. Len(all) :
             all[i] # Constant => Agrees(TypeNow(ev.heap, ev.syms[i]), DeclaredType(all[i]))
      BY <1>1, <3>1, CleanEvaluation
    <3> QED BY <2>2, <3>2 DEF eh
  <2>4. ev.syms[1] \in DOMAIN eh
    BY <1>1, <1>3, <2>2
  <2>5. TypeNow(g, ev.syms[1]) = TypeNow(eh, ev.syms[1])
    BY <1>2, <1>5, <1>8, <2>4 DEF TypeNow
  <2>6. heap[callee].type = heap[callee].decl
    <3>1. callee \in DOMAIN heap
      BY <1>2, LexedFacts DEF Scope
    <3> QED BY <1>2, <1>8, <3>1 DEF AllKept, Kept, Retyped
  <2> QED BY <2>3, <2>5, <2>6, ValueJudged
<1> QED BY <1>2, <1>4, <1>7, <1>8

(* A clean call is accepted if and only if the declarations allow it. *)
LEMMA CallJudged ==
    ASSUME Lexed, TypesTyped, Pointed(heap), AllKept, fn \in DOMAIN heap, misjudged = FALSE,
           NEW target \in Seq(RefSet), Len(target) \in {0, 1}, Variables(target),
           NEW refs \in Seq(RefSet), NEW name \in Name,
           NEW ev, ev = Evaluate(target \o refs), Call(target, name, refs, ev)
    PROVE  misjudged' = FALSE
<1> DEFINE args == SubSeq(ev.syms, Len(target) + 1, Len(ev.syms))
           callee == symtab[<<0, name>>]
           h == Called(ev.heap, name, args)
           value  == <<heap[IF callee = NULL THEN fn ELSE callee].type, NULL>>
           known  == ev.ok /\ (callee # NULL \/ heap[fn].name = name)
           counts == known /\ refs # << >> /\ callee # NULL
           accepted == /\ known
                       /\ counts => ArgumentCount(h, args[1]) = heap[callee].n_param
                       /\ target # << >> => match_type(TypeNow(h, ev.syms[1]), value)
           right == /\ Len(refs) = heap[callee].arity
                    /\ \A i \in DOMAIN target :
                          Takes(DeclaredType(target[i]), <<<<heap[callee].decl, NULL>>>>)
           clean == ev.ok /\ CleanCall(target, name, refs, args)
<1>1. misjudged' = misjudged \/ Judge(clean, accepted, right)
  <2>1. \/ UNCHANGED misjudged
        \/ Judge(clean, accepted, right)
    BY DEF Call
  <2> HIDE DEF clean, accepted, right
  <2> QED BY <2>1
<1>2. ASSUME clean PROVE accepted <=> right
  <2>1. ev.ok /\ CleanCall(target, name, refs, args)
    BY <1>2
  <2>2. /\ callee # NULL
        /\ ArgumentCount(h, args[1]) = heap[callee].n_param <=> Len(refs) = heap[callee].arity
        /\ target # << >> =>
              (match_type(TypeNow(h, ev.syms[1]), <<heap[callee].type, NULL>>)
                 <=> Takes(DeclaredType(target[1]), <<<<heap[callee].decl, NULL>>>>))
    <3> HIDE DEF args, callee, h
    <3>1. IsArguments(args, ev.syms, Len(target)) /\ callee = symtab[<<0, name>>]
          /\ h = Called(ev.heap, name, args)
      BY DEF args, callee, h, IsArguments
    <3> QED BY <2>1, <3>1, CallDecided
  <2>3. refs # << >>
    BY <2>1 DEF CleanCall
  <2>4. DOMAIN target = IF target = << >> THEN {} ELSE {1}
    <3> DEFINE k == Len(target)
    <3>1. DOMAIN target = 1 .. k /\ (target = << >> <=> k = 0) /\ k \in {0, 1}
      OBVIOUS
    <3> HIDE DEF k
    <3>2. CASE k = 0
      <4>1. 1 .. k = {}
        BY <3>2
      <4> QED BY <3>1, <3>2, <4>1
    <3>3. CASE k = 1
      <4>1. 1 .. k = {1}
        BY <3>3
      <4> QED BY <3>1, <3>3, <4>1
    <3> QED BY <3>1, <3>2, <3>3
  <2> HIDE DEF args, callee, h
  <2>5. value = <<heap[callee].type, NULL>> /\ known /\ counts
    BY <2>1, <2>2, <2>3
  <2> HIDE DEF value, known, counts
  <2> QED BY <2>2, <2>4, <2>5
<1>3. accepted \in BOOLEAN /\ right \in BOOLEAN
  OBVIOUS
<1> HIDE DEF accepted, clean, right
<1>4. CASE misjudged' = misjudged
  BY <1>4
<1>5. CASE Judge(clean, accepted, right)
  BY <1>2, <1>3, <1>5, JudgedRight DEF Right
<1> QED BY <1>1, <1>4, <1>5

(* No statement is misjudged. *)
LEMMA StatementJudged ==
    ASSUME IInv, misjudged = FALSE, Statement
    PROVE  misjudged' = FALSE
<1>0. PICK target \in SeqOf(References, 1) :
        \E refs \in SeqOf(References \cup {Constant}, MaxReference - Len(target)) :
           \/ \E name \in Callees : Call(target, name, refs, Evaluate(target \o refs))
           \/ /\ Len(refs) \in {1, 2} /\ Constant \notin Range(refs)
              /\ IF target = << >> THEN Return(refs, Evaluate(target \o refs))
                 ELSE Assign(target[1], refs, Evaluate(target \o refs))
  BY Zenon DEF Statement
<1>1. PICK refs \in SeqOf(References \cup {Constant}, MaxReference - Len(target)) :
           \/ \E name \in Callees : Call(target, name, refs, Evaluate(target \o refs))
           \/ /\ Len(refs) \in {1, 2} /\ Constant \notin Range(refs)
              /\ IF target = << >> THEN Return(refs, Evaluate(target \o refs))
                 ELSE Assign(target[1], refs, Evaluate(target \o refs))
  BY <1>0
<1>2. /\ Lexed /\ TypesTyped /\ Pointed(heap) /\ AllKept /\ fn \in DOMAIN heap
  BY TypeFacts, InBody DEF IInv, Statement
<1>3. References \subseteq RefSet /\ References \cup {Constant} \subseteq RefSet /\ MaxReference \in Nat
  BY ReferencesTyped, NameAssumption DEF RefSet
<1>4. target \in Seq(RefSet) /\ target \in Seq(References) /\ Len(target) \in {0, 1}
  <2>1. target \in Seq(RefSet) /\ target \in Seq(References) /\ Len(target) <= 1 /\ Len(target) \in Nat
    BY <1>3, SeqOfFacts
  <2> DEFINE k == Len(target)
  <2>2. k \in Nat /\ k <= 1
    BY <2>1
  <2> HIDE DEF k
  <2>3. k \in {0, 1}
    BY <2>2
  <2> QED BY <2>1, <2>3 DEF k
<1>5. refs \in Seq(RefSet)
  <2>1. MaxReference - Len(target) \in Int
    BY <1>3, <1>4
  <2> QED BY <1>3, <2>1, SeqOfFacts
<1>6. Variables(target)
  BY <1>4, ReferencesTyped DEF Variables
<1>7. ASSUME NEW name \in Callees, Call(target, name, refs, Evaluate(target \o refs))
      PROVE  misjudged' = FALSE
  <2>1. name \in Name
    BY DEF Callees
  <2> QED BY <1>2, <1>4, <1>5, <1>6, <1>7, <2>1, CallJudged
<1>8. ASSUME Len(refs) \in {1, 2}, Constant \notin Range(refs)
      PROVE  Variables(refs)
  BY <1>5, <1>8 DEF Variables, Range
<1>9. ASSUME Len(refs) \in {1, 2}, Constant \notin Range(refs), target = << >>,
             Return(refs, Evaluate(target \o refs))
      PROVE  misjudged' = FALSE
  <2>1. target \o refs = refs
    BY <1>5, <1>9
  <2> QED BY <1>2, <1>5, <1>8, <1>9, <2>1, ReturnJudged
<1>10. ASSUME Len(refs) \in {1, 2}, Constant \notin Range(refs), target # << >>,
              Assign(target[1], refs, Evaluate(target \o refs))
       PROVE  misjudged' = FALSE
  <2> DEFINE l == target[1]
  <2>1. target = <<l>> /\ l \in RefSet /\ l # Constant
    BY <1>4, <1>6, <1>10 DEF Variables
  <2> HIDE DEF l
  <2>2. Assign(l, refs, Evaluate(<<l>> \o refs))
    BY <1>10, <2>1, Zenon DEF l
  <2> QED BY <1>2, <1>5, <1>8, <1>10, <2>1, <2>2, AssignJudged
<1> QED BY <1>1, <1>7, <1>9, <1>10

(* No step is a decision that the declarations do not justify. *)
LEMMA NextJudged ==
    ASSUME IInv, ~ misjudged, [Next]_vars
    PROVE  ~ misjudged'
<1>0. misjudged = FALSE
  BY TypeFacts DEF IInv, ModesTyped
<1>1. CASE UNCHANGED vars
  BY <1>0, <1>1 DEF vars
<1>2. CASE Statement
  BY <1>0, <1>2, StatementJudged
<1>3. ASSUME \/ VarDecl \/ Members \/ StructEnd \/ FuncBody \/ FuncEnd
             \/ \E name \in Name : TypedefDecl(name) \/ StructBegin(name)
             \/ \E type \in Plain, name \in Name : FuncBegin(type[1], name)
             \/ \E type \in BaseType \cup {"STRUCT"}, name \in Name : Param(type, name)
      PROVE  misjudged' = misjudged
  BY <1>3 DEF VarDecl, Members, StructEnd, FuncBody, FuncEnd, TypedefDecl, StructBegin, FuncBegin, Param
<1> QED BY <1>0, <1>1, <1>2, <1>3 DEF Next

(* As long as types have not been overwritten, assignments, returns and calls *)
(* are accepted if and only if the declarations justify it. *)
THEOREM Judged == Spec => []JudgedByDeclarations
<1>1. Init => ~ misjudged
  BY DEF Init
<1>2. IInv /\ ~ misjudged /\ [Next]_vars => ~ misjudged'
  BY NextJudged
<1>3. Spec => [](~ misjudged)
  BY <1>1, <1>2, Inductive, PTL DEF Spec
<1> QED BY <1>3, PTL DEF JudgedByDeclarations
=============================================================================
