------------------------ MODULE StoresRemovalProofs ------------------------
(***************************************************************************)
(* What the pass erases and what it leaves, for basic blocks of any length *)
(* over any values with any names.                                         *)
(***************************************************************************)
EXTENDS StoresRemoval, FiniteSetTheorems, TLAPS

-----------------------------------------------------------------------------
(* Sequences: taking one element out, and counting the places of one.       *)

(* RemoveAt takes one element out and keeps the order of the others.        *)
LEMMA RemoveAtFacts ==
    ASSUME NEW S, NEW s \in Seq(S), NEW i \in 1 .. Len(s)
    PROVE  /\ RemoveAt(s, i) \in Seq(S)
           /\ Len(RemoveAt(s, i)) = Len(s) - 1
           /\ \A j \in 1 .. Len(s) - 1 :
                RemoveAt(s, i)[j] = IF j < i THEN s[j] ELSE s[j + 1]
<1> DEFINE pre == SubSeq(s, 1, i - 1)
           post == SubSeq(s, i + 1, Len(s))
<1>1. /\ pre \in Seq(S) /\ Len(pre) = i - 1
      /\ \A j \in 1 .. i - 1 : pre[j] = s[j]
  OBVIOUS
<1>2. /\ post \in Seq(S) /\ Len(post) = Len(s) - i
      /\ \A j \in 1 .. Len(s) - i : post[j] = s[j + i]
  OBVIOUS
<1> HIDE DEF pre, post
<1>3. RemoveAt(s, i) = pre \o post
  BY DEF RemoveAt, pre, post
<1>4. RemoveAt(s, i) \in Seq(S) /\ Len(RemoveAt(s, i)) = Len(s) - 1
  BY <1>1, <1>2, <1>3
<1>5. ASSUME NEW j \in 1 .. Len(s) - 1
      PROVE  RemoveAt(s, i)[j] = IF j < i THEN s[j] ELSE s[j + 1]
  <2>1. CASE j < i
    BY <1>1, <1>2, <1>3, <2>1
  <2>2. CASE ~ (j < i)
    <3>1. j - (i - 1) \in 1 .. Len(s) - i
      BY <2>2
    <3>2. (pre \o post)[j] = post[j - (i - 1)]
      BY <1>1, <1>2, <2>2, <3>1
    <3>3. post[j - (i - 1)] = s[j + 1]
      BY <1>2, <3>1
    <3> QED BY <1>3, <2>2, <3>2, <3>3
  <2> QED BY <2>1, <2>2
<1> QED BY <1>4, <1>5

(* The smallest of a set of natural numbers.                                *)
LEMMA MinFacts ==
    ASSUME NEW S, S \subseteq Nat, S # {}
    PROVE  Min(S) \in S /\ \A x \in S : Min(S) <= x
<1> DEFINE R == OpToRel(<, Nat)
<1>1. \E x \in S : \A y \in S : ~ (<<y, x>> \in R)
  BY NatLessThanWellFounded, WFMin
<1>2. \A x, y \in Nat : y < x => <<y, x>> \in R
  BY DEF OpToRel
<1> HIDE DEF R
<1>3. PICK x \in S : \A y \in S : ~ (<<y, x>> \in R)
  BY <1>1
<1>4. ASSUME NEW y \in S
      PROVE  x <= y
  <2>1. x \in Nat /\ y \in Nat
    OBVIOUS
  <2>2. ~ (y < x)
    BY <1>2, <1>3, <2>1, Zenon
  <2> QED BY <2>1, <2>2
<1> QED BY <1>4 DEF Min

LEMMA MaxFacts ==
    ASSUME NEW S, S \subseteq Nat, S # {}, NEW n \in Nat, \A x \in S : x <= n
    PROVE  Max(S) \in S /\ \A x \in S : x <= Max(S)
<1> DEFINE T == {n - x : x \in S}
<1>1. T \subseteq Nat /\ T # {} /\ \A x \in S : n - x \in T
  <2>1. \A x \in S : n - x \in Nat
    OBVIOUS
  <2> QED BY <2>1
<1>2. PICK y \in S : Min(T) = n - y
  <2>1. Min(T) \in T
    BY <1>1, MinFacts
  <2> QED BY <2>1
<1>3. \A x \in S : n - y <= n - x
  BY <1>1, <1>2, MinFacts
<1>4. \A x \in S : y >= x
  BY <1>3
<1>5. Max(S) \in S /\ \A x \in S : Max(S) >= x
  BY <1>4 DEF Max
<1> QED BY <1>5

(* The number of places of an element in a sequence.                        *)
Count(s, e) == Cardinality({k \in DOMAIN s : s[k] = e})

LEMMA PlacesFinite ==
    ASSUME NEW S, NEW s \in Seq(S), NEW e
    PROVE  IsFiniteSet({k \in DOMAIN s : s[k] = e}) /\ Count(s, e) \in Nat
<1>1. IsFiniteSet(DOMAIN s)
  BY FS_Interval
<1>2. {k \in DOMAIN s : s[k] = e} \in SUBSET (DOMAIN s)
  OBVIOUS
<1> QED BY <1>1, <1>2, FS_Subset, FS_CardinalityType DEF Count

(* An element that is appended is there once more, no other is.             *)
LEMMA CountAfterAppend ==
    ASSUME NEW S, NEW s \in Seq(S), NEW x \in S, NEW e
    PROVE  Count(s \o <<x>>, e) = Count(s, e) + (IF x = e THEN 1 ELSE 0)
<1> DEFINE u == s \o <<x>>
           old == {k \in DOMAIN s : s[k] = e}
           now == {k \in DOMAIN u : u[k] = e}
<1>1. /\ DOMAIN u = 1 .. Len(s) + 1 /\ DOMAIN s = 1 .. Len(s) /\ Len(s) \in Nat
      /\ \A k \in 1 .. Len(s) : u[k] = s[k]
      /\ u[Len(s) + 1] = x
  OBVIOUS
<1>2. /\ x = e => now = old \cup {Len(s) + 1}
      /\ x # e => now = old
      /\ Len(s) + 1 \notin old
  <2> HIDE DEF u
  <2> QED BY <1>1
<1>3. IsFiniteSet(old) /\ Cardinality(old) \in Nat
  BY PlacesFinite DEF Count
<1>4. Cardinality(now) = Cardinality(old) + (IF x = e THEN 1 ELSE 0)
  <2> HIDE DEF old, now
  <2>1. CASE x = e
    BY <1>2, <1>3, <2>1, FS_AddElement
  <2>2. CASE x # e
    BY <1>2, <1>3, <2>2
  <2> QED BY <2>1, <2>2
<1> QED BY <1>4 DEF Count

(* RemoveFirst takes one of the places of its element away, and none of     *)
(* those of others.                                                         *)
LEMMA CountAfterRemoveFirst ==
    ASSUME NEW S, NEW s \in Seq(S), NEW x, {k \in DOMAIN s : s[k] = x} # {}, NEW e
    PROVE  /\ RemoveFirst(s, x) \in Seq(S)
           /\ Count(RemoveFirst(s, x), e) = Count(s, e) - (IF x = e THEN 1 ELSE 0)
<1> DEFINE u == RemoveFirst(s, x)
           p == SelectInSeq(s, LAMBDA v : v = x)
           places == {k \in DOMAIN s : s[k] = e}
           left == {k \in DOMAIN u : u[k] = e}
           shift == [k \in left |-> IF k < p THEN k ELSE k + 1]
<1>1. DOMAIN s = 1 .. Len(s) /\ Len(s) \in Nat
  OBVIOUS
<1>2. p \in 1 .. Len(s) /\ s[p] = x
  <2> DEFINE I == {k \in 1 .. Len(s) : s[k] = x}
  <2>1. I # {} /\ I \subseteq Nat
    BY <1>1
  <2>2. Min(I) \in I
    BY <2>1, MinFacts
  <2>3. p = Min(I)
    BY <2>1 DEF SelectInSeq
  <2> QED BY <2>2, <2>3
<1>3. u = RemoveAt(s, p)
  BY <1>2 DEF RemoveFirst
<1> HIDE DEF p, u
<1>4. /\ u \in Seq(S) /\ Len(u) = Len(s) - 1
      /\ \A j \in 1 .. Len(s) - 1 : u[j] = IF j < p THEN s[j] ELSE s[j + 1]
  BY <1>2, <1>3, RemoveAtFacts
<1>5. DOMAIN u = 1 .. Len(s) - 1
  BY <1>4
<1>6. shift \in Bijection(left, places \ {p})
  <2>1. shift \in [left -> places \ {p}]
    BY <1>1, <1>2, <1>4, <1>5
  <2>2. \A j, k \in left : shift[j] = shift[k] => j = k
    BY <1>1, <1>2, <1>5
  <2>3. \A q \in places \ {p} : \E k \in left : shift[k] = q
    <3> SUFFICES ASSUME NEW q \in places \ {p}
                 PROVE  \E k \in left : shift[k] = q
      OBVIOUS
    <3>1. CASE q < p
      <4>1. q \in left
        BY <1>1, <1>2, <1>4, <1>5, <3>1
      <4> QED BY <3>1, <4>1
    <3>2. CASE ~ (q < p)
      <4>1. q - 1 \in left /\ ~ (q - 1 < p) /\ (q - 1) + 1 = q
        BY <1>1, <1>2, <1>4, <1>5, <3>2
      <4> QED BY <4>1
    <3> QED BY <3>1, <3>2
  <2> QED BY <2>1, <2>2, <2>3 DEF Bijection, Injection, Surjection, IsInjective
<1>7. /\ IsFiniteSet(left) /\ IsFiniteSet(places)
      /\ Cardinality(places) \in Nat
  BY <1>4, PlacesFinite DEF Count
<1>8. Cardinality(left) = Cardinality(places \ {p})
  BY <1>6, <1>7, FS_Bijection DEF ExistsBijection
<1>9. p \in places <=> x = e
  BY <1>1, <1>2
<1>10. Cardinality(left) = Cardinality(places) - (IF x = e THEN 1 ELSE 0)
  <2> HIDE DEF left, places
  <2>1. Cardinality(places \ {p}) = IF p \in places THEN Cardinality(places) - 1 ELSE Cardinality(places)
    BY <1>7, FS_RemoveElement
  <2> QED BY <1>7, <1>8, <1>9, <2>1
<1> QED BY <1>4, <1>10 DEF u, Count

-----------------------------------------------------------------------------
(***************************************************************************)
(* The inductive invariant.  In the first loop the vector counts what has  *)
(* been collected (Collecting).  In the second, it counts what is left     *)
(* (Counted), except while the operands of a store that is already gone    *)
(* are looked at (HalfErased); no name that the cursor has passed is in    *)
(* the vector twice (Settled); every store that is gone had its reason     *)
(* (Justified), and all of them are behind the cursor (Behind).  The one   *)
(* that the cursor is still at went for the name of its value (NamedTwice). *)
(***************************************************************************)
Left(str) == Mentions(block \cap Stores, str)

HalfErased == DI \in Stores \ block

Erasing == pc \in {"erase", "done"}

Collecting ==
    pc = "collect" =>
        /\ block = DOMAIN input
        /\ U = 1
        /\ \A str \in Name \ {NoName} :
              Cardinality(Places(str)) = Cardinality(Mentions({i \in Stores : i < DI}, str))

Behind ==
    Erasing =>
        /\ \A i \in DOMAIN input \ block : i \in Stores /\ (i < DI \/ (i = DI /\ U = 2))
        /\ U = 2 => DI \in Stores
        /\ pc = "done" => DI \notin DOMAIN input

Counted ==
    Erasing /\ ~ HalfErased =>
        \A str \in Name \ {NoName} :
            Left(str) # {} => Cardinality(Places(str)) = Cardinality(Left(str))

Settled ==
    Erasing =>
        \A i \in block \cap Stores, u \in {1, 2} :
            (i < DI \/ (i = DI /\ u < U)) /\ Operand(i, u) # NoName => ~ Repeated(Operand(i, u))

Justified ==
    pc # "collect" =>
        \A i \in DOMAIN input \ block : i # DI =>
            /\ Operand(i, 2) # NoName
            /\ \E j \in Stores, u \in {1, 2} : j > i /\ Operand(j, u) = Operand(i, 2)

NamedTwice ==
    (Erasing /\ HalfErased) \/ pc = "undefined" =>
        /\ DI \in Stores
        /\ U = 2
        /\ Operand(DI, 1) # NoName
        /\ \E m \in Mentions((block \cap Stores) \cup {DI}, Operand(DI, 1)) :
              m[1] > DI \/ m = <<DI, 2>>

IInv ==
    /\ TypeOK
    /\ Collecting
    /\ Behind
    /\ Counted
    /\ Settled
    /\ Justified
    /\ NamedTwice
-----------------------------------------------------------------------------
(* Counting.                                                                *)

LEMMA CountFacts ==
    ASSUME NEW S, IsFiniteSet(S), NEW x \in S
    PROVE  /\ Cardinality(S) \in Nat
           /\ Cardinality(S) >= 1
           /\ Cardinality(S \ {x}) = Cardinality(S) - 1
           /\ Cardinality(S) <= 1 => S = {x}
<1>1. Cardinality(S) \in Nat
  BY FS_CardinalityType
<1>2. /\ IsFiniteSet(S \ {x})
      /\ Cardinality(S \ {x}) = Cardinality(S) - 1
      /\ Cardinality(S \ {x}) \in Nat
  BY FS_RemoveElement, FS_CardinalityType
<1>3. Cardinality(S \ {x}) = 0 <=> S \ {x} = {}
  BY <1>2, FS_EmptySet
<1> QED BY <1>1, <1>2, <1>3

LEMMA BlockFacts ==
    ASSUME TypeOK
    PROVE  /\ DOMAIN input = 1 .. Len(input) /\ Len(input) \in Nat
           /\ DI \in Nat /\ U \in {1, 2}
           /\ \A i \in DOMAIN input : i \in Nat /\ (i \in Stores <=> input[i].store)
           /\ Stores \subseteq DOMAIN input
           /\ \A i \in Stores, u \in {1, 2} : Operand(i, u) \in Name
<1>1. DOMAIN input = 1 .. Len(input) /\ Len(input) \in Nat
  BY DEF TypeOK
<1>2. DI \in Nat /\ U \in {1, 2}
  BY <1>1 DEF TypeOK
<1>3. \A i \in DOMAIN input : i \in Nat /\ (i \in Stores <=> input[i].store)
  BY <1>1 DEF Stores
<1>4. Stores \subseteq DOMAIN input
  BY DEF Stores
<1>5. ASSUME NEW i \in Stores, NEW u \in {1, 2}
      PROVE  Operand(i, u) \in Name
  <2>1. i \in DOMAIN input /\ input[i].store
    BY <1>5 DEF Stores
  <2>2. input[i] \in Store \cup {Other}
    <3> DEFINE I == Store \cup {Other}
    <3>1. input \in Seq(I)
      BY DEF TypeOK
    <3> HIDE DEF I
    <3>2. input[i] \in I
      BY <2>1, <3>1
    <3> QED BY <3>2 DEF I
  <2>3. input[i] \in Store
    BY <2>1, <2>2 DEF Other
  <2>4. input[i].operands[u] \in Value
    BY <1>5, <2>3 DEF Store
  <2> QED BY <2>4, ValueAssumption DEF Operand, Name, Range
<1> QED BY <1>1, <1>2, <1>3, <1>4, <1>5

\* The mentions of a name by some stores.
LEMMA MentionFacts ==
    ASSUME TypeOK, NEW stores, stores \subseteq DOMAIN input, NEW str
    PROVE  /\ IsFiniteSet(Mentions(stores, str))
           /\ Cardinality(Mentions(stores, str)) \in Nat
           /\ Cardinality(Mentions(stores, str)) = 0 <=> Mentions(stores, str) = {}
           /\ \A i, u : <<i, u>> \in Mentions(stores, str) <=>
                  i \in stores /\ u \in {1, 2} /\ Operand(i, u) = str
           /\ \A m \in Mentions(stores, str) :
                  m = <<m[1], m[2]>> /\ m[1] \in stores /\ m[2] \in {1, 2}
<1>1. IsFiniteSet(stores)
  <2>1. IsFiniteSet(DOMAIN input)
    BY FS_Interval, BlockFacts
  <2> QED BY <2>1, FS_Subset
<1>2. IsFiniteSet({1, 2})
  <2>1. IsFiniteSet({1} \cup {2})
    BY FS_Singleton, FS_AddElement, Zenon
  <2>2. {1} \cup {2} = {1, 2}
    OBVIOUS
  <2> QED BY <2>1, <2>2
<1>3. IsFiniteSet(stores \X {1, 2})
  BY <1>1, <1>2, FS_Product
<1>4. Mentions(stores, str) \in SUBSET (stores \X {1, 2})
  BY DEF Mentions
<1>5. IsFiniteSet(Mentions(stores, str))
  BY <1>3, <1>4, FS_Subset
<1>6. \A i, u : <<i, u>> \in Mentions(stores, str) <=>
          i \in stores /\ u \in {1, 2} /\ Operand(i, u) = str
  BY DEF Mentions
<1>7. \A m \in Mentions(stores, str) :
          m = <<m[1], m[2]>> /\ m[1] \in stores /\ m[2] \in {1, 2}
  BY <1>4
<1> QED BY <1>5, <1>6, <1>7, FS_CardinalityType, FS_EmptySet

LEMMA PlacesFacts ==
    ASSUME TypeOK, NEW str
    PROVE  /\ IsFiniteSet(Places(str))
           /\ Cardinality(Places(str)) \in Nat
           /\ Repeated(str) => Places(str) # {}
<1>1. names \in Seq(Name \ {NoName})
  BY DEF TypeOK
<1>2. IsFiniteSet(Places(str)) /\ Cardinality(Places(str)) \in Nat
  BY <1>1, PlacesFinite DEF Places, Count
<1>3. Repeated(str) => Places(str) # {}
  BY FS_EmptySet DEF Repeated
<1> QED BY <1>2, <1>3

-----------------------------------------------------------------------------
(* The first loop.                                                          *)

LEMMA InitIInv == Init => IInv
<1> SUFFICES ASSUME Init
             PROVE  IInv
  OBVIOUS
<1>1. /\ block = DOMAIN input /\ names = << >> /\ pc = "collect" /\ DI = 1 /\ U = 1
      /\ Changed = FALSE
  BY DEF Init
<1>2. input \in Seq(Store \cup {Other}) /\ Len(input) \in Nat
  <2> DEFINE I == Store \cup {Other}
  <2> HIDE DEF I
  <2>1. PICK n \in 0 .. MaxBlock : input \in [1 .. n -> I]
    BY DEF Init, SeqOf, I
  <2>2. input \in Seq(I) /\ Len(input) \in Nat
    BY <2>1, ValueAssumption
  <2> QED BY <2>2 DEF I
<1>3. TypeOK
  <2>1. names \in Seq(Name \ {NoName})
    BY <1>1
  <2>2. DI \in 1 .. Len(input) + 1
    BY <1>1, <1>2
  <2>3. Changed = (block # DOMAIN input)
    BY <1>1
  <2> QED BY <1>1, <1>2, <2>1, <2>2, <2>3, Zenon DEF TypeOK
<1>4. Collecting
  <2> SUFFICES ASSUME NEW str \in Name \ {NoName}
               PROVE  Cardinality(Places(str)) = Cardinality(Mentions({i \in Stores : i < DI}, str))
    BY <1>1 DEF Collecting
  <2>1. Places(str) = {}
    BY <1>1 DEF Places
  <2>2. {i \in Stores : i < DI} = {}
    BY <1>1, <1>3, BlockFacts
  <2>3. Mentions({}, str) = {}
    BY DEF Mentions
  <2> QED BY <2>1, <2>2, <2>3
<1> QED BY <1>1, <1>3, <1>4 DEF IInv, Behind, Counted, Settled, Justified, NamedTwice, Erasing

\* A name that is put into the vector adds one to its own count.
LEMMA NamedFacts ==
    ASSUME NEW seq \in Seq(Name \ {NoName}), NEW x \in Name, NEW str \in Name \ {NoName}
    PROVE  Count(seq \o Named(x), str) = Count(seq, str) + (IF x = str THEN 1 ELSE 0)
<1>1. CASE x = NoName
  <2>1. seq \o Named(x) = seq /\ x # str
    BY <1>1 DEF Named
  <2>2. Count(seq, str) \in Nat
    BY PlacesFinite
  <2> QED BY <2>1, <2>2
<1>2. CASE x # NoName
  <2> DEFINE N == Name \ {NoName}
  <2>1. Named(x) = <<x>> /\ x \in N /\ seq \in Seq(N)
    BY <1>2 DEF Named
  <2> HIDE DEF N
  <2> QED BY <2>1, CountAfterAppend
<1> QED BY <1>1, <1>2

LEMMA NamedSeq ==
    ASSUME NEW seq \in Seq(Name \ {NoName}), NEW x \in Name
    PROVE  seq \o Named(x) \in Seq(Name \ {NoName})
<1>1. CASE x = NoName
  BY <1>1 DEF Named
<1>2. CASE x # NoName
  BY <1>2 DEF Named
<1> QED BY <1>1, <1>2

LEMMA CollectIInv ==
    ASSUME IInv, Collect
    PROVE  IInv'
<1>1. /\ TypeOK /\ pc = "collect" /\ DI \in DOMAIN input /\ DI' = DI + 1
      /\ UNCHANGED <<input, block, pc, U, Changed>>
      /\ block = DOMAIN input /\ U = 1
      /\ names \in Seq(Name \ {NoName})
      /\ \A str \in Name \ {NoName} :
            Cardinality(Places(str)) = Cardinality(Mentions({i \in Stores : i < DI}, str))
  BY DEF IInv, Collecting, Collect, TypeOK
<1>2. Stores' = Stores /\ \A i, u : Operand(i, u)' = Operand(i, u)
  BY <1>1 DEF Stores, Operand
<1> DEFINE before == {i \in Stores : i < DI}
           after == {i \in Stores : i < DI + 1}
<1>3. before \subseteq DOMAIN input /\ after \subseteq DOMAIN input
  BY <1>1, BlockFacts
<1>4. ASSUME DI \notin Stores
      PROVE  Collecting' /\ TypeOK'
  <2>1. names' = names
    BY <1>1, <1>4, BlockFacts DEF Collect
  <2>2. after = before
    BY <1>1, <1>4, BlockFacts
  <2>3. Collecting'
    BY <1>1, <1>2, <2>1, <2>2 DEF Collecting, Places, Mentions
  <2>4. TypeOK'
    BY <1>1, <2>1, BlockFacts DEF TypeOK
  <2> QED BY <2>3, <2>4
<1>5. ASSUME DI \in Stores
      PROVE  Collecting' /\ TypeOK'
  <2> DEFINE a == Operand(DI, 1)
             b == Operand(DI, 2)
             with == names \o Named(a)
  <2>1. names' = with \o Named(b) /\ a \in Name /\ b \in Name
    BY <1>1, <1>5, BlockFacts DEF Collect, Collected
  <2>2. with \in Seq(Name \ {NoName})
    BY <1>1, <2>1, NamedSeq
  <2>0. with = names \o Named(a)
    OBVIOUS
  <2> HIDE DEF a, b, with
  <2>3. names' \in Seq(Name \ {NoName})
    BY <2>1, <2>2, NamedSeq
  <2>4. ASSUME NEW str \in Name \ {NoName}
        PROVE  Cardinality(Places(str)') = Cardinality(Mentions(after, str))
    <3> DEFINE M == Mentions(before, str)
               N == Mentions(after, str)
               A == IF a = str THEN 1 ELSE 0
               B == IF b = str THEN 1 ELSE 0
    <3>1. Cardinality(Places(str)') = Cardinality(Places(str)) + A + B
      <4>1. Count(with, str) = Count(names, str) + A
        BY <1>1, <2>1, <2>0, NamedFacts
      <4>2. Count(names', str) = Count(with, str) + B
        BY <2>1, <2>2, NamedFacts
      <4> QED BY <4>1, <4>2 DEF Places, Count
    <3>2. Cardinality(Places(str)) = Cardinality(M)
      BY <1>1
    <3>3. /\ IsFiniteSet(M) /\ Cardinality(M) \in Nat
          /\ <<DI, 1>> \notin M /\ <<DI, 2>> \notin M
      <4>1. DI \notin before
        BY <1>1, BlockFacts
      <4> HIDE DEF before
      <4> QED BY <1>1, <1>3, <4>1, MentionFacts
    <3>4. N = M \cup ((IF a = str THEN {<<DI, 1>>} ELSE {}) \cup (IF b = str THEN {<<DI, 2>>} ELSE {}))
      <4>1. after = before \cup {DI}
        BY <1>1, <1>5, BlockFacts
      <4> QED BY <4>1 DEF Mentions, a, b
    <3> HIDE DEF M, N
    <3>5. Cardinality(N) = Cardinality(M) + A + B
      <4>1. IsFiniteSet(M \cup {<<DI, 1>>}) /\ Cardinality(M \cup {<<DI, 1>>}) = Cardinality(M) + 1
        BY <3>3, FS_AddElement
      <4>2. Cardinality(M \cup {<<DI, 2>>}) = Cardinality(M) + 1
        BY <3>3, FS_AddElement
      <4>3. <<DI, 2>> \notin M \cup {<<DI, 1>>}
        BY <3>3
      <4>4. Cardinality((M \cup {<<DI, 1>>}) \cup {<<DI, 2>>}) = Cardinality(M) + 2
        <5> DEFINE P == M \cup {<<DI, 1>>}
        <5>1. IsFiniteSet(P) /\ Cardinality(P) = Cardinality(M) + 1 /\ <<DI, 2>> \notin P
          BY <4>1, <4>3
        <5> HIDE DEF P
        <5>2. Cardinality(P \cup {<<DI, 2>>}) = Cardinality(M) + 1 + 1
          BY <5>1, FS_AddElement
        <5> QED BY <3>3, <5>2 DEF P
      <4>5. CASE a = str /\ b = str
        <5>1. N = (M \cup {<<DI, 1>>}) \cup {<<DI, 2>>}
          BY <3>4, <4>5
        <5> QED BY <3>3, <4>4, <4>5, <5>1
      <4>6. CASE a = str /\ b # str
        <5>1. N = M \cup {<<DI, 1>>}
          BY <3>4, <4>6
        <5> QED BY <3>3, <4>1, <4>6, <5>1
      <4>7. CASE a # str /\ b = str
        <5>1. N = M \cup {<<DI, 2>>}
          BY <3>4, <4>7
        <5> QED BY <3>3, <4>2, <4>7, <5>1
      <4>8. CASE a # str /\ b # str
        <5>1. N = M
          BY <3>4, <4>8
        <5> QED BY <3>3, <4>8, <5>1
      <4> QED BY <4>5, <4>6, <4>7, <4>8
    <3> QED BY <3>1, <3>2, <3>5 DEF M, N
  <2>5. Collecting'
    BY <1>1, <1>2, <2>4 DEF Collecting, Mentions
  <2>6. TypeOK'
    BY <1>1, <2>3, BlockFacts DEF TypeOK
  <2> QED BY <2>5, <2>6
<1>6. Behind' /\ Counted' /\ Settled' /\ Justified' /\ NamedTwice'
  BY <1>1 DEF Behind, Counted, Settled, Justified, NamedTwice, Erasing
<1> QED BY <1>4, <1>5, <1>6 DEF IInv

LEMMA RewindIInv ==
    ASSUME IInv, Rewind
    PROVE  IInv'
<1>1. /\ TypeOK /\ pc = "collect" /\ DI \notin DOMAIN input /\ pc' = "erase" /\ DI' = 1
      /\ UNCHANGED <<input, block, names, U, Changed>>
      /\ block = DOMAIN input /\ U = 1
      /\ \A str \in Name \ {NoName} :
            Cardinality(Places(str)) = Cardinality(Mentions({i \in Stores : i < DI}, str))
  BY DEF IInv, Collecting, Rewind
<1>2. Stores' = Stores /\ (\A i, u : Operand(i, u)' = Operand(i, u))
      /\ \A str : Places(str)' = Places(str)
  BY <1>1 DEF Stores, Operand, Places
<1>3. {i \in Stores : i < DI} = Stores /\ block \cap Stores = Stores
      /\ \A i \in Stores : i >= 1 /\ i \in Nat
  BY <1>1, BlockFacts DEF TypeOK
<1>4. TypeOK'
  BY <1>1, BlockFacts DEF TypeOK
<1>5. Counted'
  BY <1>1, <1>2, <1>3 DEF Counted, Left, Mentions
<1>6. Settled'
  BY <1>1, <1>2, <1>3 DEF Settled
<1>7. Collecting' /\ Behind' /\ Justified'
  BY <1>1, <1>2 DEF Collecting, Behind, Justified
<1>8. NamedTwice'
  BY <1>1, <1>2, BlockFacts DEF NamedTwice, HalfErased
<1> QED BY <1>4, <1>5, <1>6, <1>7, <1>8 DEF IInv

-----------------------------------------------------------------------------
(* The second loop.                                                         *)

\* The state that a step leaves alone means the same afterwards.
LEMMA SameInput ==
    ASSUME UNCHANGED input
    PROVE  /\ Stores' = Stores
           /\ \A i, u : Operand(i, u)' = Operand(i, u)
           /\ \A stores, str : Mentions(stores, str)' = Mentions(stores, str)
BY DEF Stores, Operand, Mentions

LEMMA SkipIInv ==
    ASSUME IInv, SkipOther
    PROVE  IInv'
<1>1. /\ TypeOK /\ Behind /\ pc = "erase" /\ DI \in DOMAIN input /\ ~ input[DI].store
      /\ DI' = DI + 1
      /\ UNCHANGED <<input, block, names, pc, U, Changed>>
  BY DEF IInv, SkipOther
<1>2. DI \notin Stores /\ U = 1 /\ Erasing
  BY <1>1, BlockFacts DEF Behind, Erasing
<1>3. /\ \A i \in DOMAIN input \ block : i \in Stores /\ i < DI
      /\ \A i \in DOMAIN input : i \in Nat
      /\ DI \in Nat
  BY <1>1, <1>2, BlockFacts DEF Behind
<1>4. TypeOK'
  BY <1>1, BlockFacts DEF TypeOK
<1>5. Behind'
  BY <1>1, <1>2, <1>3, SameInput DEF Behind
<1>6. ~ HalfErased /\ ~ HalfErased'
  <2>1. DI + 1 \notin Stores \ block
    BY <1>1, <1>3, BlockFacts
  <2> QED BY <1>1, <1>2, <2>1, SameInput DEF HalfErased
<1>7. Counted'
  BY <1>1, <1>2, <1>6, SameInput DEF IInv, Counted, Left, Places, Erasing
<1>8. Settled'
  <2>1. \A str : Repeated(str)' = Repeated(str)
    BY <1>1 DEF Repeated, Places
  <2>2. \A i \in block \cap Stores : i < DI + 1 => i < DI
    BY <1>1, <1>2, <1>3, BlockFacts
  <2> QED BY <1>1, <1>2, <2>1, <2>2, SameInput, BlockFacts DEF IInv, Settled, Erasing
<1>9. Justified'
  <2>1. \A i \in DOMAIN input \ block : i # DI
    BY <1>3
  <2> QED BY <1>1, <1>2, <2>1, SameInput DEF IInv, Justified
<1> QED BY <1>1, <1>4, <1>5, <1>6, <1>7, <1>8, <1>9 DEF IInv, Collecting, NamedTwice

\* The next operand or the next instruction, from operand U of store DI.
LEMMA NextFacts ==
    ASSUME TypeOK, DI \in DOMAIN input, NextOperand
    PROVE  /\ DI' \in 1 .. Len(input) + 1 /\ U' \in {1, 2}
           /\ U = 1 => U' = 2 /\ DI' = DI
           /\ U = 2 => U' = 1 /\ DI' = DI + 1
           /\ \A i \in DOMAIN input, u \in {1, 2} :
                (i < DI' \/ (i = DI' /\ u < U')) <=>
                (i < DI \/ (i = DI /\ u < U) \/ (i = DI /\ u = U))
<1>1. /\ DOMAIN input = 1 .. Len(input) /\ Len(input) \in Nat
      /\ DI \in Nat /\ U \in {1, 2} /\ \A i \in DOMAIN input : i \in Nat
  BY BlockFacts
<1>2. CASE U = 1
  BY <1>1, <1>2 DEF NextOperand
<1>3. CASE U = 2
  BY <1>1, <1>3 DEF NextOperand
<1> QED BY <1>1, <1>2, <1>3

LEMMA KeepIInv ==
    ASSUME IInv, KeepForNow
    PROVE  IInv'
<1>1. /\ TypeOK /\ Behind /\ pc = "erase" /\ DI \in block /\ input[DI].store
      /\ Operand(DI, U) = NoName \/ ~ Repeated(Operand(DI, U))
      /\ NextOperand
      /\ UNCHANGED <<input, block, names, pc, Changed>>
      /\ block \subseteq DOMAIN input
  BY DEF IInv, KeepForNow, AtOperand, TypeOK
<1>2. DI \in Stores /\ Erasing /\ U \in {1, 2} /\ DI \in Nat
  BY <1>1, BlockFacts DEF Erasing
<1>3. /\ \A i \in DOMAIN input \ block : i \in Stores /\ i < DI
      /\ \A i \in DOMAIN input : i \in Nat
  BY <1>1, <1>2, BlockFacts DEF Behind
<1>4. /\ DI' \in 1 .. Len(input) + 1 /\ U' \in {1, 2}
      /\ U = 1 => U' = 2 /\ DI' = DI
      /\ U = 2 => U' = 1 /\ DI' = DI + 1
      /\ \A i \in DOMAIN input, u \in {1, 2} :
                (i < DI' \/ (i = DI' /\ u < U')) <=>
                (i < DI \/ (i = DI /\ u < U) \/ (i = DI /\ u = U))
  BY <1>1, NextFacts
<1>5. TypeOK'
  BY <1>1, <1>4 DEF TypeOK
<1>6. \A i \in DOMAIN input \ block : i < DI'
  BY <1>2, <1>3, <1>4
<1>7. Behind'
  BY <1>1, <1>2, <1>3, <1>4, <1>6, SameInput DEF Behind
<1>8. ~ HalfErased /\ ~ HalfErased'
  <2>1. DI' \notin Stores \ block
    BY <1>2, <1>4, <1>6, BlockFacts, <1>1
  <2> QED BY <1>1, <2>1, SameInput DEF HalfErased
<1>9. Counted'
  BY <1>1, <1>2, <1>8, SameInput DEF IInv, Counted, Left, Places, Erasing
<1>10. Settled'
  <2>1. \A str : Repeated(str)' = Repeated(str)
    BY <1>1 DEF Repeated, Places
  <2>2. \A i \in block \cap Stores, u \in {1, 2} :
          (i < DI' \/ (i = DI' /\ u < U')) /\ Operand(i, u) # NoName => ~ Repeated(Operand(i, u))
    BY <1>1, <1>2, <1>4 DEF IInv, Settled
  <2> QED BY <1>1, <2>1, <2>2, SameInput DEF Settled
<1>11. Justified'
  <2>1. \A i \in DOMAIN input \ block : i # DI
    BY <1>2, <1>3
  <2> QED BY <1>1, <1>2, <2>1, SameInput DEF IInv, Justified
<1> QED BY <1>1, <1>5, <1>7, <1>8, <1>9, <1>10, <1>11 DEF IInv, Collecting, NamedTwice

\* A store is erased because of a later mention of the name in question.
LEMMA EraseFacts ==
    ASSUME IInv, Erase
    PROVE  /\ DI \in block \cap Stores /\ Operand(DI, U) \in Name \ {NoName}
           /\ <<DI, U>> \in Left(Operand(DI, U))
           /\ Cardinality(Places(Operand(DI, U))) = Cardinality(Left(Operand(DI, U)))
           /\ Cardinality(Left(Operand(DI, U))) > 1
           /\ \E i \in block \cap Stores, u \in {1, 2} :
                /\ <<i, u>> \in Left(Operand(DI, U))
                /\ i > DI \/ (i = DI /\ u > U)
<1> DEFINE str == Operand(DI, U)
<1>1. /\ TypeOK /\ pc = "erase" /\ DI \in block /\ input[DI].store /\ str # NoName
      /\ Repeated(str) /\ block \subseteq DOMAIN input /\ U \in {1, 2}
  BY DEF IInv, Erase, AtOperand, TypeOK
<1>2. DI \in block \cap Stores /\ str \in Name \ {NoName} /\ Erasing /\ DI \in Nat
  BY <1>1, BlockFacts DEF Erasing
<1>3. block \cap Stores \subseteq DOMAIN input
  BY <1>1
<1>4. <<DI, U>> \in Left(str)
  BY <1>1, <1>2, <1>3, MentionFacts DEF Left
<1>5. Cardinality(Places(str)) = Cardinality(Left(str))
  BY <1>2, <1>4 DEF IInv, Counted, HalfErased
<1>6. Cardinality(Left(str)) > 1
  BY <1>1, <1>5 DEF Repeated
<1>7. IsFiniteSet(Left(str))
  BY <1>1, <1>3, MentionFacts DEF Left
<1>8. PICK m \in Left(str) : m # <<DI, U>>
  <2> DEFINE L == Left(str)
  <2> HIDE DEF L
  <2>1. IsFiniteSet(L) /\ <<DI, U>> \in L /\ Cardinality(L) > 1
    BY <1>4, <1>6, <1>7 DEF L
  <2>2. L # {<<DI, U>>}
    <3>1. Cardinality({<<DI, U>>}) = 1
      BY FS_Singleton
    <3> QED BY <2>1, <3>1
  <2> QED BY <2>1, <2>2 DEF L
<1>9. /\ m = <<m[1], m[2]>> /\ m[1] \in block \cap Stores /\ m[2] \in {1, 2}
      /\ Operand(m[1], m[2]) = str
  BY <1>1, <1>3, <1>8, MentionFacts DEF Left, Mentions
<1>10. ~ (m[1] < DI \/ (m[1] = DI /\ m[2] < U))
  BY <1>1, <1>2, <1>9 DEF IInv, Settled
<1>11. m[1] \in Nat
  BY <1>1, <1>9, BlockFacts
<1>12. m[1] > DI \/ (m[1] = DI /\ m[2] > U)
  BY <1>1, <1>2, <1>8, <1>9, <1>10, <1>11
<1> QED BY <1>2, <1>4, <1>5, <1>6, <1>8, <1>9, <1>12

LEMMA EraseIInv ==
    ASSUME IInv, Erase
    PROVE  IInv'
<1> DEFINE str == Operand(DI, U)
<1>1. /\ TypeOK /\ Behind /\ pc = "erase" /\ block' = block \ {DI}
      /\ names' = RemoveFirst(names, str) /\ Changed' = TRUE
      /\ NextOperand
      /\ UNCHANGED <<input, pc>>
      /\ Repeated(str)
      /\ names \in Seq(Name \ {NoName})
      /\ block \subseteq DOMAIN input
  <2>1. TypeOK /\ Behind /\ names \in Seq(Name \ {NoName}) /\ block \subseteq DOMAIN input
    BY DEF IInv, TypeOK
  <2>2. /\ pc = "erase" /\ block' = block \ {DI} /\ names' = WithoutFirst(str)
        /\ Changed' = TRUE /\ NextOperand /\ UNCHANGED <<input, pc>> /\ Repeated(str)
    BY DEF Erase, AtOperand
  <2> QED BY <2>1, <2>2, Zenon DEF WithoutFirst
<1>2. /\ DI \in block \cap Stores /\ str \in Name \ {NoName}
      /\ <<DI, U>> \in Left(str)
      /\ Cardinality(Places(str)) = Cardinality(Left(str))
      /\ Cardinality(Left(str)) > 1
      /\ \E i \in block \cap Stores, u \in {1, 2} :
            <<i, u>> \in Left(str) /\ (i > DI \/ (i = DI /\ u > U))
      /\ DI \in DOMAIN input /\ Erasing /\ U \in {1, 2} /\ DI \in Nat
  BY <1>1, EraseFacts, BlockFacts DEF Erasing
<1> HIDE DEF str
<1>3. /\ \A i \in DOMAIN input \ block : i \in Stores /\ i < DI
      /\ \A i \in DOMAIN input : i \in Nat
  BY <1>1, <1>2, BlockFacts DEF Behind
<1>4. /\ DI' \in 1 .. Len(input) + 1 /\ U' \in {1, 2}
      /\ U = 1 => U' = 2 /\ DI' = DI
      /\ U = 2 => U' = 1 /\ DI' = DI + 1
      /\ \A i \in DOMAIN input, u \in {1, 2} :
                (i < DI' \/ (i = DI' /\ u < U')) <=>
                (i < DI \/ (i = DI /\ u < U) \/ (i = DI /\ u = U))
  BY <1>1, <1>2, NextFacts
<1>5. /\ names' \in Seq(Name \ {NoName})
      /\ \A s : Cardinality(Places(s)') = Cardinality(Places(s)) - (IF str = s THEN 1 ELSE 0)
      /\ \A s : Cardinality(Places(s)) \in Nat
  <2>1. {k \in DOMAIN names : names[k] = str} # {}
    BY <1>1, PlacesFacts DEF Places
  <2>2. \A s : Count(names', s) = Count(names, s) - (IF str = s THEN 1 ELSE 0)
    BY <1>1, <2>1, CountAfterRemoveFirst
  <2>3. names' \in Seq(Name \ {NoName})
    BY <1>1, <2>1, CountAfterRemoveFirst
  <2>4. \A s : Cardinality(Places(s)) = Count(names, s) /\ Cardinality(Places(s)') = Count(names', s)
    BY DEF Places, Count
  <2> QED BY <1>1, <2>2, <2>3, <2>4, PlacesFacts
<1>6. TypeOK'
  <2>1. Changed' = (block' # DOMAIN input)
    BY <1>1, <1>2
  <2> QED BY <1>1, <1>4, <1>5, <2>1 DEF TypeOK
<1>7. Behind'
  <2>1. ASSUME NEW i \in DOMAIN input, i \notin block'
        PROVE  i \in Stores /\ (i < DI' \/ (i = DI' /\ U' = 2))
    BY <1>1, <1>2, <1>3, <1>4, <2>1
  <2>2. U' = 2 => DI' \in Stores
    BY <1>2, <1>4
  <2> QED BY <1>1, <2>1, <2>2, SameInput DEF Behind
<1>8. \A s : Repeated(s)' => Repeated(s)
  BY <1>5 DEF Repeated
<1>9. Settled'
  <2>1. ASSUME NEW i \in block' \cap Stores, NEW u \in {1, 2},
               i < DI' \/ (i = DI' /\ u < U'), Operand(i, u) # NoName
        PROVE  ~ Repeated(Operand(i, u))
    <3>1. i \in block \cap Stores /\ i # DI /\ i \in DOMAIN input
      BY <1>1
    <3>2. i < DI
      BY <1>4, <2>1, <3>1
    <3> QED BY <1>2, <2>1, <3>1, <3>2 DEF IInv, Settled
  <2> QED BY <1>1, <1>8, <2>1, SameInput DEF Settled
<1>10. Counted'
  <2> SUFFICES ASSUME ~ HalfErased', NEW s \in Name \ {NoName}, Left(s)' # {}
               PROVE  Cardinality(Places(s)') = Cardinality(Left(s)')
    BY DEF Counted
  <2>1. Left(s)' = Mentions((block \ {DI}) \cap Stores, s)
    BY <1>1, SameInput DEF Left
  <2>2. U = 2
    <3>1. U = 1 => DI' = DI
      BY <1>4
    <3> QED BY <1>1, <1>2, <3>1, SameInput DEF HalfErased
  <2>3. Operand(DI, 1) # NoName => ~ Repeated(Operand(DI, 1))
    BY <1>2, <2>2 DEF IInv, Settled
  <2>4. /\ block \cap Stores \subseteq DOMAIN input
        /\ (block \ {DI}) \cap Stores \subseteq DOMAIN input
        /\ IsFiniteSet(Left(s)) /\ Cardinality(Left(s)) \in Nat
    BY <1>1, MentionFacts DEF Left
  <2>5. Left(s) # {} => Cardinality(Places(s)) = Cardinality(Left(s))
    BY <1>2 DEF IInv, Counted, HalfErased
  <2>6. Operand(DI, 1) # s
    <3> SUFFICES ASSUME Operand(DI, 1) = s
                 PROVE  FALSE
      OBVIOUS
    <3>1. <<DI, 1>> \in Left(s)
      BY <1>1, <1>2, <2>4, MentionFacts DEF Left
    <3>2. Cardinality(Left(s)) <= 1
      BY <1>5, <2>3, <2>4, <2>5, <3>1 DEF Repeated
    <3>3. Left(s) = {<<DI, 1>>}
      BY <2>4, <3>1, <3>2, CountFacts
    <3>4. \A m \in Left(s)' : m \in Left(s) /\ m[1] # DI
      BY <2>1 DEF Left, Mentions
    <3> QED BY <3>3, <3>4
  <2>7. CASE s = str
    <3>1. Left(s)' = Left(s) \ {<<DI, 2>>}
      BY <1>2, <2>1, <2>2, <2>6, <2>7 DEF Left, Mentions
    <3>2. <<DI, 2>> \in Left(s)
      BY <1>2, <2>2, <2>7
    <3>3. Cardinality(Left(s) \ {<<DI, 2>>}) = Cardinality(Left(s)) - 1
      BY <2>4, <3>2, CountFacts
    <3> QED BY <1>5, <2>4, <2>5, <2>7, <3>1, <3>2, <3>3
  <2>8. CASE s # str
    <3>1. Operand(DI, 2) # s
      BY <2>2, <2>8 DEF str
    <3>2. Left(s)' = Left(s)
      BY <1>2, <2>1, <2>6, <3>1 DEF Left, Mentions
    <3> QED BY <1>5, <2>5, <2>8, <3>2
  <2> QED BY <2>7, <2>8
<1>11. Justified'
  <2> SUFFICES ASSUME NEW i \in DOMAIN input, i \notin block', i # DI'
               PROVE  /\ Operand(i, 2) # NoName
                      /\ \E j \in Stores, u \in {1, 2} : j > i /\ Operand(j, u) = Operand(i, 2)
    BY <1>1, SameInput DEF Justified
  <2>1. CASE i # DI
    BY <1>1, <1>2, <2>1 DEF IInv, Justified
  <2>2. CASE i = DI
    <3>1. U = 2
      BY <1>2, <1>4, <2>2
    <3>2. PICK j \in block \cap Stores, u \in {1, 2} :
                <<j, u>> \in Left(str) /\ (j > DI \/ (j = DI /\ u > U))
      BY <1>2
    <3>3. j > DI /\ Operand(j, u) = str
      BY <3>1, <3>2 DEF Left, Mentions
    <3> QED BY <1>2, <2>2, <3>1, <3>3 DEF str
  <2> QED BY <2>1, <2>2
<1>12. NamedTwice'
  <2> SUFFICES ASSUME HalfErased'
               PROVE  /\ DI' \in Stores /\ U' = 2 /\ Operand(DI', 1) # NoName
                      /\ \E m \in Mentions((block' \cap Stores) \cup {DI'}, Operand(DI', 1)) :
                            m[1] > DI' \/ m = <<DI', 2>>
    <3>1. pc' # "undefined"
      BY <1>1
    <3>2. Operand(DI, 1)' = Operand(DI', 1)
      BY <1>1 DEF Operand
    <3> QED BY <1>1, <3>1, <3>2, SameInput DEF NamedTwice
  <2>1. DI' \in Stores /\ DI' \notin block'
    BY <1>1, SameInput DEF HalfErased
  <2>2. U = 1 /\ DI' = DI /\ U' = 2
    <3>1. DI' \in DOMAIN input /\ (DI' \notin block \/ DI' = DI)
      BY <1>1, <2>1, BlockFacts
    <3>2. DI' \notin block => DI' < DI
      BY <1>3, <3>1
    <3> QED BY <1>2, <1>4, <3>1, <3>2
  <2>3. Operand(DI', 1) = str
    BY <2>2 DEF str
  <2>4. PICK j \in block \cap Stores, w \in {1, 2} :
              <<j, w>> \in Left(str) /\ (j > DI \/ (j = DI /\ w > U))
    BY <1>2
  <2>5. j \in (block' \cap Stores) \cup {DI'} /\ Operand(j, w) = str
    BY <1>1, <2>2, <2>4 DEF Left, Mentions
  <2>6. <<j, w>> \in Mentions((block' \cap Stores) \cup {DI'}, str)
    BY <2>5 DEF Mentions
  <2>7. j > DI' \/ <<j, w>> = <<DI', 2>>
    BY <2>2, <2>4
  <2> QED BY <1>2, <2>1, <2>2, <2>3, <2>6, <2>7
<1> QED BY <1>1, <1>6, <1>7, <1>9, <1>10, <1>11, <1>12 DEF IInv, Collecting

LEMMA ReadErasedIInv ==
    ASSUME IInv, ReadErased
    PROVE  IInv'
<1>1. /\ TypeOK /\ pc = "erase" /\ DI \in DOMAIN input \ block /\ input[DI].store
      /\ pc' = "undefined"
      /\ UNCHANGED <<input, block, names, DI, U, Changed>>
  BY DEF IInv, ReadErased
<1>2. Erasing /\ HalfErased
  BY <1>1, BlockFacts DEF Erasing, HalfErased
<1>3. NamedTwice'
  <2>1. Operand(DI, 1)' = Operand(DI, 1)
    BY <1>1 DEF Operand
  <2>2. Mentions((block \cap Stores) \cup {DI}, Operand(DI, 1))'
            = Mentions((block \cap Stores) \cup {DI}, Operand(DI, 1))
    BY <1>1 DEF Mentions, Stores, Operand
  <2> QED BY <1>1, <1>2, <2>1, <2>2, SameInput DEF IInv, NamedTwice
<1>4. TypeOK'
  BY <1>1 DEF TypeOK
<1>5. Justified'
  BY <1>1, SameInput DEF IInv, Justified
<1> QED BY <1>1, <1>3, <1>4, <1>5 DEF IInv, Collecting, Behind, Counted, Settled, Erasing

LEMMA FinishIInv ==
    ASSUME IInv, Finish
    PROVE  IInv'
<1>1. /\ TypeOK /\ pc = "erase" /\ DI \notin DOMAIN input /\ pc' = "done"
      /\ UNCHANGED <<input, block, names, DI, U, Changed>>
      /\ Erasing /\ Erasing'
  BY DEF IInv, Finish, Erasing
<1>2. ~ HalfErased'
  BY <1>1, BlockFacts, SameInput DEF HalfErased
<1>3. ~ HalfErased
  BY <1>1, BlockFacts DEF HalfErased
<1>4. TypeOK'
  BY <1>1 DEF TypeOK
<1>5. Behind' /\ Justified'
  BY <1>1, SameInput DEF IInv, Behind, Justified
<1>6. Counted'
  BY <1>1, <1>3, SameInput DEF IInv, Counted, Left, Places
<1>7. Settled'
  <2>1. \A str : Repeated(str)' = Repeated(str)
    BY <1>1 DEF Repeated, Places
  <2> QED BY <1>1, <2>1, SameInput DEF IInv, Settled
<1>8. NamedTwice'
  BY <1>1, <1>2 DEF NamedTwice
<1> QED BY <1>1, <1>4, <1>5, <1>6, <1>7, <1>8 DEF IInv, Collecting

LEMMA NextIInv == IInv /\ [Next]_vars => IInv'
<1> SUFFICES ASSUME IInv, [Next]_vars
             PROVE  IInv'
  OBVIOUS
<1>1. CASE UNCHANGED vars
  <2>1. /\ UNCHANGED <<input, block, names, pc, DI, U, Changed>>
        /\ UNCHANGED <<Stores, HalfErased, Erasing>>
        /\ \A str : UNCHANGED <<Places(str), Left(str), Repeated(str)>>
    BY <1>1 DEF vars, Stores, HalfErased, Erasing, Places, Left, Mentions, Operand, Repeated
  <2>2. TypeOK'
    BY <2>1 DEF IInv, TypeOK
  <2>3. Collecting' /\ Behind' /\ Counted'
    BY <2>1, SameInput DEF IInv, Collecting, Behind, Counted
  <2>4. Settled' /\ Justified'
    BY <2>1, SameInput DEF IInv, Settled, Justified
  <2>5. NamedTwice'
    <3>1. UNCHANGED <<Operand(DI, 1), Mentions((block \cap Stores) \cup {DI}, Operand(DI, 1))>>
      BY <2>1 DEF Operand, Mentions, Stores
    <3> QED BY <2>1, <3>1 DEF IInv, NamedTwice
  <2> QED BY <2>2, <2>3, <2>4, <2>5 DEF IInv
<1>2. CASE Next
  BY <1>2, CollectIInv, RewindIInv, SkipIInv, KeepIInv, EraseIInv, ReadErasedIInv,
     FinishIInv, Zenon DEF Next
<1> QED BY <1>1, <1>2

LEMMA Invariance == Spec => []IInv
BY InitIInv, NextIInv, PTL DEF Spec

-----------------------------------------------------------------------------
(* The pass stays in its state space, for blocks of any length.             *)
THEOREM TypeCorrect == Spec => []TypeOK
<1>1. IInv => TypeOK
  BY DEF IInv
<1> QED BY <1>1, Invariance, PTL

(* One entry of the vector goes with each store, and yet the vector keeps   *)
(* counting the mentions that are left.                                     *)
THEOREM VectorCounts == Spec => []VectorCountsMentions
<1>1. IInv => VectorCountsMentions
  <2> SUFFICES ASSUME IInv, Erasing, DI \in DOMAIN input => DI \in block \/ ~ input[DI].store,
                      NEW str \in Name \ {NoName}, Cardinality(Left(str)) # 0
               PROVE  Cardinality(Places(str)) = Cardinality(Left(str))
    BY DEF VectorCountsMentions, Erasing, Left
  <2>1. TypeOK
    BY DEF IInv
  <2>2. ~ HalfErased
    BY <2>1, BlockFacts DEF HalfErased
  <2>3. Left(str) # {}
    BY FS_EmptySet
  <2> QED BY <2>2, <2>3 DEF IInv, Counted
<1> QED BY <1>1, Invariance, PTL

(* In a block of any length: the pass reads a store that it has erased only *)
(* as it goes on with the pointer of a store that went for the name of its  *)
(* value, and this name is still mentioned further down.                    *)
THEOREM UndefinedForNamedValues == Spec => []UndefinedOnlyForNamedValues
<1>1. IInv => UndefinedOnlyForNamedValues
  BY DEF IInv, NamedTwice, UndefinedOnlyForNamedValues
<1> QED BY <1>1, Invariance, PTL

(* In a block that has been processed no name is mentioned twice.           *)
THEOREM NoNameTwice == Spec => []NoRepetitionLeft
<1>1. IInv => NoRepetitionLeft
  <2> SUFFICES ASSUME IInv, pc = "done", NEW str \in Name \ {NoName}
               PROVE  Cardinality(Left(str)) <= 1
    BY DEF NoRepetitionLeft, Left
  <2>1. TypeOK /\ Erasing /\ DI \notin DOMAIN input /\ block \subseteq DOMAIN input
    BY DEF IInv, Behind, Erasing, TypeOK
  <2>2. ~ HalfErased
    BY <2>1, BlockFacts DEF HalfErased
  <2>3. block \cap Stores \subseteq DOMAIN input
    BY <2>1
  <2>4. CASE Left(str) = {}
    BY <2>1, <2>3, <2>4, MentionFacts, SMTT(30) DEF Left
  <2>5. CASE Left(str) # {}
    <3>1. PICK m \in Left(str) : TRUE
      BY <2>5
    <3>2. m[1] \in block \cap Stores /\ m[2] \in {1, 2} /\ Operand(m[1], m[2]) = str
      BY <3>1 DEF Left, Mentions
    <3>3. m[1] < DI
      <4>1. m[1] \in 1 .. Len(input) /\ DI \in 1 .. Len(input) + 1 /\ Len(input) \in Nat
        BY <2>1, <2>3, <3>2, BlockFacts DEF TypeOK
      <4> QED BY <2>1, <4>1, BlockFacts
    <3>4. ~ Repeated(str)
      BY <2>1, <3>2, <3>3 DEF IInv, Settled
    <3>5. Cardinality(Places(str)) = Cardinality(Left(str))
      BY <2>1, <2>2, <2>5 DEF IInv, Counted
    <3>6. Cardinality(Places(str)) \in Nat
      BY <2>1, PlacesFacts
    <3> QED BY <3>4, <3>5, <3>6 DEF Repeated
  <2> QED BY <2>4, <2>5
<1> QED BY <1>1, Invariance, PTL

(* At every moment of the pass, in a block of any length: the last store to *)
(* a variable whose name no later store mentions is there, unless it went   *)
(* for the name of its value and the pass is about to read what it freed.   *)
THEOREM LastStoreStays == Spec => []LastStoreKept
<1>1. IInv => LastStoreKept
  <2> SUFFICES ASSUME IInv, NEW v \in Value, LastStore(Stores, v) # 0,
                      \A m \in Mentions(Stores, NameOf[v]) :
                          m[1] <= LastStore(Stores, v) \/ NameOf[v] = NoName,
                      LastStore(Stores, v) \notin block
               PROVE  /\ DI = LastStore(Stores, v) /\ U = 2
                      /\ Operand(LastStore(Stores, v), 1) # NoName
    BY DEF LastStoreKept
  <2> DEFINE last == LastStore(Stores, v)
             S == {i \in Stores : input[i].operands[2] = v} \cup {0}
  <2>1. /\ TypeOK
        /\ \A i \in DOMAIN input : i \in Nat
        /\ Stores \subseteq DOMAIN input
    BY BlockFacts DEF IInv
  <2>2. last \in S /\ \A i \in S : i <= last
    <3>1. last = Max(S) /\ S # {} /\ \A i \in S : i \in Nat /\ i <= Len(input)
      BY <2>1, BlockFacts DEF LastStore
    <3> HIDE DEF S
    <3> QED BY <2>1, <3>1, BlockFacts, MaxFacts
  <2>3. last \in Stores /\ input[last].operands[2] = v
    BY <2>2
  <2>4. pc # "collect"
    BY <2>1, <2>3 DEF IInv, Collecting
  <2>5. last = DI
    <3> SUFFICES ASSUME last # DI
                 PROVE  FALSE
      OBVIOUS
    <3>1. Operand(last, 2) = NameOf[v]
      BY <2>3 DEF Operand
    <3>2. PICK j \in Stores, u \in {1, 2} : j > last /\ Operand(j, u) = NameOf[v]
      BY <2>1, <2>3, <2>4, <3>1 DEF IInv, Justified
    <3>3. NameOf[v] # NoName
      BY <2>1, <2>3, <2>4, <3>1 DEF IInv, Justified
    <3>4. <<j, u>> \in Mentions(Stores, NameOf[v])
      BY <3>2 DEF Mentions
    <3>5. j <= last /\ j \in Nat /\ last \in Nat
      BY <2>1, <2>3, <3>3, <3>4
    <3> QED BY <3>2, <3>5
  <2>6. (Erasing /\ HalfErased) \/ pc = "undefined"
    BY <2>3, <2>4, <2>5 DEF IInv, TypeOK, Erasing, HalfErased
  <2>7. U = 2 /\ Operand(DI, 1) # NoName
    BY <2>6 DEF IInv, NamedTwice
  <2> QED BY <2>5, <2>7
<1> QED BY <1>1, Invariance, PTL

(* A store is erased only when its name is mentioned further down, or by    *)
(* its own second operand.                                                  *)
THEOREM ErasedForCause == Spec => ErasedForALaterMention
<1> DEFINE Cause == \A i \in block \ block' : \E u \in {1, 2} :
              /\ Operand(i, u) # NoName
              /\ \E m \in Mentions(block \cap Stores, Operand(i, u)) :
                    m[1] > i \/ (m[1] = i /\ m[2] > u)
<1>1. IInv /\ [Next]_vars => [Cause]_vars
  <2> SUFFICES ASSUME IInv, Next, NEW i \in block \ block'
               PROVE  \E u \in {1, 2} :
                          /\ Operand(i, u) # NoName
                          /\ \E m \in Mentions(block \cap Stores, Operand(i, u)) :
                                m[1] > i \/ (m[1] = i /\ m[2] > u)
    BY DEF vars
  <2>1. Erase
    BY DEF Next, Collect, Rewind, SkipOther, KeepForNow, ReadErased, Finish
  <2>2. i = DI /\ U \in {1, 2}
    BY <2>1 DEF Erase, IInv, TypeOK
  <2>3. PICK j \in block \cap Stores, w \in {1, 2} :
              <<j, w>> \in Left(Operand(DI, U)) /\ (j > DI \/ (j = DI /\ w > U))
    BY <2>1, EraseFacts
  <2>4. Operand(DI, U) # NoName
    BY <2>1, EraseFacts
  <2>5. \E m \in Mentions(block \cap Stores, Operand(DI, U)) :
            m[1] > DI \/ (m[1] = DI /\ m[2] > U)
    BY <2>3 DEF Left
  <2> QED BY <2>2, <2>4, <2>5
<1> QED BY <1>1, Invariance, PTL DEF Spec, ErasedForALaterMention
=============================================================================
