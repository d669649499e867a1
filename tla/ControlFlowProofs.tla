------------------------- MODULE ControlFlowProofs -------------------------
(***************************************************************************)
(* The label stack, the labels of the output and the array of string       *)
(* labels, for programs of any length and nesting and for stacks and       *)
(* arrays of any size.                                                     *)
(***************************************************************************)
EXTENDS ControlFlow, FiniteSetTheorems, TLAPS

StmtRec == [kind : Structured!StmtKind, parent : Nat, slot : {"body", "then", "else"}]

Conditional(i) == Kind(open[i].stmt) \in Structured!Conditional

\* The conditional statement at i still has its first branch to come to an end.
InThen(i) == open[i].slot = "then"

\* The number of conditional statements around each statement: the recursion
\* of Depth as an equation.
IsDepth(p, d) ==
    d = [n \in DOMAIN p |->
           (IF p[n].parent = 0 THEN 0 ELSE d[p[n].parent])
           + (IF p[n].kind \in Structured!Conditional THEN 1 ELSE 0)]

DepthIsDefined(p) ==
    /\ \E d \in [DOMAIN p -> Nat] : IsDepth(p, d)
    /\ \A d, e : IsDepth(p, d) /\ IsDepth(p, e) => d = e

(***************************************************************************)
(* The inductive invariant.  Path says that open is a path in the tree of  *)
(* statements, and Deep that the depth of a statement on it is the         *)
(* number of conditional statements of the path up to it.  So the stack    *)
(* has room for all of them when the program is within the limit, and has  *)
(* their numbers, which grow inwards (Numbered).  A number belongs to one  *)
(* statement, so that the labels that are still to be placed are not in    *)
(* the output yet (Placed), those that jumps use are placed in their       *)
(* function or still to be placed (Resolving), and string labels are in    *)
(* the array until they are defined (Strings, Counted).                    *)
(***************************************************************************)
Path ==
    /\ prog \in Seq(StmtRec)
    /\ \A n \in DOMAIN prog : prog[n].parent < n
    /\ \A i \in DOMAIN open :
          /\ prog[open[i].stmt].parent = IF i = 1 THEN 0 ELSE open[i - 1].stmt
          /\ Kind(open[i].stmt) = "function" <=> i = 1
          /\ Kind(open[i].stmt) = "if" <=> open[i].slot \in {"then", "else"}

LabelStacks == [stack : [0 .. STACK_SIZ - 1 -> Nat], index : Nat \cup {-1}]

Nesting ==
    /\ Path
    /\ expect \in {"stmt", "cond", "reduced", "no else"} => open # << >>
    /\ expect = "cond" => Kind(Context.stmt) = "while"
    /\ label_stack \in LabelStacks

Deep ==
    \A i \in DOMAIN open :
        Structured!Depth(prog)[open[i].stmt] =
            Cardinality(Around(i)) + (IF Conditional(i) THEN 1 ELSE 0)

Numbered ==
    /\ label_stack.index + 1 = Cardinality(OpenConditionals)
    /\ \A i \in OpenConditionals :
          /\ NumberOf(i) \in 1 .. label_no
          /\ \A j \in Around(i) : NumberOf(j) < NumberOf(i)
          /\ FirstUse(Kind(open[i].stmt), NumberOf(i)) # {}
    /\ expect = "cond" => NumberOf(Len(open)) = label_no

\* The labels that the open conditional statement at i still places.
Owed(i) == {<<"exit", NumberOf(i)>>} \cup (IF InThen(i) THEN {<<"else", NumberOf(i)>>} ELSE {})

\* A label that is still to be defined.
Awaited(label) ==
    \/ \E i \in OpenConditionals : label \in Owed(i)
    \/ label \in Range(slabel_arr)
    \/ open # << >> /\ label = <<"end", open[1].stmt>>

Defines(instr) == instr.op \in {"label", "data"}

DefinedLabels == {code[i].label : i \in {j \in DOMAIN code : Defines(code[j])}}

\* The names of string labels below m and of g globals.
StringNames(m, g) == ({"slabel"} \X {n \in Nat : n < m}) \cup ({"global"} \X (1 .. g))

Known ==
    ({"else", "exit", "test"} \X (1 .. label_no))
    \cup ({"begin", "end"} \X DOMAIN prog)
    \cup StringNames(sconst_gen, globals)

Placed ==
    /\ \A i, j \in DOMAIN code :
          Defines(code[i]) /\ Defines(code[j]) /\ code[i].label = code[j].label => i = j
    /\ \A label \in DefinedLabels : label \in Known /\ ~ Awaited(label)

Strings ==
    /\ \A i, j \in DOMAIN slabel_arr : slabel_arr[i] = slabel_arr[j] => i = j
    /\ Range(slabel_arr) \subseteq StringNames(sconst_gen, globals)

Begins(i) == code[i].op = "label" /\ code[i].label[1] = "begin"

\* The number of the function that the output ends with.
CurrentFunction == Cardinality({i \in DOMAIN code : Begins(i)})

\* The jump at i leads to a label of its function.
Lands(i) ==
    \E d \in DOMAIN code :
        code[d].op = "label" /\ code[d].label = code[i].label /\ InFunction(d) = InFunction(i)

\* The start of the while at i is in the output.
HeadPlaced(i) ==
    \E d \in DOMAIN code :
        /\ code[d].op = "label" /\ code[d].label = <<"test", NumberOf(i)>>
        /\ InFunction(d) = CurrentFunction

Resolving ==
    /\ \A i \in DOMAIN code : code[i].op \in {"j", "beqz"} =>
          \/ Lands(i)
          \/ /\ InFunction(i) = CurrentFunction
             /\ \E k \in OpenConditionals : code[i].label \in Owed(k)
    /\ \A i \in DOMAIN code : code[i].op = "la" =>
          \/ \E d \in DOMAIN code : code[d].op = "data" /\ code[d].label = code[i].label
          \/ open # << >> /\ code[i].label \in Range(slabel_arr)
          \/ code[i].label = NamedPlace
    /\ \A i \in OpenConditionals : Kind(open[i].stmt) = "while" => HeadPlaced(i)
    /\ \A g \in 1 .. globals :
          \/ \E d \in DOMAIN code : code[d].op = "data" /\ code[d].label = <<"global", g>>
          \/ <<"global", g>> \in Range(slabel_arr)

Counted ==
    /\ Pending = Len(slabel_arr) + (IF expect = "smashed" THEN 1 ELSE 0)
    /\ expect = "smashed" => Len(slabel_arr) = SLABELS

IInv ==
    /\ TypeOK
    /\ Nesting
    /\ DepthIsDefined(prog)
    /\ Deep
    /\ WithinLimit => Numbered /\ Placed
    /\ WithinLimit /\ expect # "smashed" => Resolving
    /\ Strings
    /\ Counted
-----------------------------------------------------------------------------
(* Sequences and the output.                                                *)

LEMMA FrontFacts ==
    ASSUME NEW S, NEW s \in Seq(S), s # << >>
    PROVE  /\ Front(s) \in Seq(S) /\ Len(Front(s)) = Len(s) - 1
           /\ Len(s) \in Nat \ {0}
           /\ \A i \in 1 .. Len(s) - 1 : Front(s)[i] = s[i]
           /\ Last(s) = s[Len(s)] /\ Last(s) \in S
<1>1. Len(s) \in Nat \ {0} /\ DOMAIN s = 1 .. Len(s)
  OBVIOUS
<1>2. Last(s) = s[Len(s)] /\ Last(s) \in S
  BY <1>1 DEF Last
<1> DEFINE n == Len(s) - 1
<1>3. n \in Nat /\ n <= Len(s)
  BY <1>1
<1> HIDE DEF n
<1>4. /\ SubSeq(s, 1, n) \in Seq(S) /\ Len(SubSeq(s, 1, n)) = n
      /\ \A i \in 1 .. n : SubSeq(s, 1, n)[i] = s[i]
  BY <1>3
<1> QED BY <1>1, <1>2, <1>4 DEF Front, n

LEMMA SeqFacts ==
    ASSUME NEW S, NEW s \in Seq(S)
    PROVE  DOMAIN s = 1 .. Len(s) /\ Len(s) \in Nat /\ \A i \in DOMAIN s : s[i] \in S
OBVIOUS

LEMMA SeqOfMore ==
    ASSUME NEW S, NEW T, S \subseteq T, NEW s \in Seq(S)
    PROVE  s \in Seq(T)
<1>1. s \in [1 .. Len(s) -> T] /\ Len(s) \in Nat
  BY SeqFacts
<1> QED BY <1>1

LEMMA AppendFacts ==
    ASSUME NEW S, NEW s \in Seq(S), NEW x \in S
    PROVE  /\ Append(s, x) \in Seq(S) /\ Len(Append(s, x)) = Len(s) + 1
           /\ Len(s) \in Nat
           /\ \A i \in 1 .. Len(s) : Append(s, x)[i] = s[i]
           /\ Append(s, x)[Len(s) + 1] = x
OBVIOUS

LEMMA ConcatFacts ==
    ASSUME NEW S, NEW s \in Seq(S), NEW t \in Seq(S)
    PROVE  /\ s \o t \in Seq(S) /\ Len(s \o t) = Len(s) + Len(t)
           /\ Len(s) \in Nat /\ Len(t) \in Nat
           /\ \A i \in 1 .. Len(s) : (s \o t)[i] = s[i]
           /\ \A i \in 1 .. Len(t) : (s \o t)[Len(s) + i] = t[i]
OBVIOUS

LEMMA NoLess ==
    \A m \in Nat : m <= m
OBVIOUS

LEMMA WiderInterval ==
    ASSUME NEW m \in Nat, NEW k \in Nat, NEW i \in 1 .. m + 1
    PROVE  i \in 1 .. m + k + 1
OBVIOUS

LabelName == {"none", "begin", "end", "else", "exit", "test", "slabel", "global", "place"} \X Int

LEMMA InstrFacts ==
    /\ NoLabel \in LabelName
    /\ \A l \in LabelName :
          /\ Label(l) \in Instrs /\ Jump(l) \in Instrs /\ BranchIfZero(l) \in Instrs
          /\ Address(l) \in Instrs /\ Data(l) \in Instrs
    /\ \A n \in Nat : Do(n) \in Instrs /\ Test(n) \in Instrs
BY DEF LabelName, Instrs, NoLabel, Label, Jump, BranchIfZero, Address, Data, Do, Test, Instr

LEMMA OneInstr ==
    ASSUME NEW S, NEW a \in S
    PROVE  <<a>> \in Seq(S) /\ Len(<<a>>) = 1 /\ <<a>>[1] = a
OBVIOUS

LEMMA TwoInstrs ==
    ASSUME NEW S, NEW a \in S, NEW b \in S
    PROVE  <<a, b>> \in Seq(S) /\ Len(<<a, b>>) = 2 /\ <<a, b>>[1] = a /\ <<a, b>>[2] = b
OBVIOUS

LEMMA ThreeInstrs ==
    ASSUME NEW S, NEW a \in S, NEW b \in S, NEW c \in S
    PROVE  /\ <<a, b, c>> \in Seq(S) /\ Len(<<a, b, c>>) = 3
           /\ <<a, b, c>>[1] = a /\ <<a, b, c>>[2] = b /\ <<a, b, c>>[3] = c
OBVIOUS

\* The elements of the state.
LEMMA StateFacts ==
    ASSUME TypeOK, Nesting
    PROVE  /\ prog \in Seq(StmtRec) /\ DOMAIN prog = 1 .. Len(prog) /\ Len(prog) \in Nat
           /\ DOMAIN open = 1 .. Len(open) /\ Len(open) \in Nat
           /\ open \in Seq([stmt : DOMAIN prog, slot : {"body", "then", "else"}])
           /\ \A i \in DOMAIN open :
                 open[i].stmt \in DOMAIN prog /\ open[i].slot \in {"body", "then", "else"}
           /\ \A n \in DOMAIN prog : prog[n] \in StmtRec
           /\ code \in Seq(Instrs) /\ DOMAIN code = 1 .. Len(code) /\ Len(code) \in Nat
           /\ \A i \in DOMAIN code : code[i] \in Instrs
           /\ DOMAIN slabel_arr = 1 .. Len(slabel_arr) /\ Len(slabel_arr) \in Nat
<1>1. /\ prog \in Seq(StmtRec) /\ DOMAIN prog = 1 .. Len(prog) /\ Len(prog) \in Nat
      /\ \A n \in DOMAIN prog : prog[n] \in StmtRec
  <2>1. prog \in Seq(StmtRec)
    BY DEF Nesting, Path
  <2> QED BY <2>1, SeqFacts, Zenon
<1>2. /\ open \in Seq([stmt : DOMAIN prog, slot : {"body", "then", "else"}])
      /\ code \in Seq(Instrs) /\ slabel_arr \in Seq({"slabel", "global"} \X Nat)
  BY DEF TypeOK
<1> DEFINE C == [stmt : DOMAIN prog, slot : {"body", "then", "else"}]
<1>3. \A c \in C : c.stmt \in DOMAIN prog /\ c.slot \in {"body", "then", "else"}
  OBVIOUS
<1> HIDE DEF C
<1>4. /\ DOMAIN open = 1 .. Len(open) /\ Len(open) \in Nat
      /\ \A i \in DOMAIN open : open[i] \in C
  <2>1. open \in Seq(C)
    BY <1>2 DEF C
  <2> QED BY <2>1, SeqFacts, Zenon
<1>5. /\ DOMAIN code = 1 .. Len(code) /\ Len(code) \in Nat
      /\ \A i \in DOMAIN code : code[i] \in Instrs
  BY <1>2, SeqFacts, Zenon
<1>6. DOMAIN slabel_arr = 1 .. Len(slabel_arr) /\ Len(slabel_arr) \in Nat
  BY <1>2
<1> QED BY <1>1, <1>2, <1>3, <1>4, <1>5, <1>6

\* The output only grows, and so do the sets of places in it.
LEMMA CodeGrows ==
    ASSUME TypeOK, NEW s \in Seq(Instrs), code' = code \o s
    PROVE  /\ code' \in Seq(Instrs) /\ DOMAIN code' = 1 .. Len(code) + Len(s)
           /\ Len(code') = Len(code) + Len(s)
           /\ Len(s) \in Nat /\ Len(code) \in Nat /\ DOMAIN code = 1 .. Len(code)
           /\ \A i \in 1 .. Len(code) : code'[i] = code[i] /\ InFunction(i)' = InFunction(i)
           /\ \A i \in 1 .. Len(s) : code'[Len(code) + i] = s[i]
           /\ \A op, label : Positions(op, label) \subseteq Positions(op, label)'
<1>1. code \in Seq(Instrs)
  BY DEF TypeOK
<1>2. /\ code' \in Seq(Instrs) /\ Len(code') = Len(code) + Len(s)
      /\ Len(s) \in Nat /\ Len(code) \in Nat
      /\ \A i \in 1 .. Len(code) : code'[i] = code[i]
      /\ \A i \in 1 .. Len(s) : code'[Len(code) + i] = s[i]
  BY <1>1, ConcatFacts
<1>3. DOMAIN code = 1 .. Len(code)
  BY <1>1
<1>4. DOMAIN code' = 1 .. Len(code) + Len(s)
  BY <1>2
<1>5. ASSUME NEW i \in 1 .. Len(code)
      PROVE  InFunction(i)' = InFunction(i)
  <2>1. \A j \in 1 .. i : code'[j] = code[j]
    BY <1>2
  <2>2. {j \in 1 .. i : code'[j].op = "label" /\ code'[j].label[1] = "begin"}
        = {j \in 1 .. i : code[j].op = "label" /\ code[j].label[1] = "begin"}
    BY <2>1
  <2> QED BY <2>2 DEF InFunction
<1>6. \A op, label : Positions(op, label) \subseteq Positions(op, label)'
  <2>1. \A i \in DOMAIN code : i \in DOMAIN code' /\ code'[i] = code[i]
    BY <1>2, <1>3, <1>4
  <2> QED BY <2>1 DEF Positions
<1> QED BY <1>2, <1>3, <1>4, <1>5, <1>6

-----------------------------------------------------------------------------
(* Depth.                                                                   *)

LEMMA DepthEquation ==
    ASSUME NEW p, DepthIsDefined(p)
    PROVE  /\ IsDepth(p, Structured!Depth(p))
           /\ Structured!Depth(p) \in [DOMAIN p -> Nat]
<1> DEFINE P(d) == IsDepth(p, d)
<1>1. Structured!Depth(p) = CHOOSE d : P(d)
  BY DEF Structured!Depth, IsDepth, Structured!Stmts
<1>2. PICK e \in [DOMAIN p -> Nat] : P(e)
  BY DEF DepthIsDefined
<1> HIDE DEF P
<1>3. P(CHOOSE d : P(d))
  BY <1>2, Zenon
<1>4. IsDepth(p, Structured!Depth(p))
  BY <1>1, <1>3 DEF P
<1>5. Structured!Depth(p) = e
  BY <1>2, <1>4 DEF P, DepthIsDefined
<1> QED BY <1>2, <1>4, <1>5

\* q is p with a statement s, of the depth of its parent or one more, and every
\* other statement has the depth it had.
Deepens(p, s, q) ==
    /\ DepthIsDefined(q)
    /\ \A n \in DOMAIN p : Structured!Depth(q)[n] = Structured!Depth(p)[n]
    /\ Structured!Depth(q)[Len(p) + 1] =
          (IF s.parent = 0 THEN 0 ELSE Structured!Depth(p)[s.parent])
          + (IF s.kind \in Structured!Conditional THEN 1 ELSE 0)

LEMMA DepthGrows ==
    ASSUME NEW p \in Seq(StmtRec), \A n \in DOMAIN p : p[n].parent < n, DepthIsDefined(p),
           NEW s \in StmtRec, s.parent <= Len(p), NEW q, q = Append(p, s)
    PROVE  Deepens(p, s, q)
<1> DEFINE new == Len(p) + 1
           C(r) == IF r.kind \in Structured!Conditional THEN 1 ELSE 0
<1>1. /\ DOMAIN p = 1 .. Len(p) /\ DOMAIN q = 1 .. new /\ Len(p) \in Nat
      /\ \A n \in DOMAIN p : q[n] = p[n]
      /\ q[new] = s
      /\ \A n \in DOMAIN p : p[n] \in StmtRec
  OBVIOUS
<1>2. \A r : C(r) \in Nat
  OBVIOUS
<1> HIDE DEF C
<1>3. \A r \in StmtRec : r.parent \in Nat
  BY DEF StmtRec
<1>4. ASSUME NEW f, NEW d
      PROVE  IsDepth(f, d) <=>
               d = [n \in DOMAIN f |-> (IF f[n].parent = 0 THEN 0 ELSE d[f[n].parent]) + C(f[n])]
  BY DEF IsDepth, C
<1>5. ASSUME NEW d, IsDepth(q, d)
      PROVE  /\ IsDepth(p, [n \in DOMAIN p |-> d[n]])
             /\ d[new] = (IF s.parent = 0 THEN 0 ELSE d[s.parent]) + C(s)
             /\ DOMAIN d = DOMAIN q
  <2> DEFINE e == [n \in DOMAIN p |-> d[n]]
  <2>1. d = [n \in DOMAIN q |-> (IF q[n].parent = 0 THEN 0 ELSE d[q[n].parent]) + C(q[n])]
    BY <1>4, <1>5
  <2>2. \A n \in DOMAIN p : p[n].parent # 0 => p[n].parent \in DOMAIN p
    BY <1>1, <1>3
  <2>3. \A n \in DOMAIN p :
          e[n] = (IF p[n].parent = 0 THEN 0 ELSE e[p[n].parent]) + C(p[n])
    <3> TAKE n \in DOMAIN p
    <3>1. d[n] = (IF q[n].parent = 0 THEN 0 ELSE d[q[n].parent]) + C(q[n])
      <4>1. n \in DOMAIN q
        BY <1>1
      <4> HIDE DEF e
      <4> QED BY <2>1, <4>1
    <3>2. e[n] = d[n] /\ q[n] = p[n]
      BY <1>1
    <3>3. p[n].parent # 0 => e[p[n].parent] = d[p[n].parent]
      BY <2>2
    <3> HIDE DEF e
    <3> QED BY <3>1, <3>2, <3>3
  <2>4. e = [n \in DOMAIN p |-> (IF p[n].parent = 0 THEN 0 ELSE e[p[n].parent]) + C(p[n])]
    BY <2>3
  <2>5. IsDepth(p, e)
    BY <1>4, <2>4
  <2>6. new \in DOMAIN q
    BY <1>1
  <2> QED BY <1>1, <2>1, <2>5, <2>6
<1>6. DepthIsDefined(q)
  <2>1. ASSUME NEW d, NEW e, IsDepth(q, d), IsDepth(q, e)
        PROVE  d = e
    <3>1. [n \in DOMAIN p |-> d[n]] = [n \in DOMAIN p |-> e[n]]
      <4>1. IsDepth(p, [n \in DOMAIN p |-> d[n]]) /\ IsDepth(p, [n \in DOMAIN p |-> e[n]])
        BY <1>5, <2>1
      <4>2. \A f, g : IsDepth(p, f) /\ IsDepth(p, g) => f = g
        BY DEF DepthIsDefined
      <4> QED BY <4>1, <4>2, Zenon
    <3>2. \A n \in DOMAIN p : d[n] = e[n]
      <4> TAKE n \in DOMAIN p
      <4>1. [m \in DOMAIN p |-> d[m]][n] = [m \in DOMAIN p |-> e[m]][n]
        BY <3>1
      <4> QED BY <4>1
    <3>3. s.parent # 0 => s.parent \in DOMAIN p
      BY <1>1, <1>3
    <3>4. d[new] = e[new]
      BY <1>5, <2>1, <3>2, <3>3
    <3>5. \A n \in DOMAIN q : d[n] = e[n]
      BY <1>1, <3>2, <3>4
    <3>6. d = [n \in DOMAIN q |-> d[n]] /\ e = [n \in DOMAIN q |-> e[n]]
      BY <2>1 DEF IsDepth
    <3> QED BY <3>5, <3>6
  <2>2. \E d \in [DOMAIN q -> Nat] : IsDepth(q, d)
    <3>1. PICK e \in [DOMAIN p -> Nat] : IsDepth(p, e)
      BY DEF DepthIsDefined
    <3> DEFINE top == (IF s.parent = 0 THEN 0 ELSE e[s.parent]) + C(s)
               d == [n \in DOMAIN q |-> IF n = new THEN top ELSE e[n]]
    <3>2. s.parent # 0 => s.parent \in DOMAIN p
      BY <1>1, <1>3
    <3>3. top \in Nat
      BY <1>2, <3>2
    <3>4. \A n \in DOMAIN p : d[n] = e[n] /\ n # new
      BY <1>1
    <3>5. d[new] = top
      BY <1>1
    <3>6. d \in [DOMAIN q -> Nat]
      BY <1>1, <3>3
    <3>7. \A n \in DOMAIN p : e[n] = (IF p[n].parent = 0 THEN 0 ELSE e[p[n].parent]) + C(p[n])
      <4>1. e = [n \in DOMAIN p |-> (IF p[n].parent = 0 THEN 0 ELSE e[p[n].parent]) + C(p[n])]
        BY <1>4, <3>1
      <4> QED BY <4>1
    <3>8. \A n \in DOMAIN p : p[n].parent # 0 => p[n].parent \in DOMAIN p
      BY <1>1, <1>3
    <3> HIDE DEF d
    <3>9. \A n \in DOMAIN p :
             d[n] = (IF q[n].parent = 0 THEN 0 ELSE d[q[n].parent]) + C(q[n])
      BY <1>1, <3>4, <3>7, <3>8
    <3>10. d[new] = (IF q[new].parent = 0 THEN 0 ELSE d[q[new].parent]) + C(q[new])
      BY <1>1, <3>2, <3>4, <3>5
    <3>11. \A n \in DOMAIN q : n \in DOMAIN p \/ n = new
      BY <1>1
    <3>12. d = [n \in DOMAIN q |-> d[n]]
      BY <3>6
    <3>13. d = [n \in DOMAIN q |-> (IF q[n].parent = 0 THEN 0 ELSE d[q[n].parent]) + C(q[n])]
      BY <3>9, <3>10, <3>11, <3>12
    <3> QED BY <1>4, <3>6, <3>13
  <2> QED BY <2>1, <2>2 DEF DepthIsDefined
<1> DEFINE D == Structured!Depth(q)
           E == Structured!Depth(p)
<1>7. IsDepth(q, D) /\ IsDepth(p, E) /\ E \in [DOMAIN p -> Nat]
  BY <1>6, DepthEquation
<1> HIDE DEF D, E
<1>8. [n \in DOMAIN p |-> D[n]] = E
  <2>1. IsDepth(p, [n \in DOMAIN p |-> D[n]])
    BY <1>5, <1>7, Zenon
  <2>2. PICK e : e = [n \in DOMAIN p |-> D[n]]
    OBVIOUS
  <2>3. e = E
    BY <1>7, <2>1, <2>2, Zenon DEF DepthIsDefined
  <2> QED BY <2>2, <2>3, Zenon
<1>9. \A n \in DOMAIN p : D[n] = E[n]
  <2> TAKE n \in DOMAIN p
  <2>1. [m \in DOMAIN p |-> D[m]][n] = E[n]
    BY <1>8
  <2> QED BY <2>1
<1>10. s.parent # 0 => s.parent \in DOMAIN p
  BY <1>1, <1>3
<1>11. D[new] = (IF s.parent = 0 THEN 0 ELSE E[s.parent]) + C(s)
  BY <1>5, <1>7, <1>9, <1>10
<1> QED BY <1>6, <1>9, <1>11 DEF C, D, E, Deepens

-----------------------------------------------------------------------------
(* What a step does to the path of open statements.                         *)

OpenTyped == open \in Seq([stmt : DOMAIN prog, slot : {"body", "then", "else"}])

ProgExtends ==
    /\ prog' \in Seq(StmtRec)
    /\ \A n \in DOMAIN prog : n \in DOMAIN prog' /\ prog'[n] = prog[n]

\* Place i of open has the same statements around it as before.
KeptAt(i) ==
    /\ Around(i)' = Around(i)
    /\ Kind(open[i].stmt)' = Kind(open[i].stmt)
    /\ i \in OpenConditionals' <=> i \in OpenConditionals
    /\ open'[i].stmt = open[i].stmt

LEMMA OpenKept ==
    ASSUME TypeOK, Nesting, ProgExtends, NEW i \in DOMAIN open,
           NEW m \in Nat, DOMAIN open' = 1 .. m, i <= m,
           \A j \in 1 .. i : open'[j].stmt = open[j].stmt
    PROVE  KeptAt(i)
<1>1. /\ DOMAIN open = 1 .. Len(open) /\ Len(open) \in Nat
      /\ \A j \in DOMAIN open : open[j].stmt \in DOMAIN prog
  BY StateFacts
<1>2. i \in 1 .. i /\ \A j \in 1 .. i : j \in DOMAIN open /\ j \in Nat
  BY <1>1
<1>3. ASSUME NEW j \in 1 .. i
      PROVE  /\ Kind(open[j].stmt)' = Kind(open[j].stmt)
             /\ j \in OpenConditionals' <=> j \in OpenConditionals
  <2>1. j \in DOMAIN open /\ j \in DOMAIN open' /\ open[j].stmt \in DOMAIN prog
        /\ open'[j].stmt = open[j].stmt
    BY <1>1, <1>2
  <2>2. prog'[open'[j].stmt] = prog[open[j].stmt]
    BY <2>1 DEF ProgExtends
  <2> QED BY <2>1, <2>2 DEF OpenConditionals, Kind
<1>4. Around(i)' = Around(i)
  <2>1. \A j \in OpenConditionals' : j \in 1 .. m
    BY DEF OpenConditionals
  <2>2. \A j \in OpenConditionals : j \in 1 .. Len(open)
    BY <1>1 DEF OpenConditionals
  <2>3. i \in Nat
    BY <1>1
  <2>4. \A j : j \in OpenConditionals /\ j < i <=> j \in 1 .. i /\ j < i /\ j \in OpenConditionals
    BY <1>1, <2>2, <2>3
  <2>5. \A j : j \in OpenConditionals' /\ j < i <=> j \in 1 .. i /\ j < i /\ j \in OpenConditionals'
    BY <2>1, <2>3
  <2>6. \A j : j \in OpenConditionals' /\ j < i <=> j \in OpenConditionals /\ j < i
    BY <1>3, <2>4, <2>5, Zenon
  <2> QED BY <2>6 DEF Around
<1> QED BY <1>2, <1>3, <1>4 DEF KeptAt

LEMMA AroundFacts ==
    ASSUME TypeOK, Nesting
    PROVE  /\ IsFiniteSet(OpenConditionals) /\ OpenConditionals \subseteq 1 .. Len(open)
           /\ Cardinality(OpenConditionals) \in Nat
           /\ \A i : IsFiniteSet(Around(i)) /\ Cardinality(Around(i)) \in Nat
           /\ \A i \in OpenConditionals :
                 /\ Cardinality(Around(i)) < Cardinality(OpenConditionals)
                 /\ \A j \in Around(i) : Cardinality(Around(j)) < Cardinality(Around(i))
           /\ Len(open) \in OpenConditionals =>
                 /\ OpenConditionals = Around(Len(open)) \cup {Len(open)}
                 /\ Cardinality(OpenConditionals) = Cardinality(Around(Len(open))) + 1
           /\ Len(open) \notin OpenConditionals => OpenConditionals = Around(Len(open))
<1>1. OpenConditionals \subseteq 1 .. Len(open) /\ Len(open) \in Nat
  BY StateFacts DEF OpenConditionals
<1>2. IsFiniteSet(OpenConditionals)
  <2>1. IsFiniteSet(1 .. Len(open))
    BY <1>1, FS_Interval
  <2> QED BY <1>1, <2>1, FS_Subset
<1>3. Len(open) \in Int /\ \A i \in OpenConditionals : i \in Int /\ i <= Len(open)
  BY <1>1
<1>4. \A i, j : j \in Around(i) <=> j \in OpenConditionals /\ j < i
  BY DEF Around
<1>5. \A i : Around(i) \subseteq OpenConditionals
  BY DEF Around
<1>6. \A i : IsFiniteSet(Around(i)) /\ Cardinality(Around(i)) \in Nat
  BY <1>2, <1>5, FS_Subset, FS_CardinalityType
<1>7. Cardinality(OpenConditionals) \in Nat
  BY <1>2, FS_CardinalityType
<1>8. ASSUME NEW S, NEW T, T \subseteq S, IsFiniteSet(S), T # S
      PROVE  Cardinality(T) < Cardinality(S)
  <2>1. /\ Cardinality(T) <= Cardinality(S) /\ Cardinality(T) # Cardinality(S)
        /\ Cardinality(T) \in Nat /\ Cardinality(S) \in Nat
    BY <1>8, FS_Subset, FS_CardinalityType
  <2> QED BY <2>1
<1>9. ASSUME NEW i \in OpenConditionals
      PROVE  /\ Cardinality(Around(i)) < Cardinality(OpenConditionals)
             /\ \A j \in Around(i) : Cardinality(Around(j)) < Cardinality(Around(i))
  <2>1. i \notin Around(i)
    BY <1>1 DEF Around
  <2>2. Cardinality(Around(i)) < Cardinality(OpenConditionals)
    BY <1>2, <1>5, <1>8, <2>1
  <2>3. ASSUME NEW j \in Around(i)
        PROVE  Cardinality(Around(j)) < Cardinality(Around(i))
    <3>1. j \in OpenConditionals /\ j \in Int /\ i \in Int /\ j < i
      BY <1>3, <1>4
    <3>2. Around(j) \subseteq Around(i)
      <4> SUFFICES ASSUME NEW k \in Around(j)
                   PROVE  k \in Around(i)
        OBVIOUS
      <4>1. k \in OpenConditionals /\ k \in Int /\ k < j
        BY <1>3, <1>4
      <4>2. k < i
        BY <3>1, <4>1
      <4> QED BY <1>4, <4>1, <4>2
    <3>3. j \notin Around(j)
      BY <1>4, <3>1
    <3> QED BY <1>6, <1>8, <3>2, <3>3
  <2> QED BY <2>2, <2>3
<1>10. ASSUME Len(open) \in OpenConditionals
      PROVE  /\ OpenConditionals = Around(Len(open)) \cup {Len(open)}
             /\ Cardinality(OpenConditionals) = Cardinality(Around(Len(open))) + 1
  <2>1. /\ OpenConditionals = Around(Len(open)) \cup {Len(open)}
        /\ Len(open) \notin Around(Len(open))
    <3> DEFINE n == Len(open)
    <3>1. n \in OpenConditionals /\ n \in Int /\ \A i \in OpenConditionals : i \in Int /\ i <= n
      BY <1>10, <1>3
    <3> HIDE DEF n
    <3>2. n \notin Around(n)
      BY <1>4, <3>1
    <3>3. ASSUME NEW i \in OpenConditionals, i # n
          PROVE  i \in Around(n)
      <4>1. i \in Int /\ i <= n /\ n \in Int
        BY <3>1
      <4>2. i < n
        BY <3>3, <4>1
      <4> QED BY <1>4, <4>2
    <3>4. Around(n) \subseteq OpenConditionals
      BY <1>4
    <3>5. OpenConditionals = Around(n) \cup {n}
      BY <3>1, <3>3, <3>4
    <3> QED BY <3>2, <3>5 DEF n
  <2>2. Cardinality(Around(Len(open)) \cup {Len(open)}) = Cardinality(Around(Len(open))) + 1
    BY <1>6, <2>1, FS_AddElement
  <2> QED BY <2>1, <2>2
<1>11. Len(open) \notin OpenConditionals => OpenConditionals = Around(Len(open))
  <2> DEFINE n == Len(open)
  <2>1. n \in Int /\ \A i \in OpenConditionals : i \in Int /\ i <= n
    BY <1>3
  <2> HIDE DEF n
  <2>2. n \notin OpenConditionals => OpenConditionals = Around(n)
    BY <1>4, <2>1
  <2> QED BY <2>2 DEF n
<1> QED BY <1>1, <1>2, <1>6, <1>7, <1>9, <1>10, <1>11

\* What adding a statement does to the program.
LEMMA ProgGrows ==
    ASSUME IInv, NEW s \in StmtRec, s.parent <= Len(prog), prog' = Append(prog, s)
    PROVE  /\ ProgExtends /\ DOMAIN prog' = 1 .. New /\ New \in Nat /\ New \notin DOMAIN prog
           /\ prog'[New] = s
           /\ \A n \in DOMAIN prog' : prog'[n].parent < n
           /\ DepthIsDefined(prog')
           /\ \A n \in DOMAIN prog : Structured!Depth(prog')[n] = Structured!Depth(prog)[n]
           /\ Structured!Depth(prog')[New] =
                 (IF s.parent = 0 THEN 0 ELSE Structured!Depth(prog)[s.parent])
                 + (IF s.kind \in Structured!Conditional THEN 1 ELSE 0)
           /\ WithinLimit' => WithinLimit /\ Structured!Depth(prog')[New] <= STACK_SIZ
<1>1. /\ prog \in Seq(StmtRec) /\ \A n \in DOMAIN prog : prog[n].parent < n
      /\ DepthIsDefined(prog)
  BY DEF IInv, Nesting, Path
<1>2. /\ prog' \in Seq(StmtRec) /\ Len(prog') = Len(prog) + 1 /\ Len(prog) \in Nat
      /\ \A n \in 1 .. Len(prog) : prog'[n] = prog[n]
      /\ prog'[Len(prog) + 1] = s
  BY <1>1, AppendFacts
<1>3. DOMAIN prog = 1 .. Len(prog) /\ DOMAIN prog' = 1 .. Len(prog')
  BY <1>1, <1>2, SeqFacts
<1>4. /\ ProgExtends /\ DOMAIN prog' = 1 .. New /\ New \in Nat /\ New \notin DOMAIN prog
      /\ prog'[New] = s
  BY <1>2, <1>3 DEF ProgExtends, New
<1>5. \A n \in DOMAIN prog' : prog'[n].parent < n
  <2> TAKE n \in DOMAIN prog'
  <2>1. CASE n = New
    BY <1>2, <1>4, <2>1 DEF New, StmtRec
  <2>2. CASE n # New
    BY <1>1, <1>2, <1>3, <2>2 DEF New
  <2> QED BY <2>1, <2>2
<1>6. /\ DepthIsDefined(prog')
      /\ \A n \in DOMAIN prog : Structured!Depth(prog')[n] = Structured!Depth(prog)[n]
      /\ Structured!Depth(prog')[New] =
            (IF s.parent = 0 THEN 0 ELSE Structured!Depth(prog)[s.parent])
            + (IF s.kind \in Structured!Conditional THEN 1 ELSE 0)
  <2>1. Deepens(prog, s, prog')
    BY <1>1, DepthGrows, Zenon
  <2> QED BY <2>1, Zenon DEF Deepens, New
<1>7. ASSUME WithinLimit'
      PROVE  WithinLimit /\ Structured!Depth(prog')[New] <= STACK_SIZ
  <2>1. \A n \in DOMAIN prog' : Structured!Depth(prog')[n] <= STACK_SIZ
    BY <1>7 DEF WithinLimit
  <2>2. New \in DOMAIN prog'
    BY <1>4
  <2> QED BY <1>3, <1>4, <1>6, <2>1, <2>2 DEF WithinLimit, ProgExtends
<1> QED BY <1>4, <1>5, <1>6, <1>7

\* What a step keeps that says nothing of labels.
PathKept ==
    /\ ProgExtends /\ OpenTyped' /\ Path' /\ DepthIsDefined(prog') /\ Deep'
    /\ WithinLimit' => WithinLimit

LEMMA BeginFacts ==
    ASSUME IInv, NEW kind \in Structured!StmtKind \ {"function"}, BeginStmt(kind)
    PROVE  LET s == Structured!Stmt(kind, Context.stmt, Context.slot)
           IN  /\ s \in StmtRec /\ prog' = Append(prog, s) /\ s.kind = kind
               /\ s.parent = Context.stmt /\ s.parent <= Len(prog) /\ s.parent # 0
               /\ expect = "stmt" /\ open # << >> /\ Len(open) \in Nat \ {0}
               /\ Context = open[Len(open)] /\ Len(open) \in DOMAIN open
<1> DEFINE s == Structured!Stmt(kind, Context.stmt, Context.slot)
<1>1. expect = "stmt" /\ prog' = Append(prog, s)
  BY DEF BeginStmt
<1>2. TypeOK /\ Nesting /\ open # << >>
  BY <1>1 DEF IInv, Nesting
<1>3. /\ DOMAIN open = 1 .. Len(open) /\ Len(open) \in Nat /\ DOMAIN prog = 1 .. Len(prog)
      /\ Len(prog) \in Nat
      /\ \A i \in DOMAIN open : open[i].stmt \in DOMAIN prog /\ open[i].slot \in {"body", "then", "else"}
  BY <1>2, StateFacts
<1>4. Len(open) \in Nat \ {0}
  BY <1>2, FrontFacts DEF TypeOK
<1>5. Context = open[Len(open)] /\ Len(open) \in DOMAIN open
  BY <1>3, <1>4 DEF Context, Last
<1>6. Context.stmt \in 1 .. Len(prog) /\ Context.slot \in {"body", "then", "else"}
  BY <1>3, <1>5
<1>7. s = [kind |-> kind, parent |-> Context.stmt, slot |-> Context.slot]
  BY DEF Structured!Stmt
<1>8. s \in StmtRec /\ s.kind = kind /\ s.parent = Context.stmt
  BY <1>3, <1>6, <1>7 DEF StmtRec
<1>9. s.parent <= Len(prog) /\ s.parent # 0
  BY <1>3, <1>6, <1>8
<1> HIDE DEF s
<1> QED BY <1>1, <1>2, <1>4, <1>5, <1>8, <1>9 DEF s

\* A statement without others in it.
LEMMA AddStatement ==
    ASSUME IInv, NEW kind \in Structured!Leaf, BeginStmt(kind), open' = open
    PROVE  PathKept /\ OpenConditionals' = OpenConditionals /\ \A i \in DOMAIN open : KeptAt(i)
<1> DEFINE s == Structured!Stmt(kind, Context.stmt, Context.slot)
<1>1. kind \in Structured!StmtKind \ {"function"}
  BY DEF Structured!StmtKind, Structured!Leaf
<1>2. /\ s \in StmtRec /\ prog' = Append(prog, s)
      /\ s.parent <= Len(prog) /\ s.parent # 0
  BY <1>1, BeginFacts
<1> HIDE DEF s
<1>3. /\ TypeOK /\ Nesting /\ Path /\ Deep /\ OpenTyped
  BY DEF IInv, Nesting, TypeOK, OpenTyped
<1>4. /\ ProgExtends /\ DepthIsDefined(prog')
      /\ \A n \in DOMAIN prog' : prog'[n].parent < n
      /\ \A n \in DOMAIN prog : Structured!Depth(prog')[n] = Structured!Depth(prog)[n]
      /\ WithinLimit' => WithinLimit
  BY <1>2, ProgGrows
<1>5. /\ DOMAIN open = 1 .. Len(open) /\ Len(open) \in Nat
      /\ \A i \in DOMAIN open : open[i].stmt \in DOMAIN prog
  BY <1>3, StateFacts
<1>6. ASSUME NEW i \in DOMAIN open
      PROVE  KeptAt(i)
  <2>1. Len(open) \in Nat /\ DOMAIN open' = 1 .. Len(open) /\ i <= Len(open)
    BY <1>5
  <2>2. \A j \in 1 .. i : open'[j].stmt = open[j].stmt
    OBVIOUS
  <2> QED BY <1>3, <1>4, <2>1, <2>2, OpenKept
<1>7. OpenConditionals' = OpenConditionals
  <2>1. \A i \in DOMAIN open : i \in OpenConditionals' <=> i \in OpenConditionals
    BY <1>6 DEF KeptAt
  <2> QED BY <2>1 DEF OpenConditionals
<1>8. OpenTyped'
  <2>1. DOMAIN prog \subseteq DOMAIN prog'
    BY <1>4 DEF ProgExtends
  <2>2. [stmt : DOMAIN prog, slot : {"body", "then", "else"}]
        \subseteq [stmt : DOMAIN prog', slot : {"body", "then", "else"}]
    BY <2>1
  <2>3. open \in Seq([stmt : DOMAIN prog', slot : {"body", "then", "else"}])
    BY <1>3, <2>2, SeqOfMore, Zenon DEF OpenTyped
  <2> QED BY <2>3 DEF OpenTyped
<1>9. Path'
  <2>1. \A i \in DOMAIN open : Kind(open[i].stmt)' = Kind(open[i].stmt)
    BY <1>6 DEF KeptAt
  <2>2. \A i \in DOMAIN open : prog'[open[i].stmt] = prog[open[i].stmt]
    BY <1>4, <1>5 DEF ProgExtends
  <2> QED BY <1>3, <1>4, <2>1, <2>2 DEF Path, ProgExtends
<1>10. Deep'
  <2> SUFFICES ASSUME NEW i \in DOMAIN open
               PROVE  Structured!Depth(prog')[open[i].stmt] =
                        Cardinality(Around(i)') + (IF Conditional(i)' THEN 1 ELSE 0)
    BY DEF Deep
  <2>1. Structured!Depth(prog)[open[i].stmt] =
          Cardinality(Around(i)) + (IF Conditional(i) THEN 1 ELSE 0)
    BY <1>3 DEF Deep
  <2>2. Around(i)' = Around(i) /\ (Conditional(i)' <=> Conditional(i))
    BY <1>6 DEF KeptAt, Conditional
  <2> QED BY <1>4, <1>5, <2>1, <2>2
<1> QED BY <1>4, <1>6, <1>7, <1>8, <1>9, <1>10 DEF PathKept

\* A statement with others in it.
LEMMA OpenStatement ==
    ASSUME IInv, NEW kind \in Structured!StmtKind \ {"function"}, BeginStmt(kind),
           NEW slot \in {"body", "then", "else"}, kind = "if" <=> slot \in {"then", "else"},
           open' = Append(open, In(New, slot)), NEW n, n = Len(open) + 1
    PROVE  /\ PathKept
           /\ open # << >> /\ DOMAIN open' = 1 .. n /\ Len(open') = n
           /\ Len(open) \in Nat /\ n \notin DOMAIN open
           /\ open'[n] = In(New, slot) /\ Kind(open[n].stmt)' = kind
           /\ \A i \in DOMAIN open : KeptAt(i) /\ open'[i] = open[i]
           /\ OpenConditionals' =
                 OpenConditionals \cup (IF kind \in Structured!Conditional THEN {n} ELSE {})
           /\ Around(n)' = OpenConditionals
           /\ WithinLimit' /\ kind \in Structured!Conditional
                 => Cardinality(OpenConditionals) < STACK_SIZ
<1> DEFINE s == Structured!Stmt(kind, Context.stmt, Context.slot)
           new == In(New, slot)
<1>1. /\ s \in StmtRec /\ prog' = Append(prog, s) /\ s.kind = kind
      /\ s.parent = Context.stmt /\ s.parent <= Len(prog) /\ s.parent # 0
      /\ open # << >> /\ Len(open) \in Nat \ {0}
      /\ Context = open[Len(open)] /\ Len(open) \in DOMAIN open
  BY BeginFacts
<1> HIDE DEF s
<1>2. /\ TypeOK /\ Nesting /\ Path /\ Deep /\ OpenTyped
  BY DEF IInv, Nesting, TypeOK, OpenTyped
<1>3. /\ ProgExtends /\ DepthIsDefined(prog') /\ DOMAIN prog' = 1 .. New /\ New \in Nat
      /\ prog'[New] = s
      /\ \A k \in DOMAIN prog' : prog'[k].parent < k
      /\ \A k \in DOMAIN prog : Structured!Depth(prog')[k] = Structured!Depth(prog)[k]
      /\ Structured!Depth(prog')[New] =
            Structured!Depth(prog)[Context.stmt] + (IF kind \in Structured!Conditional THEN 1 ELSE 0)
      /\ WithinLimit' => WithinLimit /\ Structured!Depth(prog')[New] <= STACK_SIZ
  BY <1>1, ProgGrows
<1>4. /\ DOMAIN open = 1 .. Len(open) /\ Len(open) \in Nat /\ DOMAIN prog = 1 .. Len(prog)
      /\ Len(prog) \in Nat
      /\ \A i \in DOMAIN open : open[i].stmt \in DOMAIN prog
  BY <1>2, StateFacts
<1>5. new.stmt = New /\ new.slot = slot
  BY DEF In
<1>6. OpenTyped' /\ DOMAIN open' = 1 .. n /\ Len(open') = n /\ open'[n] = new
      /\ \A i \in DOMAIN open : open'[i] = open[i]
  <2> DEFINE C(p) == [stmt : DOMAIN p, slot : {"body", "then", "else"}]
  <2>1. DOMAIN prog \subseteq DOMAIN prog' /\ New \in DOMAIN prog'
    BY <1>3, <1>4 DEF ProgExtends, New
  <2>2. C(prog) \subseteq C(prog') /\ new \in C(prog')
    BY <2>1 DEF In
  <2>3. open \in Seq(C(prog))
    BY <1>2 DEF OpenTyped
  <2> HIDE DEF C, new
  <2>4. open \in Seq(C(prog'))
    BY <2>2, <2>3, SeqOfMore
  <2>5. /\ open' \in Seq(C(prog')) /\ Len(open') = n
        /\ \A i \in 1 .. Len(open) : open'[i] = open[i]
        /\ open'[n] = new
    BY <2>2, <2>4, AppendFacts DEF new
  <2>6. DOMAIN open' = 1 .. n
    BY <2>5, SeqFacts
  <2> QED BY <1>4, <2>5, <2>6 DEF OpenTyped, C
<1> HIDE DEF new
<1>7. ASSUME NEW i \in DOMAIN open
      PROVE  KeptAt(i)
  <2>1. n \in Nat /\ DOMAIN open' = 1 .. n /\ i <= n
    BY <1>4, <1>6
  <2>2. \A j \in 1 .. i : open'[j].stmt = open[j].stmt
    BY <1>4, <1>6
  <2> QED BY <1>2, <1>3, <2>1, <2>2, OpenKept
<1>8. n \notin DOMAIN open /\ n \in Nat /\ n \in DOMAIN open'
      /\ \A i : i \in DOMAIN open' <=> i \in DOMAIN open \/ i = n
  BY <1>4, <1>6
<1>9. Kind(open[n].stmt)' = kind
  BY <1>1, <1>3, <1>5, <1>6 DEF Kind
<1>10. OpenConditionals' = OpenConditionals \cup (IF kind \in Structured!Conditional THEN {n} ELSE {})
  <2>1. \A i \in DOMAIN open : i \in OpenConditionals' <=> i \in OpenConditionals
    BY <1>7 DEF KeptAt
  <2>2. n \in OpenConditionals' <=> kind \in Structured!Conditional
    BY <1>8, <1>9 DEF OpenConditionals
  <2>3. OpenConditionals' \subseteq DOMAIN open' /\ OpenConditionals \subseteq DOMAIN open
    BY DEF OpenConditionals
  <2> QED BY <1>8, <2>1, <2>2, <2>3
<1>11. Around(n)' = OpenConditionals
  <2>1. \A i \in OpenConditionals : i \in DOMAIN open
    BY DEF OpenConditionals
  <2>2. \A i : i \in OpenConditionals' /\ i < n <=> i \in OpenConditionals
    BY <1>4, <1>10, <2>1
  <2> QED BY <2>2 DEF Around
<1>12. Path'
  <2>1. \A i \in DOMAIN open : /\ Kind(open[i].stmt)' = Kind(open[i].stmt)
                               /\ prog'[open[i].stmt] = prog[open[i].stmt]
    BY <1>3, <1>4, <1>7 DEF KeptAt, ProgExtends
  <2>2. ASSUME NEW i \in DOMAIN open'
        PROVE  /\ prog'[open'[i].stmt].parent = IF i = 1 THEN 0 ELSE open'[i - 1].stmt
               /\ Kind(open[i].stmt)' = "function" <=> i = 1
               /\ Kind(open[i].stmt)' = "if" <=> open'[i].slot \in {"then", "else"}
    <3>1. CASE i \in DOMAIN open
      <4>1. i # 1 => i - 1 \in DOMAIN open
        BY <1>4, <3>1
      <4> QED BY <1>2, <1>6, <2>1, <3>1, <4>1 DEF Path
    <3>2. CASE i = n
      <4>1. i # 1 /\ i - 1 = Len(open)
        BY <1>1, <3>2
      <4>2. prog'[open'[i].stmt].parent = open'[i - 1].stmt
        BY <1>1, <1>3, <1>5, <1>6, <3>2, <4>1
      <4>3. kind # "function"
        OBVIOUS
      <4> QED BY <1>5, <1>6, <1>9, <3>2, <4>1, <4>2, <4>3
    <3> QED BY <1>8, <3>1, <3>2
  <2> QED BY <1>3, <2>2 DEF Path, ProgExtends
<1>13. Structured!Depth(prog)[Context.stmt] = Cardinality(OpenConditionals)
  <2>1. Structured!Depth(prog)[Context.stmt] =
          Cardinality(Around(Len(open))) + (IF Conditional(Len(open)) THEN 1 ELSE 0)
    BY <1>1, <1>2 DEF Deep
  <2>2. Conditional(Len(open)) <=> Len(open) \in OpenConditionals
    BY <1>1 DEF Conditional, OpenConditionals
  <2>3. /\ Cardinality(Around(Len(open))) \in Nat
        /\ Len(open) \in OpenConditionals =>
             Cardinality(OpenConditionals) = Cardinality(Around(Len(open))) + 1
        /\ Len(open) \notin OpenConditionals => OpenConditionals = Around(Len(open))
    BY <1>2, AroundFacts
  <2> QED BY <2>1, <2>2, <2>3
<1>14. Deep'
  <2> SUFFICES ASSUME NEW i \in DOMAIN open'
               PROVE  Structured!Depth(prog')[open'[i].stmt] =
                        Cardinality(Around(i)') + (IF Conditional(i)' THEN 1 ELSE 0)
    BY DEF Deep
  <2>1. CASE i \in DOMAIN open
    <3>1. Structured!Depth(prog)[open[i].stmt] =
            Cardinality(Around(i)) + (IF Conditional(i) THEN 1 ELSE 0)
      BY <1>2, <2>1 DEF Deep
    <3>2. Around(i)' = Around(i) /\ (Conditional(i)' <=> Conditional(i))
      BY <1>7, <2>1 DEF KeptAt, Conditional
    <3> QED BY <1>3, <1>4, <1>6, <2>1, <3>1, <3>2
  <2>2. CASE i = n
    <3>1. Conditional(n)' <=> kind \in Structured!Conditional
      BY <1>9 DEF Conditional
    <3> QED BY <1>3, <1>5, <1>6, <1>11, <1>13, <2>2, <3>1
  <2> QED BY <1>8, <2>1, <2>2
<1>15. WithinLimit' /\ kind \in Structured!Conditional => Cardinality(OpenConditionals) < STACK_SIZ
  <2>1. Cardinality(OpenConditionals) \in Nat
    BY <1>2, AroundFacts
  <2> QED BY <1>3, <1>13, <2>1, SizeAssumption
<1> QED BY <1>1, <1>3, <1>4, <1>6, <1>7, <1>8, <1>9, <1>10, <1>11, <1>12, <1>14, <1>15
    DEF PathKept, new

\* Steps that add no statement.
LEMMA SameProgram ==
    ASSUME IInv, prog' = prog
    PROVE  /\ ProgExtends /\ DepthIsDefined(prog') /\ (WithinLimit' <=> WithinLimit)
           /\ TypeOK /\ Nesting /\ Path /\ Deep /\ OpenTyped
<1>1. /\ TypeOK /\ Nesting /\ Path /\ Deep /\ OpenTyped /\ DepthIsDefined(prog)
  BY DEF IInv, Nesting, TypeOK, OpenTyped
<1>2. ProgExtends
  BY <1>1 DEF Path, ProgExtends
<1> QED BY <1>1, <1>2 DEF WithinLimit

LEMMA SameStatements ==
    ASSUME IInv, prog' = prog, open' = open
    PROVE  PathKept /\ OpenConditionals' = OpenConditionals /\ \A i \in DOMAIN open : KeptAt(i)
<1>1. /\ ProgExtends /\ DepthIsDefined(prog') /\ (WithinLimit' <=> WithinLimit)
      /\ Path /\ Deep /\ OpenTyped
  BY SameProgram
<1>2. OpenTyped' /\ Path'
  BY <1>1 DEF OpenTyped, Path, Kind
<1>3. OpenConditionals' = OpenConditionals
  BY DEF OpenConditionals, Kind
<1>4. \A i : Around(i)' = Around(i)
  BY <1>3 DEF Around
<1>5. \A i : Conditional(i)' = Conditional(i)
  BY DEF Conditional, Kind
<1>6. Deep'
  BY <1>1, <1>4, <1>5 DEF Deep
<1>7. \A i \in DOMAIN open : KeptAt(i)
  BY <1>3, <1>4 DEF KeptAt, Kind
<1> QED BY <1>1, <1>2, <1>3, <1>6, <1>7 DEF PathKept

\* Places of open that stay, with the statements they have.
LEMMA StatementsLeft ==
    ASSUME IInv, prog' = prog, NEW m \in Nat, m <= Len(open),
           DOMAIN open' = 1 .. m, OpenTyped',
           \A i \in 1 .. m : open'[i].stmt = open[i].stmt,
           \A i \in 1 .. m : open'[i].slot \in {"then", "else"} <=> open[i].slot \in {"then", "else"}
    PROVE  /\ PathKept /\ \A i \in 1 .. m : i \in DOMAIN open /\ KeptAt(i)
           /\ OpenConditionals' = OpenConditionals \cap 1 .. m
<1>1. /\ ProgExtends /\ DepthIsDefined(prog') /\ (WithinLimit' <=> WithinLimit)
      /\ TypeOK /\ Nesting /\ Path /\ Deep /\ OpenTyped
  BY SameProgram
<1>2. DOMAIN open = 1 .. Len(open) /\ Len(open) \in Nat
  BY <1>1, StateFacts
<1>3. ASSUME NEW i \in 1 .. m
      PROVE  i \in DOMAIN open /\ KeptAt(i)
  <2>1. i \in DOMAIN open /\ i <= m /\ i \in Nat
    BY <1>2
  <2>2. \A j \in 1 .. i : open'[j].stmt = open[j].stmt
    BY <2>1
  <2> QED BY <1>1, <2>1, <2>2, OpenKept
<1>4. OpenConditionals' = OpenConditionals \cap 1 .. m
  <2>1. \A i \in 1 .. m : i \in OpenConditionals' <=> i \in OpenConditionals
    BY <1>3 DEF KeptAt
  <2>2. OpenConditionals' \subseteq 1 .. m
    BY DEF OpenConditionals
  <2> QED BY <2>1, <2>2
<1>5. Path'
  <2> SUFFICES ASSUME NEW i \in 1 .. m
               PROVE  /\ prog'[open'[i].stmt].parent = IF i = 1 THEN 0 ELSE open'[i - 1].stmt
                      /\ Kind(open[i].stmt)' = "function" <=> i = 1
                      /\ Kind(open[i].stmt)' = "if" <=> open'[i].slot \in {"then", "else"}
    BY <1>1 DEF Path
  <2>1. i \in DOMAIN open /\ (i # 1 => i - 1 \in 1 .. m)
    BY <1>3
  <2>2. /\ prog[open[i].stmt].parent = IF i = 1 THEN 0 ELSE open[i - 1].stmt
        /\ Kind(open[i].stmt) = "function" <=> i = 1
        /\ Kind(open[i].stmt) = "if" <=> open[i].slot \in {"then", "else"}
    BY <1>1, <2>1 DEF Path
  <2>3. Kind(open[i].stmt)' = Kind(open[i].stmt)
    BY <1>3 DEF KeptAt
  <2> QED BY <2>1, <2>2, <2>3
<1>6. Deep'
  <2> SUFFICES ASSUME NEW i \in 1 .. m
               PROVE  Structured!Depth(prog')[open'[i].stmt] =
                        Cardinality(Around(i)') + (IF Conditional(i)' THEN 1 ELSE 0)
    BY DEF Deep
  <2>1. Structured!Depth(prog)[open[i].stmt] =
          Cardinality(Around(i)) + (IF Conditional(i) THEN 1 ELSE 0)
    BY <1>1, <1>3 DEF Deep
  <2>2. Around(i)' = Around(i) /\ (Conditional(i)' <=> Conditional(i))
    BY <1>3 DEF KeptAt, Conditional
  <2> QED BY <2>1, <2>2
<1> QED BY <1>1, <1>3, <1>4, <1>5, <1>6 DEF PathKept

LEMMA InnermostFacts ==
    ASSUME IInv, open # << >>, NEW n, n = Len(open)
    PROVE  /\ n \in Nat \ {0} /\ n \in DOMAIN open /\ Context = open[n]
           /\ DOMAIN open = 1 .. n /\ Context.stmt \in DOMAIN prog
           /\ Kind(Context.stmt) = "function" <=> n = 1
           /\ Kind(Context.stmt) = "if" <=> Context.slot \in {"then", "else"}
           /\ Context.slot \in {"body", "then", "else"}
<1>1. TypeOK /\ Nesting /\ Path
  BY DEF IInv, Nesting
<1>2. /\ DOMAIN open = 1 .. n /\ n \in Nat
      /\ \A i \in DOMAIN open :
            open[i].stmt \in DOMAIN prog /\ open[i].slot \in {"body", "then", "else"}
  BY <1>1, StateFacts
<1>3. n # 0
  BY FrontFacts, <1>1 DEF TypeOK
<1>4. n \in DOMAIN open /\ Context = open[n]
  BY <1>2, <1>3 DEF Context, Last
<1> QED BY <1>1, <1>2, <1>3, <1>4 DEF Path

\* The end of a statement with others in it.
LEMMA CloseStatement ==
    ASSUME IInv, open # << >>, prog' = prog, open' = Front(open), NEW n, n = Len(open)
    PROVE  /\ PathKept
           /\ DOMAIN open' = 1 .. n - 1 /\ n \in Nat \ {0} /\ n \in DOMAIN open
           /\ \A i \in 1 .. n - 1 : i \in DOMAIN open /\ KeptAt(i) /\ open'[i] = open[i]
           /\ OpenConditionals' = OpenConditionals \ {n}
<1>1. /\ TypeOK /\ Nesting /\ OpenTyped
  BY SameProgram
<1>2. /\ OpenTyped' /\ Len(open') = n - 1 /\ n \in Nat \ {0}
      /\ \A i \in 1 .. n - 1 : open'[i] = open[i]
  BY <1>1, FrontFacts DEF OpenTyped
<1>3. DOMAIN open' = 1 .. n - 1
  BY <1>2, SeqFacts DEF OpenTyped
<1>4. n - 1 \in Nat /\ n - 1 <= Len(open)
  BY <1>2
<1>5. /\ PathKept /\ \A i \in 1 .. n - 1 : i \in DOMAIN open /\ KeptAt(i)
      /\ OpenConditionals' = OpenConditionals \cap 1 .. n - 1
  BY <1>2, <1>3, <1>4, StatementsLeft
<1>6. OpenConditionals \cap 1 .. n - 1 = OpenConditionals \ {n}
  <2>1. OpenConditionals \subseteq 1 .. n
    BY <1>1, AroundFacts
  <2>2. 1 .. n - 1 = (1 .. n) \ {n}
    BY <1>2
  <2> QED BY <2>1, <2>2
<1>7. n \in DOMAIN open
  BY InnermostFacts
<1> QED BY <1>2, <1>3, <1>5, <1>6, <1>7

\* From the first branch of an if to its second.
LEMMA SecondBranch ==
    ASSUME IInv, open # << >>, prog' = prog, Context.slot = "then",
           open' = Append(Front(open), In(Context.stmt, "else")), NEW n, n = Len(open)
    PROVE  /\ PathKept
           /\ DOMAIN open' = 1 .. n /\ n \in Nat \ {0} /\ n \in DOMAIN open
           /\ \A i \in DOMAIN open : KeptAt(i)
           /\ \A i \in 1 .. n - 1 : i \in DOMAIN open /\ open'[i] = open[i]
           /\ open'[n] = In(Context.stmt, "else") /\ Context = open[n]
           /\ OpenConditionals' = OpenConditionals
<1> DEFINE C == [stmt : DOMAIN prog, slot : {"body", "then", "else"}]
           last_ == In(Context.stmt, "else")
<1>1. /\ TypeOK /\ Nesting /\ OpenTyped
  BY SameProgram
<1>2. /\ n \in Nat \ {0} /\ n \in DOMAIN open /\ Context = open[n]
      /\ DOMAIN open = 1 .. n /\ Context.stmt \in DOMAIN prog
  BY InnermostFacts
<1>3. last_ \in C /\ last_.stmt = Context.stmt /\ last_.slot = "else"
  BY <1>2 DEF In
<1> HIDE DEF last_, C
<1>4. /\ Front(open) \in Seq(C) /\ Len(Front(open)) = n - 1
      /\ \A i \in 1 .. n - 1 : Front(open)[i] = open[i]
  BY <1>1, FrontFacts DEF OpenTyped, C
<1>5. /\ open' \in Seq(C) /\ Len(open') = n - 1 + 1
      /\ \A i \in 1 .. n - 1 : open'[i] = Front(open)[i]
      /\ open'[n - 1 + 1] = last_
  BY <1>3, <1>4, AppendFacts DEF last_
<1>6. n - 1 + 1 = n
  BY <1>2
<1>7. DOMAIN open' = 1 .. n
  BY <1>5, <1>6, SeqFacts
<1>8. OpenTyped'
  BY <1>5 DEF OpenTyped, C
<1>9. \A i \in 1 .. n : i = n \/ i \in 1 .. n - 1
  BY <1>2
<1>10. \A i \in 1 .. n :
          /\ open'[i].stmt = open[i].stmt
          /\ open'[i].slot \in {"then", "else"} <=> open[i].slot \in {"then", "else"}
  BY <1>2, <1>3, <1>4, <1>5, <1>6, <1>9
<1>11. /\ PathKept /\ \A i \in 1 .. n : i \in DOMAIN open /\ KeptAt(i)
       /\ OpenConditionals' = OpenConditionals \cap 1 .. n
  <2>1. n \in Nat /\ n <= Len(open)
    BY <1>2
  <2> QED BY <1>7, <1>8, <1>10, <2>1, StatementsLeft
<1>12. OpenConditionals \subseteq 1 .. n
  BY <1>1, AroundFacts
<1>13. \A i \in 1 .. n - 1 : i \in DOMAIN open /\ open'[i] = open[i]
  BY <1>2, <1>4, <1>5
<1> QED BY <1>2, <1>5, <1>6, <1>7, <1>11, <1>12, <1>13 DEF last_

LEMMA OutsideFacts ==
    ASSUME IInv, expect \in {"top", "decls", "run", "halted"}
    PROVE  open = << >> /\ DOMAIN open = {} /\ Len(open) = 0 /\ OpenConditionals = {}
<1>1. open = << >>
  BY DEF IInv, TypeOK
<1> QED BY <1>1 DEF OpenConditionals

LEMMA BeginFunction ==
    ASSUME IInv, FuncBegin
    PROVE  /\ PathKept /\ DOMAIN open' = 1 .. 1 /\ Len(open') = 1
           /\ open'[1] = In(New, "body") /\ DOMAIN prog' = DOMAIN prog \cup {New}
           /\ New \notin DOMAIN prog /\ New \in Nat
           /\ OpenConditionals = {} /\ OpenConditionals' = {}
<1> DEFINE s == Structured!Stmt("function", 0, "body")
           new == In(New, "body")
           C(p) == [stmt : DOMAIN p, slot : {"body", "then", "else"}]
<1>1. /\ expect \in {"top", "decls"} /\ prog' = Append(prog, s) /\ open' = <<new>>
  BY DEF FuncBegin
<1>2. open = << >> /\ OpenConditionals = {}
  BY <1>1, OutsideFacts
<1>3. /\ TypeOK /\ Nesting /\ Path
  BY DEF IInv, Nesting
<1>4. Len(prog) \in Nat /\ DOMAIN prog = 1 .. Len(prog)
  BY <1>3, StateFacts
<1>5. /\ s \in StmtRec /\ s.parent = 0 /\ s.kind = "function" /\ s.parent <= Len(prog)
      /\ s.kind \notin Structured!Conditional
  BY <1>4 DEF Structured!Stmt, StmtRec, Structured!StmtKind, Structured!Conditional
<1> HIDE DEF s
<1>6. /\ ProgExtends /\ DepthIsDefined(prog') /\ DOMAIN prog' = 1 .. New /\ New \in Nat
      /\ New \notin DOMAIN prog /\ prog'[New] = s
      /\ \A k \in DOMAIN prog' : prog'[k].parent < k
      /\ Structured!Depth(prog')[New] = 0
      /\ WithinLimit' => WithinLimit
  BY <1>1, <1>5, ProgGrows
<1>7. DOMAIN prog' = DOMAIN prog \cup {New} /\ New \in DOMAIN prog'
  <2>1. 1 .. Len(prog) + 1 = (1 .. Len(prog)) \cup {Len(prog) + 1}
    BY <1>4
  <2> QED BY <1>4, <1>6, <2>1 DEF New
<1>8. new \in C(prog') /\ new.stmt = New /\ new.slot = "body"
  BY <1>7 DEF In
<1> HIDE DEF new, C
<1>9. open' \in Seq(C(prog')) /\ Len(open') = 1 /\ open'[1] = new
  BY <1>1, <1>8, OneInstr
<1>10. DOMAIN open' = 1 .. 1
  BY <1>9, SeqFacts
<1>11. Kind(open[1].stmt)' = "function"
  BY <1>5, <1>6, <1>8, <1>9 DEF Kind
<1>12. OpenConditionals' = {}
  <2>1. \A i \in 1 .. 1 : i = 1
    OBVIOUS
  <2> QED BY <1>10, <1>11, <2>1 DEF OpenConditionals, Structured!Conditional
<1>13. Path'
  <2>1. \A i \in 1 .. 1 : i = 1
    OBVIOUS
  <2>2. ASSUME NEW i \in DOMAIN open'
        PROVE  /\ prog'[open'[i].stmt].parent = IF i = 1 THEN 0 ELSE open'[i - 1].stmt
               /\ Kind(open[i].stmt)' = "function" <=> i = 1
               /\ Kind(open[i].stmt)' = "if" <=> open'[i].slot \in {"then", "else"}
    BY <1>5, <1>6, <1>8, <1>9, <1>10, <1>11, <2>1
  <2> QED BY <1>6, <2>2 DEF Path, ProgExtends
<1>14. Deep'
  <2>1. \A i \in 1 .. 1 : i = 1
    OBVIOUS
  <2> SUFFICES ASSUME NEW i \in DOMAIN open'
               PROVE  Structured!Depth(prog')[open'[i].stmt] =
                        Cardinality(Around(i)') + (IF Conditional(i)' THEN 1 ELSE 0)
    BY DEF Deep
  <2>2. i = 1
    BY <1>10, <2>1
  <2>3. ~ Conditional(i)'
    BY <1>11, <2>2 DEF Conditional, Structured!Conditional
  <2>4. Around(i)' = {}
    BY <1>12 DEF Around
  <2>5. Cardinality({}) = 0
    BY FS_EmptySet
  <2>6. Cardinality(Around(i)') = 0
    BY <2>4, <2>5
  <2>7. (IF Conditional(i)' THEN 1 ELSE 0) = 0
    BY <2>3, Zenon
  <2>8. Structured!Depth(prog')[open'[i].stmt] = 0
    BY <1>6, <1>8, <1>9, <2>2
  <2>9. 0 = 0 + 0
    OBVIOUS
  <2> QED BY <2>6, <2>7, <2>8, <2>9
<1>15. OpenTyped'
  BY <1>9 DEF OpenTyped, C
<1> QED BY <1>2, <1>6, <1>7, <1>9, <1>10, <1>12, <1>13, <1>14, <1>15 DEF PathKept, new

LEMMA EndFunction ==
    ASSUME IInv, FuncEnd
    PROVE  /\ PathKept /\ open' = << >> /\ DOMAIN open = 1 .. 1 /\ Context = open[1]
           /\ OpenConditionals = {} /\ OpenConditionals' = {}
<1>1. Len(open) = 1 /\ expect = "stmt" /\ open' = << >> /\ prog' = prog
  BY DEF FuncEnd
<1>2. open # << >>
  BY <1>1 DEF IInv, Nesting
<1>3. /\ DOMAIN open = 1 .. 1 /\ Context = open[1] /\ Kind(Context.stmt) = "function"
  BY <1>1, <1>2, InnermostFacts
<1>4. OpenConditionals = {}
  <2>1. \A i \in 1 .. 1 : i = 1
    OBVIOUS
  <2> QED BY <1>3, <2>1 DEF OpenConditionals, Structured!Conditional
<1>5. OpenTyped' /\ DOMAIN open' = 1 .. 0 /\ Len(open) >= 0
  BY <1>1 DEF OpenTyped
<1>6. PathKept /\ OpenConditionals' = OpenConditionals \cap 1 .. 0
  BY <1>1, <1>5, StatementsLeft
<1> QED BY <1>1, <1>3, <1>4, <1>6

-----------------------------------------------------------------------------
(* The label stack.                                                         *)

LEMMA StackTypes ==
    ASSUME IInv
    PROVE  /\ TypeOK /\ Nesting
           /\ STACK_SIZ \in Nat \ {0} /\ label_no \in Nat
           /\ label_stack \in LabelStacks
           /\ label_stack.index \in Int /\ label_stack.index >= -1
           /\ label_stack.stack \in [0 .. STACK_SIZ - 1 -> Nat]
           /\ DOMAIN label_stack.stack = 0 .. STACK_SIZ - 1
<1>1. TypeOK /\ Nesting
  BY DEF IInv
<1>2. label_stack.index \in Nat \cup {-1} /\ label_no \in Nat
  BY <1>1, Zenon DEF TypeOK
<1>3. DOMAIN label_stack.stack = 0 .. STACK_SIZ - 1
  BY <1>1, Zenon DEF TypeOK
<1>4. label_stack \in LabelStacks
  BY <1>1, Zenon DEF Nesting
<1>5. label_stack.stack \in [0 .. STACK_SIZ - 1 -> Nat]
  BY <1>4 DEF LabelStacks
<1> QED BY <1>1, <1>2, <1>3, <1>4, <1>5, SizeAssumption

\* s is the stack with k put on it.
Pushed(s, k) ==
    /\ s.index = Cardinality(OpenConditionals)
    /\ s.stack[Cardinality(OpenConditionals)] = k
    /\ \A i \in 0 .. STACK_SIZ - 1 :
          i # Cardinality(OpenConditionals) => s.stack[i] = label_stack.stack[i]

\* The stack has room for a statement that the limit allows.
LEMMA PushFacts ==
    ASSUME IInv, Numbered, Cardinality(OpenConditionals) < STACK_SIZ, NEW k \in Nat,
           NEW s \in s_push(label_stack, k)
    PROVE  Pushed(s, k)
<1> DEFINE c == Cardinality(OpenConditionals)
<1>1. /\ TypeOK /\ Nesting /\ STACK_SIZ \in Nat \ {0} /\ label_stack.index \in Int
      /\ label_stack.stack \in [0 .. STACK_SIZ - 1 -> Nat]
  BY StackTypes
<1>2. c \in Nat /\ c < STACK_SIZ
  BY <1>1, AroundFacts
<1>3. label_stack.index \in Int /\ label_stack.index + 1 = c
  BY <1>1 DEF Numbered
<1> HIDE DEF c
<1>4. label_stack.index < STACK_SIZ - 1
  BY <1>1, <1>2, <1>3
<1>5. s_push(label_stack, k) =
        {[stack |-> [label_stack.stack EXCEPT ![label_stack.index + 1] = k],
          index |-> label_stack.index + 1]}
  BY <1>1, <1>3, <1>4 DEF s_push
<1>6. s.index = c /\ s.stack = [label_stack.stack EXCEPT ![c] = k]
  BY <1>3, <1>5
<1>7. label_stack.stack \in [0 .. STACK_SIZ - 1 -> Nat] /\ c \in 0 .. STACK_SIZ - 1
  BY <1>1, <1>2
<1>8. /\ s.index = c /\ s.stack[c] = k
      /\ \A i \in 0 .. STACK_SIZ - 1 : i # c => s.stack[i] = label_stack.stack[i]
  BY <1>6, <1>7
<1> QED BY <1>8, Zenon DEF c, Pushed

\* What is on top belongs to the innermost statement.
LEMMA GetFacts ==
    ASSUME IInv, WithinLimit, Numbered, NEW n, n = Len(open), n \in OpenConditionals
    PROVE  /\ s_get(label_stack) = {NumberOf(n)}
           /\ s_pop(label_stack).stack = label_stack.stack
           /\ s_pop(label_stack).index + 1 = Cardinality(OpenConditionals \ {n})
           /\ Cardinality(OpenConditionals \ {n}) = Cardinality(OpenConditionals) - 1
           /\ Cardinality(OpenConditionals) \in Nat \ {0}
<1> DEFINE c == Cardinality(Around(n))
<1>1. /\ TypeOK /\ Nesting /\ Deep /\ STACK_SIZ \in Nat \ {0} /\ label_stack.index \in Int
      /\ DOMAIN label_stack.stack = 0 .. STACK_SIZ - 1
  BY StackTypes DEF IInv
<1>2. c \in Nat /\ Cardinality(OpenConditionals) = c + 1 /\ IsFiniteSet(OpenConditionals)
  BY <1>1, AroundFacts
<1>3. label_stack.index \in Int /\ label_stack.index = c
  <2>1. label_stack.index + 1 = c + 1
    BY <1>2 DEF Numbered
  <2> QED BY <1>1, <1>2, <2>1
<1>4. c < STACK_SIZ
  <2>1. n \in DOMAIN open /\ Conditional(n)
    BY DEF OpenConditionals, Conditional
  <2>2. Structured!Depth(prog)[open[n].stmt] = c + 1
    BY <1>1, <2>1 DEF Deep
  <2>3. open[n].stmt \in DOMAIN prog
    BY <1>1, <2>1, StateFacts
  <2>4. c + 1 <= STACK_SIZ
    BY <2>2, <2>3 DEF WithinLimit
  <2> QED BY <1>1, <1>2, <2>4
<1> HIDE DEF c
<1>5. label_stack.index \in DOMAIN label_stack.stack /\ ~ (label_stack.index < 0)
  BY <1>1, <1>2, <1>3, <1>4
<1>6. s_get(label_stack) = {label_stack.stack[label_stack.index]}
  <2> DEFINE s == label_stack
  <2>1. ~ (s.index < 0) /\ s.index \in DOMAIN s.stack
    BY <1>5
  <2>2. \A i \in DOMAIN s.stack : i # STACK_SIZ
    BY <1>1
  <2>3. s.index # STACK_SIZ
    BY <2>1, <2>2
  <2> HIDE DEF s
  <2>4. s_get(s) = {s.stack[s.index]}
    BY <2>1, <2>3, Zenon DEF s_get
  <2> QED BY <2>4 DEF s
<1>8. Cardinality(OpenConditionals \ {n}) = Cardinality(OpenConditionals) - 1
  BY <1>2, FS_RemoveElement
<1>7. /\ s_pop(label_stack).stack = label_stack.stack
      /\ s_pop(label_stack).index + 1 = Cardinality(OpenConditionals \ {n})
  <2>1. s_pop(label_stack) = [label_stack EXCEPT !.index = label_stack.index - 1]
    BY <1>2, <1>3 DEF s_pop
  <2>2. /\ s_pop(label_stack).stack = label_stack.stack
        /\ s_pop(label_stack).index = label_stack.index - 1
    BY <2>1, StackTypes DEF LabelStacks
  <2> QED BY <1>2, <1>3, <1>8, <2>2
<1> QED BY <1>2, <1>3, <1>6, <1>7, <1>8 DEF NumberOf, c

LEMMA NumberKept ==
    ASSUME IInv, NEW i \in OpenConditionals, KeptAt(i),
           label_stack'.stack[Cardinality(Around(i))] = label_stack.stack[Cardinality(Around(i))]
    PROVE  NumberOf(i)' = NumberOf(i)
BY DEF NumberOf, KeptAt

\* The numbers stay in order when those of other statements come or go.
LEMMA NumberedKept ==
    ASSUME IInv, Numbered, label_no \in Nat, label_no' \in Nat, label_no <= label_no',
           \A op, label : Positions(op, label) \subseteq Positions(op, label)',
           label_stack'.index + 1 = Cardinality(OpenConditionals'),
           \A i \in OpenConditionals' \cap OpenConditionals :
              KeptAt(i) /\ NumberOf(i)' = NumberOf(i),
           \A i \in OpenConditionals' \ OpenConditionals :
              /\ NumberOf(i)' \in 1 .. label_no'
              /\ \A j \in Around(i)' : j \in OpenConditionals /\ NumberOf(j) < NumberOf(i)'
              /\ FirstUse(Kind(open[i].stmt), NumberOf(i))' # {},
           expect' = "cond" => (NumberOf(Len(open)) = label_no)'
    PROVE  Numbered'
<1> SUFFICES ASSUME NEW i \in OpenConditionals'
             PROVE  /\ NumberOf(i)' \in 1 .. label_no'
                    /\ \A j \in Around(i)' : NumberOf(j)' < NumberOf(i)'
                    /\ FirstUse(Kind(open[i].stmt), NumberOf(i))' # {}
  BY DEF Numbered
<1>1. \A j \in Around(i)' : j \in OpenConditionals'
  BY DEF Around
<1>2. CASE i \in OpenConditionals
  <2>1. KeptAt(i) /\ NumberOf(i)' = NumberOf(i)
    BY <1>2
  <2>2. /\ NumberOf(i) \in 1 .. label_no
        /\ \A j \in Around(i) : NumberOf(j) < NumberOf(i)
        /\ FirstUse(Kind(open[i].stmt), NumberOf(i)) # {}
    BY <1>2 DEF Numbered
  <2>3. \A j \in Around(i)' : j \in OpenConditionals /\ j \in Around(i)
    BY <2>1 DEF KeptAt, Around
  <2>4. \A j \in Around(i)' : NumberOf(j)' < NumberOf(i)'
    BY <1>1, <2>1, <2>2, <2>3
  <2>5. FirstUse(Kind(open[i].stmt), NumberOf(i))' # {}
    <3>1. Kind(open[i].stmt)' = Kind(open[i].stmt)
      BY <2>1 DEF KeptAt
    <3>2. FirstUse(Kind(open[i].stmt), NumberOf(i)) \subseteq FirstUse(Kind(open[i].stmt), NumberOf(i))'
      BY <2>1, <3>1 DEF FirstUse
    <3> QED BY <2>2, <3>2
  <2> QED BY <2>1, <2>2, <2>4, <2>5
<1>3. CASE i \notin OpenConditionals
  BY <1>1, <1>3
<1> QED BY <1>2, <1>3

-----------------------------------------------------------------------------
(* What a step does to the output.                                          *)

\* The invariant's types after a step of the parser.
LEMMA ParseTypes ==
    ASSUME IInv, PathKept, UNCHANGED runVars, NEW s \in Seq(Instrs), code' = code \o s,
           label_no' \in Nat, label_stack' \in LabelStacks,
           slabel_arr' \in Seq({"slabel", "global"} \X Nat), Len(slabel_arr') <= SLABELS,
           sconst_gen' \in Nat, globals' \in Nat,
           expect' \in {"top", "decls", "stmt", "cond", "reduced", "no else", "smashed"},
           expect' \in {"top", "decls"} => open' = << >>,
           expect' \in {"stmt", "cond", "reduced", "no else"} => open' # << >>,
           expect' = "cond" => Kind(Context.stmt)' = "while"
    PROVE  TypeOK' /\ Nesting'
<1>1. TypeOK
  BY DEF IInv
<1>2. /\ code' \in Seq(Instrs) /\ Len(code') = Len(code) + Len(s)
      /\ Len(s) \in Nat /\ Len(code) \in Nat
  BY <1>1, CodeGrows
<1>3. at \in 1 .. Len(code) + 1 /\ test \in BOOLEAN /\ fun \in Nat
  BY <1>1 DEF TypeOK
<1>4. at' \in 1 .. Len(code') + 1 /\ test' \in BOOLEAN /\ fun' \in Nat
  <2>1. at' = at /\ test' = test /\ fun' = fun
    BY DEF runVars
  <2>2. at \in 1 .. Len(code') + 1
    <3>1. at \in 1 .. Len(code) + Len(s) + 1
      BY <1>2, <1>3, WiderInterval, Zenon
    <3> QED BY <1>2, <3>1, Zenon
  <2> QED BY <1>3, <2>1, <2>2
<1>5. OpenTyped' /\ Path'
  BY DEF PathKept
<1>6. {sconst_gen', globals', fun'} \subseteq Nat
  BY <1>4
<1>7. DOMAIN label_stack'.stack = 0 .. STACK_SIZ - 1 /\ label_stack'.index \in Nat \cup {-1}
  BY DEF LabelStacks
<1>8. expect' \in {"top", "decls", "run", "halted"} => open' = << >>
  OBVIOUS
<1>9. expect' \in {"top", "decls", "stmt", "cond", "reduced", "no else", "smashed", "run", "halted"}
  OBVIOUS
<1>10. TypeOK'
  BY <1>2, <1>4, <1>5, <1>6, <1>7, <1>8, <1>9, Zenon DEF TypeOK, OpenTyped
<1>11. Nesting'
  BY <1>5 DEF Nesting
<1> QED BY <1>10, <1>11

\* The labels that a step defines were awaited or are new, and so are the
\* labels that it adds to those that are awaited.
LEMMA PlacedKept ==
    ASSUME IInv, Placed, NEW s \in Seq(Instrs), code' = code \o s,
           \A label \in Known : label \in Known',
           \A label : Awaited(label)' => Awaited(label) \/ label \notin Known,
           \A i, j \in 1 .. Len(s) :
              Defines(s[i]) /\ Defines(s[j]) /\ s[i].label = s[j].label => i = j,
           \A i \in 1 .. Len(s) : \A label :
              Defines(s[i]) /\ label = s[i].label =>
                 /\ label \in Known'
                 /\ ~ Awaited(label)'
                 /\ Awaited(label) \/ label \notin Known
    PROVE  Placed'
<1>1. /\ DOMAIN code' = 1 .. Len(code) + Len(s) /\ DOMAIN code = 1 .. Len(code)
      /\ Len(s) \in Nat /\ Len(code) \in Nat
      /\ \A i \in 1 .. Len(code) : code'[i] = code[i]
      /\ \A i \in 1 .. Len(s) : code'[Len(code) + i] = s[i]
  BY CodeGrows DEF IInv
<1>2. \A i \in DOMAIN code' : i \in DOMAIN code \/ \E k \in 1 .. Len(s) : i = Len(code) + k
  <2> SUFFICES ASSUME NEW i \in DOMAIN code', i \notin DOMAIN code
               PROVE  \E k \in 1 .. Len(s) : i = Len(code) + k
    OBVIOUS
  <2>1. i - Len(code) \in 1 .. Len(s) /\ i = Len(code) + (i - Len(code))
    BY <1>1
  <2> QED BY <2>1
<1>3. \A i \in DOMAIN code : \A label :
         Defines(code[i]) /\ label = code[i].label => label \in Known /\ ~ Awaited(label)
  BY DEF Placed, DefinedLabels
<1>4. ASSUME NEW i \in DOMAIN code', NEW label, Defines(code'[i]), label = code'[i].label
      PROVE  label \in Known' /\ ~ Awaited(label)'
  <2>1. CASE i \in DOMAIN code
    <3>1. label \in Known /\ ~ Awaited(label)
      BY <1>1, <1>3, <1>4, <2>1
    <3> QED BY <3>1
  <2>2. ASSUME NEW k \in 1 .. Len(s), i = Len(code) + k
        PROVE  label \in Known' /\ ~ Awaited(label)'
    BY <1>1, <1>4, <2>2
  <2> QED BY <1>2, <2>1, <2>2
<1>5. ASSUME NEW i \in DOMAIN code', NEW j \in DOMAIN code',
             Defines(code'[i]), Defines(code'[j]), code'[i].label = code'[j].label
      PROVE  i = j
  <2>1. ASSUME NEW x \in DOMAIN code, NEW k \in 1 .. Len(s), Defines(code[x]), Defines(s[k])
        PROVE  code[x].label # s[k].label
    BY <1>3, <2>1
  <2>2. CASE i \in DOMAIN code /\ j \in DOMAIN code
    BY <1>1, <1>5, <2>2 DEF Placed
  <2>3. ASSUME NEW k \in 1 .. Len(s), j = Len(code) + k, i \in DOMAIN code
        PROVE  FALSE
    BY <1>1, <1>5, <2>1, <2>3
  <2>4. ASSUME NEW k \in 1 .. Len(s), i = Len(code) + k, j \in DOMAIN code
        PROVE  FALSE
    BY <1>1, <1>5, <2>1, <2>4
  <2>5. ASSUME NEW k \in 1 .. Len(s), NEW l \in 1 .. Len(s), i = Len(code) + k, j = Len(code) + l
        PROVE  i = j
    BY <1>1, <1>5, <2>5
  <2> QED BY <1>2, <2>2, <2>3, <2>4, <2>5
<1>6. \A label \in DefinedLabels' : label \in Known' /\ ~ Awaited(label)'
  BY <1>4 DEF DefinedLabels, Defines
<1> QED BY <1>5, <1>6 DEF Placed, Defines

\* The labels of new instructions are in the function that the output ends with.
LEMMA SameFunction ==
    ASSUME IInv, NEW s \in Seq(Instrs), code' = code \o s,
           \A i \in 1 .. Len(s) : ~ (s[i].op = "label" /\ s[i].label[1] = "begin")
    PROVE  /\ CurrentFunction' = CurrentFunction
           /\ \A i \in DOMAIN code' : i \notin DOMAIN code => InFunction(i)' = CurrentFunction
<1>1. /\ DOMAIN code' = 1 .. Len(code) + Len(s) /\ DOMAIN code = 1 .. Len(code)
      /\ Len(s) \in Nat /\ Len(code) \in Nat
      /\ \A i \in 1 .. Len(code) : code'[i] = code[i]
      /\ \A i \in 1 .. Len(s) : code'[Len(code) + i] = s[i]
  BY CodeGrows DEF IInv
<1>2. ASSUME NEW i \in DOMAIN code', i \notin DOMAIN code
      PROVE  /\ i > Len(code) /\ i \in Nat
             /\ ~ (code'[i].op = "label" /\ code'[i].label[1] = "begin")
  <2>1. i - Len(code) \in 1 .. Len(s) /\ i = Len(code) + (i - Len(code))
    BY <1>1, <1>2
  <2> QED BY <1>1, <1>2, <2>1
<1>3. {i \in DOMAIN code' : code'[i].op = "label" /\ code'[i].label[1] = "begin"}
      = {i \in DOMAIN code : code[i].op = "label" /\ code[i].label[1] = "begin"}
  <2>1. \A i \in DOMAIN code : i \in DOMAIN code' /\ code'[i] = code[i]
    BY <1>1
  <2> QED BY <1>2, <2>1
<1>4. CurrentFunction' = CurrentFunction
  BY <1>3 DEF CurrentFunction, Begins
<1>5. ASSUME NEW i \in DOMAIN code', i \notin DOMAIN code
      PROVE  InFunction(i)' = CurrentFunction
  <2>1. \A j \in 1 .. i : j \in DOMAIN code'
    BY <1>1, <1>5
  <2>2. \A j \in DOMAIN code : j \in 1 .. i
    BY <1>1, <1>2, <1>5
  <2>3. {j \in 1 .. i : code'[j].op = "label" /\ code'[j].label[1] = "begin"}
        = {j \in DOMAIN code : code[j].op = "label" /\ code[j].label[1] = "begin"}
    BY <1>3, <2>1, <2>2
  <2> QED BY <2>3 DEF InFunction, CurrentFunction, Begins
<1> QED BY <1>4, <1>5

\* What a step emits is found in the output.
\* s is emitted in the function that the output ends with.
EmittedThere(s) ==
    /\ CurrentFunction' = CurrentFunction
    /\ \A i \in DOMAIN code :
          i \in DOMAIN code' /\ code'[i] = code[i] /\ InFunction(i)' = InFunction(i)
    /\ \A i \in DOMAIN code' : i \notin DOMAIN code =>
          /\ \E n \in 1 .. Len(s) : code'[i] = s[n]
          /\ InFunction(i)' = CurrentFunction
    /\ \A n \in 1 .. Len(s) :
          \E d \in DOMAIN code' : code'[d] = s[n] /\ InFunction(d)' = CurrentFunction

LEMMA Emitted ==
    ASSUME IInv, NEW s \in Seq(Instrs), code' = code \o s,
           \A i \in 1 .. Len(s) : ~ (s[i].op = "label" /\ s[i].label[1] = "begin")
    PROVE  EmittedThere(s)
<1>1. /\ DOMAIN code' = 1 .. Len(code) + Len(s) /\ DOMAIN code = 1 .. Len(code)
      /\ Len(s) \in Nat /\ Len(code) \in Nat
      /\ \A i \in 1 .. Len(code) : code'[i] = code[i] /\ InFunction(i)' = InFunction(i)
      /\ \A i \in 1 .. Len(s) : code'[Len(code) + i] = s[i]
  BY CodeGrows DEF IInv
<1>2. /\ CurrentFunction' = CurrentFunction
      /\ \A i \in DOMAIN code' : i \notin DOMAIN code => InFunction(i)' = CurrentFunction
  BY SameFunction
<1>3. ASSUME NEW i \in DOMAIN code', i \notin DOMAIN code
      PROVE  \E n \in 1 .. Len(s) : code'[i] = s[n]
  <2>1. i - Len(code) \in 1 .. Len(s) /\ i = Len(code) + (i - Len(code))
    BY <1>1, <1>3
  <2> QED BY <1>1, <2>1
<1>4. ASSUME NEW n \in 1 .. Len(s)
      PROVE  \E d \in DOMAIN code' : code'[d] = s[n] /\ InFunction(d)' = CurrentFunction
  <2>1. \A d : d = Len(code) + n =>
          /\ d \in DOMAIN code' /\ d \notin DOMAIN code
          /\ code'[d] = s[n]
    BY <1>1
  <2>2. PICK d : d = Len(code) + n
    OBVIOUS
  <2> QED BY <1>2, <2>1, <2>2, Zenon
<1>5. \A i \in DOMAIN code :
         i \in DOMAIN code' /\ code'[i] = code[i] /\ InFunction(i)' = InFunction(i)
  <2>1. \A m, k \in Nat : \A i \in 1 .. m : i \in 1 .. m + k
    OBVIOUS
  <2> QED BY <1>1, <2>1, Zenon
<1> QED BY <1>2, <1>3, <1>4, <1>5, Zenon DEF EmittedThere

\* A jump leads to what is there, or to what the step emits, and what was still
\* to be placed is emitted or is so still.
LEMMA JumpsKept ==
    ASSUME IInv, Resolving, NEW s \in Seq(Instrs), code' = code \o s,
           \A i \in 1 .. Len(s) : ~ (s[i].op = "label" /\ s[i].label[1] = "begin"),
           \A k \in OpenConditionals : \A label \in Owed(k) :
              \/ \E m \in OpenConditionals' : label \in Owed(m)'
              \/ \E d \in 1 .. Len(s) : s[d].op = "label" /\ s[d].label = label,
           \A i \in 1 .. Len(s) : s[i].op \in {"j", "beqz"} =>
              \/ \E k \in OpenConditionals', label \in {s[i].label} : label \in Owed(k)'
              \/ \E d \in 1 .. Len(s) : s[d].op = "label" /\ s[d].label = s[i].label
              \/ \E d \in DOMAIN code : /\ code[d].op = "label" /\ code[d].label = s[i].label
                                        /\ InFunction(d) = CurrentFunction,
           NEW i \in DOMAIN code', code'[i].op \in {"j", "beqz"}
    PROVE  \/ Lands(i)'
           \/ /\ InFunction(i)' = CurrentFunction'
              /\ \E k \in OpenConditionals' : code'[i].label \in Owed(k)'
<1>1. CurrentFunction' = CurrentFunction
  BY Emitted, Zenon DEF EmittedThere
<1>2. \A j \in DOMAIN code :
         j \in DOMAIN code' /\ code'[j] = code[j] /\ InFunction(j)' = InFunction(j)
  BY Emitted, Zenon DEF EmittedThere
<1>3. \A n \in 1 .. Len(s) :
         \E d \in DOMAIN code' : code'[d] = s[n] /\ InFunction(d)' = CurrentFunction
  BY Emitted, Zenon DEF EmittedThere
<1>4. ASSUME NEW n \in 1 .. Len(s), s[n].op = "label", s[n].label = code'[i].label,
             InFunction(i)' = CurrentFunction
      PROVE  Lands(i)'
  <2>1. PICK d \in DOMAIN code' : code'[d] = s[n] /\ InFunction(d)' = CurrentFunction
    BY <1>3
  <2> QED BY <1>4, <2>1, Zenon DEF Lands
<1>5. CASE i \in DOMAIN code
  <2>1. code'[i] = code[i] /\ InFunction(i)' = InFunction(i)
    BY <1>2, <1>5
  <2>2. \/ Lands(i)
        \/ InFunction(i) = CurrentFunction /\ \E k \in OpenConditionals : code[i].label \in Owed(k)
    BY <1>5, <2>1 DEF Resolving
  <2>3. CASE Lands(i)
    <3>1. PICK d \in DOMAIN code :
            code[d].op = "label" /\ code[d].label = code[i].label /\ InFunction(d) = InFunction(i)
      BY <2>3 DEF Lands
    <3>2. d \in DOMAIN code' /\ code'[d] = code[d] /\ InFunction(d)' = InFunction(d)
      BY <1>2, <3>1, Zenon
    <3>3. Lands(i)'
      BY <2>1, <3>1, <3>2, Zenon DEF Lands
    <3> QED BY <3>3
  <2>4. CASE InFunction(i) = CurrentFunction /\ \E k \in OpenConditionals : code[i].label \in Owed(k)
    <3>1. PICK k \in OpenConditionals : code[i].label \in Owed(k)
      BY <2>4
    <3>2. PICK label : label = code[i].label
      OBVIOUS
    <3>3. label \in Owed(k)
      BY <3>1, <3>2
    <3>4. \/ \E m \in OpenConditionals' : label \in Owed(m)'
          \/ \E d \in 1 .. Len(s) : s[d].op = "label" /\ s[d].label = label
      BY <3>3
    <3>5. code'[i].label = label /\ InFunction(i)' = CurrentFunction
      BY <2>1, <2>4, <3>2
    <3>6. CASE \E m \in OpenConditionals' : label \in Owed(m)'
      BY <1>1, <3>5, <3>6
    <3>7. CASE \E d \in 1 .. Len(s) : s[d].op = "label" /\ s[d].label = label
      BY <1>4, <3>5, <3>7
    <3> QED BY <3>4, <3>6, <3>7
  <2> QED BY <2>2, <2>3, <2>4
<1>6. CASE i \notin DOMAIN code
  <2>1. InFunction(i)' = CurrentFunction /\ \E n \in 1 .. Len(s) : code'[i] = s[n]
    BY <1>6, Emitted, Zenon DEF EmittedThere
  <2>2. PICK n \in 1 .. Len(s) : code'[i] = s[n]
    BY <2>1
  <2>3. \/ \E k \in OpenConditionals', label \in {s[n].label} : label \in Owed(k)'
        \/ \E d \in 1 .. Len(s) : s[d].op = "label" /\ s[d].label = s[n].label
        \/ \E d \in DOMAIN code : /\ code[d].op = "label" /\ code[d].label = s[n].label
                                  /\ InFunction(d) = CurrentFunction
    BY <2>2
  <2>4. CASE \E k \in OpenConditionals', label \in {s[n].label} : label \in Owed(k)'
    BY <1>1, <2>1, <2>2, <2>4
  <2>5. CASE \E d \in 1 .. Len(s) : s[d].op = "label" /\ s[d].label = s[n].label
    BY <1>4, <2>1, <2>2, <2>5
  <2>6. CASE \E d \in DOMAIN code : /\ code[d].op = "label" /\ code[d].label = s[n].label
                                    /\ InFunction(d) = CurrentFunction
    <3>1. PICK d \in DOMAIN code : /\ code[d].op = "label" /\ code[d].label = s[n].label
                                   /\ InFunction(d) = CurrentFunction
      BY <2>6
    <3>2. d \in DOMAIN code' /\ code'[d] = code[d] /\ InFunction(d)' = InFunction(d)
      BY <1>2, <3>1, Zenon
    <3>3. Lands(i)'
      BY <2>1, <2>2, <3>1, <3>2, Zenon DEF Lands
    <3> QED BY <3>3
  <2> QED BY <2>3, <2>4, <2>5, <2>6
<1> QED BY <1>5, <1>6

LEMMA AddressesKept ==
    ASSUME IInv, Resolving, NEW s \in Seq(Instrs), code' = code \o s,
           \A i \in 1 .. Len(s) : ~ (s[i].op = "label" /\ s[i].label[1] = "begin"),
           \A i \in 1 .. Len(s) : s[i].op = "la" =>
              \/ \E d \in DOMAIN code : code[d].op = "data" /\ code[d].label = s[i].label
              \/ open' # << >> /\ s[i].label \in Range(slabel_arr')
              \/ s[i].label = NamedPlace,
           \A label \in Range(slabel_arr) :
              \/ label \in Range(slabel_arr')
              \/ \E d \in 1 .. Len(s) : s[d].op = "data" /\ s[d].label = label,
           open # << >> => open' # << >> \/ Range(slabel_arr') = {},
           NEW i \in DOMAIN code', code'[i].op = "la"
    PROVE  \/ \E d \in DOMAIN code' : code'[d].op = "data" /\ code'[d].label = code'[i].label
           \/ open' # << >> /\ code'[i].label \in Range(slabel_arr')
           \/ code'[i].label = NamedPlace
<1>1. \A j \in DOMAIN code : j \in DOMAIN code' /\ code'[j] = code[j]
  BY Emitted, Zenon DEF EmittedThere
<1>2. \A n \in 1 .. Len(s) : \E d \in DOMAIN code' : code'[d] = s[n]
  <2>1. EmittedThere(s)
    BY Emitted, Zenon
  <2> QED BY <2>1, Zenon DEF EmittedThere
<1>3. CASE i \in DOMAIN code
  <2>1. code'[i] = code[i]
    BY <1>1, <1>3
  <2>2. \/ \E d \in DOMAIN code : code[d].op = "data" /\ code[d].label = code[i].label
        \/ open # << >> /\ code[i].label \in Range(slabel_arr)
        \/ code[i].label = NamedPlace
    BY <1>3, <2>1 DEF Resolving
  <2>3. CASE \E d \in DOMAIN code : code[d].op = "data" /\ code[d].label = code[i].label
    BY <1>1, <2>1, <2>3, Zenon
  <2>4. CASE open # << >> /\ code[i].label \in Range(slabel_arr)
    <3>1. \/ code[i].label \in Range(slabel_arr')
          \/ \E d \in 1 .. Len(s) : s[d].op = "data" /\ s[d].label = code[i].label
      BY <2>4, Zenon
    <3>2. code[i].label \in Range(slabel_arr') => open' # << >>
      BY <2>4, Zenon
    <3>3. CASE \E d \in 1 .. Len(s) : s[d].op = "data" /\ s[d].label = code[i].label
      <4>1. PICK n \in 1 .. Len(s) : s[n].op = "data" /\ s[n].label = code[i].label
        BY <3>3
      <4>2. PICK d \in DOMAIN code' : code'[d] = s[n]
        BY <1>2
      <4> QED BY <2>1, <4>1, <4>2, Zenon
    <3> QED BY <2>1, <3>1, <3>2, <3>3
  <2>5. CASE code[i].label = NamedPlace
    BY <2>1, <2>5
  <2> QED BY <2>2, <2>3, <2>4, <2>5
<1>4. CASE i \notin DOMAIN code
  <2>1. PICK n \in 1 .. Len(s) : code'[i] = s[n]
    BY <1>4, Emitted, Zenon DEF EmittedThere
  <2>2. \/ \E d \in DOMAIN code : code[d].op = "data" /\ code[d].label = s[n].label
        \/ open' # << >> /\ s[n].label \in Range(slabel_arr')
        \/ s[n].label = NamedPlace
    BY <2>1
  <2> QED BY <1>1, <2>1, <2>2, Zenon
<1> QED BY <1>3, <1>4

LEMMA HeadsKept ==
    ASSUME IInv, Resolving, NEW s \in Seq(Instrs), code' = code \o s,
           \A i \in 1 .. Len(s) : ~ (s[i].op = "label" /\ s[i].label[1] = "begin"),
           NEW i, NEW n, n = NumberOf(i)',
           \/ i \in OpenConditionals /\ Kind(open[i].stmt) = "while" /\ n = NumberOf(i)
           \/ \E d \in 1 .. Len(s) : s[d].op = "label" /\ s[d].label = <<"test", n>>
    PROVE  HeadPlaced(i)'
<1>1. CurrentFunction' = CurrentFunction
  BY Emitted, Zenon DEF EmittedThere
<1>2. \A j \in DOMAIN code :
         j \in DOMAIN code' /\ code'[j] = code[j] /\ InFunction(j)' = InFunction(j)
  BY Emitted, Zenon DEF EmittedThere
<1>3. \A k \in 1 .. Len(s) :
         \E d \in DOMAIN code' : code'[d] = s[k] /\ InFunction(d)' = CurrentFunction
  BY Emitted, Zenon DEF EmittedThere
<1>4. \E d \in DOMAIN code' : /\ code'[d].op = "label" /\ code'[d].label = <<"test", n>>
                              /\ InFunction(d)' = CurrentFunction
  <2>1. CASE i \in OpenConditionals /\ Kind(open[i].stmt) = "while" /\ n = NumberOf(i)
    <3>1. \E d \in DOMAIN code : /\ code[d].op = "label" /\ code[d].label = <<"test", n>>
                                 /\ InFunction(d) = CurrentFunction
      <4>1. HeadPlaced(i)
        BY <2>1, Zenon DEF Resolving
      <4> QED BY <2>1, <4>1, Zenon DEF HeadPlaced
    <3> QED BY <1>2, <3>1, Zenon
  <2>2. CASE \E d \in 1 .. Len(s) : s[d].op = "label" /\ s[d].label = <<"test", n>>
    <3>1. PICK k \in 1 .. Len(s) : s[k].op = "label" /\ s[k].label = <<"test", n>>
      BY <2>2, Zenon
    <3>2. PICK d \in DOMAIN code' : code'[d] = s[k] /\ InFunction(d)' = CurrentFunction
      BY <1>3, Zenon
    <3> QED BY <3>1, <3>2, Zenon
  <2> QED BY <2>1, <2>2
<1> QED BY <1>1, <1>4 DEF HeadPlaced

LEMMA GlobalsKept ==
    ASSUME IInv, Resolving, NEW s \in Seq(Instrs), code' = code \o s,
           \A i \in 1 .. Len(s) : ~ (s[i].op = "label" /\ s[i].label[1] = "begin"),
           \A label \in Range(slabel_arr) :
              \/ label \in Range(slabel_arr')
              \/ \E d \in 1 .. Len(s) : s[d].op = "data" /\ s[d].label = label,
           NEW g, g \in 1 .. globals \/ <<"global", g>> \in Range(slabel_arr')
    PROVE  \/ \E d \in DOMAIN code' : code'[d].op = "data" /\ code'[d].label = <<"global", g>>
           \/ <<"global", g>> \in Range(slabel_arr')
<1>1. \A j \in DOMAIN code : j \in DOMAIN code' /\ code'[j] = code[j]
  BY Emitted, Zenon DEF EmittedThere
<1>2. \A n \in 1 .. Len(s) : \E d \in DOMAIN code' : code'[d] = s[n]
  BY Emitted, Zenon DEF EmittedThere
<1>3. CASE g \in 1 .. globals
  <2>1. \/ \E d \in DOMAIN code : code[d].op = "data" /\ code[d].label = <<"global", g>>
        \/ <<"global", g>> \in Range(slabel_arr)
    BY <1>3 DEF Resolving
  <2>2. CASE \E d \in DOMAIN code : code[d].op = "data" /\ code[d].label = <<"global", g>>
    BY <1>1, <2>2, Zenon
  <2>3. CASE <<"global", g>> \in Range(slabel_arr)
    <3>1. \/ <<"global", g>> \in Range(slabel_arr')
          \/ \E d \in 1 .. Len(s) : s[d].op = "data" /\ s[d].label = <<"global", g>>
      BY <2>3, Zenon
    <3>2. CASE \E d \in 1 .. Len(s) : s[d].op = "data" /\ s[d].label = <<"global", g>>
      <4>1. PICK n \in 1 .. Len(s) : s[n].op = "data" /\ s[n].label = <<"global", g>>
        BY <3>2
      <4>2. PICK d \in DOMAIN code' : code'[d] = s[n]
        BY <1>2
      <4> QED BY <4>1, <4>2, Zenon
    <3> QED BY <3>1, <3>2
  <2> QED BY <2>1, <2>2, <2>3
<1> QED BY <1>3

\* The numbers of instructions of a kind add up.
Tally(c, A) == Cardinality({i \in DOMAIN c : c[i] \in A})

LEMMA TallyNone ==
    ASSUME NEW s \in Seq(Instrs), NEW A, \A i \in 1 .. Len(s) : s[i] \notin A
    PROVE  Tally(s, A) = 0
<1>1. DOMAIN s = 1 .. Len(s)
  OBVIOUS
<1>2. {i \in DOMAIN s : s[i] \in A} = {}
  BY <1>1
<1> QED BY <1>2, FS_EmptySet DEF Tally

LEMMA TallyAll ==
    ASSUME NEW s \in Seq(Instrs), NEW A, \A i \in 1 .. Len(s) : s[i] \in A
    PROVE  Tally(s, A) = Len(s)
<1>1. DOMAIN s = 1 .. Len(s) /\ Len(s) \in Nat
  OBVIOUS
<1>2. {i \in DOMAIN s : s[i] \in A} = 1 .. Len(s)
  BY <1>1
<1>3. Cardinality(1 .. Len(s)) = Len(s)
  BY <1>1, FS_Interval
<1> QED BY <1>2, <1>3 DEF Tally

LEMMA TallyConcat ==
    ASSUME NEW c \in Seq(Instrs), NEW s \in Seq(Instrs), NEW A
    PROVE  /\ Tally(c \o s, A) = Tally(c, A) + Tally(s, A)
           /\ Tally(c, A) \in Nat /\ Tally(s, A) \in Nat
<1> DEFINE u == c \o s
           m == Len(c)
           n == Len(s)
           old == {i \in 1 .. m : c[i] \in A}
           new == {i \in 1 .. n : s[i] \in A}
           moved == {i + m : i \in new}
           f == [i \in new |-> i + m]
<1>1. /\ DOMAIN u = 1 .. m + n /\ DOMAIN c = 1 .. m /\ DOMAIN s = 1 .. n /\ m \in Nat /\ n \in Nat
      /\ \A i \in 1 .. m : u[i] = c[i]
      /\ \A i \in 1 .. n : u[m + i] = s[i]
  OBVIOUS
<1> HIDE DEF u, m, n
<1>2. {i \in 1 .. m + n : u[i] \in A} = old \cup moved
  <2>1. ASSUME NEW i \in 1 .. m + n, u[i] \in A
        PROVE  i \in old \cup moved
    <3>1. CASE i <= m
      BY <1>1, <2>1, <3>1
    <3>2. CASE i > m
      <4>1. i - m \in 1 .. n /\ m + (i - m) = i /\ (i - m) + m = i
        BY <1>1, <3>2
      <4>2. i - m \in new
        BY <1>1, <2>1, <4>1
      <4> QED BY <4>1, <4>2
    <3> QED BY <1>1, <3>1, <3>2
  <2>2. \A i \in old : i \in 1 .. m + n /\ u[i] \in A
    BY <1>1
  <2>3. ASSUME NEW i \in new
        PROVE  i + m \in 1 .. m + n /\ u[i + m] \in A
    <3>1. i + m = m + i /\ i \in 1 .. n /\ s[i] \in A
      BY <1>1
    <3> QED BY <1>1, <3>1
  <2> QED BY <2>1, <2>2, <2>3
<1>3. old \cap moved = {}
  BY <1>1
<1>4. /\ IsFiniteSet(old) /\ IsFiniteSet(new)
      /\ Cardinality(old) \in Nat /\ Cardinality(new) \in Nat
  <2>1. IsFiniteSet(1 .. m) /\ IsFiniteSet(1 .. n)
    BY <1>1, FS_Interval
  <2>2. old \subseteq 1 .. m /\ new \subseteq 1 .. n
    OBVIOUS
  <2> HIDE DEF old, new
  <2> QED BY <2>1, <2>2, FS_Subset, FS_CardinalityType
<1>5. IsFiniteSet(moved) /\ Cardinality(moved) = Cardinality(new)
  <2>1. \A i \in new : i \in Int
    BY <1>1
  <2>2. f \in Bijection(new, moved)
    <3> HIDE DEF new
    <3>1. f \in [new -> moved]
      OBVIOUS
    <3>2. \A a, b \in new : f[a] = f[b] => a = b
      BY <1>1, <2>1
    <3>3. \A y \in moved : \E x \in new : f[x] = y
      OBVIOUS
    <3> HIDE DEF f, moved
    <3>4. DOMAIN f = new
      BY <3>1
    <3> QED BY <3>1, <3>2, <3>3, <3>4 DEF Bijection, Injection, IsInjective, Surjection
  <2>3. ExistsBijection(new, moved)
    <3> HIDE DEF f, new, moved
    <3> QED BY <2>2 DEF ExistsBijection
  <2> HIDE DEF f, new, moved
  <2> QED BY <1>4, <2>3, FS_Bijection
<1>6. Cardinality(old \cup moved) = Cardinality(old) + Cardinality(new)
  <2> HIDE DEF old, new, moved
  <2>1. Cardinality(old \cap moved) = 0
    BY <1>3, FS_EmptySet
  <2>2. Cardinality(old \cup moved) = Cardinality(old) + Cardinality(moved) - Cardinality(old \cap moved)
    BY <1>4, <1>5, FS_Union
  <2> QED BY <1>4, <1>5, <2>1, <2>2
<1>7. /\ Tally(c, A) = Cardinality(old) /\ Tally(s, A) = Cardinality(new)
      /\ Tally(u, A) = Cardinality({i \in 1 .. m + n : u[i] \in A})
  BY <1>1 DEF Tally
<1> QED BY <1>2, <1>4, <1>6, <1>7 DEF u

StringUses == {x \in Instrs : x.op = "la" /\ x.label[1] = "slabel"}
DataLabels == {x \in Instrs : x.op = "data"}

LEMMA PendingGrows ==
    ASSUME IInv, NEW s \in Seq(Instrs), code' = code \o s, globals \in Int, globals' \in Int
    PROVE  /\ Pending' = Pending + Tally(s, StringUses) + (globals' - globals) - Tally(s, DataLabels)
           /\ Pending \in Int
<1>1. code \in Seq(Instrs) /\ code' \in Seq(Instrs)
  BY CodeGrows DEF IInv, TypeOK
<1>2. /\ Tally(code', StringUses) = Tally(code, StringUses) + Tally(s, StringUses)
      /\ Tally(code', DataLabels) = Tally(code, DataLabels) + Tally(s, DataLabels)
      /\ Tally(code, StringUses) \in Nat /\ Tally(code, DataLabels) \in Nat
      /\ Tally(s, StringUses) \in Nat /\ Tally(s, DataLabels) \in Nat
  BY <1>1, TallyConcat
<1>3. ASSUME NEW c \in Seq(Instrs)
      PROVE  /\ {i \in DOMAIN c : c[i].op = "la" /\ c[i].label[1] = "slabel"}
                = {i \in DOMAIN c : c[i] \in StringUses}
             /\ {i \in DOMAIN c : c[i].op = "data"} = {i \in DOMAIN c : c[i] \in DataLabels}
  <2>1. \A i \in DOMAIN c : c[i] \in Instrs
    BY SeqFacts
  <2> QED BY <2>1 DEF StringUses, DataLabels
<1>4. Pending = Tally(code, StringUses) + globals - Tally(code, DataLabels)
  BY <1>1, <1>3, Zenon DEF Pending, Tally
<1>5. Pending' = Tally(code', StringUses) + globals' - Tally(code', DataLabels)
  BY <1>1, <1>3, Zenon DEF Pending, Tally
<1>6. PICK c, d, t, u \in Nat :
         /\ c = Tally(code, StringUses) /\ d = Tally(code, DataLabels)
         /\ t = Tally(s, StringUses) /\ u = Tally(s, DataLabels)
  BY <1>2, Zenon
<1>7. Pending = c + globals - d
  BY <1>4, <1>6, Zenon
<1>8. Pending' = (c + t) + globals' - (d + u)
  BY <1>2, <1>5, <1>6, Zenon
<1>9. Pending' = Pending + t + (globals' - globals) - u /\ Pending \in Int
  BY <1>7, <1>8
<1> QED BY <1>6, <1>9, Zenon

-----------------------------------------------------------------------------
(* Facts that the steps share.                                              *)

LEMMA PushTypes ==
    ASSUME IInv, NEW k \in Nat, NEW s \in s_push(label_stack, k)
    PROVE  s \in LabelStacks
<1> DEFINE t == label_stack
<1>1. /\ STACK_SIZ \in Nat \ {0} /\ t.index \in Int /\ t.index >= -1
      /\ t.stack \in [0 .. STACK_SIZ - 1 -> Nat] /\ t \in LabelStacks
  BY StackTypes
<1>2. s \in s_push(t, k)
  OBVIOUS
<1> HIDE DEF t
<1>3. CASE t.index >= STACK_SIZ
  <2>1. t.index # STACK_SIZ - 1
    BY <1>1, <1>3
  <2>2. s \in {t}
    BY <1>2, <1>3, <2>1, Zenon DEF s_push
  <2> QED BY <1>1, <2>2
<1>4. CASE ~ (t.index >= STACK_SIZ) /\ t.index = STACK_SIZ - 1
  <2>1. s \in {[t EXCEPT !.index = x] : x \in {k, STACK_SIZ}}
    BY <1>2, <1>4, Zenon DEF s_push
  <2>2. PICK x \in {k, STACK_SIZ} : s = [t EXCEPT !.index = x]
    BY <2>1
  <2>3. x \in Nat
    BY <1>1
  <2> QED BY <1>1, <2>2, <2>3 DEF LabelStacks
<1>5. CASE ~ (t.index >= STACK_SIZ) /\ t.index # STACK_SIZ - 1
  <2>1. s \in {[stack |-> [t.stack EXCEPT ![t.index + 1] = k], index |-> t.index + 1]}
    BY <1>2, <1>5, Zenon DEF s_push
  <2>2. s = [stack |-> [t.stack EXCEPT ![t.index + 1] = k], index |-> t.index + 1]
    BY <2>1
  <2>3. [t.stack EXCEPT ![t.index + 1] = k] \in [0 .. STACK_SIZ - 1 -> Nat]
    BY <1>1
  <2>4. t.index + 1 \in Nat \cup {-1}
    BY <1>1
  <2> QED BY <2>2, <2>3, <2>4 DEF LabelStacks
<1> QED BY <1>3, <1>4, <1>5

LEMMA PopTypes ==
    ASSUME IInv
    PROVE  /\ s_pop(label_stack) \in LabelStacks
           /\ \A k \in s_get(label_stack) : k \in Int
<1> DEFINE t == label_stack
<1>1. /\ STACK_SIZ \in Nat \ {0} /\ t.index \in Int /\ t.index >= -1
      /\ t.stack \in [0 .. STACK_SIZ - 1 -> Nat] /\ label_no \in Nat /\ t \in LabelStacks
  BY StackTypes
<1> HIDE DEF t
<1>2. s_pop(t) \in LabelStacks
  <2>1. CASE t.index < 0
    BY <1>1, <2>1 DEF s_pop
  <2>2. CASE ~ (t.index < 0)
    <3>1. s_pop(t) = [t EXCEPT !.index = t.index - 1]
      BY <2>2 DEF s_pop
    <3>2. t.index - 1 \in Nat \cup {-1}
      BY <1>1, <2>2
    <3> QED BY <1>1, <3>1, <3>2 DEF LabelStacks
  <2> QED BY <2>1, <2>2
<1>5. ASSUME NEW k \in s_get(t)
      PROVE  k \in Int
  <2>1. CASE t.index < 0
    <3>1. t.index \notin DOMAIN t.stack /\ t.index # STACK_SIZ
      BY <1>1, <2>1
    <3>2. k \in {-1}
      BY <1>5, <2>1, <3>1, Zenon DEF s_get
    <3> QED BY <3>2
  <2>2. CASE ~ (t.index < 0) /\ t.index \in DOMAIN t.stack
    <3>1. t.index # STACK_SIZ
      BY <1>1, <2>2
    <3>2. k \in {t.stack[t.index]}
      BY <1>5, <2>2, <3>1, Zenon DEF s_get
    <3> QED BY <1>1, <2>2, <3>2
  <2>3. CASE ~ (t.index < 0) /\ t.index \notin DOMAIN t.stack
    <3>1. k \in {STACK_SIZ} \/ k \in 0 .. label_no
      BY <1>5, <2>3, Zenon DEF s_get
    <3> QED BY <1>1, <3>1
  <2> QED BY <2>1, <2>2, <2>3
<1> QED BY <1>2, <1>5 DEF t

LEMMA NamesGrow ==
    ASSUME NEW m \in Nat, NEW k \in Nat, m <= k, NEW g \in Nat, NEW h \in Nat, g <= h
    PROVE  StringNames(m, g) \subseteq StringNames(k, h)
<1>1. {n \in Nat : n < m} \subseteq {n \in Nat : n < k} /\ 1 .. g \subseteq 1 .. h
  OBVIOUS
<1>2. \A A, B, C : B \subseteq C => (A \X B) \subseteq (A \X C)
  BY Zenon
<1> QED BY <1>1, <1>2 DEF StringNames

LEMMA KnownGrows ==
    ASSUME IInv, ProgExtends, label_no' \in Nat, label_no <= label_no',
           sconst_gen' \in Nat, sconst_gen <= sconst_gen',
           globals' \in Nat, globals <= globals'
    PROVE  \A label \in Known : label \in Known'
<1>1. label_no \in Nat /\ sconst_gen \in Nat /\ globals \in Nat
  BY DEF IInv, TypeOK
<1>2. 1 .. label_no \subseteq 1 .. label_no' /\ 1 .. globals \subseteq 1 .. globals'
  BY <1>1
<1>3. StringNames(sconst_gen, globals) \subseteq StringNames(sconst_gen', globals')
  BY <1>1, NamesGrow
<1>4. DOMAIN prog \subseteq DOMAIN prog'
  BY DEF ProgExtends
<1>5. \A A, B, C : B \subseteq C => (A \X B) \subseteq (A \X C)
  BY Zenon
<1> QED BY <1>2, <1>3, <1>4, <1>5 DEF Known

LEMMA OwedKept ==
    ASSUME NEW i, NumberOf(i)' = NumberOf(i), InThen(i)' <=> InThen(i)
    PROVE  Owed(i)' = Owed(i)
BY DEF Owed

LEMMA AwaitedKept ==
    ASSUME \A k \in OpenConditionals' : \A label \in Owed(k)' :
              (\E m \in OpenConditionals : label \in Owed(m)) \/ label \notin Known,
           \A label \in Range(slabel_arr') : label \in Range(slabel_arr) \/ label \notin Known,
           open' # << >> => open # << >> /\ open'[1].stmt = open[1].stmt
    PROVE  \A label : Awaited(label)' => Awaited(label) \/ label \notin Known
<1> SUFFICES ASSUME NEW label, Awaited(label)'
             PROVE  Awaited(label) \/ label \notin Known
  OBVIOUS
<1>1. CASE \E i \in OpenConditionals' : label \in Owed(i)'
  BY <1>1 DEF Awaited
<1>2. CASE label \in Range(slabel_arr')
  BY <1>2 DEF Awaited
<1>3. CASE open' # << >> /\ label = <<"end", open'[1].stmt>>
  BY <1>3 DEF Awaited
<1> QED BY <1>1, <1>2, <1>3 DEF Awaited

LEMMA PushLabel ==
    ASSUME IInv, NEW label \in {"slabel", "global"} \X Nat, label \notin Known,
           Len(slabel_arr) < SLABELS, slabel_arr' = Append(slabel_arr, label)
    PROVE  /\ slabel_arr' \in Seq({"slabel", "global"} \X Nat)
           /\ Len(slabel_arr') = Len(slabel_arr) + 1 /\ Len(slabel_arr) \in Nat
           /\ Len(slabel_arr') <= SLABELS
           /\ \A l : l \in Range(slabel_arr') <=> l \in Range(slabel_arr) \/ l = label
           /\ \A i, j \in DOMAIN slabel_arr' : slabel_arr'[i] = slabel_arr'[j] => i = j
<1> DEFINE S == {"slabel", "global"} \X Nat
           n == Len(slabel_arr)
<1>1. slabel_arr \in Seq(S)
  BY DEF IInv, TypeOK
<1>2. SLABELS \in Nat
  BY SizeAssumption
<1> HIDE DEF S
<1>3. /\ slabel_arr' \in Seq(S) /\ Len(slabel_arr') = n + 1 /\ n \in Nat
      /\ \A i \in 1 .. n : slabel_arr'[i] = slabel_arr[i]
      /\ slabel_arr'[n + 1] = label
  BY <1>1, AppendFacts DEF S
<1>4. DOMAIN slabel_arr' = 1 .. n + 1 /\ DOMAIN slabel_arr = 1 .. n
  BY <1>1, <1>3, SeqFacts
<1> HIDE DEF n
<1>5. \A i \in 1 .. n + 1 : i = n + 1 \/ i \in 1 .. n
  BY <1>3
<1>6. \A i \in 1 .. n : i \in 1 .. n + 1
  BY <1>3
<1>7. n + 1 \in 1 .. n + 1
  BY <1>3
<1>8. \A l : l \in Range(slabel_arr') <=> l \in Range(slabel_arr) \/ l = label
  <2>1. \A i \in 1 .. n + 1 : slabel_arr'[i] \in Range(slabel_arr) \/ slabel_arr'[i] = label
    BY <1>3, <1>4, <1>5, Zenon DEF Range
  <2>2. \A i \in 1 .. n : slabel_arr[i] \in Range(slabel_arr')
    BY <1>3, <1>4, <1>6, Zenon DEF Range
  <2>3. label \in Range(slabel_arr')
    BY <1>3, <1>4, <1>7, Zenon DEF Range
  <2>4. ASSUME NEW l \in Range(slabel_arr')
        PROVE  l \in Range(slabel_arr) \/ l = label
    BY <1>4, <2>1, <2>4, Zenon DEF Range
  <2>5. ASSUME NEW l \in Range(slabel_arr)
        PROVE  l \in Range(slabel_arr')
    BY <1>4, <2>2, <2>5, Zenon DEF Range
  <2> QED BY <2>3, <2>4, <2>5, Zenon
<1>9. label \notin Range(slabel_arr)
  BY DEF IInv, Strings, Known, StringNames
<1>10. \A i \in 1 .. n : slabel_arr[i] # label
  BY <1>4, <1>9, Zenon DEF Range
<1>11. \A i, j \in 1 .. n : slabel_arr[i] = slabel_arr[j] => i = j
  BY <1>4 DEF IInv, Strings
<1>12. \A i, j \in DOMAIN slabel_arr' : slabel_arr'[i] = slabel_arr'[j] => i = j
  BY <1>3, <1>4, <1>5, <1>10, <1>11
<1>13. n + 1 <= SLABELS
  BY <1>2, <1>3 DEF n
<1> QED BY <1>3, <1>8, <1>12, <1>13 DEF S, n

\* IInv without its last three parts, which are about string labels.
Laid == TypeOK /\ Nesting /\ DepthIsDefined(prog) /\ Deep /\ (WithinLimit => Numbered /\ Placed)

\* A step that leaves the label stack and the statements that use it alone.
LEMMA FlatStep ==
    ASSUME IInv, PathKept, OpenConditionals' = OpenConditionals,
           \A i \in OpenConditionals : KeptAt(i) /\ (InThen(i)' <=> InThen(i)),
           open' # << >> => open # << >> /\ open'[1].stmt = open[1].stmt,
           UNCHANGED <<label_no, label_stack, runVars>>,
           NEW s \in Seq(Instrs), code' = code \o s,
           \A i \in 1 .. Len(s) : s[i].op \in {"do", "test", "la"},
           slabel_arr' \in Seq({"slabel", "global"} \X Nat), Len(slabel_arr') <= SLABELS,
           \A label \in Range(slabel_arr') : label \in Range(slabel_arr) \/ label \notin Known,
           sconst_gen' \in Nat, sconst_gen <= sconst_gen',
           globals' \in Nat, globals <= globals',
           expect' \in {"top", "decls", "stmt", "reduced", "no else", "smashed"},
           expect' \in {"top", "decls"} => open' = << >>,
           expect' \in {"stmt", "reduced", "no else"} => open' # << >>
    PROVE  Laid' /\ \A i \in OpenConditionals : NumberOf(i)' = NumberOf(i) /\ Owed(i)' = Owed(i)
<1>1. label_no' = label_no /\ label_stack' = label_stack /\ UNCHANGED runVars /\ label_no \in Nat
  BY DEF IInv, TypeOK
<1>2. ASSUME NEW i \in OpenConditionals
      PROVE  NumberOf(i)' = NumberOf(i) /\ Owed(i)' = Owed(i)
  <2>1. NumberOf(i)' = NumberOf(i)
    BY <1>1, NumberKept
  <2> QED BY <2>1, OwedKept
<1>3. TypeOK' /\ Nesting'
  <2>1. label_stack' \in LabelStacks /\ label_no' \in Nat
    BY <1>1, StackTypes
  <2>2. expect' # "cond"
        /\ expect' \in {"top", "decls", "stmt", "cond", "reduced", "no else", "smashed"}
    OBVIOUS
  <2>3. expect' \in {"stmt", "cond", "reduced", "no else"} => open' # << >>
    BY <2>2
  <2> QED BY <1>1, <2>1, <2>2, <2>3, ParseTypes
<1>4. DepthIsDefined(prog)' /\ Deep' /\ ProgExtends /\ (WithinLimit' => WithinLimit)
  BY DEF PathKept
<1>5. ASSUME WithinLimit'
      PROVE  Numbered' /\ Placed'
  <2>1. Numbered /\ Placed
    BY <1>4, <1>5 DEF IInv
  <2>2. Numbered'
    <3>1. label_stack'.index + 1 = Cardinality(OpenConditionals')
      BY <1>1, <2>1 DEF Numbered
    <3>2. \A op, label : Positions(op, label) \subseteq Positions(op, label)'
      BY CodeGrows DEF IInv
    <3>3. expect' # "cond"
      OBVIOUS
    <3>4. label_no' \in Nat /\ label_no <= label_no'
      BY <1>1, NoLess, Zenon
    <3>5. \A i \in OpenConditionals' \cap OpenConditionals : KeptAt(i) /\ NumberOf(i)' = NumberOf(i)
      BY <1>2
    <3>6. OpenConditionals' \ OpenConditionals = {}
      OBVIOUS
    <3> QED BY <1>1, <2>1, <3>1, <3>2, <3>3, <3>4, <3>5, <3>6, NumberedKept
  <2>3. Placed'
    <3>1. \A label \in Known : label \in Known'
      <4>1. label_no' \in Nat /\ label_no <= label_no'
        BY <1>1, NoLess, Zenon
      <4> QED BY <1>4, <4>1, KnownGrows
    <3>2. \A k \in OpenConditionals' : \A label \in Owed(k)' :
             (\E m \in OpenConditionals : label \in Owed(m)) \/ label \notin Known
      BY <1>2
    <3>3. \A label : Awaited(label)' => Awaited(label) \/ label \notin Known
      BY <3>2, AwaitedKept
    <3>4. \A i \in 1 .. Len(s) : ~ Defines(s[i])
      BY DEF Defines
    <3> QED BY <2>1, <3>1, <3>3, <3>4, PlacedKept
  <2> QED BY <2>2, <2>3
<1> QED BY <1>2, <1>3, <1>4, <1>5 DEF Laid

LEMMA FlatResolving ==
    ASSUME IInv, Resolving, OpenConditionals' = OpenConditionals,
           \A i \in OpenConditionals :
              /\ KeptAt(i) /\ NumberOf(i)' = NumberOf(i) /\ Owed(i)' = Owed(i),
           NEW s \in Seq(Instrs), code' = code \o s,
           \A i \in 1 .. Len(s) : s[i].op \in {"do", "test", "la"},
           \A i \in 1 .. Len(s) : s[i].op = "la" =>
              \/ \E d \in DOMAIN code : code[d].op = "data" /\ code[d].label = s[i].label
              \/ open' # << >> /\ s[i].label \in Range(slabel_arr')
              \/ s[i].label = NamedPlace,
           \A label \in Range(slabel_arr) : label \in Range(slabel_arr'),
           open # << >> => open' # << >>,
           \A g \in 1 .. globals' : g \in 1 .. globals \/ <<"global", g>> \in Range(slabel_arr')
    PROVE  Resolving'
<1>1. /\ \A i \in 1 .. Len(s) : ~ (s[i].op = "label" /\ s[i].label[1] = "begin")
      /\ \A i \in 1 .. Len(s) : s[i].op \notin {"j", "beqz"}
  OBVIOUS
<1>2. \A k \in OpenConditionals : \A label \in Owed(k) :
         \/ \E m \in OpenConditionals' : label \in Owed(m)'
         \/ \E d \in 1 .. Len(s) : s[d].op = "label" /\ s[d].label = label
  OBVIOUS
<1>3. \A i \in 1 .. Len(s) : s[i].op \in {"j", "beqz"} =>
         \/ \E k \in OpenConditionals', label \in {s[i].label} : label \in Owed(k)'
         \/ \E d \in 1 .. Len(s) : s[d].op = "label" /\ s[d].label = s[i].label
         \/ \E d \in DOMAIN code : /\ code[d].op = "label" /\ code[d].label = s[i].label
                                   /\ InFunction(d) = CurrentFunction
  BY <1>1, Zenon
<1>4. \A i \in DOMAIN code' : code'[i].op \in {"j", "beqz"} =>
         \/ Lands(i)'
         \/ /\ InFunction(i)' = CurrentFunction'
            /\ \E k \in OpenConditionals' : code'[i].label \in Owed(k)'
  BY <1>1, <1>2, <1>3, JumpsKept
<1>5. \A label \in Range(slabel_arr) :
         \/ label \in Range(slabel_arr')
         \/ \E d \in 1 .. Len(s) : s[d].op = "data" /\ s[d].label = label
  BY Zenon
<1>6. open # << >> => open' # << >> \/ Range(slabel_arr') = {}
  BY Zenon
<1>7. \A i \in DOMAIN code' : code'[i].op = "la" =>
         \/ \E d \in DOMAIN code' : code'[d].op = "data" /\ code'[d].label = code'[i].label
         \/ open' # << >> /\ code'[i].label \in Range(slabel_arr')
         \/ code'[i].label = NamedPlace
  BY <1>1, <1>5, <1>6, AddressesKept
<1>8. \A i \in OpenConditionals' : Kind(open[i].stmt)' = "while" => HeadPlaced(i)'
  <2> SUFFICES ASSUME NEW i \in OpenConditionals, Kind(open[i].stmt)' = "while"
               PROVE  HeadPlaced(i)'
    BY Zenon
  <2>1. Kind(open[i].stmt) = "while" /\ NumberOf(i)' = NumberOf(i)
    BY DEF KeptAt
  <2>2. PICK n : n = NumberOf(i)
    OBVIOUS
  <2> QED BY <1>1, <2>1, <2>2, HeadsKept
<1>9. \A g \in 1 .. globals' :
         \/ \E d \in DOMAIN code' : code'[d].op = "data" /\ code'[d].label = <<"global", g>>
         \/ <<"global", g>> \in Range(slabel_arr')
  BY <1>1, <1>5, GlobalsKept
<1> QED BY <1>4, <1>7, <1>8, <1>9 DEF Resolving

\* The conclusion of a step.
LEMMA Conclude ==
    ASSUME Laid', WithinLimit' /\ expect' # "smashed" => Resolving', Strings', Counted'
    PROVE  IInv'
BY DEF IInv, Laid

\* The string labels are left alone.
SameLabels == UNCHANGED <<slabel_arr, sconst_gen, globals>>

LEMMA LabelTypes ==
    ASSUME IInv
    PROVE  /\ slabel_arr \in Seq({"slabel", "global"} \X Nat) /\ Len(slabel_arr) <= SLABELS
           /\ Len(slabel_arr) \in Nat
           /\ sconst_gen \in Nat /\ globals \in Nat /\ label_no \in Nat
           /\ sconst_gen <= sconst_gen /\ globals <= globals /\ label_no <= label_no
<1>1. /\ slabel_arr \in Seq({"slabel", "global"} \X Nat) /\ Len(slabel_arr) <= SLABELS
      /\ sconst_gen \in Nat /\ globals \in Nat /\ label_no \in Nat
  BY DEF IInv, TypeOK
<1>2. Len(slabel_arr) \in Nat
  BY <1>1
<1> QED BY <1>1, <1>2, NoLess, Zenon

LEMMA CountedAsBefore ==
    ASSUME IInv, SameLabels, NEW s \in Seq(Instrs), code' = code \o s,
           \A i \in 1 .. Len(s) :
              s[i].op # "data" /\ ~ (s[i].op = "la" /\ s[i].label[1] = "slabel"),
           expect # "smashed", expect' # "smashed"
    PROVE  Strings' /\ Counted'
<1>1. slabel_arr' = slabel_arr /\ sconst_gen' = sconst_gen /\ globals' = globals
  BY DEF SameLabels
<1>2. Strings'
  BY <1>1 DEF IInv, Strings
<1>3. globals \in Int /\ Len(slabel_arr) \in Int
  BY LabelTypes
<1>4. Tally(s, StringUses) = 0 /\ Tally(s, DataLabels) = 0
  BY TallyNone DEF StringUses, DataLabels
<1>5. globals' \in Int
  BY <1>1, <1>3
<1>6. /\ Pending' = Pending + Tally(s, StringUses) + (globals' - globals) - Tally(s, DataLabels)
      /\ Pending \in Int
  BY <1>3, <1>5, PendingGrows
<1>7. \A p, g \in Int : p + 0 + (g - g) - 0 = p
  OBVIOUS
<1>8. Pending' = Pending
  BY <1>1, <1>3, <1>4, <1>6, <1>7, Zenon
<1>9. Counted'
  <2>1. Pending = Len(slabel_arr) + 0
    BY Zenon DEF IInv, Counted
  <2> QED BY <1>1, <1>8, <2>1, Zenon DEF Counted
<1> QED BY <1>2, <1>9

\* Steps that leave the labels of any kind alone.
LEMMA QuietStep ==
    ASSUME IInv, PathKept, OpenConditionals' = OpenConditionals,
           \A i \in OpenConditionals : KeptAt(i) /\ (InThen(i)' <=> InThen(i)),
           open # << >>, open' # << >>, open'[1].stmt = open[1].stmt,
           UNCHANGED <<label_no, label_stack, runVars>>, SameLabels,
           NEW s \in Seq(Instrs), code' = code \o s,
           \A i \in 1 .. Len(s) : s[i].op \in {"do", "test"},
           expect # "smashed", expect' \in {"stmt", "reduced", "no else"}
    PROVE  IInv'
<1>1. slabel_arr' = slabel_arr /\ sconst_gen' = sconst_gen /\ globals' = globals
  BY DEF SameLabels
<1>2. /\ slabel_arr' \in Seq({"slabel", "global"} \X Nat) /\ Len(slabel_arr') <= SLABELS
      /\ sconst_gen' \in Nat /\ sconst_gen <= sconst_gen'
      /\ globals' \in Nat /\ globals <= globals'
  BY <1>1, LabelTypes, Zenon
<1>3. \A i \in 1 .. Len(s) : s[i].op \in {"do", "test", "la"} /\ s[i].op # "la"
  OBVIOUS
<1>4. Range(slabel_arr') = Range(slabel_arr)
  BY <1>1
<1>5. /\ expect' \in {"top", "decls", "stmt", "reduced", "no else", "smashed"}
      /\ expect' \notin {"top", "decls"} /\ expect' # "smashed"
  OBVIOUS
<1>6. Laid' /\ \A i \in OpenConditionals : NumberOf(i)' = NumberOf(i) /\ Owed(i)' = Owed(i)
  BY <1>2, <1>3, <1>4, <1>5, FlatStep
<1>7. ASSUME WithinLimit'
      PROVE  Resolving'
  <2>1. Resolving
    BY <1>7 DEF IInv, PathKept
  <2>2. \A g \in 1 .. globals' : g \in 1 .. globals \/ <<"global", g>> \in Range(slabel_arr')
    BY <1>1
  <2> QED BY <1>3, <1>4, <1>6, <2>1, <2>2, FlatResolving
<1>8. Strings' /\ Counted'
  BY <1>5, CountedAsBefore
<1> QED BY <1>6, <1>7, <1>8, Conclude

-----------------------------------------------------------------------------
(* The steps of the parser.                                                 *)

LEMMA AfterStmtFacts ==
    ASSUME NEW o, NEW lookahead
    PROVE  AfterStmt(o, lookahead) \in {"stmt", lookahead}
BY DEF AfterStmt

LEMMA SimpleKeeps ==
    ASSUME IInv, NEW kind \in {"assign", "return"}, Simple(kind)
    PROVE  IInv'
<1>1. /\ BeginStmt(kind) /\ Emit(<<Do(New)>>) /\ expect' = AfterStmt(open, "reduced")
      /\ UNCHANGED <<label_no, label_stack, slabel_arr, sconst_gen, globals, open, runVars>>
  BY DEF Simple
<1>2. open' = open /\ UNCHANGED <<label_no, label_stack, runVars>> /\ SameLabels
  BY <1>1 DEF SameLabels
<1>3. kind \in Structured!Leaf /\ kind \in Structured!StmtKind \ {"function"}
  BY DEF Structured!Leaf, Structured!StmtKind
<1>4. PathKept /\ OpenConditionals' = OpenConditionals /\ \A i \in DOMAIN open : KeptAt(i)
  BY <1>1, <1>2, <1>3, AddStatement
<1>5. expect = "stmt" /\ open # << >>
  BY <1>1, <1>3, BeginFacts
<1>6. New \in Nat
  BY StackTypes, StateFacts DEF New
<1>7. PICK s : s = <<Do(New)>>
  OBVIOUS
<1>8. s \in Seq(Instrs) /\ \A i \in 1 .. Len(s) : s[i].op \in {"do", "test"}
  <2> DEFINE d == Do(New)
  <2>1. d \in Instrs /\ d.op = "do"
    BY <1>6, InstrFacts DEF Do, Instr
  <2>2. s = <<d>>
    BY <1>7
  <2> HIDE DEF d
  <2>3. s \in Seq(Instrs) /\ Len(s) = 1 /\ s[1] = d
    BY <2>1, <2>2, OneInstr
  <2>4. \A i \in 1 .. 1 : i = 1
    OBVIOUS
  <2> QED BY <2>1, <2>3, <2>4
<1>9. code' = code \o s
  BY <1>1, <1>7 DEF Emit
<1>10. expect' \in {"stmt", "reduced", "no else"} /\ expect # "smashed"
  BY <1>1, <1>5, AfterStmtFacts
<1>11. \A i \in OpenConditionals : KeptAt(i) /\ (InThen(i)' <=> InThen(i))
  BY <1>2, <1>4 DEF OpenConditionals, InThen
<1> QED BY <1>2, <1>4, <1>5, <1>8, <1>9, <1>10, <1>11, QuietStep

LEMMA OwnCode ==
    ASSUME NEW n \in Nat, NEW s \in {<<Do(n)>>, <<Do(n), Test(n), Do(n)>>}
    PROVE  s \in Seq(Instrs) /\ \A i \in 1 .. Len(s) : s[i].op \in {"do", "test"}
<1> DEFINE d == Do(n)
           t == Test(n)
<1>1. d \in Instrs /\ t \in Instrs /\ d.op = "do" /\ t.op = "test"
  BY InstrFacts DEF Do, Test, Instr
<1>2. s = <<d>> \/ s = <<d, t, d>>
  OBVIOUS
<1> HIDE DEF d, t
<1>3. CASE s = <<d>>
  <2>1. s \in Seq(Instrs) /\ Len(s) = 1 /\ s[1] = d
    BY <1>1, <1>3, OneInstr
  <2>2. \A i \in 1 .. 1 : i = 1
    OBVIOUS
  <2> QED BY <1>1, <2>1, <2>2
<1>4. CASE s = <<d, t, d>>
  <2>1. s \in Seq(Instrs) /\ Len(s) = 3 /\ s[1] = d /\ s[2] = t /\ s[3] = d
    BY <1>1, <1>4, ThreeInstrs
  <2>2. \A i \in 1 .. 3 : i = 1 \/ i = 2 \/ i = 3
    OBVIOUS
  <2> QED BY <1>1, <2>1, <2>2
<1> QED BY <1>2, <1>3, <1>4

LEMMA NoCode ==
    ASSUME NEW c \in Seq(Instrs), NEW s, s = << >>
    PROVE  s \in Seq(Instrs) /\ c = c \o s /\ \A i \in 1 .. Len(s) : FALSE
OBVIOUS

LEMMA NoneAtFirst ==
    ASSUME NEW t, t = << >>
    PROVE  DOMAIN t = {}
OBVIOUS

LEMMA IntervalFacts ==
    ASSUME NEW n \in Nat \ {0}
    PROVE  (n # 1 => 1 \in 1 .. n - 1) /\ \A i \in 1 .. n : i # n => i \in 1 .. n - 1
OBVIOUS

\* A statement ends that is not a function.
LEMMA CloseFacts ==
    ASSUME IInv, open # << >>, prog' = prog, open' = Front(open), NEW n, n = Len(open),
           Kind(Context.stmt) # "function"
    PROVE  /\ open' # << >> /\ open'[1].stmt = open[1].stmt
           /\ n \in OpenConditionals <=> Kind(Context.stmt) \in Structured!Conditional
           /\ \A i \in OpenConditionals : i # n => i \in 1 .. n - 1 /\ KeptAt(i) /\ open'[i] = open[i]
           /\ \A i \in OpenConditionals \ {n} : InThen(i)' <=> InThen(i)
<1>1. /\ DOMAIN open' = 1 .. n - 1 /\ n \in Nat \ {0} /\ n \in DOMAIN open
      /\ \A i \in 1 .. n - 1 : i \in DOMAIN open /\ KeptAt(i) /\ open'[i] = open[i]
  BY CloseStatement
<1>2. /\ Context = open[n] /\ (Kind(Context.stmt) = "function" <=> n = 1)
      /\ DOMAIN open = 1 .. n
  BY InnermostFacts
<1>3. 1 \in 1 .. n - 1
  BY <1>1, <1>2, IntervalFacts, Zenon
<1>4. open'[1].stmt = open[1].stmt
  BY <1>1, <1>3, Zenon
<1>5. open' # << >>
  <2>1. DOMAIN open' # {}
    BY <1>1, <1>3, Zenon
  <2> QED BY <2>1, NoneAtFirst, Zenon
<1>6. n \in OpenConditionals <=> Kind(Context.stmt) \in Structured!Conditional
  <2>1. Kind(Context.stmt) = Kind(open[n].stmt)
    BY <1>2, Zenon DEF Kind
  <2>2. n \in OpenConditionals <=> Kind(open[n].stmt) \in Structured!Conditional
    BY <1>1, Zenon DEF OpenConditionals
  <2> QED BY <2>1, <2>2, Zenon
<1>7. \A i \in OpenConditionals : i # n => i \in 1 .. n - 1 /\ KeptAt(i) /\ open'[i] = open[i]
  <2>1. OpenConditionals \subseteq 1 .. n
    BY <1>2, Zenon DEF OpenConditionals
  <2> QED BY <1>1, <2>1, IntervalFacts, Zenon
<1>8. \A i \in OpenConditionals \ {n} : InThen(i)' <=> InThen(i)
  BY <1>7, Zenon DEF InThen
<1> QED BY <1>4, <1>5, <1>6, <1>7, <1>8, Zenon

\* Blocks and for.
LEMMA OpenQuiet ==
    ASSUME IInv, NEW kind \in {"block", "for"}, BeginStmt(kind),
           open' = Append(open, In(New, "body")),
           NEW s \in Seq(Instrs), code' = code \o s,
           \A i \in 1 .. Len(s) : s[i].op \in {"do", "test"},
           expect' = "stmt", UNCHANGED <<label_no, label_stack, runVars>>, SameLabels
    PROVE  IInv'
<1>1. /\ kind \in Structured!StmtKind \ {"function"} /\ kind \notin Structured!Conditional
      /\ "body" \in {"body", "then", "else"} /\ (kind = "if" <=> "body" \in {"then", "else"})
  BY DEF Structured!StmtKind, Structured!Conditional
<1>2. PICK n : n = Len(open) + 1
  OBVIOUS
<1>3. /\ PathKept /\ open # << >> /\ DOMAIN open' = 1 .. n /\ Len(open) \in Nat
      /\ \A i \in DOMAIN open : KeptAt(i) /\ open'[i] = open[i]
      /\ OpenConditionals' =
            OpenConditionals \cup (IF kind \in Structured!Conditional THEN {n} ELSE {})
  BY <1>1, <1>2, OpenStatement
<1>4. OpenConditionals' = OpenConditionals
  BY <1>1, <1>3
<1>5. \A i \in OpenConditionals : KeptAt(i) /\ (InThen(i)' <=> InThen(i))
  BY <1>3 DEF OpenConditionals, InThen
<1>6. open' # << >> /\ open'[1].stmt = open[1].stmt
  <2>1. 1 \in DOMAIN open /\ 1 \in DOMAIN open'
    <3>1. Len(open) \in Nat \ {0} /\ DOMAIN open = 1 .. Len(open)
      BY <1>3, InnermostFacts
    <3> QED BY <1>2, <1>3, <3>1
  <2>2. open' # << >>
    BY <2>1
  <2> QED BY <1>3, <2>1, <2>2
<1>7. expect = "stmt"
  BY DEF BeginStmt
<1> QED BY <1>3, <1>4, <1>5, <1>6, <1>7, QuietStep

LEMMA CloseQuiet ==
    ASSUME IInv, open # << >>, Kind(Context.stmt) \in {"block", "for"}, prog' = prog,
           open' = Front(open), UNCHANGED code, expect # "smashed",
           expect' \in {"stmt", "reduced", "no else"},
           UNCHANGED <<label_no, label_stack, runVars>>, SameLabels
    PROVE  IInv'
<1>1. PICK n : n = Len(open)
  OBVIOUS
<1>2. PathKept /\ OpenConditionals' = OpenConditionals \ {n}
  BY <1>1, CloseStatement
<1>3. Kind(Context.stmt) # "function" /\ Kind(Context.stmt) \notin Structured!Conditional
  BY DEF Structured!Conditional
<1>4. /\ open' # << >> /\ open'[1].stmt = open[1].stmt
      /\ n \notin OpenConditionals
      /\ \A i \in OpenConditionals : i # n => KeptAt(i)
      /\ \A i \in OpenConditionals \ {n} : InThen(i)' <=> InThen(i)
  BY <1>1, <1>3, CloseFacts
<1>5. OpenConditionals' = OpenConditionals
  BY <1>2, <1>4
<1>6. \A i \in OpenConditionals : KeptAt(i) /\ (InThen(i)' <=> InThen(i))
  BY <1>4
<1>7. PICK s : s = << >>
  OBVIOUS
<1>8. /\ s \in Seq(Instrs) /\ code' = code \o s
      /\ \A i \in 1 .. Len(s) : s[i].op \in {"do", "test"}
  <2>1. code \in Seq(Instrs) /\ code' = code
    BY DEF IInv, TypeOK
  <2> QED BY <1>7, <2>1, NoCode, Zenon
<1> QED BY <1>2, <1>4, <1>5, <1>6, <1>8, QuietStep

LEMMA BlockBeginKeeps ==
    ASSUME IInv, BlockBegin
    PROVE  IInv'
<1>1. /\ BeginStmt("block") /\ Emit(<<Do(New)>>) /\ open' = Append(open, In(New, "body"))
      /\ expect' = "stmt"
      /\ UNCHANGED <<label_no, label_stack, slabel_arr, sconst_gen, globals, runVars>>
  BY DEF BlockBegin
<1>2. UNCHANGED <<label_no, label_stack, runVars>> /\ SameLabels
  BY <1>1 DEF SameLabels
<1>3. New \in Nat
  BY StackTypes, StateFacts DEF New
<1>4. PICK s : s = <<Do(New)>>
  OBVIOUS
<1>5. s \in Seq(Instrs) /\ \A i \in 1 .. Len(s) : s[i].op \in {"do", "test"}
  BY <1>3, <1>4, OwnCode
<1>6. code' = code \o s
  BY <1>1, <1>4 DEF Emit
<1> QED BY <1>1, <1>2, <1>5, <1>6, OpenQuiet

LEMMA ForHeadKeeps ==
    ASSUME IInv, ForHead
    PROVE  IInv'
<1>1. /\ BeginStmt("for") /\ Emit(<<Do(New), Test(New), Do(New)>>)
      /\ open' = Append(open, In(New, "body")) /\ expect' = "stmt"
      /\ UNCHANGED <<label_no, label_stack, slabel_arr, sconst_gen, globals, runVars>>
  BY DEF ForHead
<1>2. UNCHANGED <<label_no, label_stack, runVars>> /\ SameLabels
  BY <1>1 DEF SameLabels
<1>3. New \in Nat
  BY StackTypes, StateFacts DEF New
<1>4. PICK s : s = <<Do(New), Test(New), Do(New)>>
  OBVIOUS
<1>5. s \in Seq(Instrs) /\ \A i \in 1 .. Len(s) : s[i].op \in {"do", "test"}
  BY <1>3, <1>4, OwnCode
<1>6. code' = code \o s
  BY <1>1, <1>4 DEF Emit
<1> QED BY <1>1, <1>2, <1>5, <1>6, OpenQuiet

LEMMA BlockEndKeeps ==
    ASSUME IInv, BlockEnd
    PROVE  IInv'
<1>1. /\ expect = "stmt" /\ Kind(Context.stmt) = "block" /\ open' = Front(open)
      /\ expect' = AfterStmt(Front(open), "reduced")
      /\ UNCHANGED <<code, label_no, label_stack, slabel_arr, sconst_gen, globals, prog, runVars>>
  BY DEF BlockEnd
<1>2. UNCHANGED <<label_no, label_stack, runVars>> /\ SameLabels /\ UNCHANGED code /\ prog' = prog
  BY <1>1 DEF SameLabels
<1>3. open # << >> /\ expect' \in {"stmt", "reduced", "no else"} /\ expect # "smashed"
  BY <1>1, AfterStmtFacts DEF IInv, Nesting
<1> QED BY <1>1, <1>2, <1>3, CloseQuiet

LEMMA ForEndKeeps ==
    ASSUME IInv, ForEnd
    PROVE  IInv'
<1>1. /\ expect \in {"reduced", "no else"} /\ Kind(Context.stmt) = "for" /\ open' = Front(open)
      /\ expect' = AfterStmt(Front(open), expect)
      /\ UNCHANGED <<code, label_no, label_stack, slabel_arr, sconst_gen, globals, prog, runVars>>
  BY DEF ForEnd, Complete
<1>2. UNCHANGED <<label_no, label_stack, runVars>> /\ SameLabels /\ UNCHANGED code /\ prog' = prog
  BY <1>1 DEF SameLabels
<1>3. open # << >> /\ expect' \in {"stmt", "reduced", "no else"} /\ expect # "smashed"
  BY <1>1, AfterStmtFacts DEF IInv, Nesting
<1> QED BY <1>1, <1>2, <1>3, CloseQuiet

LEMMA AddressAndDo ==
    ASSUME NEW n \in Nat, NEW label \in LabelName, NEW s, s = <<Address(label), Do(n)>>
    PROVE  /\ s \in Seq(Instrs) /\ Len(s) = 2
           /\ s[1].op = "la" /\ s[1].label = label /\ s[2].op = "do"
           /\ \A i \in 1 .. Len(s) : i = 1 \/ i = 2
           /\ \A i \in 1 .. Len(s) : s[i].op \in {"do", "test", "la"}
           /\ \A i \in 1 .. Len(s) : s[i].op = "la" => s[i].label = label
           /\ label[1] = "slabel" => Tally(s, StringUses) = 1
<1> DEFINE a == Address(label)
           d == Do(n)
<1>1. /\ a \in Instrs /\ d \in Instrs /\ a.op = "la" /\ a.label = label /\ d.op = "do"
  BY InstrFacts DEF Address, Do, Instr
<1>2. s = <<a, d>>
  OBVIOUS
<1> HIDE DEF a, d
<1>3. s \in Seq(Instrs) /\ Len(s) = 2 /\ s[1] = a /\ s[2] = d
  BY <1>1, <1>2, TwoInstrs
<1>4. \A i \in 1 .. 2 : i = 1 \/ i = 2
  OBVIOUS
<1>5. \A i \in 1 .. Len(s) : i = 1 \/ i = 2
  BY <1>3, <1>4
<1>6. \A i \in 1 .. Len(s) : s[i].op \in {"do", "test", "la"}
  BY <1>1, <1>3, <1>5
<1>7. \A i \in 1 .. Len(s) : s[i].op = "la" => s[i].label = label
  BY <1>1, <1>3, <1>5
<1>8. ASSUME label[1] = "slabel"
      PROVE  Tally(s, StringUses) = 1
  <2>1. DOMAIN s = 1 .. 2
    BY <1>3, SeqFacts
  <2>2. a \in StringUses /\ d \notin StringUses
    BY <1>1, <1>8 DEF StringUses
  <2>3. {i \in DOMAIN s : s[i] \in StringUses} = {1}
    <3>1. 1 \in 1 .. 2
      OBVIOUS
    <3>2. 1 \in {i \in DOMAIN s : s[i] \in StringUses}
      BY <1>3, <2>1, <2>2, <3>1, Zenon
    <3>3. \A i \in {j \in DOMAIN s : s[j] \in StringUses} : i = 1
      BY <1>3, <1>4, <2>1, <2>2, Zenon
    <3> QED BY <3>2, <3>3, Zenon
  <2>4. Cardinality({1}) = 1
    BY FS_Singleton
  <2> QED BY <2>3, <2>4, Zenon DEF Tally
<1> QED BY <1>1, <1>3, <1>5, <1>6, <1>7, <1>8

\* A label is put in the array, or finds no room.
LEMMA StringStep ==
    ASSUME IInv, NEW s \in Seq(Instrs), code' = code \o s,
           \A i \in 1 .. Len(s) : s[i].op \in {"do", "test", "la"},
           expect # "smashed", NEW label \in {"slabel", "global"} \X Nat, label \notin Known,
           \/ /\ Len(slabel_arr) < SLABELS /\ slabel_arr' = Append(slabel_arr, label)
              /\ sconst_gen' = sconst_gen + 1 /\ expect' # "smashed"
              /\ label \in StringNames(sconst_gen', globals')
           \/ /\ ~ (Len(slabel_arr) < SLABELS) /\ slabel_arr' = slabel_arr
              /\ sconst_gen' = sconst_gen /\ expect' = "smashed",
           globals' \in Nat, globals <= globals',
           Tally(s, StringUses) + (globals' - globals) = 1
    PROVE  /\ Strings' /\ Counted'
           /\ slabel_arr' \in Seq({"slabel", "global"} \X Nat) /\ Len(slabel_arr') <= SLABELS
           /\ \A l \in Range(slabel_arr') : l \in Range(slabel_arr) \/ l \notin Known
           /\ expect' # "smashed" =>
                 \A l : l \in Range(slabel_arr') <=> l \in Range(slabel_arr) \/ l = label
           /\ sconst_gen' \in Nat /\ sconst_gen <= sconst_gen'
<1> DEFINE u == Tally(s, StringUses)
<1>1. /\ slabel_arr \in Seq({"slabel", "global"} \X Nat) /\ Len(slabel_arr) <= SLABELS
      /\ Len(slabel_arr) \in Nat /\ sconst_gen \in Nat /\ globals \in Nat
      /\ SLABELS \in Nat
  BY LabelTypes, SizeAssumption, Zenon
<1>2. \A m, k \in Nat : m <= k => StringNames(m, globals) \subseteq StringNames(k, globals')
  BY <1>1, NamesGrow, Zenon
<1>3. Pending = Len(slabel_arr) + 0
  BY Zenon DEF IInv, Counted
<1>4. /\ Pending' = Pending + u + (globals' - globals) - Tally(s, DataLabels)
      /\ Pending \in Int
  <2>1. globals \in Int /\ globals' \in Int
    BY <1>1
  <2> QED BY <2>1, PendingGrows
<1>5. Tally(s, DataLabels) = 0
  <2>1. \A i \in 1 .. Len(s) : s[i] \notin DataLabels
    BY DEF DataLabels
  <2> QED BY <2>1, TallyNone
<1>6. Pending' = Len(slabel_arr) + 1
  <2>1. u \in Nat
    BY TallyConcat
  <2>2. u + (globals' - globals) = 1
    OBVIOUS
  <2> HIDE DEF u
  <2>3. \A l, x, g, h \in Int : x + (h - g) = 1 => l + 0 + x + (h - g) - 0 = l + 1
    OBVIOUS
  <2>4. u \in Int /\ globals \in Int /\ globals' \in Int /\ Len(slabel_arr) \in Int
    BY <1>1, <2>1
  <2>5. Pending' = Len(slabel_arr) + 0 + u + (globals' - globals) - 0
    BY <1>3, <1>4, <1>5, Zenon
  <2>6. Len(slabel_arr) + 0 + u + (globals' - globals) - 0 = Len(slabel_arr) + 1
    <3>1. \A g, h \in Int : u + (h - g) = 1 => Len(slabel_arr) + 0 + u + (h - g) - 0 = Len(slabel_arr) + 1
      BY <2>3, <2>4, Zenon
    <3> QED BY <2>2, <2>4, <3>1, Zenon
  <2> QED BY <2>5, <2>6, Zenon
<1>7. Range(slabel_arr) \subseteq StringNames(sconst_gen, globals)
      /\ \A i, j \in DOMAIN slabel_arr : slabel_arr[i] = slabel_arr[j] => i = j
  BY Zenon DEF IInv, Strings
<1>8. CASE /\ Len(slabel_arr) < SLABELS /\ slabel_arr' = Append(slabel_arr, label)
           /\ sconst_gen' = sconst_gen + 1 /\ expect' # "smashed"
           /\ label \in StringNames(sconst_gen', globals')
  <2>1. /\ slabel_arr' \in Seq({"slabel", "global"} \X Nat)
        /\ Len(slabel_arr') = Len(slabel_arr) + 1
        /\ Len(slabel_arr') <= SLABELS
        /\ \A l : l \in Range(slabel_arr') <=> l \in Range(slabel_arr) \/ l = label
        /\ \A i, j \in DOMAIN slabel_arr' : slabel_arr'[i] = slabel_arr'[j] => i = j
    BY <1>8, PushLabel, Zenon
  <2>2. sconst_gen' \in Nat /\ sconst_gen <= sconst_gen'
    <3>1. \A m \in Nat : m + 1 \in Nat /\ m <= m + 1
      OBVIOUS
    <3> QED BY <1>1, <1>8, <3>1, Zenon
  <2>3. StringNames(sconst_gen, globals) \subseteq StringNames(sconst_gen', globals')
    BY <1>1, <1>2, <2>2, Zenon
  <2>4. Range(slabel_arr') \subseteq StringNames(sconst_gen', globals')
    BY <1>7, <1>8, <2>1, <2>3, Zenon
  <2>5. Strings'
    BY <2>1, <2>4, Zenon DEF Strings
  <2>6. Counted'
    <3>1. \A m \in Nat : m + 1 = m + 1 + 0
      OBVIOUS
    <3>2. Pending' = Len(slabel_arr') + 0
      BY <1>1, <1>6, <2>1, <3>1, Zenon
    <3> QED BY <1>8, <3>2, Zenon DEF Counted
  <2> QED BY <2>1, <2>2, <2>5, <2>6, Zenon
<1>9. CASE /\ ~ (Len(slabel_arr) < SLABELS) /\ slabel_arr' = slabel_arr
           /\ sconst_gen' = sconst_gen /\ expect' = "smashed"
  <2>1. Len(slabel_arr) = SLABELS
    <3>1. \A m, n \in Nat : m <= n /\ ~ (m < n) => m = n
      OBVIOUS
    <3> QED BY <1>1, <1>9, <3>1, Zenon
  <2>2. Counted'
    BY <1>6, <1>9, <2>1, Zenon DEF Counted
  <2>3. Strings'
    <3>1. sconst_gen <= sconst_gen
      BY LabelTypes
    <3>2. StringNames(sconst_gen, globals) \subseteq StringNames(sconst_gen, globals')
      BY <1>1, <1>2, <3>1, Zenon
    <3>3. Range(slabel_arr) \subseteq StringNames(sconst_gen, globals')
      BY <1>7, <3>2, Zenon
    <3> QED BY <1>7, <1>9, <3>3, Zenon DEF Strings
  <2> QED BY <1>1, <1>9, <2>2, <2>3, NoLess, Zenon
<1> QED BY <1>8, <1>9, Zenon

LEMMA UseGlobalKeeps ==
    ASSUME IInv, UseGlobal
    PROVE  IInv'
<1>1. /\ BeginStmt("global") /\ expect' = AfterStmt(open, "reduced")
      /\ UNCHANGED <<label_no, label_stack, slabel_arr, sconst_gen, globals, open, runVars>>
  BY DEF UseGlobal
<1>2. open' = open /\ UNCHANGED <<label_no, label_stack, runVars>> /\ SameLabels
  BY <1>1 DEF SameLabels
<1>3. "global" \in Structured!Leaf /\ "global" \in Structured!StmtKind \ {"function"}
  BY DEF Structured!Leaf, Structured!StmtKind
<1>4. PathKept /\ OpenConditionals' = OpenConditionals /\ \A i \in DOMAIN open : KeptAt(i)
  BY <1>1, <1>2, <1>3, AddStatement
<1>5. expect = "stmt" /\ open # << >>
  BY <1>1, <1>3, BeginFacts
<1>6. New \in Nat
  BY StackTypes, StateFacts DEF New
<1>7. PICK g \in 1 .. globals : Emit(<<Address(<<"global", g>>), Do(New)>>)
  BY DEF UseGlobal
<1>8. PICK label : label = <<"global", g>>
  OBVIOUS
<1>9. PICK s : s = <<Address(label), Do(New)>>
  OBVIOUS
<1>10. label \in LabelName /\ label[1] # "slabel"
  <2>1. g \in Int
    OBVIOUS
  <2> QED BY <1>8, <2>1 DEF LabelName
<1>11. /\ s \in Seq(Instrs) /\ \A i \in 1 .. Len(s) : s[i].op \in {"do", "test", "la"}
       /\ \A i \in 1 .. Len(s) : s[i].op = "la" => s[i].label = label
  BY <1>6, <1>9, <1>10, AddressAndDo
<1>12. code' = code \o s
  BY <1>7, <1>8, <1>9, Zenon DEF Emit
<1>13. expect' \in {"stmt", "reduced"}
  BY <1>1, AfterStmtFacts
<1>14. \A i \in OpenConditionals : KeptAt(i) /\ (InThen(i)' <=> InThen(i))
  BY <1>2, <1>4 DEF OpenConditionals, InThen
<1>15. slabel_arr' = slabel_arr /\ sconst_gen' = sconst_gen /\ globals' = globals
  BY <1>2 DEF SameLabels
<1>16. /\ slabel_arr' \in Seq({"slabel", "global"} \X Nat) /\ Len(slabel_arr') <= SLABELS
       /\ sconst_gen' \in Nat /\ sconst_gen <= sconst_gen'
       /\ globals' \in Nat /\ globals <= globals'
  BY <1>15, LabelTypes, Zenon
<1>17. Range(slabel_arr') = Range(slabel_arr)
  BY <1>15
<1>18. /\ expect' \in {"top", "decls", "stmt", "reduced", "no else", "smashed"}
       /\ expect' \notin {"top", "decls"} /\ expect' # "smashed"
  BY <1>13
<1>19. Laid' /\ \A i \in OpenConditionals : NumberOf(i)' = NumberOf(i) /\ Owed(i)' = Owed(i)
  BY <1>2, <1>4, <1>5, <1>11, <1>12, <1>14, <1>16, <1>17, <1>18, FlatStep
<1>20. ASSUME WithinLimit'
       PROVE  Resolving'
  <2>1. Resolving
    BY <1>4, <1>5, <1>20 DEF IInv, PathKept
  <2>2. \A h \in 1 .. globals' : h \in 1 .. globals \/ <<"global", h>> \in Range(slabel_arr')
    BY <1>15
  <2>3. \/ \E d \in DOMAIN code : code[d].op = "data" /\ code[d].label = label
        \/ label \in Range(slabel_arr)
    BY <1>8, <2>1, Zenon DEF Resolving
  <2>4. \A i \in 1 .. Len(s) : s[i].op = "la" =>
           \/ \E d \in DOMAIN code : code[d].op = "data" /\ code[d].label = s[i].label
           \/ open' # << >> /\ s[i].label \in Range(slabel_arr')
           \/ s[i].label = NamedPlace
    BY <1>2, <1>5, <1>11, <1>17, <2>3, Zenon
  <2>5. open # << >> => open' # << >>
    BY <1>2
  <2> QED BY <1>4, <1>11, <1>12, <1>14, <1>17, <1>19, <2>1, <2>2, <2>4, <2>5, FlatResolving
<1>21. Strings' /\ Counted'
  <2>1. \A i \in 1 .. Len(s) :
           s[i].op # "data" /\ ~ (s[i].op = "la" /\ s[i].label[1] = "slabel")
    BY <1>10, <1>11
  <2>2. expect # "smashed"
    BY <1>5
  <2> QED BY <1>2, <1>11, <1>12, <1>18, <2>1, <2>2, CountedAsBefore
<1> QED BY <1>19, <1>20, <1>21, Conclude

LEMMA UseNamedPlaceKeeps ==
    ASSUME IInv, UseNamedPlace
    PROVE  IInv'
<1>1. /\ BeginStmt("named") /\ expect' = AfterStmt(open, "reduced")
      /\ UNCHANGED <<label_no, label_stack, slabel_arr, sconst_gen, globals, open, runVars>>
  BY DEF UseNamedPlace
<1>2. open' = open /\ UNCHANGED <<label_no, label_stack, runVars>> /\ SameLabels
  BY <1>1 DEF SameLabels
<1>3. "named" \in Structured!Leaf /\ "named" \in Structured!StmtKind \ {"function"}
  BY DEF Structured!Leaf, Structured!StmtKind
<1>4. PathKept /\ OpenConditionals' = OpenConditionals /\ \A i \in DOMAIN open : KeptAt(i)
  BY <1>1, <1>2, <1>3, AddStatement
<1>5. expect = "stmt" /\ open # << >>
  BY <1>1, <1>3, BeginFacts
<1>6. New \in Nat
  BY StackTypes, StateFacts DEF New
<1>7. Emit(<<Address(NamedPlace), Do(New)>>)
  BY DEF UseNamedPlace
<1>8. PICK label : label = NamedPlace
  OBVIOUS
<1>9. PICK s : s = <<Address(label), Do(New)>>
  OBVIOUS
<1>10. label \in LabelName /\ label[1] # "slabel"
  BY <1>8 DEF LabelName, NamedPlace
<1>11. /\ s \in Seq(Instrs) /\ \A i \in 1 .. Len(s) : s[i].op \in {"do", "test", "la"}
       /\ \A i \in 1 .. Len(s) : s[i].op = "la" => s[i].label = label
  BY <1>6, <1>9, <1>10, AddressAndDo
<1>12. code' = code \o s
  BY <1>7, <1>8, <1>9, Zenon DEF Emit
<1>13. expect' \in {"stmt", "reduced"}
  BY <1>1, AfterStmtFacts
<1>14. \A i \in OpenConditionals : KeptAt(i) /\ (InThen(i)' <=> InThen(i))
  BY <1>2, <1>4 DEF OpenConditionals, InThen
<1>15. slabel_arr' = slabel_arr /\ sconst_gen' = sconst_gen /\ globals' = globals
  BY <1>2 DEF SameLabels
<1>16. /\ slabel_arr' \in Seq({"slabel", "global"} \X Nat) /\ Len(slabel_arr') <= SLABELS
       /\ sconst_gen' \in Nat /\ sconst_gen <= sconst_gen'
       /\ globals' \in Nat /\ globals <= globals'
  BY <1>15, LabelTypes, Zenon
<1>17. Range(slabel_arr') = Range(slabel_arr)
  BY <1>15
<1>18. /\ expect' \in {"top", "decls", "stmt", "reduced", "no else", "smashed"}
       /\ expect' \notin {"top", "decls"} /\ expect' # "smashed"
  BY <1>13
<1>19. Laid' /\ \A i \in OpenConditionals : NumberOf(i)' = NumberOf(i) /\ Owed(i)' = Owed(i)
  BY <1>2, <1>4, <1>5, <1>11, <1>12, <1>14, <1>16, <1>17, <1>18, FlatStep
<1>20. ASSUME WithinLimit'
       PROVE  Resolving'
  <2>1. Resolving
    BY <1>4, <1>5, <1>20 DEF IInv, PathKept
  <2>2. \A h \in 1 .. globals' : h \in 1 .. globals \/ <<"global", h>> \in Range(slabel_arr')
    BY <1>15
  <2>4. \A i \in 1 .. Len(s) : s[i].op = "la" =>
           \/ \E d \in DOMAIN code : code[d].op = "data" /\ code[d].label = s[i].label
           \/ open' # << >> /\ s[i].label \in Range(slabel_arr')
           \/ s[i].label = NamedPlace
    BY <1>8, <1>11, Zenon
  <2>5. open # << >> => open' # << >>
    BY <1>2
  <2> QED BY <1>4, <1>11, <1>12, <1>14, <1>17, <1>19, <2>1, <2>2, <2>4, <2>5, FlatResolving
<1>21. Strings' /\ Counted'
  <2>1. \A i \in 1 .. Len(s) :
           s[i].op # "data" /\ ~ (s[i].op = "la" /\ s[i].label[1] = "slabel")
    BY <1>10, <1>11
  <2>2. expect # "smashed"
    BY <1>5
  <2> QED BY <1>2, <1>11, <1>12, <1>18, <2>1, <2>2, CountedAsBefore
<1> QED BY <1>19, <1>20, <1>21, Conclude

LEMMA WriteStringKeeps ==
    ASSUME IInv, WriteString
    PROVE  IInv'
<1>1. PICK label : label = <<"slabel", sconst_gen>>
  OBVIOUS
<1>2. /\ BeginStmt("string") /\ push_string_label(label, AfterStmt(open, "reduced"))
      /\ Emit(<<Address(label), Do(New)>>)
      /\ UNCHANGED <<label_no, label_stack, globals, open, runVars>>
  BY <1>1 DEF WriteString, push_string_label
<1>3. open' = open /\ UNCHANGED <<label_no, label_stack, runVars>> /\ globals' = globals
  BY <1>2
<1>4. "string" \in Structured!Leaf /\ "string" \in Structured!StmtKind \ {"function"}
  BY DEF Structured!Leaf, Structured!StmtKind
<1>5. PathKept /\ OpenConditionals' = OpenConditionals /\ \A i \in DOMAIN open : KeptAt(i)
  BY <1>2, <1>3, <1>4, AddStatement
<1>6. expect = "stmt" /\ open # << >>
  BY <1>2, <1>4, BeginFacts
<1>7. New \in Nat /\ sconst_gen \in Nat /\ globals \in Nat
  BY StackTypes, StateFacts, LabelTypes DEF New
<1>8. PICK s : s = <<Address(label), Do(New)>>
  OBVIOUS
<1>9. /\ label \in LabelName /\ label[1] = "slabel" /\ label \in {"slabel", "global"} \X Nat
      /\ label \notin Known
  <2>1. sconst_gen \in Int /\ ~ (sconst_gen < sconst_gen)
    BY <1>7
  <2> QED BY <1>1, <1>7, <2>1 DEF LabelName, Known, StringNames
<1>10. /\ s \in Seq(Instrs) /\ \A i \in 1 .. Len(s) : s[i].op \in {"do", "test", "la"}
       /\ \A i \in 1 .. Len(s) : s[i].op = "la" => s[i].label = label
       /\ Tally(s, StringUses) = 1
  BY <1>7, <1>8, <1>9, AddressAndDo
<1>11. code' = code \o s
  BY <1>2, <1>8, Zenon DEF Emit
<1>12. AfterStmt(open, "reduced") \in {"stmt", "reduced"}
  BY AfterStmtFacts
<1>13. \/ /\ Len(slabel_arr) < SLABELS /\ slabel_arr' = Append(slabel_arr, label)
          /\ sconst_gen' = sconst_gen + 1 /\ expect' \in {"stmt", "reduced"}
       \/ /\ ~ (Len(slabel_arr) < SLABELS) /\ slabel_arr' = slabel_arr
          /\ sconst_gen' = sconst_gen /\ expect' = "smashed"
  BY <1>2, <1>12 DEF push_string_label
<1>14. \/ /\ Len(slabel_arr) < SLABELS /\ slabel_arr' = Append(slabel_arr, label)
          /\ sconst_gen' = sconst_gen + 1 /\ expect' # "smashed"
          /\ label \in StringNames(sconst_gen', globals')
       \/ /\ ~ (Len(slabel_arr) < SLABELS) /\ slabel_arr' = slabel_arr
          /\ sconst_gen' = sconst_gen /\ expect' = "smashed"
  <2>1. \A m \in Nat : m < m + 1
    OBVIOUS
  <2>2. sconst_gen' = sconst_gen + 1 => label \in StringNames(sconst_gen', globals')
    BY <1>1, <1>7, <2>1 DEF StringNames
  <2>3. expect' \in {"stmt", "reduced"} => expect' # "smashed"
    OBVIOUS
  <2> QED BY <1>13, <2>2, <2>3, Zenon
<1>15. globals' \in Nat /\ globals <= globals' /\ Tally(s, StringUses) + (globals' - globals) = 1
  <2>1. \A g \in Nat : 1 + (g - g) = 1
    OBVIOUS
  <2> QED BY <1>3, <1>7, <1>10, <2>1, NoLess, Zenon
<1>16. expect # "smashed"
  BY <1>6
<1>17. /\ Strings' /\ Counted'
       /\ slabel_arr' \in Seq({"slabel", "global"} \X Nat) /\ Len(slabel_arr') <= SLABELS
       /\ \A l \in Range(slabel_arr') : l \in Range(slabel_arr) \/ l \notin Known
       /\ expect' # "smashed" =>
             \A l : l \in Range(slabel_arr') <=> l \in Range(slabel_arr) \/ l = label
       /\ sconst_gen' \in Nat /\ sconst_gen <= sconst_gen'
  BY <1>9, <1>10, <1>11, <1>14, <1>15, <1>16, StringStep
<1>18. \A i \in OpenConditionals : KeptAt(i) /\ (InThen(i)' <=> InThen(i))
  BY <1>3, <1>5 DEF OpenConditionals, InThen
<1>19. /\ expect' \in {"top", "decls", "stmt", "reduced", "no else", "smashed"}
       /\ expect' \notin {"top", "decls"}
  BY <1>13
<1>20. Laid' /\ \A i \in OpenConditionals : NumberOf(i)' = NumberOf(i) /\ Owed(i)' = Owed(i)
  BY <1>3, <1>5, <1>6, <1>10, <1>11, <1>15, <1>17, <1>18, <1>19, FlatStep
<1>21. ASSUME WithinLimit', expect' # "smashed"
       PROVE  Resolving'
  <2>1. Resolving
    BY <1>5, <1>6, <1>21 DEF IInv, PathKept
  <2>2. \A h \in 1 .. globals' : h \in 1 .. globals \/ <<"global", h>> \in Range(slabel_arr')
    BY <1>3
  <2>3. \A i \in 1 .. Len(s) : s[i].op = "la" =>
           \/ \E d \in DOMAIN code : code[d].op = "data" /\ code[d].label = s[i].label
           \/ open' # << >> /\ s[i].label \in Range(slabel_arr')
           \/ s[i].label = NamedPlace
    BY <1>3, <1>6, <1>10, <1>17, <1>21, Zenon
  <2>4. \A l \in Range(slabel_arr) : l \in Range(slabel_arr')
    BY <1>17, <1>21, Zenon
  <2>5. open # << >> => open' # << >>
    BY <1>3
  <2> QED BY <1>5, <1>10, <1>11, <1>18, <1>20, <2>1, <2>2, <2>3, <2>4, <2>5, FlatResolving
<1> QED BY <1>17, <1>20, <1>21, Conclude

LEMMA GlobalDeclKeeps ==
    ASSUME IInv, GlobalDecl
    PROVE  IInv'
<1>1. PICK label : label = <<"global", globals + 1>>
  OBVIOUS
<1>2. /\ expect \in {"top", "decls"} /\ globals' = globals + 1
      /\ push_string_label(label, "decls")
      /\ UNCHANGED <<code, label_no, label_stack, open, prog, runVars>>
  BY <1>1 DEF GlobalDecl, push_string_label
<1>3. /\ open' = open /\ prog' = prog /\ UNCHANGED <<label_no, label_stack, runVars>>
      /\ code' = code
  BY <1>2
<1>4. open = << >> /\ OpenConditionals = {}
  BY <1>2, OutsideFacts
<1>5. PathKept /\ OpenConditionals' = OpenConditionals
  BY <1>3, SameStatements
<1>6. sconst_gen \in Nat /\ globals \in Nat
  BY LabelTypes
<1>7. PICK s : s = << >>
  OBVIOUS
<1>8. /\ s \in Seq(Instrs) /\ code' = code \o s
      /\ \A i \in 1 .. Len(s) : FALSE
  <2>1. code \in Seq(Instrs)
    BY DEF IInv, TypeOK
  <2> QED BY <1>3, <1>7, <2>1, NoCode, Zenon
<1>9. globals + 1 \in Nat /\ globals + 1 \in 1 .. globals + 1 /\ globals + 1 \notin 1 .. globals
  BY <1>6
<1>10. label \in {"slabel", "global"} \X Nat /\ label \notin Known
  BY <1>1, <1>9 DEF Known, StringNames
<1>11. label \in StringNames(sconst_gen', globals')
  BY <1>1, <1>2, <1>9 DEF StringNames
<1>12. \/ /\ Len(slabel_arr) < SLABELS /\ slabel_arr' = Append(slabel_arr, label)
          /\ sconst_gen' = sconst_gen + 1 /\ expect' = "decls"
       \/ /\ ~ (Len(slabel_arr) < SLABELS) /\ slabel_arr' = slabel_arr
          /\ sconst_gen' = sconst_gen /\ expect' = "smashed"
  BY <1>2 DEF push_string_label
<1>13. \/ /\ Len(slabel_arr) < SLABELS /\ slabel_arr' = Append(slabel_arr, label)
          /\ sconst_gen' = sconst_gen + 1 /\ expect' # "smashed"
          /\ label \in StringNames(sconst_gen', globals')
       \/ /\ ~ (Len(slabel_arr) < SLABELS) /\ slabel_arr' = slabel_arr
          /\ sconst_gen' = sconst_gen /\ expect' = "smashed"
  <2>1. expect' = "decls" => expect' # "smashed"
    OBVIOUS
  <2> QED BY <1>11, <1>12, <2>1, Zenon
<1>14. globals' \in Nat /\ globals <= globals' /\ Tally(s, StringUses) + (globals' - globals) = 1
  <2>1. Tally(s, StringUses) = 0
    BY <1>8, TallyNone
  <2>2. \A g \in Nat : g + 1 \in Nat /\ g <= g + 1 /\ 0 + (g + 1 - g) = 1
    OBVIOUS
  <2>3. /\ globals + 1 \in Nat /\ globals <= globals + 1
        /\ 0 + (globals + 1 - globals) = 1
    BY <1>6, <2>2, Zenon
  <2>4. globals' = globals + 1
    BY <1>2
  <2>5. Tally(s, StringUses) + (globals' - globals) = 1
    <3>1. PICK t : t = Tally(s, StringUses)
      OBVIOUS
    <3>2. t = 0
      BY <2>1, <3>1
    <3>3. t + (globals' - globals) = 1
      BY <1>6, <2>4, <3>2
    <3> QED BY <3>1, <3>3
  <2>6. globals' \in Nat /\ globals <= globals'
    BY <2>3, <2>4, Zenon
  <2> QED BY <2>3, <2>5, <2>6, Zenon
<1>15. expect # "smashed" /\ \A i \in 1 .. Len(s) : s[i].op \in {"do", "test", "la"}
  BY <1>2, <1>8
<1>16. /\ Strings' /\ Counted'
       /\ slabel_arr' \in Seq({"slabel", "global"} \X Nat) /\ Len(slabel_arr') <= SLABELS
       /\ \A l \in Range(slabel_arr') : l \in Range(slabel_arr) \/ l \notin Known
       /\ expect' # "smashed" =>
             \A l : l \in Range(slabel_arr') <=> l \in Range(slabel_arr) \/ l = label
       /\ sconst_gen' \in Nat /\ sconst_gen <= sconst_gen'
  BY <1>8, <1>10, <1>13, <1>14, <1>15, StringStep
<1>17. /\ expect' \in {"top", "decls", "stmt", "reduced", "no else", "smashed"}
       /\ expect' \notin {"stmt", "reduced", "no else"}
  BY <1>12
<1>18. Laid'
  BY <1>3, <1>4, <1>5, <1>8, <1>14, <1>15, <1>16, <1>17, FlatStep
<1>19. ASSUME WithinLimit', expect' # "smashed"
       PROVE  Resolving'
  <2>1. Resolving
    BY <1>5, <1>15, <1>19 DEF IInv, PathKept
  <2>2. \A g \in Nat : \A h \in 1 .. g + 1 : h \in 1 .. g \/ h = g + 1
    OBVIOUS
  <2>3. \A h \in 1 .. globals' : h \in 1 .. globals \/ <<"global", h>> \in Range(slabel_arr')
    BY <1>1, <1>2, <1>6, <1>16, <1>19, <2>2, Zenon
  <2>4. \A l \in Range(slabel_arr) : l \in Range(slabel_arr')
    BY <1>16, <1>19, Zenon
  <2> QED BY <1>4, <1>5, <1>8, <1>15, <2>1, <2>3, <2>4, FlatResolving
<1> QED BY <1>16, <1>18, <1>19, Conclude

\* Different statements owe different labels, and no other part of the parser
\* places a label that a statement owes.
LEMMA NumbersDiffer ==
    ASSUME IInv, Numbered, NEW i \in OpenConditionals, NEW j \in OpenConditionals, i # j
    PROVE  NumberOf(i) # NumberOf(j)
<1>1. OpenConditionals \subseteq 1 .. Len(open) /\ Len(open) \in Nat
  BY AroundFacts, StateFacts DEF IInv
<1>2. i \in Int /\ j \in Int
  BY <1>1
<1>3. label_no \in Nat /\ NumberOf(i) \in 1 .. label_no /\ NumberOf(j) \in 1 .. label_no
  BY LabelTypes DEF Numbered
<1>4. CASE i < j
  <2>1. i \in Around(j)
    BY <1>4 DEF Around
  <2>2. NumberOf(i) < NumberOf(j)
    BY <2>1 DEF Numbered
  <2> QED BY <1>3, <2>2
<1>5. CASE j < i
  <2>1. j \in Around(i)
    BY <1>5 DEF Around
  <2>2. NumberOf(j) < NumberOf(i)
    BY <2>1 DEF Numbered
  <2> QED BY <1>3, <2>2
<1> QED BY <1>2, <1>4, <1>5

LEMMA OwedFacts ==
    ASSUME IInv, Numbered, NEW n \in OpenConditionals, NEW label \in Owed(n)
    PROVE  /\ label \in Known /\ label[1] \in {"exit", "else"}
           /\ \A k \in OpenConditionals \ {n} : label \notin Owed(k)
           /\ label \notin Range(slabel_arr)
           /\ \A m : label # <<"end", m>>
<1>1. label = <<"exit", NumberOf(n)>> \/ label = <<"else", NumberOf(n)>>
  BY DEF Owed
<1>2. NumberOf(n) \in 1 .. label_no
  BY DEF Numbered
<1>3. label \in Known
  BY <1>1, <1>2 DEF Known
<1>4. \A k \in OpenConditionals \ {n} : label \notin Owed(k)
  <2> SUFFICES ASSUME NEW k \in OpenConditionals \ {n}
               PROVE  label \notin Owed(k)
    OBVIOUS
  <2>1. NumberOf(k) # NumberOf(n)
    BY NumbersDiffer
  <2> QED BY <1>1, <2>1 DEF Owed
<1>5. label[1] \in {"exit", "else"}
  BY <1>1
<1>6. label \notin Range(slabel_arr)
  <2>1. Range(slabel_arr) \subseteq StringNames(sconst_gen, globals)
    BY DEF IInv, Strings
  <2>2. \A l \in StringNames(sconst_gen, globals) : l[1] \in {"slabel", "global"}
    BY DEF StringNames
  <2> QED BY <1>5, <2>1, <2>2
<1>7. \A m : label # <<"end", m>>
  BY <1>1
<1> QED BY <1>3, <1>4, <1>5, <1>6, <1>7

\* A statement places labels that it owes.
LEMMA PlaceStep ==
    ASSUME IInv, Numbered, Placed, ProgExtends, SameLabels, label_no' = label_no,
           NEW n \in OpenConditionals, OpenConditionals' \subseteq OpenConditionals,
           \A k \in OpenConditionals \ {n} : k \in OpenConditionals' /\ Owed(k)' = Owed(k),
           n \in OpenConditionals' => Owed(n)' \subseteq Owed(n),
           NEW s \in Seq(Instrs), code' = code \o s,
           \A i, j \in 1 .. Len(s) :
              Defines(s[i]) /\ Defines(s[j]) /\ s[i].label = s[j].label => i = j,
           \A i \in 1 .. Len(s) : \A label : Defines(s[i]) /\ label = s[i].label =>
              label \in Owed(n) /\ ~ (n \in OpenConditionals' /\ label \in Owed(n)'),
           open # << >>, open' # << >>, open'[1].stmt = open[1].stmt
    PROVE  Placed'
<1>1. slabel_arr' = slabel_arr /\ sconst_gen' = sconst_gen /\ globals' = globals
  BY DEF SameLabels
<1>2. \A label \in Known : label \in Known'
  <2>1. /\ sconst_gen' \in Nat /\ sconst_gen <= sconst_gen'
        /\ globals' \in Nat /\ globals <= globals'
        /\ label_no' \in Nat /\ label_no <= label_no'
    BY <1>1, LabelTypes, Zenon
  <2> QED BY <2>1, KnownGrows
<1>3. Range(slabel_arr') = Range(slabel_arr)
  BY <1>1
<1>4. \A k \in OpenConditionals' : \A label \in Owed(k)' :
         (\E m \in OpenConditionals : label \in Owed(m)) \/ label \notin Known
  <2> SUFFICES ASSUME NEW k \in OpenConditionals', NEW label \in Owed(k)'
               PROVE  \E m \in OpenConditionals : label \in Owed(m)
    BY Zenon
  <2>1. k \in OpenConditionals /\ label \in Owed(k)
    BY Zenon
  <2> QED BY <2>1, Zenon
<1>5. \A label : Awaited(label)' => Awaited(label) \/ label \notin Known
  BY <1>3, <1>4, AwaitedKept
<1>6. ASSUME NEW label \in Owed(n), ~ (n \in OpenConditionals' /\ label \in Owed(n)')
      PROVE  label \in Known' /\ ~ Awaited(label)' /\ Awaited(label)
  <2>1. /\ label \in Known
        /\ \A k \in OpenConditionals \ {n} : label \notin Owed(k)
        /\ label \notin Range(slabel_arr)
        /\ \A m : label # <<"end", m>>
    BY OwedFacts, Zenon
  <2>2. \A k \in OpenConditionals' : label \notin Owed(k)'
    BY <1>6, <2>1, Zenon
  <2>3. ~ Awaited(label)'
    BY <1>3, <2>1, <2>2, Zenon DEF Awaited
  <2>4. Awaited(label)
    BY Zenon DEF Awaited
  <2> QED BY <1>2, <2>1, <2>3, <2>4, Zenon
<1>7. \A i \in 1 .. Len(s) : \A label : Defines(s[i]) /\ label = s[i].label =>
         /\ label \in Known'
         /\ ~ Awaited(label)'
         /\ Awaited(label) \/ label \notin Known
  BY <1>6, Zenon
<1> QED BY <1>2, <1>5, <1>7, PlacedKept, Zenon

\* The jumps in s go to labels in left, to labels in s or to labels of the function.
Leads(s, left) ==
    \A i \in 1 .. Len(s) : s[i].op = "j" =>
       \/ s[i].label \in left
       \/ \E d \in 1 .. Len(s) : s[d].op = "label" /\ s[d].label = s[i].label
       \/ \E d \in DOMAIN code : /\ code[d].op = "label" /\ code[d].label = s[i].label
                                 /\ InFunction(d) = CurrentFunction

LEMMA PlaceResolves ==
    ASSUME IInv, Resolving, SameLabels,
           NEW n \in OpenConditionals, OpenConditionals' \subseteq OpenConditionals,
           \A k \in OpenConditionals' : KeptAt(k) /\ NumberOf(k)' = NumberOf(k),
           \A k \in OpenConditionals \ {n} : k \in OpenConditionals' /\ Owed(k)' = Owed(k),
           NEW s \in Seq(Instrs), code' = code \o s,
           \A i \in 1 .. Len(s) : s[i].op \in {"label", "j"} /\ s[i].label[1] # "begin",
           NEW left, \A label \in left : n \in OpenConditionals' /\ label \in Owed(n)',
           \A label \in Owed(n) \ left :
              \E d \in 1 .. Len(s) : s[d].op = "label" /\ s[d].label = label,
           Leads(s, left),
           open # << >>, open' # << >>
    PROVE  Resolving'
<1>1. slabel_arr' = slabel_arr /\ globals' = globals
  BY DEF SameLabels
<1>2. Range(slabel_arr') = Range(slabel_arr)
  BY <1>1
<1>3. /\ \A i \in 1 .. Len(s) : ~ (s[i].op = "label" /\ s[i].label[1] = "begin")
      /\ \A i \in 1 .. Len(s) : s[i].op \in {"j", "beqz"} => s[i].op = "j"
      /\ \A i \in 1 .. Len(s) : s[i].op # "la"
  OBVIOUS
<1>4. \A k \in OpenConditionals : \A label \in Owed(k) :
         \/ \E m \in OpenConditionals' : label \in Owed(m)'
         \/ \E d \in 1 .. Len(s) : s[d].op = "label" /\ s[d].label = label
  <2> TAKE k \in OpenConditionals
  <2> TAKE label \in Owed(k)
  <2>1. CASE k # n
    <3>1. k \in OpenConditionals' /\ label \in Owed(k)'
      BY <2>1, Zenon
    <3> QED BY <3>1, Zenon
  <2>2. CASE label \in left
    BY <2>2, Zenon
  <2>3. CASE k = n /\ label \notin left
    <3>1. label \in Owed(n) \ left
      BY <2>3, Zenon
    <3> QED BY <3>1, Zenon
  <2> QED BY <2>1, <2>2, <2>3, Zenon
<1>5. \A i \in 1 .. Len(s) : s[i].op \in {"j", "beqz"} =>
         \/ \E k \in OpenConditionals', label \in {s[i].label} : label \in Owed(k)'
         \/ \E d \in 1 .. Len(s) : s[d].op = "label" /\ s[d].label = s[i].label
         \/ \E d \in DOMAIN code : /\ code[d].op = "label" /\ code[d].label = s[i].label
                                   /\ InFunction(d) = CurrentFunction
  <2> SUFFICES ASSUME NEW i \in 1 .. Len(s), s[i].op \in {"j", "beqz"}
               PROVE  \/ \E k \in OpenConditionals', label \in {s[i].label} : label \in Owed(k)'
                      \/ \E d \in 1 .. Len(s) : s[d].op = "label" /\ s[d].label = s[i].label
                      \/ \E d \in DOMAIN code : /\ code[d].op = "label" /\ code[d].label = s[i].label
                                                /\ InFunction(d) = CurrentFunction
    BY Zenon
  <2>1. s[i].op = "j"
    BY <1>3, Zenon
  <2>2. CASE s[i].label \in left
    <3>1. PICK label : label = s[i].label
      OBVIOUS
    <3>2. label \in {s[i].label} /\ n \in OpenConditionals' /\ label \in Owed(n)'
      BY <2>2, <3>1, Zenon
    <3> QED BY <3>2, Zenon
  <2> QED BY <2>1, <2>2, Zenon DEF Leads
<1>6. \A i \in DOMAIN code' : code'[i].op \in {"j", "beqz"} =>
         \/ Lands(i)'
         \/ /\ InFunction(i)' = CurrentFunction'
            /\ \E k \in OpenConditionals' : code'[i].label \in Owed(k)'
  BY <1>3, <1>4, <1>5, JumpsKept, Zenon
<1>7. \A label \in Range(slabel_arr) :
         \/ label \in Range(slabel_arr')
         \/ \E d \in 1 .. Len(s) : s[d].op = "data" /\ s[d].label = label
  BY <1>2, Zenon
<1>8. open # << >> => open' # << >> \/ Range(slabel_arr') = {}
  BY Zenon
<1>9. \A i \in 1 .. Len(s) : s[i].op = "la" =>
         \/ \E d \in DOMAIN code : code[d].op = "data" /\ code[d].label = s[i].label
         \/ open' # << >> /\ s[i].label \in Range(slabel_arr')
         \/ s[i].label = NamedPlace
  BY <1>3, Zenon
<1>10. \A i \in DOMAIN code' : code'[i].op = "la" =>
         \/ \E d \in DOMAIN code' : code'[d].op = "data" /\ code'[d].label = code'[i].label
         \/ open' # << >> /\ code'[i].label \in Range(slabel_arr')
         \/ code'[i].label = NamedPlace
  BY <1>3, <1>7, <1>8, <1>9, AddressesKept, Zenon
<1>11. \A i \in OpenConditionals' : Kind(open[i].stmt)' = "while" => HeadPlaced(i)'
  <2> SUFFICES ASSUME NEW i \in OpenConditionals', Kind(open[i].stmt)' = "while"
               PROVE  HeadPlaced(i)'
    BY Zenon
  <2>1. /\ i \in OpenConditionals /\ Kind(open[i].stmt) = "while"
        /\ NumberOf(i)' = NumberOf(i)
    <3>1. KeptAt(i) /\ NumberOf(i)' = NumberOf(i) /\ i \in OpenConditionals
      BY Zenon
    <3> QED BY <3>1, Zenon DEF KeptAt
  <2>2. PICK m : m = NumberOf(i)
    OBVIOUS
  <2> QED BY <1>3, <2>1, <2>2, HeadsKept, Zenon
<1>12. \A g \in 1 .. globals' :
         \/ \E d \in DOMAIN code' : code'[d].op = "data" /\ code'[d].label = <<"global", g>>
         \/ <<"global", g>> \in Range(slabel_arr')
  BY <1>1, <1>3, <1>7, GlobalsKept, Zenon
<1> QED BY <1>6, <1>10, <1>11, <1>12 DEF Resolving

\* The code s places the labels that the statement at n owes, but those in left.
Places(s, n, left) ==
    /\ \A i, j \in 1 .. Len(s) :
          Defines(s[i]) /\ Defines(s[j]) /\ s[i].label = s[j].label => i = j
    /\ \A i \in 1 .. Len(s) : \A label : Defines(s[i]) /\ label = s[i].label => label \in Owed(n) \ left
    /\ \A label \in Owed(n) \ left : \E d \in 1 .. Len(s) : s[d].op = "label" /\ s[d].label = label
    /\ \A i \in 1 .. Len(s) : s[i].op = "j" =>
          \/ s[i].label \in left
          \/ \E d \in 1 .. Len(s) : s[d].op = "label" /\ s[d].label = s[i].label
          \/ Kind(open[n].stmt) = "while" /\ s[i].label = <<"test", NumberOf(n)>>

\* The jumps of such code lead somewhere.
LEMMA JumpsPlaced ==
    ASSUME Resolving, NEW n \in OpenConditionals, NEW s, NEW left, Places(s, n, left)
    PROVE  Leads(s, left)
<1> SUFFICES ASSUME NEW i \in 1 .. Len(s), s[i].op = "j",
                    Kind(open[n].stmt) = "while", s[i].label = <<"test", NumberOf(n)>>
             PROVE  \E d \in DOMAIN code : /\ code[d].op = "label" /\ code[d].label = s[i].label
                                           /\ InFunction(d) = CurrentFunction
  BY Zenon DEF Places, Leads
<1>1. HeadPlaced(n)
  BY Zenon DEF Resolving
<1> QED BY <1>1, Zenon DEF HeadPlaced

\* An if or a while ends.
LEMMA PopStep ==
    ASSUME IInv, open # << >>, prog' = prog, open' = Front(open), NEW n, n = Len(open),
           Kind(Context.stmt) \in Structured!Conditional,
           label_stack' = s_pop(label_stack), label_no' = label_no, UNCHANGED runVars, SameLabels,
           NEW s \in Seq(Instrs), code' = code \o s,
           \A i \in 1 .. Len(s) : s[i].op \in {"label", "j"} /\ s[i].label[1] # "begin",
           expect # "smashed", expect' \in {"stmt", "reduced", "no else"},
           n \in OpenConditionals /\ WithinLimit /\ Numbered => Places(s, n, {})
    PROVE  IInv'
<1>1. /\ PathKept /\ OpenConditionals' = OpenConditionals \ {n}
  BY CloseStatement
<1>2. Kind(Context.stmt) # "function"
  BY DEF Structured!Conditional
<1>3. /\ open' # << >> /\ open'[1].stmt = open[1].stmt /\ n \in OpenConditionals
      /\ \A i \in OpenConditionals \ {n} : KeptAt(i) /\ (InThen(i)' <=> InThen(i))
  BY <1>2, CloseFacts, Zenon
<1>4. slabel_arr' = slabel_arr /\ sconst_gen' = sconst_gen /\ globals' = globals
  BY DEF SameLabels
<1>5. /\ slabel_arr' \in Seq({"slabel", "global"} \X Nat) /\ Len(slabel_arr') <= SLABELS
      /\ sconst_gen' \in Nat /\ globals' \in Nat /\ label_no' \in Nat /\ label_no \in Nat
      /\ label_no <= label_no'
  BY <1>4, LabelTypes, Zenon
<1>6. TypeOK' /\ Nesting'
  <2>1. label_stack' \in LabelStacks
    BY PopTypes
  <2>2. /\ expect' \in {"top", "decls", "stmt", "cond", "reduced", "no else", "smashed"}
        /\ expect' \notin {"top", "decls"} /\ expect' # "cond"
    OBVIOUS
  <2> QED BY <1>1, <1>3, <1>5, <2>1, <2>2, ParseTypes
<1>7. DepthIsDefined(prog)' /\ Deep' /\ ProgExtends /\ (WithinLimit' => WithinLimit)
  BY <1>1 DEF PathKept
<1>8. ASSUME WithinLimit
      PROVE  /\ Numbered /\ Placed /\ Resolving /\ Places(s, n, {})
             /\ label_stack'.stack = label_stack.stack
             /\ label_stack'.index + 1 = Cardinality(OpenConditionals')
             /\ \A i \in OpenConditionals \ {n} : NumberOf(i)' = NumberOf(i) /\ Owed(i)' = Owed(i)
  <2>1. Numbered /\ Placed /\ Resolving
    BY <1>8 DEF IInv
  <2>2. Places(s, n, {})
    BY <1>3, <1>8, <2>1
  <2>3. /\ label_stack'.stack = label_stack.stack
        /\ label_stack'.index + 1 = Cardinality(OpenConditionals')
    BY <1>1, <1>3, <1>8, <2>1, GetFacts
  <2>4. ASSUME NEW i \in OpenConditionals \ {n}
        PROVE  NumberOf(i)' = NumberOf(i) /\ Owed(i)' = Owed(i)
    <3>1. NumberOf(i)' = NumberOf(i)
      BY <1>3, <2>3, NumberKept, Zenon
    <3> QED BY <1>3, <3>1, OwedKept, Zenon
  <2> QED BY <2>1, <2>2, <2>3, <2>4
<1>9. ASSUME WithinLimit'
      PROVE  Numbered' /\ Placed' /\ Resolving'
  <2>1. /\ Numbered /\ Placed /\ Resolving /\ Places(s, n, {})
        /\ label_stack'.index + 1 = Cardinality(OpenConditionals')
        /\ \A i \in OpenConditionals \ {n} : NumberOf(i)' = NumberOf(i) /\ Owed(i)' = Owed(i)
    BY <1>7, <1>8, <1>9
  <2>2. Numbered'
    <3>1. \A op, label : Positions(op, label) \subseteq Positions(op, label)'
      BY CodeGrows DEF IInv
    <3>2. \A i \in OpenConditionals' \cap OpenConditionals : KeptAt(i) /\ NumberOf(i)' = NumberOf(i)
      BY <1>1, <1>3, <2>1, Zenon
    <3>3. OpenConditionals' \ OpenConditionals = {} /\ expect' # "cond"
      BY <1>1
    <3> QED BY <1>5, <2>1, <3>1, <3>2, <3>3, NumberedKept
  <2>3. n \notin OpenConditionals' /\ OpenConditionals' \subseteq OpenConditionals
        /\ \A i \in OpenConditionals \ {n} : i \in OpenConditionals'
    BY <1>1
  <2>4. /\ \A i, j \in 1 .. Len(s) :
              Defines(s[i]) /\ Defines(s[j]) /\ s[i].label = s[j].label => i = j
        /\ \A i \in 1 .. Len(s) : \A label : Defines(s[i]) /\ label = s[i].label => label \in Owed(n)
        /\ \A label \in Owed(n) : \E d \in 1 .. Len(s) : s[d].op = "label" /\ s[d].label = label
    BY <2>1 DEF Places
  <2>5. Placed'
    BY <1>3, <1>7, <2>1, <2>3, <2>4, PlaceStep, Zenon
  <2>6. PICK left : left = {}
    OBVIOUS
  <2>7. \A k \in OpenConditionals' : KeptAt(k) /\ NumberOf(k)' = NumberOf(k)
    BY <1>1, <1>3, <2>1, Zenon
  <2>8. Resolving'
    <3>1. Leads(s, left)
      BY <1>3, <2>1, <2>6, JumpsPlaced, Zenon
    <3>2. \A label \in left : FALSE
      BY <2>6
    <3>3. \A label \in Owed(n) \ left :
             \E d \in 1 .. Len(s) : s[d].op = "label" /\ s[d].label = label
      BY <2>4, Zenon
    <3>4. \A k \in OpenConditionals \ {n} : k \in OpenConditionals' /\ Owed(k)' = Owed(k)
      BY <2>1, <2>3, Zenon
    <3> QED BY <1>3, <2>1, <2>3, <2>7, <3>1, <3>2, <3>3, <3>4, PlaceResolves, Zenon
  <2> QED BY <2>2, <2>5, <2>8
<1>10. Strings' /\ Counted'
  <2>1. \A i \in 1 .. Len(s) :
           s[i].op # "data" /\ ~ (s[i].op = "la" /\ s[i].label[1] = "slabel")
    OBVIOUS
  <2>2. expect' # "smashed"
    OBVIOUS
  <2> QED BY <2>1, <2>2, CountedAsBefore
<1>11. Laid'
  BY <1>6, <1>7, <1>9 DEF Laid
<1> QED BY <1>9, <1>10, <1>11, Conclude

\* The kind of an open statement, at its place.
LEMMA AtTop ==
    ASSUME IInv, open # << >>, NEW n, n = Len(open)
    PROVE  /\ Kind(open[n].stmt) = Kind(Context.stmt) /\ (InThen(n) <=> Context.slot = "then")
           /\ Context.slot \in {"then", "else"} <=> Kind(Context.stmt) = "if"
           /\ InThen(n) => Owed(n) = {<<"exit", NumberOf(n)>>, <<"else", NumberOf(n)>>}
           /\ ~ InThen(n) => Owed(n) = {<<"exit", NumberOf(n)>>}
<1>1. /\ Context = open[n] /\ (Kind(Context.stmt) = "if" <=> Context.slot \in {"then", "else"})
  BY InnermostFacts
<1> QED BY <1>1 DEF InThen, Owed

LEMMA PopFacts ==
    ASSUME IInv, NEW ks, ks \subseteq {"if", "while"}, Complete({"reduced", "no else"}),
           Kind(Context.stmt) \in ks,
           UNCHANGED <<label_no, slabel_arr, sconst_gen, globals, prog, runVars>>
    PROVE  /\ open # << >> /\ Kind(Context.stmt) \in Structured!Conditional
           /\ label_no' = label_no /\ UNCHANGED runVars /\ SameLabels /\ prog' = prog
           /\ expect \in {"reduced", "no else"} /\ expect # "smashed"
           /\ \A o : \A e \in {expect, "no else"} : AfterStmt(o, e) \in {"stmt", "reduced", "no else"}
<1>1. expect \in {"reduced", "no else"}
  BY DEF Complete
<1>2. open # << >>
  BY <1>1 DEF IInv, Nesting
<1>3. \A o : \A e \in {expect, "no else"} : AfterStmt(o, e) \in {"stmt", "reduced", "no else"}
  BY <1>1, AfterStmtFacts
<1>4. Kind(Context.stmt) \in Structured!Conditional
  BY DEF Structured!Conditional
<1> QED BY <1>1, <1>2, <1>3, <1>4 DEF SameLabels

\* The code at the end of an if without else, of an if with else and of a while.
IsIfCode(s, k, e) ==
    /\ s \in Seq(Instrs) /\ Len(s) = 3
    /\ s[1].op = "j" /\ s[1].label = <<"exit", k>>
    /\ s[2].op = "label" /\ s[2].label = <<"else", k>>
    /\ s[3].op = "label" /\ s[3].label = <<"exit", e>>
    /\ \A i \in 1 .. Len(s) : i = 1 \/ i = 2 \/ i = 3
    /\ {1, 2, 3} \subseteq 1 .. Len(s)

LEMMA ThreeAre ==
    ASSUME NEW k, NEW e, NEW s, NEW a \in Instrs, NEW b \in Instrs, NEW c \in Instrs,
           a.op = "j", a.label = <<"exit", k>>,
           b.op = "label", b.label = <<"else", k>>,
           c.op = "label", c.label = <<"exit", e>>,
           s = <<a, b>> \o <<c>>
    PROVE  IsIfCode(s, k, e)
<1>1. s \in Seq(Instrs) /\ Len(s) = 3 /\ s[1] = a /\ s[2] = b /\ s[3] = c
  OBVIOUS
<1>2. \A i \in 1 .. 3 : i = 1 \/ i = 2 \/ i = 3
  OBVIOUS
<1>3. {1, 2, 3} \subseteq 1 .. 3
  OBVIOUS
<1> QED BY <1>1, <1>2, <1>3, Zenon DEF IsIfCode

LEMMA IfCode ==
    ASSUME NEW k \in Int, NEW e \in Int, NEW s, s = BetweenBranches(k) \o <<Label(<<"exit", e>>)>>
    PROVE  IsIfCode(s, k, e)
<1> DEFINE a == Jump(<<"exit", k>>)
           b == Label(<<"else", k>>)
           c == Label(<<"exit", e>>)
<1>1. <<"exit", k>> \in LabelName /\ <<"else", k>> \in LabelName /\ <<"exit", e>> \in LabelName
  BY DEF LabelName
<1>2. a \in Instrs /\ b \in Instrs /\ c \in Instrs
  BY <1>1, InstrFacts
<1>3. /\ a.op = "j" /\ a.label = <<"exit", k>>
      /\ b.op = "label" /\ b.label = <<"else", k>>
      /\ c.op = "label" /\ c.label = <<"exit", e>>
  BY DEF Jump, Label, Instr
<1>4. s = <<a, b>> \o <<c>>
  BY DEF BetweenBranches
<1> HIDE DEF a, b, c
<1> QED BY <1>2, <1>3, <1>4, ThreeAre, Zenon

LEMMA IfWithoutElseKeeps ==
    ASSUME IInv, IfWithoutElse
    PROVE  IInv'
<1>1. /\ Complete({"reduced", "no else"}) /\ Context.slot = "then"
      /\ label_stack' = s_pop(label_stack) /\ open' = Front(open)
      /\ expect' = AfterStmt(Front(open), "no else")
      /\ UNCHANGED <<label_no, slabel_arr, sconst_gen, globals, prog, runVars>>
  BY DEF IfWithoutElse
<1>2. PICK k \in s_get(label_stack), e \in s_get(label_stack) :
        Emit(BetweenBranches(k) \o <<Label(<<"exit", e>>)>>)
  BY DEF IfWithoutElse
<1>3. open # << >>
  BY <1>1 DEF IInv, Nesting, Complete
<1>4. PICK n : n = Len(open)
  OBVIOUS
<1>5. /\ Kind(open[n].stmt) = Kind(Context.stmt) /\ InThen(n) /\ Kind(Context.stmt) = "if"
      /\ Owed(n) = {<<"exit", NumberOf(n)>>, <<"else", NumberOf(n)>>}
  BY <1>1, <1>3, <1>4, AtTop
<1>6. /\ Kind(Context.stmt) \in Structured!Conditional
      /\ label_no' = label_no /\ UNCHANGED runVars /\ SameLabels /\ prog' = prog
      /\ expect # "smashed" /\ expect' \in {"stmt", "reduced", "no else"}
  <2>1. {"if"} \subseteq {"if", "while"} /\ Kind(Context.stmt) \in {"if"}
    BY <1>5
  <2> QED BY <1>1, <2>1, PopFacts
<1>7. k \in Int /\ e \in Int
  BY <1>2, PopTypes
<1>8. PICK s : s = BetweenBranches(k) \o <<Label(<<"exit", e>>)>>
  OBVIOUS
<1>9. /\ s \in Seq(Instrs) /\ Len(s) = 3
      /\ s[1].op = "j" /\ s[1].label = <<"exit", k>>
      /\ s[2].op = "label" /\ s[2].label = <<"else", k>>
      /\ s[3].op = "label" /\ s[3].label = <<"exit", e>>
      /\ \A i \in 1 .. Len(s) : i = 1 \/ i = 2 \/ i = 3
      /\ {1, 2, 3} \subseteq 1 .. Len(s)
  <2>1. IsIfCode(s, k, e)
    BY <1>7, <1>8, IfCode, Zenon
  <2> QED BY <2>1 DEF IsIfCode
<1>10. code' = code \o s
  BY <1>2, <1>8 DEF Emit
<1>11. \A i \in 1 .. Len(s) : s[i].op \in {"label", "j"} /\ s[i].label[1] # "begin"
  <2>1. TAKE i \in 1 .. Len(s)
  <2>2. i = 1 \/ i = 2 \/ i = 3
    BY <1>9, <2>1
  <2> QED BY <1>9, <2>2
<1>12. ASSUME n \in OpenConditionals, WithinLimit, Numbered
       PROVE  Places(s, n, {})
  <2>1. k = NumberOf(n) /\ e = NumberOf(n)
    BY <1>2, <1>4, <1>12, GetFacts
  <2>2. PICK m : m = NumberOf(n)
    OBVIOUS
  <2>3. /\ s[1].op = "j" /\ s[1].label = <<"exit", m>>
        /\ s[2].op = "label" /\ s[2].label = <<"else", m>>
        /\ s[3].op = "label" /\ s[3].label = <<"exit", m>>
        /\ Owed(n) = {<<"exit", m>>, <<"else", m>>}
    BY <1>5, <1>9, <2>1, <2>2
  <2>4. \A i, j \in 1 .. Len(s) :
           Defines(s[i]) /\ Defines(s[j]) /\ s[i].label = s[j].label => i = j
    <3>1. ~ Defines(s[1]) /\ s[2].label # s[3].label
      BY <2>3 DEF Defines
    <3> QED BY <1>9, <3>1, Zenon
  <2>5. \A i \in 1 .. Len(s) : \A label : Defines(s[i]) /\ label = s[i].label => label \in Owed(n) \ {}
    BY <1>9, <2>3 DEF Defines
  <2>6. \A label \in Owed(n) \ {} : \E d \in 1 .. Len(s) : s[d].op = "label" /\ s[d].label = label
    BY <1>9, <2>3
  <2>7. \A i \in 1 .. Len(s) : s[i].op = "j" =>
           \E d \in 1 .. Len(s) : s[d].op = "label" /\ s[d].label = s[i].label
    BY <1>9, <2>3
  <2> QED BY <2>4, <2>5, <2>6, <2>7 DEF Places
<1> QED BY <1>1, <1>3, <1>4, <1>6, <1>9, <1>10, <1>11, <1>12, PopStep

IsExit(s, k) ==
    /\ s \in Seq(Instrs) /\ Len(s) = 1
    /\ s[1].op = "label" /\ s[1].label = <<"exit", k>>
    /\ \A i \in 1 .. Len(s) : i = 1
    /\ 1 \in 1 .. Len(s)

LEMMA ExitCode ==
    ASSUME NEW k \in Int, NEW s, s = <<Label(<<"exit", k>>)>>
    PROVE  IsExit(s, k)
<1> DEFINE a == Label(<<"exit", k>>)
<1>1. <<"exit", k>> \in LabelName
  BY DEF LabelName
<1>2. a \in Instrs /\ a.op = "label" /\ a.label = <<"exit", k>>
  BY <1>1, InstrFacts DEF Label, Instr
<1>3. s = <<a>>
  OBVIOUS
<1> HIDE DEF a
<1>4. s \in Seq(Instrs) /\ Len(s) = 1 /\ s[1] = a
  BY <1>2, <1>3, OneInstr
<1>5. 1 \in 1 .. 1 /\ \A i \in 1 .. 1 : i = 1
  OBVIOUS
<1> QED BY <1>2, <1>4, <1>5, Zenon DEF IsExit

LEMMA IfEndKeeps ==
    ASSUME IInv, IfEnd
    PROVE  IInv'
<1>1. /\ Complete({"reduced", "no else"}) /\ Context.slot = "else"
      /\ label_stack' = s_pop(label_stack) /\ open' = Front(open)
      /\ expect' = AfterStmt(Front(open), expect)
      /\ UNCHANGED <<label_no, slabel_arr, sconst_gen, globals, prog, runVars>>
  BY DEF IfEnd
<1>2. PICK k \in s_get(label_stack) : Emit(<<Label(<<"exit", k>>)>>)
  BY DEF IfEnd
<1>3. open # << >>
  BY <1>1 DEF IInv, Nesting, Complete
<1>4. PICK n : n = Len(open)
  OBVIOUS
<1>5. Kind(Context.stmt) = "if" /\ Owed(n) = {<<"exit", NumberOf(n)>>}
  BY <1>1, <1>3, <1>4, AtTop
<1>6. /\ Kind(Context.stmt) \in Structured!Conditional
      /\ label_no' = label_no /\ UNCHANGED runVars /\ SameLabels /\ prog' = prog
      /\ expect # "smashed" /\ expect' \in {"stmt", "reduced", "no else"}
  <2>1. {"if"} \subseteq {"if", "while"} /\ Kind(Context.stmt) \in {"if"}
    BY <1>5
  <2> QED BY <1>1, <2>1, PopFacts
<1>7. PICK s : s = <<Label(<<"exit", k>>)>>
  OBVIOUS
<1>8. IsExit(s, k)
  <2>1. k \in Int
    BY <1>2, PopTypes
  <2> QED BY <1>7, <2>1, ExitCode, Zenon
<1>9. s \in Seq(Instrs)
  BY <1>8 DEF IsExit
<1>10. code' = code \o s
  BY <1>2, <1>7 DEF Emit
<1>11. \A i \in 1 .. Len(s) : s[i].op \in {"label", "j"} /\ s[i].label[1] # "begin"
  BY <1>8 DEF IsExit
<1>12. ASSUME n \in OpenConditionals, WithinLimit, Numbered
       PROVE  Places(s, n, {})
  <2>1. k = NumberOf(n)
    BY <1>2, <1>4, <1>12, GetFacts
  <2>2. Owed(n) = {<<"exit", k>>}
    BY <1>5, <2>1
  <2> QED BY <1>8, <2>2 DEF IsExit, Places
<1> QED BY <1>1, <1>3, <1>4, <1>6, <1>9, <1>10, <1>11, <1>12, PopStep

IsLoopEnd(s, k) ==
    /\ s \in Seq(Instrs) /\ Len(s) = 2
    /\ s[1].op = "j" /\ s[1].label = <<"test", k>>
    /\ s[2].op = "label" /\ s[2].label = <<"exit", k>>
    /\ \A i \in 1 .. Len(s) : i = 1 \/ i = 2
    /\ 2 \in 1 .. Len(s)

LEMMA LoopCode ==
    ASSUME NEW k \in Int, NEW s, s = LoopEnd(k)
    PROVE  IsLoopEnd(s, k)
<1> DEFINE a == Jump(<<"test", k>>)
           b == Label(<<"exit", k>>)
<1>1. <<"test", k>> \in LabelName /\ <<"exit", k>> \in LabelName
  BY DEF LabelName
<1>2. a \in Instrs /\ b \in Instrs
  BY <1>1, InstrFacts
<1>3. a.op = "j" /\ a.label = <<"test", k>> /\ b.op = "label" /\ b.label = <<"exit", k>>
  BY DEF Jump, Label, Instr
<1>4. s = <<a, b>>
  BY DEF LoopEnd
<1> HIDE DEF a, b
<1>5. s \in Seq(Instrs) /\ Len(s) = 2 /\ s[1] = a /\ s[2] = b
  BY <1>2, <1>4, TwoInstrs
<1>6. 2 \in 1 .. 2 /\ \A i \in 1 .. 2 : i = 1 \/ i = 2
  OBVIOUS
<1> QED BY <1>3, <1>5, <1>6, Zenon DEF IsLoopEnd

LEMMA WhileEndKeeps ==
    ASSUME IInv, WhileEnd
    PROVE  IInv'
<1>1. /\ Complete({"reduced", "no else"}) /\ Kind(Context.stmt) = "while"
      /\ label_stack' = s_pop(label_stack) /\ open' = Front(open)
      /\ expect' = AfterStmt(Front(open), expect)
      /\ UNCHANGED <<label_no, slabel_arr, sconst_gen, globals, prog, runVars>>
  BY DEF WhileEnd
<1>2. PICK k \in s_get(label_stack) : Emit(LoopEnd(k))
  BY DEF WhileEnd
<1>3. open # << >>
  BY <1>1 DEF IInv, Nesting, Complete
<1>4. PICK n : n = Len(open)
  OBVIOUS
<1>5. Kind(open[n].stmt) = "while" /\ Owed(n) = {<<"exit", NumberOf(n)>>}
  <2>1. /\ Kind(open[n].stmt) = Kind(Context.stmt) /\ (InThen(n) <=> Context.slot = "then")
        /\ Context.slot \in {"then", "else"} <=> Kind(Context.stmt) = "if"
        /\ ~ InThen(n) => Owed(n) = {<<"exit", NumberOf(n)>>}
    BY <1>3, <1>4, AtTop
  <2>2. Kind(Context.stmt) # "if"
    BY <1>1
  <2>3. Context.slot # "then"
    BY <2>1, <2>2
  <2> QED BY <1>1, <2>1, <2>3
<1>6. /\ Kind(Context.stmt) \in Structured!Conditional
      /\ label_no' = label_no /\ UNCHANGED runVars /\ SameLabels /\ prog' = prog
      /\ expect # "smashed" /\ expect' \in {"stmt", "reduced", "no else"}
  <2>1. {"while"} \subseteq {"if", "while"} /\ Kind(Context.stmt) \in {"while"}
    BY <1>1
  <2> QED BY <1>1, <2>1, PopFacts
<1>7. PICK s : s = LoopEnd(k)
  OBVIOUS
<1>8. IsLoopEnd(s, k)
  <2>1. k \in Int
    BY <1>2, PopTypes
  <2> QED BY <1>7, <2>1, LoopCode, Zenon
<1>9. s \in Seq(Instrs)
  BY <1>8 DEF IsLoopEnd
<1>10. code' = code \o s
  BY <1>2, <1>7 DEF Emit
<1>11. \A i \in 1 .. Len(s) : s[i].op \in {"label", "j"} /\ s[i].label[1] # "begin"
  BY <1>8 DEF IsLoopEnd
<1>12. ASSUME n \in OpenConditionals, WithinLimit, Numbered
       PROVE  Places(s, n, {})
  <2>1. k = NumberOf(n)
    BY <1>2, <1>4, <1>12, GetFacts
  <2>2. Owed(n) = {<<"exit", k>>}
    BY <1>5, <2>1
  <2>3. \A i \in 1 .. Len(s) : s[i].op = "j" => s[i].label = <<"test", NumberOf(n)>>
    BY <1>8, <2>1 DEF IsLoopEnd
  <2>4. \A i \in 1 .. Len(s) : Defines(s[i]) => i = 2
    BY <1>8 DEF IsLoopEnd, Defines
  <2>5. \A i \in 1 .. Len(s) : \A label : Defines(s[i]) /\ label = s[i].label => label \in Owed(n) \ {}
    BY <1>8, <2>2, <2>4 DEF IsLoopEnd
  <2>6. \A label \in Owed(n) \ {} : \E d \in 1 .. Len(s) : s[d].op = "label" /\ s[d].label = label
    BY <1>8, <2>2 DEF IsLoopEnd
  <2> QED BY <1>5, <2>3, <2>4, <2>5, <2>6, Zenon DEF Places
<1> QED BY <1>1, <1>3, <1>4, <1>6, <1>9, <1>10, <1>11, <1>12, PopStep

IsBetween(s, k) ==
    /\ s \in Seq(Instrs) /\ Len(s) = 2
    /\ s[1].op = "j" /\ s[1].label = <<"exit", k>>
    /\ s[2].op = "label" /\ s[2].label = <<"else", k>>
    /\ \A i \in 1 .. Len(s) : i = 1 \/ i = 2
    /\ 2 \in 1 .. Len(s)

LEMMA BetweenCode ==
    ASSUME NEW k \in Int, NEW s, s = BetweenBranches(k)
    PROVE  IsBetween(s, k)
<1> DEFINE a == Jump(<<"exit", k>>)
           b == Label(<<"else", k>>)
<1>1. <<"exit", k>> \in LabelName /\ <<"else", k>> \in LabelName
  BY DEF LabelName
<1>2. a \in Instrs /\ b \in Instrs
  BY <1>1, InstrFacts
<1>3. a.op = "j" /\ a.label = <<"exit", k>> /\ b.op = "label" /\ b.label = <<"else", k>>
  BY DEF Jump, Label, Instr
<1>4. s = <<a, b>>
  BY DEF BetweenBranches
<1> HIDE DEF a, b
<1>5. s \in Seq(Instrs) /\ Len(s) = 2 /\ s[1] = a /\ s[2] = b
  BY <1>2, <1>4, TwoInstrs
<1>6. 2 \in 1 .. 2 /\ \A i \in 1 .. 2 : i = 1 \/ i = 2
  OBVIOUS
<1> QED BY <1>3, <1>5, <1>6, Zenon DEF IsBetween

LEMMA IfElseKeeps ==
    ASSUME IInv, IfElse
    PROVE  IInv'
<1>1. /\ Complete({"reduced"}) /\ Context.slot = "then"
      /\ open' = Append(Front(open), In(Context.stmt, "else")) /\ expect' = "stmt"
      /\ UNCHANGED <<label_no, label_stack, slabel_arr, sconst_gen, globals, prog, runVars>>
  BY DEF IfElse
<1>2. PICK k \in s_get(label_stack) : Emit(BetweenBranches(k))
  BY DEF IfElse
<1>3. open # << >> /\ expect = "reduced" /\ expect # "smashed"
  BY <1>1 DEF IInv, Nesting, Complete
<1>4. PICK n : n = Len(open)
  OBVIOUS
<1>5. /\ prog' = prog /\ label_no' = label_no /\ label_stack' = label_stack
      /\ UNCHANGED runVars /\ SameLabels
  BY <1>1 DEF SameLabels
<1>6. /\ PathKept
      /\ DOMAIN open' = 1 .. n /\ n \in Nat \ {0} /\ n \in DOMAIN open
      /\ \A i \in DOMAIN open : KeptAt(i)
      /\ \A i \in 1 .. n - 1 : i \in DOMAIN open /\ open'[i] = open[i]
      /\ open'[n] = In(Context.stmt, "else") /\ Context = open[n]
      /\ OpenConditionals' = OpenConditionals
  BY <1>1, <1>3, <1>4, <1>5, SecondBranch
<1>7. PICK m : m = NumberOf(n)
  OBVIOUS
<1>8. /\ Kind(open[n].stmt) = "if" /\ Owed(n) = {<<"exit", m>>, <<"else", m>>}
  BY <1>1, <1>3, <1>4, <1>7, AtTop
<1>9. n \in OpenConditionals
  BY <1>6, <1>8 DEF OpenConditionals, Structured!Conditional
<1>10. \A i \in OpenConditionals : KeptAt(i) /\ NumberOf(i)' = NumberOf(i)
  <2> TAKE i \in OpenConditionals
  <2>1. KeptAt(i)
    BY <1>6 DEF OpenConditionals
  <2> QED BY <1>5, <2>1, NumberKept, Zenon
<1>11. \A i \in OpenConditionals \ {n} : Owed(i)' = Owed(i)
  <2> TAKE i \in OpenConditionals \ {n}
  <2>1. i \in 1 .. n - 1
    <3>1. i \in 1 .. n
      BY <1>6 DEF OpenConditionals
    <3> QED BY <1>6, <3>1, IntervalFacts
  <2>2. InThen(i)' <=> InThen(i)
    BY <1>6, <2>1 DEF InThen
  <2> QED BY <1>10, <2>2, OwedKept, Zenon
<1>12. Owed(n)' = {<<"exit", m>>}
  <2>1. NumberOf(n)' = m
    BY <1>7, <1>9, <1>10
  <2>2. ~ InThen(n)'
    BY <1>6 DEF InThen, In
  <2> QED BY <2>1, <2>2 DEF Owed
<1>13. open' # << >> /\ open'[1].stmt = open[1].stmt
  <2>1. 1 \in 1 .. n
    BY <1>6
  <2>2. 1 \in DOMAIN open' /\ 1 \in DOMAIN open
    BY <1>6, <2>1, InnermostFacts, <1>3, <1>4
  <2>3. DOMAIN open' # {}
    BY <2>2
  <2>4. open' # << >>
    BY <2>3, NoneAtFirst, Zenon
  <2> QED BY <1>6, <2>2, <2>4 DEF KeptAt
<1>14. PICK s : s = BetweenBranches(k)
  OBVIOUS
<1>15. IsBetween(s, k)
  <2>1. k \in Int
    BY <1>2, PopTypes
  <2> QED BY <1>14, <2>1, BetweenCode, Zenon
<1>16. s \in Seq(Instrs)
  BY <1>15 DEF IsBetween
<1>17. code' = code \o s
  BY <1>2, <1>14 DEF Emit
<1>18. \A i \in 1 .. Len(s) : s[i].op \in {"label", "j"} /\ s[i].label[1] # "begin"
  BY <1>15 DEF IsBetween
<1>19. /\ slabel_arr' \in Seq({"slabel", "global"} \X Nat) /\ Len(slabel_arr') <= SLABELS
       /\ sconst_gen' \in Nat /\ globals' \in Nat /\ label_no' \in Nat /\ label_no \in Nat
       /\ label_no <= label_no'
  BY <1>5, LabelTypes, Zenon DEF SameLabels
<1>20. TypeOK' /\ Nesting'
  <2>1. label_stack' \in LabelStacks
    BY <1>5, StackTypes
  <2>2. /\ expect' \in {"top", "decls", "stmt", "cond", "reduced", "no else", "smashed"}
        /\ expect' \notin {"top", "decls"} /\ expect' # "cond"
    BY <1>1
  <2> QED BY <1>5, <1>6, <1>13, <1>16, <1>17, <1>19, <2>1, <2>2, ParseTypes
<1>21. DepthIsDefined(prog)' /\ Deep' /\ ProgExtends /\ (WithinLimit' => WithinLimit)
  BY <1>6 DEF PathKept
<1>22. ASSUME WithinLimit'
       PROVE  Numbered' /\ Placed' /\ Resolving'
  <2>1. Numbered /\ Placed /\ Resolving /\ WithinLimit
    BY <1>3, <1>21, <1>22 DEF IInv
  <2>2. k = m
    BY <1>2, <1>4, <1>7, <1>9, <2>1, GetFacts
  <2>3. Numbered'
    <3>1. \A op, label : Positions(op, label) \subseteq Positions(op, label)'
      BY <1>16, <1>17, CodeGrows DEF IInv
    <3>2. \A i \in OpenConditionals' \cap OpenConditionals : KeptAt(i) /\ NumberOf(i)' = NumberOf(i)
      BY <1>10
    <3>3. OpenConditionals' \ OpenConditionals = {} /\ expect' # "cond"
      BY <1>1, <1>6
    <3>4. label_stack'.index + 1 = Cardinality(OpenConditionals')
      BY <1>5, <1>6, <2>1 DEF Numbered
    <3> QED BY <1>19, <2>1, <3>1, <3>2, <3>3, <3>4, NumberedKept
  <2>4. /\ OpenConditionals' \subseteq OpenConditionals /\ n \in OpenConditionals'
        /\ \A i \in OpenConditionals \ {n} : i \in OpenConditionals' /\ Owed(i)' = Owed(i)
        /\ \A i \in OpenConditionals' : KeptAt(i) /\ NumberOf(i)' = NumberOf(i)
    BY <1>6, <1>9, <1>10, <1>11, Zenon
  <2>5. \A i \in 1 .. Len(s) : Defines(s[i]) => i = 2
    BY <1>15 DEF IsBetween, Defines
  <2>6. Placed'
    <3>1. Owed(n)' \subseteq Owed(n)
      BY <1>8, <1>12
    <3>2. \A i, j \in 1 .. Len(s) :
             Defines(s[i]) /\ Defines(s[j]) /\ s[i].label = s[j].label => i = j
      BY <2>5, Zenon
    <3>3. \A i \in 1 .. Len(s) : \A label : Defines(s[i]) /\ label = s[i].label =>
             label \in Owed(n) /\ ~ (n \in OpenConditionals' /\ label \in Owed(n)')
      <4>1. s[2].label \in Owed(n) /\ s[2].label \notin Owed(n)'
        BY <1>8, <1>12, <1>15, <2>2 DEF IsBetween
      <4> QED BY <2>5, <4>1, Zenon
    <3> QED BY <1>3, <1>5, <1>9, <1>13, <1>16, <1>17, <1>21, <2>1, <2>4, <3>1, <3>2, <3>3,
               PlaceStep, Zenon
  <2>7. Resolving'
    <3>1. PICK left : left = {<<"exit", m>>}
      OBVIOUS
    <3>2. \A label \in left : n \in OpenConditionals' /\ label \in Owed(n)'
      BY <1>12, <2>4, <3>1
    <3>3. \A label \in Owed(n) \ left :
             \E d \in 1 .. Len(s) : s[d].op = "label" /\ s[d].label = label
      <4>1. \A label \in Owed(n) \ left : label = <<"else", m>>
        BY <1>8, <3>1
      <4>2. 2 \in 1 .. Len(s) /\ s[2].op = "label" /\ s[2].label = <<"else", m>>
        BY <1>15, <2>2, Zenon DEF IsBetween
      <4> QED BY <4>1, <4>2, Zenon
    <3>4. Leads(s, left)
      <4>1. s[1].label \in left /\ s[2].op # "j"
        BY <1>15, <2>2, <3>1 DEF IsBetween
      <4>2. \A i \in 1 .. Len(s) : i = 1 \/ i = 2
        BY <1>15, Zenon DEF IsBetween
      <4>3. \A i \in 1 .. Len(s) : s[i].op = "j" => s[i].label \in left
        BY <4>1, <4>2, Zenon
      <4> QED BY <4>3, Zenon DEF Leads
    <3> QED BY <1>3, <1>5, <1>9, <1>13, <1>16, <1>17, <1>18, <2>1, <2>4, <3>2, <3>3, <3>4,
               PlaceResolves, Zenon
  <2> QED BY <2>3, <2>6, <2>7
<1>23. Strings' /\ Counted'
  <2>1. \A i \in 1 .. Len(s) :
           s[i].op # "data" /\ ~ (s[i].op = "la" /\ s[i].label[1] = "slabel")
    BY <1>18
  <2>2. expect' # "smashed"
    BY <1>1
  <2> QED BY <1>3, <1>5, <1>16, <1>17, <2>1, <2>2, CountedAsBefore
<1>24. Laid'
  BY <1>20, <1>21, <1>22 DEF Laid
<1> QED BY <1>22, <1>23, <1>24, Conclude

\* The first instructions of an if or a while with the number m.
Introduces(s, kind, m) ==
    /\ s \in Seq(Instrs)
    /\ \A i \in 1 .. Len(s) : s[i].op \in {"test", "beqz", "label"}
    /\ \A i \in 1 .. Len(s) : s[i].op = "label" => s[i].label = <<"test", m>>
    /\ \A i \in 1 .. Len(s) : s[i].op = "beqz" => kind = "if" /\ s[i].label = <<"else", m>>
    /\ \A i, j \in 1 .. Len(s) : s[i].op = "label" /\ s[j].op = "label" => i = j
    /\ kind = "if" => \E i \in 1 .. Len(s) : s[i].op = "beqz" /\ s[i].label = <<"else", m>>
    /\ kind = "while" => \E i \in 1 .. Len(s) : s[i].op = "label" /\ s[i].label = <<"test", m>>

\* What an instruction of a step is found as.
LEMMA Found ==
    ASSUME IInv, NEW s \in Seq(Instrs), code' = code \o s,
           NEW op, NEW label, \E i \in 1 .. Len(s) : s[i].op = op /\ s[i].label = label
    PROVE  Positions(op, label)' # {}
<1>1. /\ DOMAIN code' = 1 .. Len(code) + Len(s) /\ Len(s) \in Nat /\ Len(code) \in Nat
      /\ \A i \in 1 .. Len(s) : code'[Len(code) + i] = s[i]
  BY CodeGrows DEF IInv
<1>2. PICK i \in 1 .. Len(s) : s[i].op = op /\ s[i].label = label
  OBVIOUS
<1>3. Len(code) + i \in DOMAIN code'
  BY <1>1
<1>4. code'[Len(code) + i].op = op /\ code'[Len(code) + i].label = label
  BY <1>1, <1>2, Zenon
<1>5. Len(code) + i \in Positions(op, label)'
  BY <1>3, <1>4, Zenon DEF Positions
<1> QED BY <1>5

\* The numbers on the stack when a statement is put on it.
LEMMA NumbersPushed ==
    ASSUME IInv, Numbered, Cardinality(OpenConditionals) < STACK_SIZ, NEW m \in Nat,
           label_stack' \in s_push(label_stack, m),
           \A i \in OpenConditionals : KeptAt(i),
           NEW n, Around(n)' = OpenConditionals
    PROVE  /\ NumberOf(n)' = m
           /\ \A i \in OpenConditionals : NumberOf(i)' = NumberOf(i)
           /\ label_stack'.index = Cardinality(OpenConditionals)
<1>1. /\ label_stack'.index = Cardinality(OpenConditionals)
      /\ label_stack'.stack[Cardinality(OpenConditionals)] = m
      /\ \A i \in 0 .. STACK_SIZ - 1 :
            i # Cardinality(OpenConditionals) => label_stack'.stack[i] = label_stack.stack[i]
  <2>1. PICK t : t = label_stack'
    OBVIOUS
  <2>2. t \in s_push(label_stack, m)
    BY <2>1, Zenon
  <2>3. /\ t.index = Cardinality(OpenConditionals)
        /\ t.stack[Cardinality(OpenConditionals)] = m
        /\ \A i \in 0 .. STACK_SIZ - 1 :
              i # Cardinality(OpenConditionals) => t.stack[i] = label_stack.stack[i]
    <3>1. Pushed(t, m)
      BY <2>2, PushFacts, Zenon
    <3> QED BY <3>1, Zenon DEF Pushed
  <2> QED BY <2>1, <2>3, Zenon
<1>2. NumberOf(n)' = m
  BY <1>1 DEF NumberOf
<1>3. ASSUME NEW i \in OpenConditionals
      PROVE  NumberOf(i)' = NumberOf(i)
  <2> DEFINE c == Cardinality(Around(i))
  <2>1. c \in Nat /\ c < Cardinality(OpenConditionals) /\ Cardinality(OpenConditionals) \in Nat
    BY AroundFacts DEF IInv
  <2> HIDE DEF c
  <2>2. c \in 0 .. STACK_SIZ - 1 /\ c # Cardinality(OpenConditionals)
    BY <2>1, SizeAssumption
  <2>3. label_stack'.stack[c] = label_stack.stack[c]
    BY <1>1, <2>2
  <2> QED BY <2>3, NumberKept DEF c
<1> QED BY <1>1, <1>2, <1>3

LEMMA SuccFacts ==
    ASSUME NEW k \in Nat, NEW m, m = k + 1
    PROVE  /\ m \in Nat /\ k <= m /\ m \in 1 .. m /\ m \notin 1 .. k
           /\ \A i \in 1 .. k : i < m
OBVIOUS

\* An if or a while begins.
LEMMA PushStep ==
    ASSUME IInv, NEW kind \in {"if", "while"}, BeginStmt(kind),
           NEW slot \in {"body", "then"}, kind = "if" <=> slot = "then",
           open' = Append(open, In(New, slot)), NEW m, m = label_no + 1, label_no' = m,
           label_stack' \in s_push(label_stack, m), UNCHANGED runVars, SameLabels,
           NEW s, Introduces(s, kind, m), code' = code \o s,
           expect' = IF kind = "while" THEN "cond" ELSE "stmt"
    PROVE  IInv'
<1>1. PICK n : n = Len(open) + 1
  OBVIOUS
<1>2. /\ PathKept
      /\ open # << >> /\ DOMAIN open' = 1 .. n /\ Len(open') = n
      /\ Len(open) \in Nat /\ n \notin DOMAIN open
      /\ open'[n] = In(New, slot) /\ Kind(open[n].stmt)' = kind
      /\ \A i \in DOMAIN open : KeptAt(i) /\ open'[i] = open[i]
      /\ OpenConditionals' = OpenConditionals \cup {n}
      /\ Around(n)' = OpenConditionals
      /\ WithinLimit' => Cardinality(OpenConditionals) < STACK_SIZ
  <2>1. /\ kind \in Structured!StmtKind \ {"function"} /\ kind \in Structured!Conditional
        /\ slot \in {"body", "then", "else"} /\ (kind = "if" <=> slot \in {"then", "else"})
    BY DEF Structured!StmtKind, Structured!Conditional
  <2> QED BY <1>1, <2>1, OpenStatement
<1>3. /\ label_no \in Nat /\ m \in Nat /\ label_no <= m /\ m \in 1 .. m /\ m \notin 1 .. label_no
      /\ \A i \in 1 .. label_no : i < m
  BY LabelTypes, SuccFacts, Zenon
<1>4. /\ s \in Seq(Instrs)
      /\ \A i \in 1 .. Len(s) : s[i].op \in {"test", "beqz", "label"}
      /\ \A i \in 1 .. Len(s) : s[i].op = "label" => s[i].label = <<"test", m>>
  BY DEF Introduces
<1>5. slabel_arr' = slabel_arr /\ sconst_gen' = sconst_gen /\ globals' = globals
  BY DEF SameLabels
<1>6. /\ slabel_arr' \in Seq({"slabel", "global"} \X Nat) /\ Len(slabel_arr') <= SLABELS
      /\ sconst_gen' \in Nat /\ sconst_gen <= sconst_gen'
      /\ globals' \in Nat /\ globals <= globals'
  BY <1>5, LabelTypes, Zenon
<1>7. open' # << >> /\ open'[1].stmt = open[1].stmt
  <2>1. 1 \in DOMAIN open /\ 1 \in DOMAIN open'
    <3>1. Len(open) \in Nat \ {0} /\ DOMAIN open = 1 .. Len(open)
      BY <1>2, InnermostFacts
    <3> QED BY <1>1, <1>2, <3>1
  <2>2. open' # << >>
    BY <2>1
  <2> QED BY <1>2, <2>1, <2>2
<1>8. /\ expect = "stmt" /\ expect # "smashed" /\ expect' \in {"stmt", "cond"}
      /\ expect' # "smashed"
  BY DEF BeginStmt
<1>9. Kind(Context.stmt)' = kind
  <2>1. Context' = open'[n]
    BY <1>2 DEF Context, Last
  <2> QED BY <1>2, <2>1 DEF Kind
<1>10. TypeOK' /\ Nesting'
  <2>1. label_stack' \in LabelStacks
    BY <1>3, PushTypes
  <2>2. /\ expect' \in {"top", "decls", "stmt", "cond", "reduced", "no else", "smashed"}
        /\ expect' \notin {"top", "decls"}
        /\ expect' = "cond" => Kind(Context.stmt)' = "while"
    BY <1>8, <1>9
  <2> QED BY <1>2, <1>3, <1>4, <1>6, <1>7, <2>1, <2>2, ParseTypes
<1>11. DepthIsDefined(prog)' /\ Deep' /\ ProgExtends /\ (WithinLimit' => WithinLimit)
  BY <1>2 DEF PathKept
<1>12. \A i \in OpenConditionals : KeptAt(i) /\ (InThen(i)' <=> InThen(i))
  BY <1>2 DEF OpenConditionals, InThen
<1>13. n \notin OpenConditionals /\ n \in OpenConditionals'
  BY <1>2 DEF OpenConditionals
<1>14. ASSUME WithinLimit'
       PROVE  /\ Numbered /\ Placed /\ Resolving
              /\ NumberOf(n)' = m
              /\ \A i \in OpenConditionals : NumberOf(i)' = NumberOf(i) /\ Owed(i)' = Owed(i)
              /\ label_stack'.index + 1 = Cardinality(OpenConditionals')
  <2>1. Numbered /\ Placed /\ Resolving
    BY <1>8, <1>11, <1>14 DEF IInv
  <2>2. /\ NumberOf(n)' = m
        /\ \A i \in OpenConditionals : NumberOf(i)' = NumberOf(i)
        /\ label_stack'.index = Cardinality(OpenConditionals)
    <3>1. Cardinality(OpenConditionals) < STACK_SIZ
      BY <1>2, <1>14
    <3> QED BY <1>2, <1>3, <1>12, <2>1, <3>1, NumbersPushed
  <2>3. \A i \in OpenConditionals : Owed(i)' = Owed(i)
    BY <1>12, <2>2, OwedKept, Zenon
  <2>4. Cardinality(OpenConditionals \cup {n}) = Cardinality(OpenConditionals) + 1
    <3>1. IsFiniteSet(OpenConditionals)
      BY AroundFacts DEF IInv
    <3> QED BY <1>13, <3>1, FS_AddElement
  <2> QED BY <1>2, <2>1, <2>2, <2>3, <2>4
<1>15. ASSUME WithinLimit'
       PROVE  Numbered'
  <2>1. \A op, label : Positions(op, label) \subseteq Positions(op, label)'
    BY <1>4, CodeGrows DEF IInv
  <2>2. \A i \in OpenConditionals' \cap OpenConditionals : KeptAt(i) /\ NumberOf(i)' = NumberOf(i)
    BY <1>12, <1>14, <1>15, Zenon
  <2>3. FirstUse(Kind(open[n].stmt), NumberOf(n))' # {}
    <3>1. CASE kind = "while"
      <4>1. Positions("label", <<"test", m>>)' # {}
        <5>1. PICK head : head = <<"test", m>>
          OBVIOUS
        <5>2. \E i \in 1 .. Len(s) : s[i].op = "label" /\ s[i].label = head
          BY <3>1, <5>1, Zenon DEF Introduces
        <5>3. Positions("label", head)' # {}
          BY <1>4, <5>2, Found, Zenon
        <5> QED BY <5>1, <5>3
      <4> QED BY <1>2, <1>14, <1>15, <3>1, <4>1 DEF FirstUse
    <3>2. CASE kind = "if"
      <4>1. Positions("beqz", <<"else", m>>)' # {}
        <5>1. PICK branch : branch = <<"else", m>>
          OBVIOUS
        <5>2. \E i \in 1 .. Len(s) : s[i].op = "beqz" /\ s[i].label = branch
          BY <3>2, <5>1, Zenon DEF Introduces
        <5>3. Positions("beqz", branch)' # {}
          BY <1>4, <5>2, Found, Zenon
        <5> QED BY <5>1, <5>3
      <4> QED BY <1>2, <1>14, <1>15, <3>2, <4>1 DEF FirstUse
    <3> QED BY <3>1, <3>2
  <2>4. \A i \in OpenConditionals' \ OpenConditionals :
              /\ NumberOf(i)' \in 1 .. label_no'
              /\ \A j \in Around(i)' : j \in OpenConditionals /\ NumberOf(j) < NumberOf(i)'
              /\ FirstUse(Kind(open[i].stmt), NumberOf(i))' # {}
    <3> TAKE i \in OpenConditionals' \ OpenConditionals
    <3>1. i = n
      BY <1>2
    <3>2. \A j \in OpenConditionals : NumberOf(j) \in 1 .. label_no
      BY <1>14, <1>15 DEF Numbered
    <3>3. NumberOf(n)' \in 1 .. label_no'
          /\ \A j \in Around(n)' : j \in OpenConditionals /\ NumberOf(j) < NumberOf(n)'
      BY <1>2, <1>3, <1>14, <1>15, <3>2, Zenon
    <3> QED BY <2>3, <3>1, <3>3
  <2>5. expect' = "cond" => (NumberOf(Len(open)) = label_no)'
    BY <1>2, <1>14, <1>15 DEF NumberOf
  <2>6. label_no' \in Nat /\ label_no <= label_no'
    BY <1>3
  <2> QED BY <1>3, <1>14, <1>15, <2>1, <2>2, <2>4, <2>5, <2>6, NumberedKept
<1>16. ASSUME WithinLimit'
       PROVE  Placed'
  <2>1. \A label \in Known : label \in Known'
    BY <1>3, <1>6, <1>11, KnownGrows
  <2>2. \A label \in Owed(n)' : label[1] \in {"exit", "else"} /\ label \notin Known
    <3>1. \A label \in Owed(n)' : label = <<"exit", m>> \/ label = <<"else", m>>
      BY <1>14, <1>16 DEF Owed
    <3> QED BY <1>3, <3>1 DEF Known, StringNames
  <2>3. \A k \in OpenConditionals' : \A label \in Owed(k)' :
           (\E j \in OpenConditionals : label \in Owed(j)) \/ label \notin Known
    <3> TAKE k \in OpenConditionals'
    <3>1. CASE k = n
      BY <2>2, <3>1, Zenon
    <3>2. CASE k # n
      BY <1>2, <1>14, <1>16, <3>2, Zenon
    <3> QED BY <3>1, <3>2
  <2>4. \A label : Awaited(label)' => Awaited(label) \/ label \notin Known
    <3>1. Range(slabel_arr') = Range(slabel_arr)
      BY <1>5
    <3> QED BY <1>2, <1>7, <2>3, <3>1, AwaitedKept
  <2>5. \A i, j \in 1 .. Len(s) :
           Defines(s[i]) /\ Defines(s[j]) /\ s[i].label = s[j].label => i = j
    BY <1>4 DEF Introduces, Defines
  <2>6. PICK head : head = <<"test", m>>
    OBVIOUS
  <2>7. head \in Known' /\ ~ Awaited(head)' /\ head \notin Known
    <3>1. head \in Known' /\ head \notin Known
      BY <1>3, <2>6 DEF Known, StringNames
    <3>2. \A k \in OpenConditionals' : head \notin Owed(k)'
      BY <2>6 DEF Owed
    <3>3. head \notin Range(slabel_arr')
      <4>1. Range(slabel_arr) \subseteq StringNames(sconst_gen, globals)
        BY DEF IInv, Strings
      <4>2. \A l \in StringNames(sconst_gen, globals) : l[1] \in {"slabel", "global"}
        BY DEF StringNames
      <4> QED BY <1>5, <2>6, <4>1, <4>2
    <3>4. head # <<"end", open'[1].stmt>>
      BY <2>6
    <3> QED BY <3>1, <3>2, <3>3, <3>4 DEF Awaited
  <2>8. \A i \in 1 .. Len(s) : \A label :
              Defines(s[i]) /\ label = s[i].label =>
                 /\ label \in Known'
                 /\ ~ Awaited(label)'
                 /\ Awaited(label) \/ label \notin Known
    <3>1. \A i \in 1 .. Len(s) : Defines(s[i]) => s[i].label = head
      BY <1>4, <2>6 DEF Defines
    <3> QED BY <2>7, <3>1, Zenon
  <2> QED BY <1>4, <1>14, <1>16, <2>1, <2>4, <2>5, <2>8, PlacedKept, Zenon
<1>17. ASSUME WithinLimit'
       PROVE  Resolving'
  <2>1. /\ \A i \in 1 .. Len(s) : ~ (s[i].op = "label" /\ s[i].label[1] = "begin")
        /\ \A i \in 1 .. Len(s) : s[i].op # "la"
    <3>1. PICK head : head = <<"test", m>>
      OBVIOUS
    <3>2. head[1] # "begin"
      BY <3>1
    <3> QED BY <1>4, <3>1, <3>2, Zenon
  <2>2. \A k \in OpenConditionals : \A label \in Owed(k) :
           \/ \E j \in OpenConditionals' : label \in Owed(j)'
           \/ \E d \in 1 .. Len(s) : s[d].op = "label" /\ s[d].label = label
    BY <1>2, <1>14, <1>17, Zenon
  <2>3. kind = "if" => <<"else", m>> \in Owed(n)'
    BY <1>2, <1>14, <1>17 DEF Owed, InThen, In
  <2>4. \A i \in 1 .. Len(s) : s[i].op \in {"j", "beqz"} =>
           \/ \E k \in OpenConditionals', label \in {s[i].label} : label \in Owed(k)'
           \/ \E d \in 1 .. Len(s) : s[d].op = "label" /\ s[d].label = s[i].label
           \/ \E d \in DOMAIN code : /\ code[d].op = "label" /\ code[d].label = s[i].label
                                     /\ InFunction(d) = CurrentFunction
    <3>1. \A i \in 1 .. Len(s) : s[i].op \in {"j", "beqz"} => kind = "if" /\ s[i].label = <<"else", m>>
      BY <1>4 DEF Introduces
    <3> QED BY <1>13, <2>3, <3>1, Zenon
  <2>5. \A i \in DOMAIN code' : code'[i].op \in {"j", "beqz"} =>
           \/ Lands(i)'
           \/ /\ InFunction(i)' = CurrentFunction'
              /\ \E k \in OpenConditionals' : code'[i].label \in Owed(k)'
    BY <1>4, <1>14, <1>17, <2>1, <2>2, <2>4, JumpsKept, Zenon
  <2>6. Range(slabel_arr') = Range(slabel_arr)
    BY <1>5
  <2>7. \A label \in Range(slabel_arr) :
           \/ label \in Range(slabel_arr')
           \/ \E d \in 1 .. Len(s) : s[d].op = "data" /\ s[d].label = label
    BY <2>6, Zenon
  <2>8. \A i \in 1 .. Len(s) : s[i].op = "la" =>
           \/ \E d \in DOMAIN code : code[d].op = "data" /\ code[d].label = s[i].label
           \/ open' # << >> /\ s[i].label \in Range(slabel_arr')
           \/ s[i].label = NamedPlace
    BY <2>1, Zenon
  <2>9. \A i \in DOMAIN code' : code'[i].op = "la" =>
           \/ \E d \in DOMAIN code' : code'[d].op = "data" /\ code'[d].label = code'[i].label
           \/ open' # << >> /\ code'[i].label \in Range(slabel_arr')
           \/ code'[i].label = NamedPlace
    <3>1. open # << >> => open' # << >> \/ Range(slabel_arr') = {}
      BY <1>7
    <3> QED BY <1>4, <1>14, <1>17, <2>1, <2>7, <2>8, <3>1, AddressesKept, Zenon
  <2>10. \A i \in OpenConditionals' : Kind(open[i].stmt)' = "while" => HeadPlaced(i)'
    <3> SUFFICES ASSUME NEW i \in OpenConditionals', Kind(open[i].stmt)' = "while"
                 PROVE  HeadPlaced(i)'
      BY Zenon
    <3>1. PICK k : k = NumberOf(i)'
      OBVIOUS
    <3>2. \/ i \in OpenConditionals /\ Kind(open[i].stmt) = "while" /\ k = NumberOf(i)
          \/ \E d \in 1 .. Len(s) : s[d].op = "label" /\ s[d].label = <<"test", k>>
      <4>1. CASE i = n
        <5>1. kind = "while" /\ k = m
          BY <1>2, <1>14, <1>17, <3>1, <4>1
        <5> QED BY <5>1 DEF Introduces
      <4>2. CASE i # n
        <5>1. i \in OpenConditionals
          BY <1>2, <4>2
        <5>2. Kind(open[i].stmt) = "while" /\ k = NumberOf(i)
          BY <1>12, <1>14, <1>17, <3>1, <5>1 DEF KeptAt
        <5> QED BY <5>1, <5>2
      <4> QED BY <4>1, <4>2
    <3> QED BY <1>4, <1>14, <1>17, <2>1, <3>1, <3>2, HeadsKept, Zenon
  <2>11. \A g \in 1 .. globals' :
           \/ \E d \in DOMAIN code' : code'[d].op = "data" /\ code'[d].label = <<"global", g>>
           \/ <<"global", g>> \in Range(slabel_arr')
    BY <1>4, <1>5, <1>14, <1>17, <2>1, <2>7, GlobalsKept, Zenon
  <2> QED BY <2>5, <2>9, <2>10, <2>11 DEF Resolving
<1>18. Strings' /\ Counted'
  <2>1. \A i \in 1 .. Len(s) :
           s[i].op # "data" /\ ~ (s[i].op = "la" /\ s[i].label[1] = "slabel")
    BY <1>4
  <2> QED BY <1>4, <1>8, <2>1, CountedAsBefore
<1>19. Laid'
  BY <1>10, <1>11, <1>15, <1>16 DEF Laid
<1> QED BY <1>17, <1>18, <1>19, Conclude

IsBranch(s, op, label) ==
    /\ s \in Seq(Instrs) /\ Len(s) = 2
    /\ s[1].op = "test" /\ s[2].op = op /\ s[2].label = label
    /\ \A i \in 1 .. Len(s) : i = 1 \/ i = 2
    /\ 2 \in 1 .. Len(s)

LEMMA BranchCode ==
    ASSUME NEW n \in Nat, NEW label \in LabelName, NEW s, s = <<Test(n), BranchIfZero(label)>>
    PROVE  IsBranch(s, "beqz", label)
<1> DEFINE a == Test(n)
           b == BranchIfZero(label)
<1>1. a \in Instrs /\ b \in Instrs
  BY InstrFacts
<1>2. a.op = "test" /\ b.op = "beqz" /\ b.label = label
  BY DEF Test, BranchIfZero, Instr
<1>3. s = <<a, b>>
  OBVIOUS
<1> HIDE DEF a, b
<1>4. s \in Seq(Instrs) /\ Len(s) = 2 /\ s[1] = a /\ s[2] = b
  BY <1>1, <1>3, TwoInstrs
<1>5. 2 \in 1 .. 2 /\ \A i \in 1 .. 2 : i = 1 \/ i = 2
  OBVIOUS
<1> QED BY <1>2, <1>4, <1>5, Zenon DEF IsBranch

LEMMA IfTestKeeps ==
    ASSUME IInv, IfTest
    PROVE  IInv'
<1>1. PICK m : m = label_no + 1
  OBVIOUS
<1>2. PICK label : label = <<"else", m>>
  OBVIOUS
<1>3. PICK s : s = <<Test(New), BranchIfZero(label)>>
  OBVIOUS
<1>4. /\ BeginStmt("if") /\ code' = code \o s /\ label_no' = m
      /\ label_stack' \in s_push(label_stack, m) /\ open' = Append(open, In(New, "then"))
      /\ expect' = "stmt" /\ UNCHANGED <<slabel_arr, sconst_gen, globals, runVars>>
  BY <1>1, <1>2, <1>3 DEF IfTest, Emit
<1>5. m \in Nat /\ New \in Nat
  <2>1. label_no \in Nat
    BY LabelTypes
  <2>2. Len(prog) \in Nat
    BY StackTypes, StateFacts
  <2> QED BY <1>1, <2>1, <2>2 DEF New
<1>6. label \in LabelName
  BY <1>2, <1>5 DEF LabelName
<1>7. IsBranch(s, "beqz", label)
  BY <1>3, <1>5, <1>6, BranchCode, Zenon
<1>8. Introduces(s, "if", m)
  <2>1. \A i \in 1 .. Len(s) : s[i].op \in {"test", "beqz"}
    BY <1>7 DEF IsBranch
  <2>2. \A i \in 1 .. Len(s) : s[i].op = "beqz" => s[i].label = <<"else", m>>
    BY <1>2, <1>7 DEF IsBranch
  <2>3. \E i \in 1 .. Len(s) : s[i].op = "beqz" /\ s[i].label = <<"else", m>>
    BY <1>2, <1>7 DEF IsBranch
  <2>4. s \in Seq(Instrs)
    BY <1>7 DEF IsBranch
  <2> QED BY <2>1, <2>2, <2>3, <2>4 DEF Introduces
<1>9. PICK kind, slot : kind = "if" /\ slot = "then"
  OBVIOUS
<1>10. /\ kind \in {"if", "while"} /\ slot \in {"body", "then"} /\ (kind = "if" <=> slot = "then")
       /\ expect' = IF kind = "while" THEN "cond" ELSE "stmt"
  BY <1>4, <1>9
<1>11. UNCHANGED runVars /\ SameLabels
  BY <1>4 DEF SameLabels
<1> QED BY <1>1, <1>4, <1>8, <1>9, <1>10, <1>11, PushStep, Zenon

LEMMA WhileHeadKeeps ==
    ASSUME IInv, WhileHead
    PROVE  IInv'
<1>1. PICK m : m = label_no + 1
  OBVIOUS
<1>2. PICK label : label = <<"test", m>>
  OBVIOUS
<1>3. PICK s : s = <<Label(label)>>
  OBVIOUS
<1>4. /\ BeginStmt("while") /\ code' = code \o s /\ label_no' = m
      /\ label_stack' \in s_push(label_stack, m) /\ open' = Append(open, In(New, "body"))
      /\ expect' = "cond" /\ UNCHANGED <<slabel_arr, sconst_gen, globals, runVars>>
  BY <1>1, <1>2, <1>3 DEF WhileHead, Emit
<1>5. m \in Nat
  BY <1>1, LabelTypes
<1>6. label \in LabelName
  BY <1>2, <1>5 DEF LabelName
<1>7. Introduces(s, "while", m)
  <2> DEFINE a == Label(label)
  <2>1. a \in Instrs /\ a.op = "label" /\ a.label = label
    BY <1>6, InstrFacts DEF Label, Instr
  <2>2. s = <<a>>
    BY <1>3
  <2> HIDE DEF a
  <2>3. s \in Seq(Instrs) /\ Len(s) = 1 /\ s[1] = a
    BY <2>1, <2>2, OneInstr
  <2>4. 1 \in 1 .. 1 /\ \A i \in 1 .. 1 : i = 1
    OBVIOUS
  <2>5. s[1].op = "label" /\ s[1].label = <<"test", m>>
    BY <1>2, <2>1, <2>3
  <2>6. \A i \in 1 .. Len(s) : s[i].op = "label" /\ s[i].label = <<"test", m>>
    BY <2>3, <2>4, <2>5, Zenon
  <2>7. \A i, j \in 1 .. Len(s) : i = j
    BY <2>3, <2>4, Zenon
  <2>8. \E i \in 1 .. Len(s) : s[i].op = "label" /\ s[i].label = <<"test", m>>
    BY <2>3, <2>4, <2>5, Zenon
  <2> QED BY <2>3, <2>6, <2>7, <2>8 DEF Introduces
<1>8. PICK kind, slot : kind = "while" /\ slot = "body"
  OBVIOUS
<1>9. /\ kind \in {"if", "while"} /\ slot \in {"body", "then"} /\ (kind = "if" <=> slot = "then")
      /\ expect' = IF kind = "while" THEN "cond" ELSE "stmt"
  BY <1>4, <1>8
<1>10. UNCHANGED runVars /\ SameLabels
  BY <1>4 DEF SameLabels
<1> QED BY <1>1, <1>4, <1>7, <1>8, <1>9, <1>10, PushStep, Zenon

\* The condition of a while: the branch leads to the end that the statement
\* still places, for label_no is the number of the statement.
LEMMA WhileTestKeeps ==
    ASSUME IInv, WhileTest
    PROVE  IInv'
<1>1. PICK label : label = <<"exit", label_no>>
  OBVIOUS
<1>2. PICK s : s = <<Test(Context.stmt), BranchIfZero(label)>>
  OBVIOUS
<1>3. /\ expect = "cond" /\ code' = code \o s /\ expect' = "stmt"
      /\ UNCHANGED <<label_no, label_stack, slabel_arr, sconst_gen, globals, open, prog, runVars>>
  BY <1>1, <1>2 DEF WhileTest, Emit
<1>4. open # << >> /\ Kind(Context.stmt) = "while"
  BY <1>3 DEF IInv, Nesting
<1>5. PICK n : n = Len(open)
  OBVIOUS
<1>6. n \in OpenConditionals /\ Kind(open[n].stmt) = "while" /\ Context.stmt \in Nat
  <2>1. n \in DOMAIN open /\ Context = open[n] /\ Context.stmt \in DOMAIN prog
    BY <1>4, <1>5, InnermostFacts
  <2>2. DOMAIN prog = 1 .. Len(prog)
    BY StackTypes, StateFacts
  <2>3. Kind(open[n].stmt) = "while"
    BY <1>4, <2>1
  <2>4. n \in OpenConditionals
    BY <2>1, <2>3 DEF OpenConditionals, Structured!Conditional
  <2> QED BY <2>1, <2>2, <2>3, <2>4
<1>7. label_no \in Nat /\ label_no \in Int
  BY LabelTypes
<1>8. label \in LabelName
  BY <1>1, <1>7 DEF LabelName
<1>9. IsBranch(s, "beqz", label)
  BY <1>2, <1>6, <1>8, BranchCode, Zenon
<1>10. s \in Seq(Instrs) /\ \A i \in 1 .. Len(s) : s[i].op \in {"test", "beqz"}
  BY <1>9 DEF IsBranch
<1>11. /\ label_no' = label_no /\ label_stack' = label_stack /\ open' = open /\ prog' = prog
       /\ UNCHANGED runVars /\ SameLabels
  BY <1>3 DEF SameLabels
<1>12. PathKept /\ OpenConditionals' = OpenConditionals /\ \A i \in DOMAIN open : KeptAt(i)
  BY <1>11, SameStatements
<1>13. \A i \in OpenConditionals : KeptAt(i) /\ NumberOf(i)' = NumberOf(i) /\ Owed(i)' = Owed(i)
  <2> TAKE i \in OpenConditionals
  <2>1. KeptAt(i)
    BY <1>12 DEF OpenConditionals
  <2>2. NumberOf(i)' = NumberOf(i)
    BY <1>11, <2>1, NumberKept, Zenon
  <2>3. InThen(i)' <=> InThen(i)
    BY <1>11 DEF InThen
  <2> QED BY <2>1, <2>2, <2>3, OwedKept, Zenon
<1>14. slabel_arr' = slabel_arr /\ sconst_gen' = sconst_gen /\ globals' = globals
  BY <1>11 DEF SameLabels
<1>15. /\ slabel_arr' \in Seq({"slabel", "global"} \X Nat) /\ Len(slabel_arr') <= SLABELS
       /\ sconst_gen' \in Nat /\ sconst_gen <= sconst_gen'
       /\ globals' \in Nat /\ globals <= globals' /\ label_no' \in Nat /\ label_no <= label_no'
  BY <1>11, <1>14, LabelTypes, Zenon
<1>16. TypeOK' /\ Nesting'
  <2>1. label_stack' \in LabelStacks
    BY <1>11, StackTypes
  <2>2. /\ expect' \in {"top", "decls", "stmt", "cond", "reduced", "no else", "smashed"}
        /\ expect' \notin {"top", "decls"} /\ expect' # "cond"
    BY <1>3
  <2>3. open' # << >>
    BY <1>4, <1>11
  <2> QED BY <1>3, <1>10, <1>11, <1>12, <1>15, <2>1, <2>2, <2>3, ParseTypes
<1>17. DepthIsDefined(prog)' /\ Deep' /\ ProgExtends /\ (WithinLimit' => WithinLimit)
  BY <1>12 DEF PathKept
<1>18. ASSUME WithinLimit'
       PROVE  Numbered' /\ Placed' /\ Resolving'
  <2>1. Numbered /\ Placed /\ Resolving
    BY <1>3, <1>17, <1>18 DEF IInv
  <2>2. Numbered'
    <3>1. \A op, l : Positions(op, l) \subseteq Positions(op, l)'
      BY <1>3, <1>10, CodeGrows DEF IInv
    <3>2. OpenConditionals' \ OpenConditionals = {} /\ expect' # "cond"
      BY <1>3, <1>12
    <3>3. label_stack'.index + 1 = Cardinality(OpenConditionals')
      BY <1>11, <1>12, <2>1 DEF Numbered
    <3>4. \A i \in OpenConditionals' \cap OpenConditionals : KeptAt(i) /\ NumberOf(i)' = NumberOf(i)
      BY <1>13
    <3> QED BY <1>7, <1>15, <2>1, <3>1, <3>2, <3>3, <3>4, NumberedKept
  <2>3. Placed'
    <3>1. \A l \in Known : l \in Known'
      BY <1>15, <1>17, KnownGrows
    <3>2. \A l : Awaited(l)' => Awaited(l) \/ l \notin Known
      <4>1. \A k \in OpenConditionals' : \A l \in Owed(k)' :
               (\E j \in OpenConditionals : l \in Owed(j)) \/ l \notin Known
        BY <1>12, <1>13
      <4>2. /\ Range(slabel_arr') = Range(slabel_arr)
            /\ open' # << >> => open # << >> /\ open'[1].stmt = open[1].stmt
        BY <1>11, <1>14
      <4> QED BY <4>1, <4>2, AwaitedKept
    <3>3. \A i \in 1 .. Len(s) : ~ Defines(s[i])
      BY <1>10 DEF Defines
    <3> QED BY <1>3, <1>10, <2>1, <3>1, <3>2, <3>3, PlacedKept
  <2>4. Resolving'
    <3>1. /\ \A i \in 1 .. Len(s) : ~ (s[i].op = "label" /\ s[i].label[1] = "begin")
          /\ \A i \in 1 .. Len(s) : s[i].op # "la"
      BY <1>10
    <3>2. \A k \in OpenConditionals : \A l \in Owed(k) :
             \/ \E j \in OpenConditionals' : l \in Owed(j)'
             \/ \E d \in 1 .. Len(s) : s[d].op = "label" /\ s[d].label = l
      BY <1>12, <1>13, Zenon
    <3>3. label \in Owed(n)'
      <4>1. NumberOf(n) = label_no
        BY <1>3, <1>5, <2>1 DEF Numbered
      <4>2. label \in Owed(n)
        BY <1>1, <4>1 DEF Owed
      <4> QED BY <1>6, <1>13, <4>2
    <3>4. \A i \in 1 .. Len(s) : s[i].op \in {"j", "beqz"} =>
             \/ \E k \in OpenConditionals', l \in {s[i].label} : l \in Owed(k)'
             \/ \E d \in 1 .. Len(s) : s[d].op = "label" /\ s[d].label = s[i].label
             \/ \E d \in DOMAIN code : /\ code[d].op = "label" /\ code[d].label = s[i].label
                                       /\ InFunction(d) = CurrentFunction
      <4>1. \A i \in 1 .. Len(s) : s[i].op \in {"j", "beqz"} => s[i].label = label
        BY <1>9 DEF IsBranch
      <4> QED BY <1>6, <1>12, <3>3, <4>1, Zenon
    <3>5. \A i \in DOMAIN code' : code'[i].op \in {"j", "beqz"} =>
             \/ Lands(i)'
             \/ /\ InFunction(i)' = CurrentFunction'
                /\ \E k \in OpenConditionals' : code'[i].label \in Owed(k)'
      BY <1>3, <1>10, <2>1, <3>1, <3>2, <3>4, JumpsKept, Zenon
    <3>6. Range(slabel_arr') = Range(slabel_arr) /\ (open # << >> => open' # << >>)
      BY <1>11, <1>14
    <3>7. \A l \in Range(slabel_arr) :
             \/ l \in Range(slabel_arr')
             \/ \E d \in 1 .. Len(s) : s[d].op = "data" /\ s[d].label = l
      BY <3>6, Zenon
    <3>8. \A i \in DOMAIN code' : code'[i].op = "la" =>
             \/ \E d \in DOMAIN code' : code'[d].op = "data" /\ code'[d].label = code'[i].label
             \/ open' # << >> /\ code'[i].label \in Range(slabel_arr')
             \/ code'[i].label = NamedPlace
      <4>1. \A i \in 1 .. Len(s) : s[i].op = "la" =>
               \/ \E d \in DOMAIN code : code[d].op = "data" /\ code[d].label = s[i].label
               \/ open' # << >> /\ s[i].label \in Range(slabel_arr')
               \/ s[i].label = NamedPlace
        BY <3>1, Zenon
      <4>2. open # << >> => open' # << >> \/ Range(slabel_arr') = {}
        BY <3>6, Zenon
      <4> QED BY <1>3, <1>10, <2>1, <3>1, <3>7, <4>1, <4>2, AddressesKept, Zenon
    <3>9. \A i \in OpenConditionals' : Kind(open[i].stmt)' = "while" => HeadPlaced(i)'
      <4> SUFFICES ASSUME NEW i \in OpenConditionals', Kind(open[i].stmt)' = "while"
                   PROVE  HeadPlaced(i)'
        BY Zenon
      <4>1. i \in OpenConditionals /\ Kind(open[i].stmt) = "while" /\ NumberOf(i)' = NumberOf(i)
        BY <1>12, <1>13 DEF KeptAt
      <4>2. PICK k : k = NumberOf(i)
        OBVIOUS
      <4> QED BY <1>3, <1>10, <2>1, <3>1, <4>1, <4>2, HeadsKept, Zenon
    <3>10. \A g \in 1 .. globals' :
             \/ \E d \in DOMAIN code' : code'[d].op = "data" /\ code'[d].label = <<"global", g>>
             \/ <<"global", g>> \in Range(slabel_arr')
      BY <1>3, <1>10, <1>14, <2>1, <3>1, <3>7, GlobalsKept, Zenon
    <3> QED BY <3>5, <3>8, <3>9, <3>10 DEF Resolving
  <2> QED BY <2>2, <2>3, <2>4
<1>19. Strings' /\ Counted'
  <2>1. \A i \in 1 .. Len(s) :
           s[i].op # "data" /\ ~ (s[i].op = "la" /\ s[i].label[1] = "slabel")
    BY <1>10
  <2>2. expect # "smashed" /\ expect' # "smashed"
    BY <1>3
  <2> QED BY <1>3, <1>10, <1>11, <2>1, <2>2, CountedAsBefore
<1>20. Laid'
  BY <1>16, <1>17, <1>18 DEF Laid
<1> QED BY <1>18, <1>19, <1>20, Conclude

IsLabel(s, label) ==
    /\ s \in Seq(Instrs) /\ Len(s) = 1
    /\ \A i \in 1 .. Len(s) : i = 1 /\ s[i].op = "label" /\ s[i].label = label
    /\ \E i \in 1 .. Len(s) : s[i].op = "label" /\ s[i].label = label

LEMMA LabelCode ==
    ASSUME NEW label \in LabelName, NEW s, s = <<Label(label)>>
    PROVE  IsLabel(s, label)
<1> DEFINE a == Label(label)
<1>1. a \in Instrs /\ a.op = "label" /\ a.label = label
  BY InstrFacts DEF Label, Instr
<1>2. s = <<a>>
  OBVIOUS
<1> HIDE DEF a
<1>3. s \in Seq(Instrs) /\ Len(s) = 1 /\ s[1] = a
  BY <1>1, <1>2, OneInstr
<1>4. 1 \in 1 .. 1 /\ \A i \in 1 .. 1 : i = 1
  OBVIOUS
<1> QED BY <1>1, <1>3, <1>4, Zenon DEF IsLabel

\* Between functions no statement is open, and none is in the body of one that
\* begins or ends.
LEMMA NoneOpen ==
    ASSUME IInv, OpenConditionals = {}, OpenConditionals' = {},
           UNCHANGED <<label_no, label_stack>>, expect' # "cond", Numbered
    PROVE  Numbered'
BY DEF Numbered

LEMMA NotAString ==
    ASSUME IInv, NEW label \in Range(slabel_arr)
    PROVE  label[1] \in {"slabel", "global"} /\ label \in StringNames(sconst_gen, globals)
<1>1. label \in StringNames(sconst_gen, globals)
  BY DEF IInv, Strings
<1> QED BY <1>1 DEF StringNames

LEMMA FuncBeginKeeps ==
    ASSUME IInv, FuncBegin
    PROVE  IInv'
<1>1. PICK begin : begin = <<"begin", New>>
  OBVIOUS
<1>2. PICK s : s = <<Label(begin)>>
  OBVIOUS
<1>3. /\ expect \in {"top", "decls"} /\ code' = code \o s /\ expect' = "stmt"
      /\ UNCHANGED <<label_no, label_stack, slabel_arr, sconst_gen, globals, runVars>>
  BY <1>1, <1>2 DEF FuncBegin, Emit
<1>4. /\ PathKept /\ DOMAIN open' = 1 .. 1 /\ Len(open') = 1
      /\ open'[1] = In(New, "body") /\ DOMAIN prog' = DOMAIN prog \cup {New}
      /\ New \notin DOMAIN prog /\ New \in Nat
      /\ OpenConditionals = {} /\ OpenConditionals' = {}
  BY BeginFunction
<1>5. open = << >> /\ expect # "smashed"
  BY <1>3, OutsideFacts
<1>6. IsLabel(s, begin)
  <2>1. New \in Int
    BY <1>4
  <2>2. begin \in LabelName
    BY <1>1, <2>1 DEF LabelName
  <2> QED BY <1>2, <2>2, LabelCode, Zenon
<1>7. s \in Seq(Instrs) /\ \A i \in 1 .. Len(s) : s[i].op = "label"
  BY <1>6 DEF IsLabel
<1>8. /\ label_no' = label_no /\ label_stack' = label_stack
      /\ UNCHANGED runVars /\ SameLabels
  BY <1>3 DEF SameLabels
<1>9. slabel_arr' = slabel_arr /\ sconst_gen' = sconst_gen /\ globals' = globals
  BY <1>8 DEF SameLabels
<1>10. /\ slabel_arr' \in Seq({"slabel", "global"} \X Nat) /\ Len(slabel_arr') <= SLABELS
       /\ sconst_gen' \in Nat /\ sconst_gen <= sconst_gen'
       /\ globals' \in Nat /\ globals <= globals' /\ label_no' \in Nat /\ label_no <= label_no'
  BY <1>8, <1>9, LabelTypes, Zenon
<1>11. TypeOK' /\ Nesting'
  <2>1. label_stack' \in LabelStacks
    BY <1>8, StackTypes
  <2>2. /\ expect' \in {"top", "decls", "stmt", "cond", "reduced", "no else", "smashed"}
        /\ expect' \notin {"top", "decls"} /\ expect' # "cond"
    BY <1>3
  <2>3. open' # << >>
    <3>1. 1 \in DOMAIN open'
      BY <1>4
    <3> QED BY <3>1
  <2> QED BY <1>3, <1>4, <1>7, <1>8, <1>10, <2>1, <2>2, <2>3, ParseTypes
<1>12. DepthIsDefined(prog)' /\ Deep' /\ ProgExtends /\ (WithinLimit' => WithinLimit)
  BY <1>4 DEF PathKept
<1>13. ASSUME WithinLimit'
       PROVE  Numbered' /\ Placed' /\ Resolving'
  <2>1. Numbered /\ Placed /\ Resolving
    BY <1>5, <1>12, <1>13 DEF IInv
  <2>2. Numbered'
    BY <1>3, <1>4, <1>8, <2>1, NoneOpen
  <2>3. Placed'
    <3>1. \A l \in Known : l \in Known'
      BY <1>10, <1>12, KnownGrows
    <3>2. \A l : Awaited(l)' => l \in Range(slabel_arr) \/ l = <<"end", New>>
      BY <1>4, <1>9 DEF Awaited, In
    <3>3. <<"end", New>> \notin Known /\ begin \notin Known /\ begin \in Known'
      BY <1>1, <1>4 DEF Known, StringNames
    <3>4. \A l : Awaited(l)' => Awaited(l) \/ l \notin Known
      BY <3>2, <3>3, Zenon DEF Awaited
    <3>5. ~ Awaited(begin)'
      <4>1. begin \notin Range(slabel_arr)
        BY <1>1, NotAString
      <4>2. begin # <<"end", New>>
        BY <1>1
      <4> QED BY <3>2, <4>1, <4>2, Zenon
    <3>6. \A i, j \in 1 .. Len(s) :
             Defines(s[i]) /\ Defines(s[j]) /\ s[i].label = s[j].label => i = j
      BY <1>6, Zenon DEF IsLabel
    <3>7. \A i \in 1 .. Len(s) : \A label : Defines(s[i]) /\ label = s[i].label =>
             /\ label \in Known'
             /\ ~ Awaited(label)'
             /\ Awaited(label) \/ label \notin Known
      BY <1>6, <3>3, <3>5, Zenon DEF IsLabel
    <3> QED BY <1>3, <1>7, <2>1, <3>1, <3>4, <3>6, <3>7, PlacedKept, Zenon
  <2>4. Resolving'
    <3>1. /\ DOMAIN code' = 1 .. Len(code) + Len(s) /\ DOMAIN code = 1 .. Len(code)
          /\ Len(s) \in Nat /\ Len(code) \in Nat
          /\ \A i \in 1 .. Len(code) : code'[i] = code[i] /\ InFunction(i)' = InFunction(i)
          /\ \A i \in 1 .. Len(s) : code'[Len(code) + i] = s[i]
      BY <1>3, <1>7, CodeGrows DEF IInv
    <3>2. \A i \in DOMAIN code :
             i \in DOMAIN code' /\ code'[i] = code[i] /\ InFunction(i)' = InFunction(i)
      <4>1. \A m, k \in Nat : \A i \in 1 .. m : i \in 1 .. m + k
        OBVIOUS
      <4> QED BY <3>1, <4>1, Zenon
    <3>3. \A i \in DOMAIN code' : i \in DOMAIN code \/ code'[i].op = "label"
      <4>1. \A m, k \in Nat : \A i \in 1 .. m + k : i \in 1 .. m \/ \E j \in 1 .. k : i = m + j
        <5>1. \A m, k \in Nat : \A i \in 1 .. m + k :
                 i \in 1 .. m \/ (i - m \in 1 .. k /\ i = m + (i - m))
          OBVIOUS
        <5> QED BY <5>1, Zenon
      <4>2. \A i \in DOMAIN code' : i \in DOMAIN code \/ \E j \in 1 .. Len(s) : i = Len(code) + j
        <5>1. \A i \in 1 .. Len(code) + Len(s) :
                 i \in 1 .. Len(code) \/ \E j \in 1 .. Len(s) : i = Len(code) + j
          BY <3>1, <4>1, Zenon
        <5>2. DOMAIN code' = 1 .. Len(code) + Len(s) /\ DOMAIN code = 1 .. Len(code)
          BY <3>1, Zenon
        <5> QED BY <5>1, <5>2, Zenon
      <4> QED BY <1>7, <3>1, <4>2, Zenon
    <3>4. ASSUME NEW i \in DOMAIN code', code'[i].op \in {"j", "beqz"}
          PROVE  Lands(i)'
      <4>1. i \in DOMAIN code /\ code'[i] = code[i] /\ InFunction(i)' = InFunction(i)
        <5>1. code'[i].op # "label"
          BY <3>4
        <5> QED BY <3>2, <3>3, <5>1, Zenon
      <4>2. code[i].op \in {"j", "beqz"}
        BY <3>4, <4>1
      <4>3. Lands(i)
        BY <1>4, <2>1, <4>1, <4>2, Zenon DEF Resolving
      <4>4. PICK d \in DOMAIN code :
              code[d].op = "label" /\ code[d].label = code[i].label /\ InFunction(d) = InFunction(i)
        BY <4>3 DEF Lands
      <4>5. d \in DOMAIN code' /\ code'[d] = code[d] /\ InFunction(d)' = InFunction(d)
        BY <3>2, <4>4, Zenon
      <4> QED BY <4>1, <4>4, <4>5, Zenon DEF Lands
    <3>5. ASSUME NEW i \in DOMAIN code', code'[i].op = "la"
          PROVE  \/ \E d \in DOMAIN code' : code'[d].op = "data" /\ code'[d].label = code'[i].label
                 \/ code'[i].label = NamedPlace
      <4>1. i \in DOMAIN code /\ code'[i] = code[i]
        <5>1. code'[i].op # "label"
          BY <3>5
        <5> QED BY <3>2, <3>3, <5>1, Zenon
      <4>2. \/ \E d \in DOMAIN code : code[d].op = "data" /\ code[d].label = code[i].label
            \/ code[i].label = NamedPlace
        BY <1>5, <2>1, <3>5, <4>1 DEF Resolving
      <4> QED BY <3>2, <4>1, <4>2, Zenon
    <3>6. \A g \in 1 .. globals' :
             \/ \E d \in DOMAIN code' : code'[d].op = "data" /\ code'[d].label = <<"global", g>>
             \/ <<"global", g>> \in Range(slabel_arr')
      <4>1. \A g \in 1 .. globals :
               \/ \E d \in DOMAIN code : code[d].op = "data" /\ code[d].label = <<"global", g>>
               \/ <<"global", g>> \in Range(slabel_arr)
        BY <2>1 DEF Resolving
      <4>2. 1 .. globals' = 1 .. globals /\ Range(slabel_arr') = Range(slabel_arr)
        BY <1>9
      <4> QED BY <3>2, <4>1, <4>2, Zenon
    <3> QED BY <1>4, <3>4, <3>5, <3>6 DEF Resolving
  <2> QED BY <2>2, <2>3, <2>4
<1>14. Strings' /\ Counted'
  <2>1. \A i \in 1 .. Len(s) :
           s[i].op # "data" /\ ~ (s[i].op = "la" /\ s[i].label[1] = "slabel")
    BY <1>7
  <2>2. expect' # "smashed"
    BY <1>3
  <2> QED BY <1>3, <1>5, <1>7, <1>8, <2>1, <2>2, CountedAsBefore
<1>15. Laid'
  BY <1>11, <1>12, <1>13 DEF Laid
<1> QED BY <1>13, <1>14, <1>15, Conclude

\* The end of a function: its label, and behind it those of the array.
IsEpilog(s, end, labels) ==
    /\ s \in Seq(Instrs) /\ Len(s) = Len(labels) + 1
    /\ s[1].op = "label" /\ s[1].label = end
    /\ \A i \in 1 .. Len(labels) : s[i + 1].op = "data" /\ s[i + 1].label = labels[i]
    /\ Tally(s, StringUses) = 0 /\ Tally(s, DataLabels) = Len(labels)

\* u is the instruction of t with d behind it.
IsJoined(u, t, d) ==
    /\ u \in Seq(Instrs) /\ Len(u) = Len(d) + 1 /\ u[1] = t[1]
    /\ \A i \in 1 .. Len(d) : u[i + 1] = d[i]

\* u is t with d behind it.
IsConcat(u, t, d) ==
    /\ u \in Seq(Instrs) /\ Len(u) = Len(t) + Len(d) /\ Len(t) \in Nat /\ Len(d) \in Nat
    /\ \A i \in 1 .. Len(t) : u[i] = t[i]
    /\ \A i \in 1 .. Len(d) : u[Len(t) + i] = d[i]

LEMMA ConcatInstrs ==
    ASSUME NEW t \in Seq(Instrs), NEW d \in Seq(Instrs)
    PROVE  IsConcat(t \o d, t, d)
BY DEF IsConcat

LEMMA JoinedFacts ==
    ASSUME NEW t \in Seq(Instrs), NEW d \in Seq(Instrs), Len(t) = 1
    PROVE  IsJoined(t \o d, t, d)
<1>1. PICK u : u = t \o d
  OBVIOUS
<1>2. IsConcat(u, t, d)
  BY <1>1, ConcatInstrs, Zenon
<1>3. /\ u \in Seq(Instrs) /\ Len(u) = 1 + Len(d) /\ Len(d) \in Nat
      /\ \A i \in 1 .. 1 : u[i] = t[i]
      /\ \A i \in 1 .. Len(d) : u[1 + i] = d[i]
  BY <1>2, Zenon DEF IsConcat
<1>4. /\ \A m \in Nat : 1 + m = m + 1 /\ \A i \in 1 .. m : 1 + i = i + 1
      /\ 1 \in 1 .. 1
  OBVIOUS
<1>5. IsJoined(u, t, d)
  BY <1>3, <1>4, Zenon DEF IsJoined
<1> QED BY <1>1, <1>5, Zenon

LEMMA EpilogShape ==
    ASSUME NEW end, NEW labels, Len(labels) \in Nat,
           NEW a \in Instrs, a.op = "label", a.label = end,
           NEW d \in Seq(Instrs), Len(d) = Len(labels),
           \A i \in 1 .. Len(labels) : d[i].op = "data" /\ d[i].label = labels[i],
           NEW t \in Seq(Instrs), Len(t) = 1, t[1] = a, NEW s, s = t \o d
    PROVE  IsEpilog(s, end, labels)
<1> DEFINE n == Len(labels)
<1>1. n \in Nat /\ Len(d) = n /\ \A i \in 1 .. n : d[i].op = "data" /\ d[i].label = labels[i]
  BY Zenon
<1> HIDE DEF n
<1>2. /\ s \in Seq(Instrs) /\ Len(s) = Len(d) + 1 /\ s[1] = t[1]
      /\ \A i \in 1 .. Len(d) : s[i + 1] = d[i]
  <2>1. IsJoined(s, t, d)
    BY JoinedFacts, Zenon
  <2> QED BY <2>1, Zenon DEF IsJoined
<1>3. Len(s) = n + 1 /\ s[1] = a /\ \A i \in 1 .. n : s[i + 1] = d[i]
  BY <1>1, <1>2, Zenon
<1>4. \A i \in 1 .. 1 : i = 1
  OBVIOUS
<1>5. \A x \in Instrs : /\ x.op = "label" => x \notin StringUses /\ x \notin DataLabels
                        /\ x.op = "data" => x \notin StringUses /\ x \in DataLabels
  BY DEF StringUses, DataLabels
<1>6. Tally(t, StringUses) = 0 /\ Tally(t, DataLabels) = 0
  <2>1. \A i \in 1 .. Len(t) : t[i] = a
    BY <1>4, Zenon
  <2>2. \A i \in 1 .. Len(t) : t[i] \notin StringUses /\ t[i] \notin DataLabels
    BY <1>5, <2>1, Zenon
  <2> QED BY <2>2, TallyNone, Zenon
<1>7. Tally(d, StringUses) = 0 /\ Tally(d, DataLabels) = n
  <2>1. \A i \in 1 .. Len(d) : d[i] \in Instrs /\ d[i].op = "data"
    <3>1. DOMAIN d = 1 .. Len(d) /\ \A i \in DOMAIN d : d[i] \in Instrs
      BY SeqFacts, Zenon
    <3> QED BY <1>1, <3>1, Zenon
  <2>2. \A i \in 1 .. Len(d) : d[i] \notin StringUses /\ d[i] \in DataLabels
    BY <1>5, <2>1, Zenon
  <2> QED BY <1>1, <2>2, TallyNone, TallyAll, Zenon
<1>8. Tally(s, StringUses) = 0 + 0 /\ Tally(s, DataLabels) = 0 + n
  <2>1. \A A : Tally(t \o d, A) = Tally(t, A) + Tally(d, A)
    BY TallyConcat, Zenon
  <2> QED BY <1>6, <1>7, <2>1, Zenon
<1>9. 0 + 0 = 0 /\ \A m \in Nat : 0 + m = m
  OBVIOUS
<1>10. Tally(s, StringUses) = 0 /\ Tally(s, DataLabels) = n
  BY <1>1, <1>8, <1>9, Zenon
<1>11. \A i \in 1 .. n : s[i + 1].op = "data" /\ s[i + 1].label = labels[i]
  BY <1>1, <1>3, Zenon
<1>12. s[1].op = "label" /\ s[1].label = end
  BY <1>3, Zenon
<1> QED BY <1>2, <1>3, <1>10, <1>11, <1>12, Zenon DEF IsEpilog, n

LEMMA EpilogCode ==
    ASSUME IInv, NEW end \in LabelName, NEW s, s = <<Label(end)>> \o Definitions
    PROVE  IsEpilog(s, end, slabel_arr)
<1> DEFINE a == Label(end)
           t == <<a>>
           n == Len(slabel_arr)
<1>1. a \in Instrs /\ a.op = "label" /\ a.label = end
  BY InstrFacts DEF Label, Instr
<1>2. slabel_arr \in Seq({"slabel", "global"} \X Nat) /\ n \in Nat
  BY LabelTypes
<1>3. DOMAIN slabel_arr = 1 .. n /\ \A i \in 1 .. n : slabel_arr[i] \in {"slabel", "global"} \X Nat
  BY <1>2, SeqFacts
<1>4. \A i \in 1 .. n : /\ Data(slabel_arr[i]) \in Instrs
                        /\ Data(slabel_arr[i]).op = "data"
                        /\ Data(slabel_arr[i]).label = slabel_arr[i]
  <2> TAKE i \in 1 .. n
  <2>1. slabel_arr[i] \in LabelName
    BY <1>3 DEF LabelName
  <2> QED BY <2>1, InstrFacts DEF Data, Instr
<1>5. t \in Seq(Instrs) /\ Len(t) = 1 /\ t[1] = a
  BY <1>1, OneInstr, Zenon
<1>6. s = t \o Definitions
  OBVIOUS
<1> HIDE DEF a, t, n
<1>7. PICK d : d = Definitions
  OBVIOUS
<1>8. /\ d \in Seq(Instrs) /\ Len(d) = n
      /\ \A i \in 1 .. n : d[i].op = "data" /\ d[i].label = slabel_arr[i]
  <2>1. d = [i \in 1 .. n |-> Data(slabel_arr[i])]
    BY <1>3, <1>7 DEF Definitions
  <2>2. d \in [1 .. n -> Instrs]
    BY <1>4, <2>1
  <2>3. d \in Seq(Instrs) /\ Len(d) = n
    BY <1>2, <2>2
  <2>4. \A i \in 1 .. n : d[i] = Data(slabel_arr[i])
    BY <2>1
  <2> QED BY <1>4, <2>3, <2>4
<1>9. s = t \o d
  BY <1>6, <1>7
<1>10. Len(slabel_arr) \in Nat /\ Len(d) = Len(slabel_arr)
       /\ \A i \in 1 .. Len(slabel_arr) : d[i].op = "data" /\ d[i].label = slabel_arr[i]
  BY <1>2, <1>8, Zenon DEF n
<1> QED BY <1>1, <1>5, <1>8, <1>9, <1>10, EpilogShape, Zenon

\* The labels that s defines: end, and each of the data labels once.
DefinesOnly(s, end, labels) ==
    /\ \A i \in 1 .. Len(s) : s[i].op \in {"label", "data"}
    /\ \A i \in 1 .. Len(s) : s[i].op = "label" => s[i].label = end
    /\ \A i \in 1 .. Len(s) : s[i].label = end \/ s[i].label \in labels
    /\ \A i, j \in 1 .. Len(s) : s[i].label = s[j].label => i = j
    /\ \A label \in labels : \E d \in 1 .. Len(s) : s[d].op = "data" /\ s[d].label = label

LEMMA EpilogFacts ==
    ASSUME IInv, NEW end, \A m : end # <<"slabel", m>> /\ end # <<"global", m>>,
           NEW s, IsEpilog(s, end, slabel_arr)
    PROVE  DefinesOnly(s, end, Range(slabel_arr))
<1> DEFINE n == Len(slabel_arr)
<1>1. slabel_arr \in Seq({"slabel", "global"} \X Nat) /\ n \in Nat
  BY LabelTypes
<1>2. DOMAIN slabel_arr = 1 .. n
  BY <1>1, SeqFacts
<1>3. /\ Len(s) = n + 1 /\ s[1].op = "label" /\ s[1].label = end
      /\ \A i \in 1 .. n : s[i + 1].op = "data" /\ s[i + 1].label = slabel_arr[i]
  BY DEF IsEpilog
<1>4. \A i, j \in 1 .. n : slabel_arr[i] = slabel_arr[j] => i = j
  BY <1>2 DEF IInv, Strings
<1> HIDE DEF n
<1>5. \A i \in 1 .. n : slabel_arr[i] \in Range(slabel_arr)
  BY <1>2, Zenon DEF Range
<1>6. end \notin Range(slabel_arr)
  <2>1. Range(slabel_arr) \subseteq StringNames(sconst_gen, globals)
    BY DEF IInv, Strings
  <2> QED BY <2>1 DEF StringNames
<1>7. /\ \A i \in 1 .. n + 1 : i = 1 \/ \E j \in 1 .. n : i = j + 1
      /\ \A i \in 1 .. n : i + 1 \in 1 .. n + 1
  <2>1. \A i \in 1 .. n + 1 : i = 1 \/ (i - 1 \in 1 .. n /\ i = (i - 1) + 1)
    BY <1>1
  <2> QED BY <1>1, <2>1
<1>8. \A i \in 1 .. Len(s) :
         \/ i = 1 /\ s[i].op = "label" /\ s[i].label = end
         \/ \E j \in 1 .. n : i = j + 1 /\ s[i].op = "data" /\ s[i].label = slabel_arr[j]
  <2> SUFFICES ASSUME NEW i \in 1 .. Len(s)
               PROVE  \/ i = 1 /\ s[i].op = "label" /\ s[i].label = end
                      \/ \E j \in 1 .. n :
                            i = j + 1 /\ s[i].op = "data" /\ s[i].label = slabel_arr[j]
    OBVIOUS
  <2>1. CASE i = 1
    BY <1>3, <2>1, Zenon
  <2>2. ASSUME NEW j \in 1 .. n, i = j + 1
        PROVE  i = j + 1 /\ s[i].op = "data" /\ s[i].label = slabel_arr[j]
    BY <1>3, <2>2, Zenon
  <2>3. i \in 1 .. n + 1
    BY <1>3, Zenon
  <2> QED BY <1>7, <2>1, <2>2, <2>3, Zenon
<1>9. ASSUME NEW i \in 1 .. Len(s), NEW j \in 1 .. Len(s), s[i].label = s[j].label
      PROVE  i = j
  <2>1. ASSUME NEW m \in 1 .. Len(s), NEW l \in 1 .. n, m = l + 1, s[m].label = slabel_arr[l]
        PROVE  s[m].label # end
    BY <1>5, <1>6, <2>1, Zenon
  <2>2. CASE i = 1 /\ s[i].label = end
    <3>1. s[j].label = end
      BY <1>9, <2>2, Zenon
    <3>2. j = 1
      BY <1>8, <2>1, <3>1, Zenon
    <3> QED BY <2>2, <3>2, Zenon
  <2>3. ASSUME NEW k \in 1 .. n, i = k + 1, s[i].label = slabel_arr[k]
        PROVE  i = j
    <3>1. s[i].label # end
      BY <2>1, <2>3, Zenon
    <3>2. s[j].label # end
      BY <1>9, <3>1, Zenon
    <3>3. PICK l \in 1 .. n : j = l + 1 /\ s[j].label = slabel_arr[l]
      BY <1>8, <3>2, Zenon
    <3>4. slabel_arr[k] = slabel_arr[l]
      BY <1>9, <2>3, <3>3, Zenon
    <3>5. k = l
      BY <1>4, <3>4, Zenon
    <3> QED BY <2>3, <3>3, <3>5, Zenon
  <2> QED BY <1>8, <2>2, <2>3, Zenon
<1>10. ASSUME NEW label \in Range(slabel_arr)
       PROVE  \E d \in 1 .. Len(s) : s[d].op = "data" /\ s[d].label = label
  <2>1. PICK i \in 1 .. n : slabel_arr[i] = label
    BY <1>2, <1>10, Zenon DEF Range
  <2>2. i + 1 \in 1 .. Len(s)
    BY <1>3, <1>7, Zenon
  <2> QED BY <1>3, <2>1, <2>2, Zenon
<1>11. \A i \in 1 .. Len(s) :
          /\ s[i].op \in {"label", "data"}
          /\ s[i].op = "label" => s[i].label = end
          /\ s[i].label = end \/ s[i].label \in Range(slabel_arr)
  <2>1. "label" # "data"
    OBVIOUS
  <2> QED BY <1>5, <1>8, <2>1, Zenon
<1> QED BY <1>9, <1>10, <1>11, Zenon DEF DefinesOnly

LEMMA FuncEndKeeps ==
    ASSUME IInv, FuncEnd
    PROVE  IInv'
<1>1. PICK f : f = Context.stmt
  OBVIOUS
<1>2. PICK end : end = <<"end", f>>
  OBVIOUS
<1>3. PICK s : s = <<Label(end)>> \o Definitions
  OBVIOUS
<1>4. /\ expect = "stmt" /\ code' = code \o s /\ slabel_arr' = << >> /\ open' = << >>
      /\ expect' = "top"
      /\ UNCHANGED <<label_no, label_stack, sconst_gen, globals, prog, runVars>>
  BY <1>1, <1>2, <1>3 DEF FuncEnd, gen_func_epilog, Emit
<1>5. /\ label_no' = label_no /\ label_stack' = label_stack /\ sconst_gen' = sconst_gen
      /\ globals' = globals /\ prog' = prog /\ UNCHANGED runVars
  BY <1>4
<1>6. /\ PathKept /\ DOMAIN open = 1 .. 1 /\ Context = open[1]
      /\ OpenConditionals = {} /\ OpenConditionals' = {}
  BY EndFunction
<1>7. open # << >> /\ f = open[1].stmt /\ f \in DOMAIN prog /\ f \in Nat
  <2>1. TypeOK /\ Nesting /\ 1 \in DOMAIN open
    BY <1>6 DEF IInv
  <2>2. open[1].stmt \in DOMAIN prog /\ DOMAIN prog = 1 .. Len(prog)
    BY <2>1, StateFacts
  <2>3. open # << >>
    BY <1>6
  <2> QED BY <1>1, <1>6, <2>2, <2>3
<1>8. end \in LabelName /\ end[1] = "end" /\ \A m : end # <<"slabel", m>> /\ end # <<"global", m>>
  BY <1>2, <1>7 DEF LabelName
<1>9. IsEpilog(s, end, slabel_arr)
  BY <1>3, <1>8, EpilogCode, Zenon
<1>10. /\ \A i \in 1 .. Len(s) : s[i].op \in {"label", "data"}
       /\ \A i \in 1 .. Len(s) : s[i].op = "label" => s[i].label = end
       /\ \A i \in 1 .. Len(s) : s[i].label = end \/ s[i].label \in Range(slabel_arr)
       /\ \A i, j \in 1 .. Len(s) : s[i].label = s[j].label => i = j
       /\ \A label \in Range(slabel_arr) :
             \E d \in 1 .. Len(s) : s[d].op = "data" /\ s[d].label = label
  <2>1. DefinesOnly(s, end, Range(slabel_arr))
    BY <1>8, <1>9, EpilogFacts, Zenon
  <2> QED BY <2>1, Zenon DEF DefinesOnly
<1>11. /\ s \in Seq(Instrs) /\ Tally(s, StringUses) = 0 /\ Tally(s, DataLabels) = Len(slabel_arr)
  BY <1>9, Zenon DEF IsEpilog
<1>12. /\ \A i \in 1 .. Len(s) : ~ (s[i].op = "label" /\ s[i].label[1] = "begin")
       /\ \A i \in 1 .. Len(s) : s[i].op # "la" /\ s[i].op \notin {"j", "beqz"}
  <2>1. "end" # "begin"
    OBVIOUS
  <2>2. \A op : op \in {"label", "data"} => op # "la" /\ op \notin {"j", "beqz"}
    OBVIOUS
  <2>3. \A i \in 1 .. Len(s) : ~ (s[i].op = "label" /\ s[i].label[1] = "begin")
    BY <1>8, <1>10, <2>1, Zenon
  <2> QED BY <1>10, <2>2, <2>3, Zenon
<1>13. slabel_arr' \in Seq({"slabel", "global"} \X Nat) /\ Len(slabel_arr') = 0
       /\ Len(slabel_arr') <= SLABELS /\ Range(slabel_arr') = {} /\ DOMAIN slabel_arr' = {}
  <2>1. slabel_arr' \in Seq({"slabel", "global"} \X Nat) /\ Len(slabel_arr') = 0
        /\ DOMAIN slabel_arr' = {}
    BY <1>4
  <2>2. SLABELS \in Nat /\ 0 <= SLABELS
    BY SizeAssumption
  <2> QED BY <2>1, <2>2 DEF Range
<1>14. /\ sconst_gen' \in Nat /\ sconst_gen <= sconst_gen'
       /\ globals' \in Nat /\ globals <= globals' /\ label_no' \in Nat /\ label_no <= label_no'
  BY <1>5, LabelTypes, Zenon
<1>15. TypeOK' /\ Nesting'
  <2>1. label_stack' \in LabelStacks
    BY <1>5, StackTypes
  <2>2. /\ expect' \in {"top", "decls", "stmt", "cond", "reduced", "no else", "smashed"}
        /\ expect' \notin {"stmt", "cond", "reduced", "no else"}
    BY <1>4
  <2> QED BY <1>4, <1>5, <1>6, <1>11, <1>13, <1>14, <2>1, <2>2, ParseTypes, Zenon
<1>16. DepthIsDefined(prog)' /\ Deep' /\ ProgExtends /\ (WithinLimit' => WithinLimit)
  BY <1>6 DEF PathKept
<1>17. expect # "smashed" /\ expect' # "smashed" /\ expect' # "cond"
  BY <1>4
<1>18. ASSUME WithinLimit'
       PROVE  Numbered' /\ Placed' /\ Resolving'
  <2>1. Numbered /\ Placed /\ Resolving
    BY <1>16, <1>17, <1>18, Zenon DEF IInv
  <2>2. Numbered'
    BY <1>5, <1>6, <1>17, <2>1, NoneOpen, Zenon
  <2>3. Placed'
    <3>1. \A l \in Known : l \in Known'
      BY <1>14, <1>16, KnownGrows, Zenon
    <3>2. \A l : ~ Awaited(l)'
      BY <1>4, <1>6, <1>13 DEF Awaited
    <3>3. end \in Known /\ Awaited(end)
      BY <1>2, <1>7 DEF Known, Awaited
    <3>4. \A l \in Range(slabel_arr) : l \in Known /\ Awaited(l)
      <4>1. \A l \in Range(slabel_arr) : l \in StringNames(sconst_gen, globals)
        BY NotAString, Zenon
      <4> QED BY <4>1, Zenon DEF Known, Awaited
    <3>5. \A i, j \in 1 .. Len(s) :
             Defines(s[i]) /\ Defines(s[j]) /\ s[i].label = s[j].label => i = j
      BY <1>10, Zenon
    <3>6. \A i \in 1 .. Len(s) : \A label : Defines(s[i]) /\ label = s[i].label =>
             /\ label \in Known'
             /\ ~ Awaited(label)'
             /\ Awaited(label) \/ label \notin Known
      <4>1. \A l : l = end \/ l \in Range(slabel_arr) => l \in Known /\ Awaited(l)
        BY <3>3, <3>4, Zenon
      <4>2. ASSUME NEW i \in 1 .. Len(s), NEW label, label = s[i].label
            PROVE  label \in Known /\ Awaited(label)
        <5>1. label = end \/ label \in Range(slabel_arr)
          <6>1. s[i].label = end \/ s[i].label \in Range(slabel_arr)
            BY <1>10, Zenon
          <6> QED BY <4>2, <6>1, Zenon
        <5> QED BY <4>1, <5>1, Zenon
      <4> QED BY <3>1, <3>2, <4>2, Zenon
    <3> QED BY <1>4, <1>11, <2>1, <3>1, <3>2, <3>5, <3>6, PlacedKept, Zenon
  <2>4. Resolving'
    <3>1. \A label \in Range(slabel_arr) :
             \/ label \in Range(slabel_arr')
             \/ \E d \in 1 .. Len(s) : s[d].op = "data" /\ s[d].label = label
      BY <1>10, Zenon
    <3>2. ASSUME NEW i \in DOMAIN code', code'[i].op \in {"j", "beqz"}
          PROVE  \/ Lands(i)'
                 \/ /\ InFunction(i)' = CurrentFunction'
                    /\ \E k \in OpenConditionals' : code'[i].label \in Owed(k)'
      <4>1. \A k \in OpenConditionals : FALSE
        BY <1>6
      <4> QED BY <1>4, <1>11, <1>12, <2>1, <3>2, <4>1, JumpsKept, Zenon
    <3>3. ASSUME NEW i \in DOMAIN code', code'[i].op = "la"
          PROVE  \/ \E d \in DOMAIN code' : code'[d].op = "data" /\ code'[d].label = code'[i].label
                 \/ open' # << >> /\ code'[i].label \in Range(slabel_arr')
                 \/ code'[i].label = NamedPlace
      <4>1. Range(slabel_arr') = {}
        BY <1>13, Zenon
      <4>2. open # << >> => open' # << >> \/ Range(slabel_arr') = {}
        BY <4>1, Zenon
      <4>3. \A j \in 1 .. Len(s) : s[j].op = "la" =>
               \/ \E d \in DOMAIN code : code[d].op = "data" /\ code[d].label = s[j].label
               \/ open' # << >> /\ s[j].label \in Range(slabel_arr')
               \/ s[j].label = NamedPlace
        BY <1>12, Zenon
      <4> QED BY <1>4, <1>11, <1>12, <2>1, <3>1, <3>3, <4>2, <4>3, AddressesKept, Zenon
    <3>4. \A i \in OpenConditionals' : Kind(open[i].stmt)' = "while" => HeadPlaced(i)'
      BY <1>6
    <3>5. ASSUME NEW g \in 1 .. globals'
          PROVE  \/ \E d \in DOMAIN code' : code'[d].op = "data" /\ code'[d].label = <<"global", g>>
                 \/ <<"global", g>> \in Range(slabel_arr')
      <4>1. g \in 1 .. globals
        BY <1>5
      <4> QED BY <1>4, <1>11, <1>12, <2>1, <3>1, <4>1, GlobalsKept, Zenon
    <3> QED BY <3>2, <3>3, <3>4, <3>5, Zenon DEF Resolving
  <2> QED BY <2>2, <2>3, <2>4
<1>19. Strings' /\ Counted'
  <2>1. Strings'
    BY <1>13 DEF Strings
  <2>2. globals \in Int /\ globals' \in Int /\ Len(slabel_arr) \in Int
    BY <1>14, LabelTypes
  <2>3. /\ Pending' = Pending + Tally(s, StringUses) + (globals' - globals) - Tally(s, DataLabels)
        /\ Pending \in Int
    BY <1>4, <1>11, <2>2, PendingGrows, Zenon
  <2>4. \A n, g \in Int : n + 0 + (g - g) - n = 0
    OBVIOUS
  <2>5. Pending = Len(slabel_arr)
    <3>1. Pending = Len(slabel_arr) + 0
      BY <1>17, Zenon DEF IInv, Counted
    <3> QED BY <2>2, <3>1
  <2>6. Pending' = 0
    BY <1>5, <1>11, <2>2, <2>3, <2>4, <2>5, Zenon
  <2>7. 0 + 0 = 0
    OBVIOUS
  <2> QED BY <1>13, <1>17, <2>1, <2>6, <2>7, Zenon DEF Counted
<1>20. Laid'
  BY <1>15, <1>16, <1>18 DEF Laid
<1> QED BY <1>18, <1>19, <1>20, Conclude

-----------------------------------------------------------------------------
(* The run, and the conclusion.                                             *)

\* A step that leaves what was generated alone.
LEMMA SameCode ==
    ASSUME IInv, UNCHANGED genVars,
           expect' = expect \/ (expect \in {"top", "run"} /\ expect' \in {"run", "halted"}),
           at' \in 1 .. Len(code) + 1, test' \in BOOLEAN, fun' \in Nat
    PROVE  IInv'
<1>1. /\ code' = code /\ label_no' = label_no /\ label_stack' = label_stack
      /\ slabel_arr' = slabel_arr /\ sconst_gen' = sconst_gen /\ globals' = globals
      /\ open' = open /\ prog' = prog
  BY DEF genVars
<1>2. TypeOK /\ Nesting /\ DepthIsDefined(prog) /\ Strings /\ Counted
  BY DEF IInv
<1>3. /\ PathKept /\ OpenConditionals' = OpenConditionals /\ \A i \in DOMAIN open : KeptAt(i)
  BY <1>1, SameStatements
<1>4. /\ OpenTyped' /\ Path' /\ DepthIsDefined(prog)' /\ Deep' /\ ProgExtends
      /\ (WithinLimit' => WithinLimit)
  BY <1>3 DEF PathKept
<1>5. expect' \in {"run", "halted"} /\ expect # expect' => open = << >>
  BY <1>2, OutsideFacts
<1>6. TypeOK'
  <2>1. expect' \in {"top", "decls", "stmt", "cond", "reduced", "no else", "smashed",
                     "run", "halted"}
    BY <1>2 DEF TypeOK
  <2>2. expect' \in {"top", "decls", "run", "halted"} => open' = << >>
    BY <1>1, <1>2, <1>5 DEF TypeOK
  <2>3. /\ code \in Seq(Instrs) /\ label_no \in Nat
        /\ DOMAIN label_stack.stack = 0 .. STACK_SIZ - 1
        /\ label_stack.index \in Nat \cup {-1}
        /\ slabel_arr \in Seq({"slabel", "global"} \X Nat) /\ Len(slabel_arr) <= SLABELS
        /\ {sconst_gen, globals} \subseteq Nat
    BY <1>2 DEF TypeOK
  <2>4. {sconst_gen', globals', fun'} \subseteq Nat
    BY <1>1, <2>3
  <2> QED BY <1>1, <1>4, <2>1, <2>2, <2>3, <2>4, Zenon DEF TypeOK, OpenTyped
<1>7. Nesting'
  <2>1. expect' \in {"stmt", "cond", "reduced", "no else"} => expect' = expect
    OBVIOUS
  <2>2. Kind(Context.stmt)' = Kind(Context.stmt)
    BY <1>1 DEF Kind, Context
  <2>3. expect' \in {"stmt", "cond", "reduced", "no else"} => open' # << >>
    BY <1>1, <1>2, <2>1, Zenon DEF Nesting
  <2>4. expect' = "cond" => Kind(Context.stmt)' = "while"
    <3>1. expect' = "cond" => expect = "cond"
      OBVIOUS
    <3> QED BY <1>2, <2>2, <3>1, Zenon DEF Nesting
  <2>5. label_stack' \in LabelStacks
    BY <1>1, StackTypes
  <2> QED BY <1>4, <2>3, <2>4, <2>5, Zenon DEF Nesting
<1>8. PICK s : s = << >>
  OBVIOUS
<1>9. /\ s \in Seq(Instrs) /\ code' = code \o s
      /\ \A i \in 1 .. Len(s) : FALSE
  <2>1. code \in Seq(Instrs)
    BY <1>2 DEF TypeOK
  <2> QED BY <1>1, <1>8, <2>1, NoCode, Zenon
<1>10. ASSUME NEW i \in OpenConditionals
       PROVE  KeptAt(i) /\ NumberOf(i)' = NumberOf(i) /\ Owed(i)' = Owed(i)
  <2>1. KeptAt(i)
    BY <1>3 DEF OpenConditionals
  <2>2. NumberOf(i)' = NumberOf(i)
    BY <1>1, <2>1, NumberKept
  <2>3. InThen(i)' <=> InThen(i)
    BY <1>1 DEF InThen
  <2> QED BY <2>1, <2>2, <2>3, OwedKept
<1>11. /\ sconst_gen' \in Nat /\ sconst_gen <= sconst_gen'
       /\ globals' \in Nat /\ globals <= globals' /\ label_no' \in Nat /\ label_no <= label_no'
       /\ label_no \in Nat
  BY <1>1, LabelTypes, Zenon
<1>12. ASSUME WithinLimit'
       PROVE  Numbered' /\ Placed'
  <2>1. Numbered /\ Placed
    BY <1>4, <1>12 DEF IInv
  <2>2. Numbered'
    <3>1. label_stack'.index + 1 = Cardinality(OpenConditionals')
      BY <1>1, <1>3, <2>1 DEF Numbered
    <3>2. \A op, label : Positions(op, label) \subseteq Positions(op, label)'
      BY <1>1, <1>2, <1>9, CodeGrows
    <3>3. expect' = "cond" => (NumberOf(Len(open)) = label_no)'
      <4>1. NumberOf(Len(open))' = NumberOf(Len(open))
        BY <1>1, <1>3 DEF NumberOf, Around
      <4>2. expect' = "cond" => expect = "cond"
        OBVIOUS
      <4> QED BY <1>1, <2>1, <4>1, <4>2 DEF Numbered
    <3>4. OpenConditionals' \ OpenConditionals = {}
      BY <1>3
    <3>5. \A i \in OpenConditionals' \cap OpenConditionals : KeptAt(i) /\ NumberOf(i)' = NumberOf(i)
      BY <1>10
    <3> QED BY <1>11, <2>1, <3>1, <3>2, <3>3, <3>4, <3>5, NumberedKept
  <2>3. Placed'
    <3>1. \A label \in Known : label \in Known'
      BY <1>4, <1>11, KnownGrows
    <3>2. \A label : Awaited(label)' => Awaited(label)
      BY <1>1, <1>3, <1>10 DEF Awaited
    <3> QED BY <1>9, <2>1, <3>1, <3>2, PlacedKept
  <2> QED BY <2>2, <2>3
<1>13. expect' = "smashed" <=> expect = "smashed"
  OBVIOUS
<1>14. ASSUME WithinLimit', expect' # "smashed"
       PROVE  Resolving'
  <2>1. Resolving
    BY <1>4, <1>13, <1>14 DEF IInv
  <2> QED BY <1>1, <1>3, <1>9, <1>10, <2>1, FlatResolving
<1>15. Strings'
  BY <1>1, <1>2 DEF Strings, Range
<1>16. Counted'
  <2>1. Pending' = Pending
    BY <1>1 DEF Pending, Kind
  <2> QED BY <1>1, <1>2, <1>13, <2>1 DEF Counted
<1>17. Laid'
  BY <1>4, <1>6, <1>7, <1>12 DEF Laid
<1> QED BY <1>14, <1>15, <1>16, <1>17, Conclude

LEMMA RunKeeps ==
    ASSUME IInv, RunFrom \/ Machine
    PROVE  IInv'
<1>1. /\ at \in 1 .. Len(code) + 1 /\ test \in BOOLEAN /\ fun \in Nat
      /\ code \in Seq(Instrs) /\ prog \in Seq(StmtRec)
  BY DEF IInv, TypeOK, Nesting, Path
<1>2. \A n \in DOMAIN code : n \in 1 .. Len(code) + 1 /\ n + 1 \in 1 .. Len(code) + 1
  BY <1>1
<1>3. \A op, label : Positions(op, label) \subseteq DOMAIN code
  BY DEF Positions
<1>4. ASSUME RunFrom
      PROVE  IInv'
  <2>1. /\ expect = "top" /\ expect' = "run" /\ UNCHANGED genVars /\ test' = test
        /\ \E f \in DOMAIN prog : fun' = f /\ at' \in Positions("label", <<"begin", f>>)
    BY <1>4 DEF RunFrom
  <2>2. fun' \in Nat /\ at' \in 1 .. Len(code) + 1
    BY <1>1, <1>2, <1>3, <2>1
  <2> QED BY <1>1, <2>1, <2>2, SameCode
<1>5. ASSUME Perform
      PROVE  IInv'
  <2>1. /\ at \in DOMAIN code /\ at' = at + 1 /\ UNCHANGED <<genVars, expect, fun>>
        /\ test' \in BOOLEAN
    BY <1>5 DEF Perform, AtOp
  <2> QED BY <1>1, <1>2, <2>1, SameCode
<1>6. ASSUME Transfer
      PROVE  IInv'
  <2>1. at \in DOMAIN code /\ UNCHANGED <<genVars, expect, fun, test>>
    BY <1>6 DEF Transfer, AtOp
  <2>2. at' = at + 1 \/ \E label : at' \in Positions("label", label)
    BY <1>6 DEF Transfer, GoTo
  <2>3. at' \in 1 .. Len(code) + 1
    BY <1>2, <1>3, <2>1, <2>2
  <2> QED BY <1>1, <2>1, <2>3, SameCode
<1>7. ASSUME Finish
      PROVE  IInv'
  <2>1. expect = "run" /\ expect' = "halted" /\ UNCHANGED <<genVars, fun, at, test>>
    BY <1>7 DEF Finish, AtEnd, AtOp
  <2> QED BY <1>1, <2>1, SameCode
<1> QED BY <1>4, <1>5, <1>6, <1>7 DEF Machine

LEMMA InitIInv == Init => IInv
<1> SUFFICES ASSUME Init
             PROVE  IInv
  OBVIOUS
<1>1. /\ code = << >> /\ label_no = 0 /\ slabel_arr = << >> /\ sconst_gen = 0 /\ globals = 0
      /\ open = << >> /\ expect = "top" /\ prog = << >> /\ fun = 0 /\ at = 1 /\ test = TRUE
      /\ label_stack = s_init
  BY DEF Init
<1>2. /\ DOMAIN code = {} /\ Len(code) = 0 /\ DOMAIN open = {} /\ DOMAIN prog = {}
      /\ DOMAIN slabel_arr = {} /\ Len(slabel_arr) = 0
      /\ code \in Seq(Instrs) /\ prog \in Seq(StmtRec) /\ OpenTyped
      /\ slabel_arr \in Seq({"slabel", "global"} \X Nat)
  BY <1>1 DEF OpenTyped
<1>3. /\ label_stack \in LabelStacks /\ label_stack.index = -1
      /\ DOMAIN label_stack.stack = 0 .. STACK_SIZ - 1
  BY <1>1 DEF s_init, LabelStacks
<1>4. SLABELS \in Nat /\ 0 <= SLABELS
  BY SizeAssumption
<1>5. TypeOK
  <2>1. 0 \in Nat /\ 1 \in 1 .. 0 + 1 /\ -1 \in Nat \cup {-1}
    OBVIOUS
  <2> QED BY <1>1, <1>2, <1>3, <1>4, <2>1 DEF TypeOK, OpenTyped
<1>6. Nesting
  BY <1>1, <1>2, <1>3 DEF Nesting, Path
<1>7. DepthIsDefined(prog)
  <2>1. \A d : IsDepth(prog, d) <=> d = [n \in {} |-> 0]
    BY <1>2 DEF IsDepth
  <2>2. [n \in {} |-> 0] \in [DOMAIN prog -> Nat]
    BY <1>2
  <2> QED BY <2>1, <2>2, Zenon DEF DepthIsDefined
<1>8. OpenConditionals = {}
  BY <1>2 DEF OpenConditionals
<1>9. Deep /\ Strings
  BY <1>2 DEF Deep, Strings, Range
<1>10. Numbered /\ Placed /\ Resolving
  <2>1. label_stack.index + 1 = Cardinality(OpenConditionals)
    BY <1>3, <1>8, FS_EmptySet
  <2>2. Numbered
    BY <1>1, <1>8, <2>1 DEF Numbered
  <2>3. Placed
    BY <1>2 DEF Placed, DefinedLabels
  <2>4. Resolving
    BY <1>1, <1>2, <1>8 DEF Resolving
  <2> QED BY <2>2, <2>3, <2>4
<1>11. Counted
  <2>1. Pending = 0
    <3>1. /\ {i \in DOMAIN code : code[i].op = "la" /\ code[i].label[1] = "slabel"} = {}
          /\ {i \in DOMAIN code : code[i].op = "data"} = {}
      BY <1>2
    <3> QED BY <1>1, <3>1, FS_EmptySet DEF Pending
  <2> QED BY <1>1, <1>2, <2>1 DEF Counted
<1> QED BY <1>5, <1>6, <1>7, <1>9, <1>10, <1>11 DEF IInv

LEMMA ParseKeeps ==
    ASSUME IInv, Parse
    PROVE  IInv'
<1>1. ASSUME NEW kind \in {"assign", "return"}, Simple(kind)
      PROVE  IInv'
  BY <1>1, SimpleKeeps
<1> QED
  BY <1>1, GlobalDeclKeeps, FuncBeginKeeps, FuncEndKeeps, UseGlobalKeeps, UseNamedPlaceKeeps, WriteStringKeeps,
     BlockBeginKeeps, BlockEndKeeps, IfTestKeeps, IfElseKeeps, IfWithoutElseKeeps, IfEndKeeps,
     WhileHeadKeeps, WhileTestKeeps, WhileEndKeeps, ForHeadKeeps, ForEndKeeps, Zenon DEF Parse

LEMMA NextIInv == IInv /\ [Next]_vars => IInv'
<1> SUFFICES ASSUME IInv, [Next]_vars
             PROVE  IInv'
  OBVIOUS
<1>1. CASE UNCHANGED vars
  <2>1. /\ UNCHANGED genVars /\ expect' = expect /\ at' = at /\ test' = test /\ fun' = fun
    BY <1>1 DEF vars, runVars
  <2>2. at \in 1 .. Len(code) + 1 /\ test \in BOOLEAN /\ fun \in Nat
    BY DEF IInv, TypeOK
  <2> QED BY <2>1, <2>2, SameCode
<1> QED BY <1>1, ParseKeeps, RunKeeps DEF Next

LEMMA Invariance == Spec => []IInv
BY InitIInv, NextIInv, PTL DEF Spec

(* Type correctness: the stack index stays behind -1 and the array of       *)
(* string labels within its places, for any program.                        *)
THEOREM TypeCorrect == Spec => []TypeOK
<1>1. IInv => TypeOK
  BY DEF IInv
<1> QED BY <1>1, Invariance, PTL

(* s_push and s_pop of the productions match: with at most STACK_SIZ nested *)
(* conditional statements the label stack has the numbers of the open ones, *)
(* for any program.                                                         *)
THEOREM StackFollowsNesting == Spec => []StackMirrorsNesting
<1>1. IInv => StackMirrorsNesting
  BY DEF IInv, Numbered, StackMirrorsNesting
<1> QED BY <1>1, Invariance, PTL

(* The output defines no label twice, however the statements are nested and *)
(* however many functions there are.                                        *)
THEOREM LabelsDefinedOnce == Spec => []LabelsUnique
<1>1. IInv => LabelsUnique
  BY DEF IInv, Placed, Defines, LabelsUnique
<1> QED BY <1>1, Invariance, PTL

(* When a function is complete, every jump of the output leads to a label   *)
(* of its own function, and every string and global whose address the       *)
(* output has is in the data section: what remains undefined are the places *)
(* of parameters and structure variables, and nothing else.                 *)
THEOREM LabelsAreResolved == Spec => []LabelsResolved
<1>1. IInv => LabelsResolved
  <2> SUFFICES ASSUME IInv, WithinLimit, expect \in {"top", "decls"}, NEW i \in DOMAIN code
               PROVE  /\ code[i].op \in {"j", "beqz"} =>
                            \E d \in Positions("label", code[i].label) : InFunction(d) = InFunction(i)
                      /\ code[i].op = "la" =>
                            Positions("data", code[i].label) # {} \/ code[i].label = NamedPlace
    BY DEF LabelsResolved
  <2>1. Resolving /\ open = << >> /\ OpenConditionals = {}
    BY OutsideFacts DEF IInv
  <2>2. code[i].op \in {"j", "beqz"} => Lands(i)
    BY <2>1 DEF Resolving
  <2>3. code[i].op = "la" =>
           \/ \E d \in DOMAIN code : code[d].op = "data" /\ code[d].label = code[i].label
           \/ code[i].label = NamedPlace
    BY <2>1 DEF Resolving
  <2> QED BY <2>2, <2>3 DEF Lands, Positions
<1> QED BY <1>1, Invariance, PTL

(* slabel_arr is overrun only by more labels than it has places between the *)
(* ends of two functions: gen_string_labels empties it.                     *)
THEOREM OverrunByOneFunction == Spec => []OverrunOnlyByOneFunction
<1>1. IInv => OverrunOnlyByOneFunction
  BY SizeAssumption DEF IInv, Counted, OverrunOnlyByOneFunction
<1> QED BY <1>1, Invariance, PTL
=============================================================================
