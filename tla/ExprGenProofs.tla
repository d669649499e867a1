--------------------------- MODULE ExprGenProofs ---------------------------
(***************************************************************************)
(* Every occupied register has one owner, for any number of registers, any *)
(* length of expressions and either layout of the register strings.        *)
(***************************************************************************)
EXTENDS ExprGen, WellFoundedInduction, FiniteSetTheorems, TLAPS

(***************************************************************************)
(* The inductive invariant.  Between statements nothing is on the stack;   *)
(* only operands are in registers; and the item at the bottom of an array  *)
(* element or a call statement is never in a register, because it is       *)
(* dropped without giving anything back.                                   *)
(***************************************************************************)
Idle == stmt = "none" => stack = << >>

BracketsInMemory == \A i \in DOMAIN stack : stack[i].kind # "operand" => stack[i].place = Mem

Bottom ==
    stmt \in {"lhs", "write", "call"} =>
        /\ stack # << >>
        /\ stack[1].kind # "("
        /\ stack[1].place \notin Reg
        /\ stack[1].kind = "operand" => Len(stack) = 1 /\ phase = "operator"

Filled == phase # "operand" => stack # << >>

Room ==
    /\ phase = "operand" /\ stmt # "none" => Len(stack) < MaxStack
    /\ phase = "infix" => Len(stack) < MaxStack

IInv == TypeOK /\ OneOwner /\ Idle /\ BracketsInMemory /\ Bottom /\ Filled /\ Room

-----------------------------------------------------------------------------
(* The registers.                                                           *)

\* A set of numbers that is not empty has a least element.
LEMMA LeastNatural ==
    ASSUME NEW S \in SUBSET Nat, S # {}
    PROVE  Min(S) \in S
<1>1. PICK x \in S : \A y \in S : ~ (<<y, x>> \in OpToRel(<, Nat))
  <2>1. IsWellFoundedOn(OpToRel(<, Nat), Nat)
    BY NatLessThanWellFounded
  <2> QED
    BY <2>1, WFMin
<1>2. \A y \in S : x <= y
  <2> SUFFICES ASSUME NEW y \in S PROVE x <= y
    OBVIOUS
  <2>1. ~ (<<y, x>> \in OpToRel(<, Nat))
    BY <1>1
  <2> QED
    BY <2>1 DEF OpToRel
<1> QED
  BY <1>2 DEF Min

LEMMA RegFacts ==
    /\ Reg \subseteq Nat
    /\ NoReg \notin Reg /\ V0 \notin Reg /\ Mem \notin Reg
    /\ Reg \subseteq Place
    /\ NoReg \in Place /\ V0 \in Place /\ Mem \in Place
    /\ NoReg # Mem /\ V0 # Mem
BY RegAssumption DEF Reg, Place, NoReg, V0, Mem

\* get_free_temp_reg returns a register that is not occupied, or fails.
LEMMA GetFreeFacts ==
    ASSUME NEW b \in SUBSET Reg
    PROVE  get_free_temp_reg(b) \in (Reg \ b) \cup {NoReg}
<1>1. CASE Reg \ b = {}
  BY <1>1 DEF get_free_temp_reg
<1>2. CASE Reg \ b # {}
  <2>1. Min(Reg \ b) \in Reg \ b
    BY <1>2, RegFacts, LeastNatural
  <2> QED
    BY <1>2, <2>1 DEF get_free_temp_reg
<1> QED
  BY <1>1, <1>2

LEMMA GetFacts ==
    ASSUME NEW b \in SUBSET Reg
    PROVE  /\ Get(b).reg \in (Reg \ b) \cup {NoReg}
           /\ Get(b).busy = b \cup ({Get(b).reg} \cap Reg)
           /\ Get(b).busy \in SUBSET Reg
           /\ Get(b).faults \subseteq {"exhausted"}
BY GetFreeFacts DEF Get

\* A loaded operand is in its own register or in a new one.
LEMMA LoadFacts ==
    ASSUME NEW b \in SUBSET Reg, NEW place \in Place
    PROVE  /\ Load(b, place).reg \in Reg \cup {NoReg, V0}
           /\ Load(b, place).busy = b \cup ({Load(b, place).reg} \cap (Reg \ {place}))
           /\ Load(b, place).busy \in SUBSET Reg
           /\ Load(b, place).faults \subseteq {"exhausted"}
           /\ place # Mem => Load(b, place).reg = place
           /\ place = Mem => Load(b, place).reg \notin b
<1>1. CASE place = Mem
  <2>1. Load(b, place) = Get(b)
    BY <1>1 DEF Load, is_temp_reg
  <2> QED
    BY <1>1, <2>1, GetFacts, RegFacts
<1>2. CASE place # Mem
  <2>1. Load(b, place) = [reg |-> place, busy |-> b, faults |-> {}]
    BY <1>2 DEF Load, is_temp_reg
  <2> QED
    BY <1>2, <2>1, RegFacts DEF Place
<1> QED
  BY <1>1, <1>2

-----------------------------------------------------------------------------
(* The stack.                                                               *)

LEMMA AppendFacts ==
    ASSUME NEW s \in Seq(Item), NEW x \in Item
    PROVE  /\ Append(s, x) \in Seq(Item)
           /\ Len(Append(s, x)) = Len(s) + 1
           /\ \A i \in DOMAIN s : Append(s, x)[i] = s[i]
           /\ Append(s, x)[Len(s) + 1] = x
           /\ PendingIn(Append(s, x)) = PendingIn(s) \cup ({x.place} \cap Reg)
           /\ HeldOnce(s) /\ x.place \notin PendingIn(s) => HeldOnce(Append(s, x))
<1> DEFINE t == Append(s, x)
<1>1. /\ t \in Seq(Item)
      /\ Len(t) = Len(s) + 1
      /\ DOMAIN s = 1 .. Len(s) /\ Len(s) \in Nat
      /\ DOMAIN t = 1 .. Len(s) + 1
      /\ \A i \in DOMAIN s : t[i] = s[i]
      /\ t[Len(s) + 1] = x
  OBVIOUS
<1> HIDE DEF t
<1>2. PendingIn(t) = PendingIn(s) \cup ({x.place} \cap Reg)
  BY <1>1 DEF PendingIn
<1>3. ASSUME HeldOnce(s), x.place \notin PendingIn(s)
      PROVE  HeldOnce(t)
  <2> SUFFICES ASSUME NEW i \in DOMAIN t, NEW j \in DOMAIN t,
                      t[i].place \in Reg, t[i].place = t[j].place
               PROVE  i = j
    BY DEF HeldOnce
  <2>1. CASE i \in DOMAIN s /\ j \in DOMAIN s
    BY <1>1, <1>3, <2>1 DEF HeldOnce
  <2>2. CASE i \in DOMAIN s /\ j = Len(s) + 1
    BY <1>1, <1>3, <2>2 DEF PendingIn
  <2>3. CASE j \in DOMAIN s /\ i = Len(s) + 1
    BY <1>1, <1>3, <2>3 DEF PendingIn
  <2> QED
    BY <1>1, <2>1, <2>2, <2>3
<1> QED
  BY <1>1, <1>2, <1>3 DEF t

\* A stack with an item taken off.
LEMMA FrontFacts ==
    ASSUME NEW s \in Seq(Item), s # << >>
    PROVE  /\ Front(s) \in Seq(Item)
           /\ Len(Front(s)) = Len(s) - 1
           /\ \A i \in 1 .. Len(s) - 1 : Front(s)[i] = s[i]
           /\ Last(s) \in Item
           /\ Last(s) = s[Len(s)]
           /\ PendingIn(s) = PendingIn(Front(s)) \cup ({Last(s).place} \cap Reg)
           /\ HeldOnce(s) => HeldOnce(Front(s)) /\ Last(s).place \notin PendingIn(Front(s))
<1> DEFINE t == Front(s)
<1>1. Len(s) \in Nat \ {0} /\ DOMAIN s = 1 .. Len(s)
  OBVIOUS
<1>2. Last(s) = s[Len(s)] /\ Last(s) \in Item
  BY <1>1 DEF Last
<1>3. /\ t \in Seq(Item)
      /\ Len(t) = Len(s) - 1
      /\ DOMAIN t = 1 .. Len(s) - 1
      /\ \A i \in 1 .. Len(s) - 1 : t[i] = s[i]
  BY <1>1 DEF Front
<1> HIDE DEF t
<1>4. PendingIn(s) = PendingIn(t) \cup ({Last(s).place} \cap Reg)
  BY <1>1, <1>2, <1>3 DEF PendingIn
<1>5. ASSUME HeldOnce(s)
      PROVE  HeldOnce(t) /\ Last(s).place \notin PendingIn(t)
  <2>1. HeldOnce(t)
    BY <1>1, <1>3, <1>5 DEF HeldOnce
  <2>2. Last(s).place \notin PendingIn(t)
    BY <1>1, <1>2, <1>3, <1>5 DEF HeldOnce, PendingIn
  <2> QED
    BY <2>1, <2>2
<1> QED
  BY <1>2, <1>3, <1>4, <1>5 DEF t

LEMMA EmptyFacts == PendingIn(<< >>) = {} /\ HeldOnce(<< >>)
BY DEF PendingIn, HeldOnce

\* A stack with two items taken off.
LEMMA BelowFacts ==
    ASSUME stack \in Seq(Item), Len(stack) >= 2
    PROVE  LET p == stack[Len(stack) - 1].place
               q == Last(stack).place
           IN  /\ Below \in Seq(Item)
               /\ Len(Below) = Len(stack) - 2
               /\ \A i \in 1 .. Len(stack) - 2 : Below[i] = stack[i]
               /\ Last(stack) \in Item /\ Last(stack) = stack[Len(stack)]
               /\ p \in Place /\ q \in Place
               /\ PendingIn(stack) = PendingIn(Below) \cup ({p, q} \cap Reg)
               /\ HeldOnce(stack) => /\ HeldOnce(Below)
                                     /\ {p, q} \cap PendingIn(Below) = {}
                                     /\ p \in Reg => p # q
<1> DEFINE n == Len(stack)
           p == stack[n - 1].place
           q == stack[n].place
           t == Below
<1>1. n \in Nat /\ n >= 2 /\ DOMAIN stack = 1 .. n
  OBVIOUS
<1>2. Last(stack) = stack[n] /\ Last(stack) \in Item /\ stack[n - 1] \in Item
  BY <1>1 DEF Last
<1>3. /\ t \in Seq(Item)
      /\ Len(t) = n - 2
      /\ DOMAIN t = 1 .. n - 2
      /\ \A i \in 1 .. n - 2 : t[i] = stack[i]
  BY <1>1 DEF Below
<1> HIDE DEF t
<1>4. p \in Place /\ q \in Place
  BY <1>2 DEF Item
<1>5. PendingIn(stack) = PendingIn(t) \cup ({p, q} \cap Reg)
  BY <1>1, <1>3, SMTT(30) DEF PendingIn
<1>6. ASSUME HeldOnce(stack)
      PROVE  HeldOnce(t) /\ {p, q} \cap PendingIn(t) = {} /\ (p \in Reg => p # q)
  <2>1. HeldOnce(t)
    BY <1>1, <1>3, <1>6 DEF HeldOnce
  <2>2. p \notin PendingIn(t)
    BY <1>1, <1>3, <1>6, SMTT(30) DEF HeldOnce, PendingIn
  <2>3. q \notin PendingIn(t)
    BY <1>1, <1>3, <1>6 DEF HeldOnce, PendingIn
  <2>4. p \in Reg => p # q
    <3> HIDE DEF n
    <3>1. n - 1 \in 1 .. n /\ n \in 1 .. n /\ n - 1 # n
      BY <1>1
    <3>2. \A i, j \in 1 .. n :
             stack[i].place \in Reg /\ stack[i].place = stack[j].place => i = j
      BY <1>1, <1>6 DEF HeldOnce
    <3> QED
      BY <3>1, <3>2
  <2> QED
    BY <2>1, <2>2, <2>3, <2>4
<1> QED
  BY <1>2, <1>3, <1>4, <1>5, <1>6 DEF t

-----------------------------------------------------------------------------
(* One step.                                                                *)

Shape == Idle /\ BracketsInMemory /\ Bottom /\ Filled /\ Room

LEMMA OperandFacts ==
    ASSUME NEW place \in Place
    PROVE  /\ Operand(place) \in Item
           /\ Operand(place).place = place
           /\ Operand(place).kind = "operand"
BY DEF Operand, Item

LEMMA BracketFacts ==
    ASSUME NEW kind \in BracketKind
    PROVE  /\ Bracket(kind) \in Item
           /\ Bracket(kind).place = Mem
           /\ Bracket(kind).kind = kind
           /\ kind # "operand"
BY RegFacts DEF Bracket, Item, BracketKind

\* Steps that leave the stack and the registers alone.
LEMMA QuietSteps ==
    ASSUME IInv, (\E s \in {"assign", "return", "condition"} : Begin(s)) \/ Operator \/ Terminate
    PROVE  IInv'
<1>1. TypeOK'
  BY DEF IInv, TypeOK, Begin, Operator, Terminate
<1>2. OneOwner'
  BY DEF IInv, OneOwner, Pending, Begin, Operator, Terminate
<1>3. Len(stack) \in Nat /\ MaxStack \in Nat /\ MaxStack >= 2
  BY RegAssumption DEF IInv, TypeOK
<1>4. CASE \E s \in {"assign", "return", "condition"} : Begin(s)
  <2>1. stack = << >> /\ Len(stack) = 0 /\ stack' = stack
    BY <1>4 DEF IInv, Idle, Begin
  <2>2. stmt' \in {"assign", "return", "condition"} /\ phase' = "operand"
    BY <1>4 DEF Begin
  <2> QED
    BY <1>1, <1>2, <1>3, <2>1, <2>2 DEF IInv, Idle, BracketsInMemory, Bottom, Filled, Room
<1>5. CASE Operator
  BY <1>1, <1>2, <1>3, <1>5
  DEF IInv, Operator, Target, HasRoom, Idle, BracketsInMemory, Bottom, Filled, Room
<1>6. CASE Terminate
  BY <1>1, <1>2, <1>3, <1>6
  DEF IInv, Terminate, Target, Parsing, Idle, BracketsInMemory, Bottom, Filled, Room
<1> QED
  BY <1>4, <1>5, <1>6

\* A pushed item does not disturb what the stack is known to be.
LEMMA PushShape ==
    ASSUME IInv, Parsing("operand"), NEW x \in Item,
           x.kind # "operand" => x.place = Mem,
           stack' = Append(stack, x), stmt' = stmt,
           phase' \in {"operand", "operator", "infix", "reduce"},
           phase' \in {"operand", "infix"} => Len(stack) + 2 <= MaxStack
    PROVE  Shape' /\ stack' \in Seq(Item) /\ Len(stack') <= MaxStack
<1>1. /\ stack \in Seq(Item) /\ Len(stack) \in Nat /\ DOMAIN stack = 1 .. Len(stack)
      /\ MaxStack \in Nat /\ Len(stack) < MaxStack
  BY RegAssumption DEF IInv, TypeOK, Room, Parsing
<1>2. /\ stack' \in Seq(Item) /\ Len(stack') = Len(stack) + 1
      /\ DOMAIN stack' = 1 .. Len(stack) + 1
      /\ \A i \in 1 .. Len(stack) : stack'[i] = stack[i]
      /\ stack'[Len(stack) + 1] = x
  BY <1>1, AppendFacts
<1>3. Idle' /\ Filled' /\ Room'
  BY <1>1, <1>2 DEF Idle, Filled, Room, Parsing
<1>4. BracketsInMemory'
  BY <1>1, <1>2 DEF IInv, BracketsInMemory
<1>5. Bottom'
  <2> SUFFICES ASSUME stmt \in {"lhs", "write", "call"}
               PROVE  /\ stack' # << >>
                      /\ stack'[1].kind # "("
                      /\ stack'[1].place \notin Reg
                      /\ stack'[1].kind # "operand"
    BY DEF Bottom
  <2>1. /\ stack # << >>
        /\ stack[1].kind # "("
        /\ stack[1].place \notin Reg
        /\ stack[1].kind # "operand"
    BY DEF IInv, Bottom, Parsing
  <2>2. stack'[1] = stack[1]
    BY <1>1, <1>2, <2>1
  <2> QED
    BY <1>1, <1>2, <2>1, <2>2
<1> QED
  BY <1>1, <1>2, <1>3, <1>4, <1>5 DEF Shape

LEMMA PushSteps ==
    ASSUME IInv,
           \/ \E place \in {Mem, V0} : PushPlace(place)
           \/ PushConstant
           \/ SubscriptConstant
           \/ \E kind \in BracketKind : OpenBracket(kind)
    PROVE  IInv'
<1>1. /\ stack \in Seq(Item) /\ Len(stack) \in Nat /\ MaxStack \in Nat
      /\ busy \in SUBSET Reg /\ abandoned \in SUBSET Reg
      /\ phase = "operand" /\ stmt # "none" => Len(stack) < MaxStack
  BY RegAssumption DEF IInv, TypeOK, Room
\* The four actions push an item that is not in a register, or in a new one.
<1>2. ASSUME Parsing("operand"), NEW x \in Item, stack' = Append(stack, x),
             x.place \notin Reg, busy' = busy, abandoned' = abandoned
      PROVE  OneOwner'
  <2>1. x.place \notin PendingIn(stack)
    BY <1>2 DEF PendingIn
  <2> QED
    BY <1>1, <1>2, <2>1, AppendFacts DEF IInv, OneOwner, Pending
<1>3. CASE \E place \in {Mem, V0} : PushPlace(place)
  <2> PICK place \in {Mem, V0} : PushPlace(place)
    BY <1>3
  <2>1. place \in Place /\ place \notin Reg
    BY RegFacts
  <2>2. /\ Operand(place) \in Item /\ Operand(place).kind = "operand"
        /\ Operand(place).place = place
    BY <2>1, OperandFacts
  <2>3. /\ Parsing("operand") /\ stack' = Append(stack, Operand(place)) /\ stmt' = stmt
        /\ phase' = "operator" /\ busy' = busy /\ abandoned' = abandoned /\ faults' = {}
    BY DEF PushPlace, PushOperand
  <2>4. Shape' /\ stack' \in Seq(Item) /\ Len(stack') <= MaxStack
    BY <2>2, <2>3, PushShape
  <2>5. OneOwner'
    BY <1>2, <2>1, <2>2, <2>3
  <2> QED
    BY <2>3, <2>4, <2>5 DEF IInv, TypeOK, Shape
<1>4. CASE PushConstant
  <2> DEFINE got == Get(busy)
             x == Operand(got.reg)
  <2>1. /\ got.reg \in (Reg \ busy) \cup {NoReg}
        /\ got.busy = busy \cup ({got.reg} \cap Reg)
        /\ got.busy \in SUBSET Reg
        /\ got.faults \subseteq {"exhausted"}
    BY <1>1, GetFacts
  <2>2. got.reg \in Place
    BY <2>1, RegFacts
  <2>3. x \in Item /\ x.kind = "operand" /\ x.place = got.reg
    BY <2>2, OperandFacts
  <2>4. /\ Parsing("operand") /\ stack' = Append(stack, x) /\ stmt' = stmt
        /\ busy' = got.busy /\ faults' = got.faults /\ abandoned' = abandoned
        /\ phase' \in {"operator", "infix"}
        /\ phase' = "infix" => Len(stack) + 2 <= MaxStack
    BY <1>4 DEF PushConstant, PushOperand, HasRoom
  <2> HIDE DEF got, x
  <2>5. Shape' /\ stack' \in Seq(Item) /\ Len(stack') <= MaxStack
    BY <2>3, <2>4, PushShape
  <2>6. OneOwner'
    <3>1. got.reg \notin PendingIn(stack) /\ got.reg \notin abandoned
      BY <2>1, RegFacts DEF IInv, TypeOK, OneOwner, Pending, PendingIn
    <3>2. /\ PendingIn(stack') = PendingIn(stack) \cup ({got.reg} \cap Reg)
          /\ HeldOnce(stack')
      BY <1>1, <2>3, <2>4, <3>1, AppendFacts DEF IInv, OneOwner
    <3> QED
      BY <2>1, <2>4, <3>1, <3>2 DEF IInv, OneOwner, Pending
  <2> QED
    BY <1>1, <2>1, <2>4, <2>5, <2>6 DEF IInv, TypeOK, Shape
<1>5. CASE SubscriptConstant
  <2>2. /\ Operand(Mem) \in Item /\ Operand(Mem).kind = "operand"
        /\ Operand(Mem).place = Mem
    BY RegFacts, OperandFacts
  <2>3. /\ Parsing("operand") /\ stack' = Append(stack, Operand(Mem)) /\ stmt' = stmt
        /\ phase' = "reduce" /\ busy' = busy /\ abandoned' = abandoned /\ faults' = {}
    BY <1>5 DEF SubscriptConstant, PushOperand
  <2>4. Shape' /\ stack' \in Seq(Item) /\ Len(stack') <= MaxStack
    BY <2>2, <2>3, PushShape
  <2>5. OneOwner'
    BY <1>2, <2>2, <2>3, RegFacts
  <2> QED
    BY <2>3, <2>4, <2>5 DEF IInv, TypeOK, Shape
<1>6. CASE \E kind \in BracketKind : OpenBracket(kind)
  <2> PICK kind \in BracketKind : OpenBracket(kind)
    BY <1>6
  <2>2. /\ Bracket(kind) \in Item /\ Bracket(kind).place = Mem
    BY BracketFacts
  <2>3. /\ Parsing("operand") /\ stack' = Append(stack, Bracket(kind)) /\ stmt' = stmt
        /\ phase' = "operand" /\ busy' = busy /\ abandoned' = abandoned /\ faults' = {}
        /\ Len(stack) + 2 <= MaxStack
    BY DEF OpenBracket, Parsing, HasRoom
  <2>4. Shape' /\ stack' \in Seq(Item) /\ Len(stack') <= MaxStack
    BY <2>2, <2>3, PushShape
  <2>5. OneOwner'
    BY <1>2, <2>2, <2>3, RegFacts
  <2> QED
    BY <2>3, <2>4, <2>5 DEF IInv, TypeOK, Shape
<1> QED
  BY <1>3, <1>4, <1>5, <1>6

\* The steps that end a statement leave an empty stack.
LEMMA EndShape ==
    ASSUME EndStatement
    PROVE  /\ Shape' /\ stack' \in Seq(Item) /\ Len(stack') <= MaxStack
           /\ phase' = "operand" /\ stmt' = "none"
           /\ PendingIn(stack') = {} /\ HeldOnce(stack')
<1>1. stack' = << >> /\ stmt' = "none" /\ phase' = "operand"
  BY DEF EndStatement
<1>2. Len(stack') = 0 /\ stack' \in Seq(Item) /\ DOMAIN stack' = {}
  BY <1>1
<1>3. MaxStack \in Nat /\ MaxStack >= 2
  BY RegAssumption
<1>4. Shape'
  BY <1>1, <1>2, <1>3 DEF Shape, Idle, BracketsInMemory, Bottom, Filled, Room
<1> QED
  BY <1>1, <1>2, <1>3, <1>4, EmptyFacts

\* What Consume does with a value that is not on the stack any more.
LEMMA ConsumeFacts ==
    ASSUME busy \in SUBSET Reg, NEW place \in Place, Consume(place)
    PROVE  /\ busy' = busy \ {place}
           /\ faults' \subseteq {"exhausted", "wild"}
<1> DEFINE got == Load(busy, place)
<1>1. /\ got.reg \in Reg \cup {NoReg, V0}
      /\ got.busy = busy \cup ({got.reg} \cap (Reg \ {place}))
      /\ got.faults \subseteq {"exhausted"}
      /\ place # Mem => got.reg = place
      /\ place = Mem => got.reg \notin busy
  BY LoadFacts
<1>2. busy' = got.busy \ {got.reg, place} /\ faults' = got.faults \cup WildMark({got.reg, place})
  BY DEF Consume, mark_temp_reg_free
<1> HIDE DEF got
<1>3. busy' = busy \ {place}
  BY <1>1, <1>2
<1>4. WildMark({got.reg, place}) \subseteq {"wild"}
  BY DEF WildMark
<1> QED
  BY <1>1, <1>2, <1>3, <1>4

LEMMA EndSteps ==
    ASSUME IInv, EndValue \/ EndCondition \/ Read \/ Write \/ EndCall
    PROVE  IInv'
<1>1. /\ stack \in Seq(Item) /\ Len(stack) \in Nat
      /\ busy \in SUBSET Reg /\ abandoned \in SUBSET Reg
      /\ busy = PendingIn(stack) \cup abandoned
      /\ PendingIn(stack) \cap abandoned = {}
  BY DEF IInv, TypeOK, OneOwner, Pending
<1>2. EndStatement
  BY DEF EndValue, EndCondition, Read, Write, EndCall
<1>3. /\ Shape' /\ stack' \in Seq(Item) /\ Len(stack') <= MaxStack
      /\ phase' = "operand" /\ stmt' = "none"
      /\ PendingIn(stack') = {} /\ HeldOnce(stack')
  BY <1>2, EndShape
<1>4. ASSUME busy' = abandoned', abandoned' \in SUBSET Reg, faults' \subseteq {"exhausted", "wild"}
      PROVE  IInv'
  <2>1. OneOwner'
    BY <1>3, <1>4 DEF OneOwner, Pending
  <2>2. TypeOK'
    BY <1>3, <1>4 DEF TypeOK
  <2> QED
    BY <1>3, <2>1, <2>2 DEF IInv, Shape
<1>5. ASSUME Len(stack) = 1
      PROVE  stack[1].place \in Place /\ PendingIn(stack) = {stack[1].place} \cap Reg
  <2>1. stack[1] \in Item /\ DOMAIN stack = {1}
    BY <1>1, <1>5
  <2> QED
    BY <2>1 DEF PendingIn, Item
<1>6. CASE EndValue
  <2>1. Len(stack) = 1 /\ Consume(stack[1].place) /\ abandoned' = abandoned
    BY <1>6 DEF EndValue, WholeExpression
  <2>2. busy' = busy \ {stack[1].place} /\ faults' \subseteq {"exhausted", "wild"}
    BY <1>1, <1>5, <2>1, ConsumeFacts
  <2>3. busy' = abandoned
    BY <1>1, <1>5, <2>1, <2>2
  <2> QED
    BY <1>1, <1>4, <2>1, <2>2, <2>3
<1>7. CASE EndCondition
  <2>1. /\ Len(stack) = 1 /\ busy' = busy /\ faults' = {}
        /\ abandoned' = abandoned \cup ({stack[1].place} \cap Reg)
    BY <1>7 DEF EndCondition, WholeExpression
  <2> QED
    BY <1>1, <1>4, <1>5, <2>1
<1>8. ASSUME PendingIn(stack) = {}, NEW place \in {Mem, V0}, Consume(place), abandoned' = abandoned
      PROVE  IInv'
  <2>1. place \in Place /\ place \notin Reg
    BY RegFacts
  <2>2. busy' = busy \ {place} /\ faults' \subseteq {"exhausted", "wild"}
    BY <1>1, <1>8, <2>1, ConsumeFacts
  <2> QED
    BY <1>1, <1>4, <1>8, <2>1, <2>2
<1>9. ASSUME Target PROVE PendingIn(stack) = {}
  <2>1. Len(stack) = 1 /\ stack[1].place \notin Reg
    BY <1>9 DEF IInv, Bottom, Target
  <2> QED
    BY <1>5, <2>1
<1>10. CASE Read
  <2>1. stack = << >> /\ Consume(V0) /\ abandoned' = abandoned
    BY <1>10 DEF Read
  <2> QED
    BY <1>8, <2>1, EmptyFacts
<1>11. CASE Write
  <2>1. PICK place \in {Mem, V0} : Consume(place)
    BY <1>11 DEF Write
  <2>2. PendingIn(stack) = {} /\ abandoned' = abandoned
    BY <1>9, <1>11, EmptyFacts DEF Write, IInv, Idle
  <2> QED
    BY <1>8, <2>1, <2>2
<1>12. CASE EndCall
  <2>1. Target /\ faults' = {} /\ busy' = busy /\ abandoned' = abandoned
    BY <1>12 DEF EndCall
  <2> QED
    BY <1>1, <1>4, <1>9, <2>1
<1> QED
  BY <1>6, <1>7, <1>10, <1>11, <1>12

\* The steps that put another stack in place of the statement's first item or
\* of its last one.
LEMMA ElementSteps ==
    ASSUME IInv,
           \/ \E s \in {"lhs", "write"} : BeginElement(s, "[")
           \/ BeginElement("call", "argument")
           \/ NextSubscript
           \/ AssignSign
    PROVE  IInv'
<1>1. /\ stack \in Seq(Item) /\ Len(stack) \in Nat
      /\ MaxStack \in Nat /\ MaxStack >= 2
      /\ busy \in SUBSET Reg /\ abandoned \in SUBSET Reg
      /\ busy = PendingIn(stack) \cup abandoned
      /\ PendingIn(stack) \cap abandoned = {} /\ HeldOnce(stack)
  BY RegAssumption DEF IInv, TypeOK, OneOwner, Pending
<1>2. ASSUME NEW s \in {"lhs", "write", "call"}, NEW kind \in {"[", "argument"}, BeginElement(s, kind)
      PROVE  IInv'
  <2>1. /\ stack = << >> /\ stack' = <<Bracket(kind)>> /\ stmt' = s /\ phase' = "operand"
        /\ busy' = busy /\ abandoned' = abandoned /\ faults' = {}
    BY <1>2 DEF BeginElement, IInv, Idle
  <2>2. /\ Bracket(kind) \in Item /\ Bracket(kind).place = Mem
        /\ Bracket(kind).kind = kind /\ kind # "operand"
    BY BracketFacts DEF BracketKind
  <2>3. /\ stack' \in Seq(Item) /\ Len(stack') = 1 /\ DOMAIN stack' = {1}
        /\ stack'[1] = Bracket(kind)
    BY <2>1, <2>2
  <2>4. OneOwner'
    <3>1. PendingIn(stack') = {} /\ HeldOnce(stack')
      BY <2>2, <2>3, RegFacts DEF PendingIn, HeldOnce
    <3>2. PendingIn(stack) = {}
      BY <2>1, EmptyFacts
    <3> QED
      BY <1>1, <2>1, <3>1, <3>2 DEF OneOwner, Pending
  <2>5. TypeOK'
    BY <1>1, <1>2, <2>1, <2>3 DEF TypeOK
  <2>6. Shape'
    BY <1>1, <1>2, <2>1, <2>2, <2>3, RegFacts
    DEF Shape, Idle, BracketsInMemory, Bottom, Filled, Room
  <2> QED
    BY <2>4, <2>5, <2>6 DEF IInv, Shape
<1>3. CASE NextSubscript
  <2> PICK kind \in {"[", "argument"} :
            /\ Last(stack).place = IF kind = "[" THEN Mem ELSE V0
            /\ stack' = Append(Front(stack), Bracket(kind))
    BY <1>3 DEF NextSubscript
  <2>1. /\ stmt # "none" /\ phase = "operator" /\ phase' = "operand" /\ stmt' = stmt
        /\ busy' = busy /\ abandoned' = abandoned /\ faults' = {}
        /\ Len(stack) + 1 <= MaxStack
    BY <1>3 DEF NextSubscript, Parsing, HasRoom
  <2>2. /\ Bracket(kind) \in Item /\ Bracket(kind).place = Mem
        /\ Bracket(kind).kind = kind /\ kind # "operand" /\ kind # "("
    BY BracketFacts DEF BracketKind
  <2> DEFINE f == Front(stack)
             n == Len(stack)
  <2>3. stack # << >> /\ n >= 1
    BY <1>1, <2>1 DEF IInv, Filled
  <2>4. /\ f \in Seq(Item) /\ Len(f) = n - 1
        /\ \A i \in 1 .. n - 1 : f[i] = stack[i]
        /\ PendingIn(stack) = PendingIn(f) \cup ({Last(stack).place} \cap Reg)
        /\ HeldOnce(f)
    BY <1>1, <2>3, FrontFacts
  <2>5. PendingIn(f) = PendingIn(stack)
    BY <2>4, RegFacts
  <2>6. stack' = Append(f, Bracket(kind))
    OBVIOUS
  <2> HIDE DEF f
  <2>7. /\ stack' \in Seq(Item) /\ Len(stack') = n
        /\ \A i \in DOMAIN f : stack'[i] = f[i]
        /\ stack'[Len(f) + 1] = Bracket(kind)
        /\ PendingIn(stack') = PendingIn(f) \cup ({Mem} \cap Reg)
        /\ HeldOnce(stack')
    <3>1. Mem \notin PendingIn(f)
      BY RegFacts DEF PendingIn
    <3> QED
      BY <1>1, <2>2, <2>4, <2>6, <3>1, AppendFacts
  <2>8. OneOwner'
    BY <1>1, <2>1, <2>5, <2>7, RegFacts DEF OneOwner, Pending
  <2>9. TypeOK'
    BY <1>1, <2>1, <2>7 DEF IInv, TypeOK
  <2>10. /\ DOMAIN stack = 1 .. n /\ DOMAIN stack' = 1 .. n
         /\ \A i \in 1 .. n - 1 : stack'[i] = stack[i]
         /\ stack'[n] = Bracket(kind)
    <3>1. DOMAIN f = 1 .. n - 1
      BY <2>4
    <3> QED
      BY <1>1, <2>3, <2>4, <2>7, <3>1
  <2>11. BracketsInMemory'
    <3> SUFFICES ASSUME NEW i \in 1 .. n, stack'[i].kind # "operand"
                 PROVE  stack'[i].place = Mem
      BY <2>10 DEF BracketsInMemory
    <3>1. CASE i = n
      BY <2>2, <2>10, <3>1
    <3>2. CASE i # n
      <4>1. i \in 1 .. n - 1
        BY <1>1, <3>2
      <4> QED
        BY <2>10, <4>1 DEF IInv, BracketsInMemory
    <3> QED
      BY <3>1, <3>2
  <2>12. Bottom'
    <3>1. CASE n = 1
      BY <2>2, <2>7, <2>10, <3>1, RegFacts DEF Bottom
    <3>2. CASE n # 1
      <4>1. stack'[1] = stack[1] /\ stack' # << >>
        BY <1>1, <2>3, <2>7, <2>10, <3>2
      <4> QED
        BY <2>1, <3>2, <4>1 DEF IInv, Bottom
    <3> QED
      BY <3>1, <3>2
  <2> QED
    BY <1>1, <2>1, <2>3, <2>7, <2>8, <2>9, <2>11, <2>12 DEF IInv, Idle, Filled, Room
<1>4. CASE AssignSign
  <2>1. /\ Len(stack) = 1 /\ stack[1].place \notin Reg
        /\ stack' = << >> /\ stmt' = "assign" /\ phase' = "operand"
        /\ busy' = busy /\ abandoned' = abandoned /\ faults' = {}
    BY <1>4 DEF AssignSign, Target, IInv, Bottom
  <2>2. PendingIn(stack) = {}
    <3>1. DOMAIN stack = {1}
      BY <1>1, <2>1
    <3> QED
      BY <2>1, <3>1 DEF PendingIn
  <2>3. Len(stack') = 0 /\ stack' \in Seq(Item) /\ DOMAIN stack' = {}
    BY <2>1
  <2>4. OneOwner'
    BY <1>1, <2>1, <2>2, EmptyFacts DEF OneOwner, Pending
  <2>5. TypeOK'
    BY <1>1, <2>1, <2>3 DEF TypeOK
  <2> QED
    BY <1>1, <2>1, <2>3, <2>4, <2>5 DEF IInv, Idle, BracketsInMemory, Bottom, Filled, Room
<1> QED
  BY <1>2, <1>3, <1>4

\* Two items are replaced by an operand.
LEMMA CollapseShape ==
    ASSUME IInv, Len(stack) >= 2, NEW place \in Place,
           stack' = Append(Below, Operand(place)),
           stmt # "none", stmt' = stmt, phase' \in {"operator", "reduce"},
           \/ stack[Len(stack) - 1].kind \in {"operand", "("}
           \/ place \notin Reg /\ phase' = "operator"
    PROVE  /\ Shape' /\ stack' \in Seq(Item) /\ Len(stack') <= MaxStack
           /\ PendingIn(stack') = PendingIn(Below) \cup ({place} \cap Reg)
           /\ place \notin PendingIn(Below) => HeldOnce(stack')
<1> DEFINE n == Len(stack)
           t == Below
           x == Operand(place)
<1>1. /\ stack \in Seq(Item) /\ n \in Nat /\ n >= 2 /\ DOMAIN stack = 1 .. n
      /\ n <= MaxStack /\ MaxStack \in Nat /\ HeldOnce(stack)
  BY RegAssumption DEF IInv, TypeOK, OneOwner
<1>2. x \in Item /\ x.place = place /\ x.kind = "operand"
  BY OperandFacts
<1>3. /\ t \in Seq(Item) /\ Len(t) = n - 2
      /\ \A i \in 1 .. n - 2 : t[i] = stack[i]
      /\ HeldOnce(t)
  BY <1>1, BelowFacts
<1> HIDE DEF t, x
<1>4. stack' = Append(t, x)
  BY DEF t, x
<1>5. /\ stack' \in Seq(Item) /\ Len(stack') = n - 1
      /\ \A i \in DOMAIN t : stack'[i] = t[i]
      /\ stack'[n - 1] = x
      /\ PendingIn(stack') = PendingIn(t) \cup ({place} \cap Reg)
      /\ place \notin PendingIn(t) => HeldOnce(stack')
  <2>1. Len(t) + 1 = n - 1
    BY <1>1, <1>3
  <2> QED
    BY <1>2, <1>3, <1>4, <2>1, AppendFacts
<1>6. /\ DOMAIN stack' = 1 .. n - 1
      /\ \A i \in 1 .. n - 2 : stack'[i] = stack[i]
  <2>1. DOMAIN t = 1 .. n - 2
    BY <1>3
  <2>2. DOMAIN stack' = 1 .. n - 1
    BY <1>5
  <2>3. \A i \in 1 .. n - 2 : stack'[i] = stack[i]
    BY <1>3, <1>5, <2>1
  <2> QED
    BY <2>2, <2>3
<1>7. BracketsInMemory'
  <2> SUFFICES ASSUME NEW i \in 1 .. n - 1, stack'[i].kind # "operand"
               PROVE  stack'[i].place = Mem
    BY <1>6 DEF BracketsInMemory
  <2>1. i # n - 1
    BY <1>2, <1>5
  <2>2. i \in 1 .. n - 2 /\ i \in 1 .. n
    <3> HIDE DEF n
    <3> QED
      BY <1>1, <2>1
  <2> QED
    BY <1>1, <1>6, <2>2 DEF IInv, BracketsInMemory
<1>8. Bottom'
  <2> SUFFICES ASSUME stmt \in {"lhs", "write", "call"}
               PROVE  /\ stack' # << >>
                      /\ stack'[1].kind # "("
                      /\ stack'[1].place \notin Reg
                      /\ stack'[1].kind = "operand" => Len(stack') = 1 /\ phase' = "operator"
    BY DEF Bottom
  <2>1. /\ stack[1].kind # "(" /\ stack[1].kind # "operand"
        /\ stack[1].place \notin Reg
    BY <1>1 DEF IInv, Bottom
  <2>2. CASE n = 2
    BY <1>1, <1>2, <1>5, <2>1, <2>2
  <2>3. CASE n # 2
    <3>1. 1 \in 1 .. n - 2
      BY <1>1, <2>3
    <3>2. stack'[1] = stack[1]
      BY <1>6, <3>1
    <3>3. stack' # << >>
      BY <1>1, <1>5
    <3> QED
      BY <2>1, <3>2, <3>3
  <2> QED
    BY <2>2, <2>3
<1>9. Idle' /\ Filled' /\ Room'
  BY <1>1, <1>5 DEF Idle, Filled, Room
<1> QED
  BY <1>1, <1>5, <1>7, <1>8, <1>9 DEF Shape, t

LEMMA CloseSteps ==
    ASSUME IInv, CloseParen \/ CloseSubscript
    PROVE  IInv'
<1> DEFINE p == stack[Len(stack) - 1].place
           q == Last(stack).place
<1>1. /\ stack \in Seq(Item) /\ Len(stack) \in Nat
      /\ busy \in SUBSET Reg /\ abandoned \in SUBSET Reg
      /\ busy = PendingIn(stack) \cup abandoned
      /\ PendingIn(stack) \cap abandoned = {} /\ HeldOnce(stack)
  BY DEF IInv, TypeOK, OneOwner, Pending
<1>2. PICK kind \in BracketKind : TopAre(<<kind, "operand">>)
  BY DEF CloseParen, CloseSubscript, BracketKind
<1>3. /\ Len(stack) >= 2 /\ phase = "reduce"
      /\ stack[Len(stack) - 1].kind = kind /\ stack[Len(stack)].kind = "operand"
  <2>1. /\ Len(<<kind, "operand">>) = 2 /\ DOMAIN <<kind, "operand">> = {1, 2}
        /\ <<kind, "operand">>[1] = kind /\ <<kind, "operand">>[2] = "operand"
    OBVIOUS
  <2> QED
    BY <1>1, <1>2, <2>1 DEF TopAre
<1>4. /\ Below \in Seq(Item)
      /\ Last(stack) \in Item /\ Last(stack) = stack[Len(stack)]
      /\ p \in Place /\ q \in Place
      /\ PendingIn(stack) = PendingIn(Below) \cup ({p, q} \cap Reg)
      /\ HeldOnce(Below)
      /\ {p, q} \cap PendingIn(Below) = {}
  BY <1>1, <1>3, BelowFacts
<1>5. p = Mem
  <2>1. Len(stack) - 1 \in DOMAIN stack
    BY <1>1, <1>3
  <2> QED
    BY <1>2, <1>3, <2>1 DEF IInv, BracketsInMemory, BracketKind
<1>6. stmt # "none"
  BY <1>1, <1>3 DEF IInv, Idle
<1>7. CASE CloseParen
  <2>1. /\ stack' = Append(Below, Last(stack)) /\ phase' = "operator" /\ stmt' = stmt
        /\ busy' = busy /\ abandoned' = abandoned /\ faults' = {}
    BY <1>7 DEF CloseParen
  <2>2. Last(stack) = Operand(q)
    <3>1. Last(stack) = [kind |-> Last(stack).kind, place |-> Last(stack).place]
      BY <1>4 DEF Item
    <3> QED
      BY <1>3, <1>4, <3>1 DEF Operand
  <2>3. stack[Len(stack) - 1].kind = "("
    <3>1. Len(<<"(", "operand">>) = 2 /\ 1 \in DOMAIN <<"(", "operand">> /\ <<"(", "operand">>[1] = "("
      OBVIOUS
    <3> QED
      BY <1>1, <1>7, <3>1 DEF CloseParen, TopAre
  <2>4. /\ Shape' /\ stack' \in Seq(Item) /\ Len(stack') <= MaxStack
        /\ PendingIn(stack') = PendingIn(Below) \cup ({q} \cap Reg)
        /\ HeldOnce(stack')
    BY <1>3, <1>4, <1>6, <2>1, <2>2, <2>3, CollapseShape
  <2>5. OneOwner'
    BY <1>1, <1>4, <1>5, <2>1, <2>4, RegFacts DEF OneOwner, Pending
  <2>6. TypeOK'
    BY <1>1, <2>1, <2>4 DEF IInv, TypeOK
  <2> QED
    BY <2>4, <2>5, <2>6 DEF IInv, Shape
<1>8. CASE CloseSubscript
  <2> PICK place \in {Mem, V0} : stack' = Append(Below, Operand(place))
    BY <1>8 DEF CloseSubscript
  <2>1. /\ phase' = "operator" /\ stmt' = stmt /\ busy' = busy /\ faults' = {}
        /\ abandoned' = abandoned \cup ({q} \cap Reg)
    BY <1>8 DEF CloseSubscript
  <2>2. place \in Place /\ place \notin Reg /\ place \notin PendingIn(Below)
    BY RegFacts DEF PendingIn
  <2>3. /\ Shape' /\ stack' \in Seq(Item) /\ Len(stack') <= MaxStack
        /\ PendingIn(stack') = PendingIn(Below) \cup ({place} \cap Reg)
        /\ HeldOnce(stack')
    BY <1>3, <1>6, <2>1, <2>2, CollapseShape
  <2>4. OneOwner'
    BY <1>1, <1>4, <1>5, <2>1, <2>2, <2>3, RegFacts DEF OneOwner, Pending
  <2>5. TypeOK'
    BY <1>1, <2>1, <2>3 DEF IInv, TypeOK
  <2> QED
    BY <2>3, <2>4, <2>5 DEF IInv, Shape
<1> QED
  BY <1>7, <1>8

\* A binary operation.  Its destination differs from every register in use,
\* and what is given back is held by its operands only.
LEMMA BinopStep ==
    ASSUME IInv, ReduceBinop
    PROVE  IInv'
<1> DEFINE p == stack[Len(stack) - 1].place
           q == Last(stack).place
           one == Load(busy, p)
           two == Load(one.busy, q)
           dest == Get(two.busy)
           used == PendingIn(Below)
<1>1. /\ stack \in Seq(Item) /\ Len(stack) \in Nat
      /\ busy \in SUBSET Reg /\ abandoned \in SUBSET Reg
      /\ busy = PendingIn(stack) \cup abandoned
      /\ PendingIn(stack) \cap abandoned = {} /\ HeldOnce(stack)
  BY DEF IInv, TypeOK, OneOwner, Pending
<1>2. PICK downwards \in Layouts : Binop(one, two, dest, Marked(one, two, dest, downwards))
  BY DEF ReduceBinop
<1>3. /\ Len(stack) >= 2 /\ phase = "reduce"
      /\ stack[Len(stack) - 1].kind = "operand"
  <2>1. /\ Len(<<"operand", "operand">>) = 2 /\ 1 \in DOMAIN <<"operand", "operand">>
        /\ <<"operand", "operand">>[1] = "operand"
    OBVIOUS
  <2> QED
    BY <1>1, <2>1 DEF ReduceBinop, TopAre
<1>4. /\ p \in Place /\ q \in Place
      /\ PendingIn(stack) = used \cup ({p, q} \cap Reg)
      /\ HeldOnce(Below)
      /\ {p, q} \cap used = {}
      /\ p \in Reg => p # q
  BY <1>1, <1>3, BelowFacts
<1>5. stmt # "none"
  BY <1>1, <1>3 DEF IInv, Idle
<1> HIDE DEF p, q
<1>6. /\ one.reg \in Reg \cup {NoReg, V0}
      /\ one.busy = busy \cup ({one.reg} \cap (Reg \ {p}))
      /\ one.busy \in SUBSET Reg
      /\ one.faults \subseteq {"exhausted"}
      /\ p # Mem => one.reg = p
      /\ p = Mem => one.reg \notin busy
  BY <1>1, <1>4, LoadFacts
<1> HIDE DEF one
<1>7. /\ two.reg \in Reg \cup {NoReg, V0}
      /\ two.busy = one.busy \cup ({two.reg} \cap (Reg \ {q}))
      /\ two.busy \in SUBSET Reg
      /\ two.faults \subseteq {"exhausted"}
      /\ q # Mem => two.reg = q
      /\ q = Mem => two.reg \notin one.busy
  BY <1>4, <1>6, LoadFacts
<1> HIDE DEF two
<1>8. /\ dest.reg \in (Reg \ two.busy) \cup {NoReg}
      /\ dest.busy = two.busy \cup ({dest.reg} \cap Reg)
      /\ dest.faults \subseteq {"exhausted"}
  BY <1>7, GetFacts
<1> HIDE DEF dest
<1> DEFINE marked == Marked(one, two, dest, downwards)
<1>9. marked \subseteq {one.reg, two.reg, p, q} /\ {p, q} \subseteq marked
  BY DEF Marked, p, q
<1>10. WildMark(marked) \subseteq {"wild"}
  BY DEF WildMark
<1> HIDE DEF marked
<1>11. /\ stack' = Append(Below, Operand(dest.reg))
       /\ busy' = dest.busy \ marked
       /\ abandoned' = abandoned \cup ({one.reg, two.reg} \cap (Reg \ marked))
       /\ faults' = one.faults \cup two.faults \cup dest.faults \cup WildMark(marked)
       /\ phase' = phase /\ stmt' = stmt
  BY <1>2 DEF Binop, mark_temp_reg_free, marked
<1> HIDE DEF used
\* The operands' registers are not in use elsewhere.
<1>12. /\ one.reg \notin used /\ one.reg \notin abandoned
       /\ two.reg \notin used /\ two.reg \notin abandoned
  <2>1. NoReg \notin used /\ V0 \notin used /\ NoReg \notin abandoned /\ V0 \notin abandoned
    BY <1>1, RegFacts DEF used, PendingIn
  <2>2. p \notin abandoned /\ q \notin abandoned
    BY <1>1, <1>4
  <2> QED
    BY <1>1, <1>4, <1>6, <1>7, <2>1, <2>2
<1>13. two.busy = used \cup abandoned \cup ({one.reg, two.reg} \cap Reg)
  <2>1. {p, q} \cap Reg \subseteq {one.reg, two.reg}
    BY <1>6, <1>7, RegFacts
  <2>2. one.busy = used \cup abandoned \cup ({p, q} \cap Reg) \cup ({one.reg} \cap Reg)
    BY <1>1, <1>4, <1>6
  <2> QED
    BY <1>7, <2>1, <2>2
<1>14. dest.reg \in Place /\ dest.reg \notin used
  BY <1>1, <1>8, <1>13, RegFacts DEF used, PendingIn
<1>15. /\ Shape' /\ stack' \in Seq(Item) /\ Len(stack') <= MaxStack
       /\ PendingIn(stack') = used \cup ({dest.reg} \cap Reg)
       /\ HeldOnce(stack')
  BY <1>3, <1>5, <1>11, <1>14, CollapseShape DEF used
<1>16. OneOwner'
  <2>1. used \subseteq Reg
    BY DEF used, PendingIn
  <2>2. dest.reg \in Reg => dest.reg \notin {one.reg, two.reg, p, q}
    <3>1. {p, q} \cap Reg \subseteq {one.reg, two.reg}
      BY <1>6, <1>7, RegFacts
    <3>2. dest.reg \in Reg => dest.reg \notin two.busy
      BY <1>8, RegFacts
    <3> QED
      BY <1>13, <3>1, <3>2
  <2>3. {p, q} \cap used = {} /\ {p, q} \cap abandoned = {}
    BY <1>1, <1>4
  <2>4. marked \cap (used \cup abandoned) = {}
    BY <1>9, <1>12, <2>3
  <2>5. busy' = used \cup abandoned \cup ({one.reg, two.reg} \cap (Reg \ marked))
                     \cup ({dest.reg} \cap Reg)
    BY <1>8, <1>9, <1>11, <1>13, <2>2, <2>4
  <2>6. Pending' = used \cup ({dest.reg} \cap Reg)
    BY <1>15 DEF Pending
  <2>7. Pending' \cap abandoned' = {}
    <3>1. used \cap abandoned = {} /\ used \cap {one.reg, two.reg} = {}
      BY <1>1, <1>4, <1>12
    <3>2. dest.reg \in Reg => dest.reg \notin abandoned
      BY <1>8, <1>13, RegFacts
    <3>3. dest.reg \in Reg => dest.reg \notin {one.reg, two.reg}
      BY <2>2
    <3> QED
      BY <1>11, <2>6, <3>1, <3>2, <3>3
  <2> QED
    BY <1>11, <1>15, <2>5, <2>6, <2>7 DEF OneOwner
<1>17. TypeOK'
  <2>1. busy' \subseteq Reg /\ abandoned' \subseteq Reg
    BY <1>1, <1>7, <1>8, <1>11
  <2>2. faults' \subseteq {"exhausted", "wild"}
    BY <1>6, <1>7, <1>8, <1>10, <1>11
  <2> QED
    BY <1>11, <1>15, <2>1, <2>2 DEF IInv, TypeOK
<1> QED
  BY <1>15, <1>16, <1>17 DEF IInv, Shape

-----------------------------------------------------------------------------
LEMMA InitIInv == Init => IInv
<1> SUFFICES ASSUME Init PROVE IInv
  OBVIOUS
<1>1. /\ stack = << >> /\ Len(stack) = 0 /\ stack \in Seq(Item) /\ DOMAIN stack = {}
      /\ busy = {} /\ abandoned = {} /\ faults = {}
      /\ phase = "operand" /\ stmt = "none"
  BY DEF Init
<1>2. MaxStack \in Nat
  BY RegAssumption
<1>3. TypeOK
  BY <1>1, <1>2 DEF TypeOK
<1>4. OneOwner
  BY <1>1, EmptyFacts DEF OneOwner, Pending
<1> QED
  BY <1>1, <1>3, <1>4 DEF IInv, Idle, BracketsInMemory, Bottom, Filled, Room

LEMMA NextIInv == IInv /\ [Next]_vars => IInv'
<1> SUFFICES ASSUME IInv, [Next]_vars PROVE IInv'
  OBVIOUS
<1>1. CASE UNCHANGED vars
  BY <1>1 DEF vars, IInv, TypeOK, OneOwner, Pending, Idle, BracketsInMemory, Bottom, Filled, Room
<1>2. CASE \E s \in {"assign", "return", "condition"} : Begin(s)
  BY <1>2, QuietSteps
<1>3. CASE \/ \E s \in {"lhs", "write"} : BeginElement(s, "[")
           \/ BeginElement("call", "argument")
           \/ NextSubscript
           \/ AssignSign
  BY <1>3, ElementSteps
<1>4. CASE \/ \E place \in {Mem, V0} : PushPlace(place)
           \/ PushConstant
           \/ SubscriptConstant
           \/ \E kind \in BracketKind : OpenBracket(kind)
  BY <1>4, PushSteps
<1>5. CASE Operator \/ Terminate
  BY <1>5, QuietSteps
<1>6. CASE ReduceBinop
  BY <1>6, BinopStep
<1>7. CASE CloseParen \/ CloseSubscript
  BY <1>7, CloseSteps
<1>8. CASE EndValue \/ EndCondition \/ Read \/ Write \/ EndCall
  BY <1>8, EndSteps
<1> QED
  BY <1>1, <1>2, <1>3, <1>4, <1>5, <1>6, <1>7, <1>8 DEF Next

LEMMA Invariance == Spec => []IInv
BY InitIInv, NextIInv, PTL DEF Spec

(* Type correctness: registers outside of the list are never marked, and no *)
(* statement exceeds the bound of the stack.                                *)
THEOREM TypeCorrect == Spec => []TypeOK
<1>1. IInv => TypeOK
  BY DEF IInv
<1> QED
  BY <1>1, Invariance, PTL

(* No register that holds the value of a pending operand is given to        *)
(* another one, and an occupied register without an operand has been left   *)
(* behind by a condition, a subscript or an overwritten string, whatever    *)
(* the number of registers, the length of expressions and the layout.       *)
THEOREM RegistersHaveOneOwner == Spec => []OneOwner
<1>1. IInv => OneOwner
  BY DEF IInv
<1> QED
  BY <1>1, Invariance, PTL

-----------------------------------------------------------------------------
(* When no register is left.                                                *)

\* The list has at least NREG - 2 registers when two more would fill it.
LEMMA NearlyFull ==
    ASSUME NEW b \in SUBSET Reg, NEW x, NEW y, Reg \subseteq b \cup {x, y}
    PROVE  Cardinality(b) >= NREG - 2
<1>1. IsFiniteSet(Reg) /\ Cardinality(Reg) = NREG
  BY FS_Interval, RegAssumption DEF Reg
<1>2. IsFiniteSet(b) /\ Cardinality(b) \in Nat
  BY <1>1, FS_Subset, FS_CardinalityType
<1>3. ASSUME NEW c, IsFiniteSet(c), NEW z
      PROVE  /\ IsFiniteSet(c \cup {z})
             /\ Cardinality(c) \in Nat /\ Cardinality(c \cup {z}) \in Nat
             /\ Cardinality(c \cup {z}) <= Cardinality(c) + 1
  <2>1. IsFiniteSet(c \cup {z}) /\ Cardinality(c) \in Nat
    BY <1>3, FS_AddElement, FS_CardinalityType
  <2>2. Cardinality(c \cup {z}) = IF z \in c THEN Cardinality(c) ELSE Cardinality(c) + 1
    BY <1>3, FS_AddElement
  <2> QED
    BY <2>1, <2>2
<1> DEFINE c == b \cup {x}
           d == c \cup {y}
<1>4. /\ IsFiniteSet(c) /\ Cardinality(c) \in Nat
      /\ Cardinality(c) <= Cardinality(b) + 1
  BY <1>2, <1>3
<1>5. Reg \subseteq d
  OBVIOUS
<1> HIDE DEF c
<1>6. /\ IsFiniteSet(d) /\ Cardinality(d) \in Nat
      /\ Cardinality(d) <= Cardinality(c) + 1
  BY <1>3, <1>4
<1> HIDE DEF d
<1>7. NREG <= Cardinality(d)
  BY <1>1, <1>5, <1>6, FS_Subset
<1> QED
  BY <1>2, <1>4, <1>6, <1>7, RegAssumption

\* A failed allocation finds every register occupied.
LEMMA GetFails ==
    ASSUME NEW b \in SUBSET Reg, "exhausted" \in Get(b).faults
    PROVE  Reg \subseteq b
<1>1. get_free_temp_reg(b) = NoReg
  BY DEF Get
<1> SUFFICES ASSUME Reg \ b # {} PROVE FALSE
  OBVIOUS
<1>2. Min(Reg \ b) \in Reg \ b
  BY RegFacts, LeastNatural
<1> QED
  BY <1>1, <1>2, RegFacts DEF get_free_temp_reg

LEMMA LoadFails ==
    ASSUME NEW b \in SUBSET Reg, NEW place, "exhausted" \in Load(b, place).faults
    PROVE  Reg \subseteq b
<1>1. CASE is_temp_reg(place)
  <2>1. Load(b, place).faults = {}
    BY <1>1 DEF Load
  <2> QED
    BY <2>1
<1>2. CASE ~ is_temp_reg(place)
  <2>1. Load(b, place) = Get(b)
    BY <1>2 DEF Load
  <2> QED
    BY <2>1, GetFails
<1> QED
  BY <1>1, <1>2

LEMMA ExhaustedStep ==
    ASSUME IInv, Next, "exhausted" \in faults'
    PROVE  Cardinality(busy) >= NREG - 2
<1>1. busy \in SUBSET Reg
  BY DEF IInv, TypeOK
<1>2. ASSUME Reg \subseteq busy PROVE Cardinality(busy) >= NREG - 2
  BY <1>1, <1>2, NearlyFull
<1>3. CASE PushConstant
  BY <1>1, <1>2, <1>3, GetFails DEF PushConstant
<1>4. ASSUME NEW place, Consume(place) PROVE Cardinality(busy) >= NREG - 2
  <2>1. "exhausted" \in Load(busy, place).faults
    BY <1>4 DEF Consume, WildMark
  <2> QED
    BY <1>1, <1>2, <2>1, LoadFails
<1>5. CASE ReduceBinop
  <2> DEFINE p == stack[Len(stack) - 1].place
             q == Last(stack).place
             one == Load(busy, p)
             two == Load(one.busy, q)
             dest == Get(two.busy)
  <2>1. one.busy \in SUBSET Reg /\ one.busy \subseteq busy \cup {one.reg}
    BY <1>1 DEF Load, Get
  <2>2. two.busy \in SUBSET Reg /\ two.busy \subseteq one.busy \cup {two.reg}
    BY <2>1 DEF Load, Get
  <2>3. \/ "exhausted" \in one.faults
        \/ "exhausted" \in two.faults
        \/ "exhausted" \in dest.faults
    <3>1. PICK marked : Binop(one, two, dest, marked)
      BY <1>5 DEF ReduceBinop
    <3>2. WildMark(marked) \subseteq {"wild"}
      BY DEF WildMark
    <3> HIDE DEF one, two, dest
    <3>3. faults' = one.faults \cup two.faults \cup dest.faults \cup WildMark(marked)
      BY <3>1 DEF Binop
    <3> QED
      BY <3>2, <3>3
  <2>4. CASE "exhausted" \in one.faults
    BY <1>1, <1>2, <2>4, LoadFails
  <2>5. CASE "exhausted" \in two.faults
    <3>1. Reg \subseteq one.busy
      BY <2>1, <2>5, LoadFails
    <3> HIDE DEF one
    <3> QED
      BY <1>1, <2>1, <3>1, NearlyFull
  <2>6. CASE "exhausted" \in dest.faults
    <3>1. Reg \subseteq two.busy
      BY <2>2, <2>6, GetFails
    <3> HIDE DEF one, two
    <3>2. Reg \subseteq busy \cup {one.reg, two.reg}
      BY <2>1, <2>2, <3>1
    <3> QED
      BY <1>1, <3>2, NearlyFull
  <2> QED
    BY <2>3, <2>4, <2>5, <2>6
<1>6. CASE EndValue \/ Read \/ Write
  BY <1>4, <1>6 DEF EndValue, Read, Write
<1> QED
  BY <1>3, <1>5, <1>6
  DEF Next, Begin, BeginElement, PushPlace, SubscriptConstant, OpenBracket, Operator,
      NextSubscript, AssignSign, Terminate, CloseParen, CloseSubscript, EndCondition, EndCall

(* get_free_temp_reg returns -1 only when all registers but two, at most,   *)
(* are held by pending operands or have been left behind.                   *)
THEOREM FailsNearTheLimit == Spec => ExhaustedNearLimit
<1>1. IInv /\ [Next]_vars => [ "exhausted" \in faults' => Cardinality(Pending \cup abandoned) >= NREG - 2 ]_vars
  <2> SUFFICES ASSUME IInv, Next, "exhausted" \in faults'
               PROVE  Cardinality(Pending \cup abandoned) >= NREG - 2
    OBVIOUS
  <2>1. busy = Pending \cup abandoned
    BY DEF IInv, OneOwner
  <2> QED
    BY <2>1, ExhaustedStep
<1> QED
  BY <1>1, Invariance, PTL DEF Spec, ExhaustedNearLimit
=============================================================================
