------------------------------ MODULE ExprGen ------------------------------
(***************************************************************************)
(* Temporary registers during code generation: the register list of        *)
(* Assig4/codegen.c and the expression and statement rules of              *)
(* Assig4/parser.y that take registers from it and give them back.         *)
(*                                                                         *)
(* stack is the part of the parser's stack that belongs to the current     *)
(* statement.  The grammar gives binop no precedence and its conflicts are *)
(* resolved by shifting, so operands pile up until a token ends the        *)
(* expression; then the pairs are reduced from the right.  A unary         *)
(* operator emits nothing and is left out.                                 *)
(***************************************************************************)
EXTENDS Integers, Sequences, FiniteSets, SequencesExt

CONSTANTS
    NREG,       \* number of temporary registers, 8 in codegen.c
    Layouts,    \* {TRUE} when the compiler lays local arrays out downwards in
                \* memory, {FALSE} when upwards, both to check all builds at once
    MaxStack    \* bound on the operands and open brackets of a statement

ASSUME RegAssumption ==
    /\ NREG \in Nat \ {0}
    /\ Layouts \subseteq BOOLEAN
    /\ MaxStack \in Nat \ {0, 1}

\* Register i is the code's "$8" + i.
Reg == 0 .. NREG - 1

\* The other places: "$-1" from a failed allocation, "$v0" of a call, and the
\* label or frame slot of a variable.
NoReg == -1
V0 == NREG
Mem == NREG + 1

Place == Reg \cup {NoReg, V0, Mem}

VARIABLES
    busy,       \* registers that temp_reg marks as occupied
    stack,      \* operands and open brackets, innermost last
    phase,      \* what the parser does next
    stmt,       \* the statement being parsed, "none" between statements
    abandoned,  \* occupied registers that no symbol refers to any more
    faults      \* what went wrong in the last step

vars == <<busy, stack, phase, stmt, abandoned, faults>>

Operand(place) == [kind |-> "operand", place |-> place]
Bracket(kind) == [kind |-> kind, place |-> Mem]

\* "(" of an expression, "[" of a subscript, and "[" of a subscript in an
\* argument of a call, which is the only expression an argument can hold.
BracketKind == {"(", "[", "argument"}

-----------------------------------------------------------------------------
(* codegen.c.  A register list is the set of its occupied registers.        *)

\* Every place that starts with '$'.
is_temp_reg(place) == place # Mem

\* Mutant: the scan that does not look at the last register.
GetButLast(b) ==
    LET free == (0 .. NREG - 2) \ b
    IN  IF free = {} THEN NoReg ELSE Min(free)

get_free_temp_reg(b) ==
    LET free == Reg \ b
    IN  IF free = {} THEN NoReg ELSE Min(free)

\* "$-1" and "$v0" pass is_temp_reg: the index computed from their characters
\* is -37 and 692, so the list itself stays as it is.
mark_temp_reg_free(b, places) == b \ places

WildMark(places) == IF places \cap {NoReg, V0} # {} THEN {"wild"} ELSE {}

-----------------------------------------------------------------------------
(* Mutant: the register is marked whether there is one or not.              *)
GetMarkingAlways(b) ==
    LET r == get_free_temp_reg(b)
    IN  [reg |-> r, busy |-> b \cup {r}, faults |-> {}]

(* A register in reg, the list afterwards, and the faults on the way.       *)
Get(b) ==
    LET r == get_free_temp_reg(b)
    IN  [reg |-> r, busy |-> b \cup ({r} \cap Reg),
         faults |-> IF r = NoReg THEN {"exhausted"} ELSE {}]

\* An operand goes into a register unless it has one.
Load(b, place) ==
    IF is_temp_reg(place) THEN [reg |-> place, busy |-> b, faults |-> {}] ELSE Get(b)

\* The register name does not fit into reg_str[3] with its terminator.
Overflows(reg) == reg \notin {0, 1}

Init ==
    /\ busy = {}
    /\ stack = << >>
    /\ phase = "operand"
    /\ stmt = "none"
    /\ abandoned = {}
    /\ faults = {}

-----------------------------------------------------------------------------
(* Shifting.  The statements that start with an expression are the right    *)
(* hand side of an assignment to a plain variable, a return, and the        *)
(* condition of if, while or for.                                           *)
Begin(s) ==
    /\ stmt = "none"
    /\ stmt' = s
    /\ phase' = "operand"
    /\ faults' = {}
    /\ UNCHANGED <<busy, stack, abandoned>>

\* Those that start with a subscript: an assignment to an array element, a
\* write of one, and a call statement with one as an argument.
BeginElement(s, kind) ==
    /\ stmt = "none"
    /\ stmt' = s
    /\ stack' = <<Bracket(kind)>>
    /\ phase' = "operand"
    /\ faults' = {}
    /\ UNCHANGED <<busy, abandoned>>

Parsing(p) == stmt # "none" /\ phase = p

\* Bounds the stack: n more items fit.
HasRoom(n) == Len(stack) + n <= MaxStack

PushOperand(place) ==
    /\ stack' = Append(stack, Operand(place))
    /\ UNCHANGED <<stmt, abandoned>>

\* A variable, which stays in memory, a float constant, which has no code, or a
\* call, which leaves its result in $v0.  All calls of an expression have this
\* one place, and so has a variable that a call has written it to.
PushPlace(place) ==
    /\ Parsing("operand")
    /\ PushOperand(place)
    /\ phase' = "operator"
    /\ faults' = {}
    /\ UNCHANGED busy

InSubscript == stack # << >> /\ Last(stack).kind \in {"[", "argument"}

\* An integer constant takes a register, except that one alone in a subscript
\* is reduced without (SubscriptConstant): there an operator must follow.
PushConstant ==
    /\ Parsing("operand") /\ (InSubscript => HasRoom(2))
    /\ LET got == Get(busy)
       IN  /\ PushOperand(got.reg)
           /\ busy' = got.busy
           /\ faults' = got.faults
    /\ phase' = IF InSubscript THEN "infix" ELSE "operator"

SubscriptConstant ==
    /\ Parsing("operand") /\ InSubscript
    /\ PushOperand(Mem)
    /\ phase' = "reduce"
    /\ faults' = {}
    /\ UNCHANGED busy

OpenBracket(kind) ==
    /\ Parsing("operand") /\ HasRoom(2)
    /\ stack' = Append(stack, Bracket(kind))
    /\ faults' = {}
    /\ UNCHANGED <<busy, phase, stmt, abandoned>>

\* A whole array element, or the call of a call statement.
Target == stmt \in {"lhs", "write", "call"} /\ Len(stack) = 1 /\ phase = "operator"

Operator ==
    /\ stmt # "none" /\ phase \in {"operator", "infix"} /\ ~ Target
    /\ HasRoom(1)
    /\ phase' = "operand"
    /\ faults' = {}
    /\ UNCHANGED <<busy, stack, stmt, abandoned>>

\* Another subscript of the element, or another argument of the call, whose
\* result becomes an operand only after its last argument.
NextSubscript ==
    /\ Parsing("operator") /\ HasRoom(1)
    /\ \E kind \in {"[", "argument"} :
          /\ Last(stack).place = IF kind = "[" THEN Mem ELSE V0
          /\ stack' = Append(Front(stack), Bracket(kind))
    /\ phase' = "operand"
    /\ faults' = {}
    /\ UNCHANGED <<busy, stmt, abandoned>>

AssignSign ==
    /\ Target /\ stmt = "lhs"
    /\ stmt' = "assign"
    /\ stack' = << >>
    /\ phase' = "operand"
    /\ faults' = {}
    /\ UNCHANGED <<busy, abandoned>>

\* A token that ends the expression.
Terminate ==
    /\ Parsing("operator") /\ ~ Target
    /\ phase' = "reduce"
    /\ faults' = {}
    /\ UNCHANGED <<busy, stack, stmt, abandoned>>

-----------------------------------------------------------------------------
(* Reducing.                                                                *)
TopAre(kinds) ==
    /\ phase = "reduce"
    /\ Len(stack) >= Len(kinds)
    /\ \A i \in DOMAIN kinds : stack[Len(stack) - Len(kinds) + i].kind = kinds[i]

\* The stack without its two topmost items.
Below == SubSeq(stack, 1, Len(stack) - 2)

(***************************************************************************)
(* expr binop expr: both operands are loaded, the destination is allocated *)
(* while they occupy their registers, and then they are given back, by the *)
(* text in reg1_str and reg2_str and again by the operands' own places.    *)
(*                                                                         *)
(* The three register strings are 3 bytes long, so the terminator of a     *)
(* longer name is written behind its string.  Laid out downwards (gcc -O0  *)
(* does so), a long name of the second register empties reg1_str, one of   *)
(* the destination empties reg2_str, and an empty string gives no register *)
(* back.  Laid out upwards (gcc with a stack protector) the names only     *)
(* grow at their ends and denote the same registers.  Bytes outside of the *)
(* three strings are not modelled.                                         *)
(***************************************************************************)
Binop(one, two, dest, marked) ==
    /\ stack' = Append(Below, Operand(dest.reg))
    /\ busy' = mark_temp_reg_free(dest.busy, marked)
    /\ abandoned' = abandoned \cup ({one.reg, two.reg} \cap (Reg \ marked))
    /\ faults' = one.faults \cup two.faults \cup dest.faults \cup WildMark(marked)
    /\ UNCHANGED <<phase, stmt>>

\* The registers given back: those of the strings that still hold a name, and
\* the operands' places.
Marked(one, two, dest, downwards) ==
    (IF downwards /\ Overflows(two.reg) THEN {} ELSE {one.reg})
        \cup (IF downwards /\ Overflows(dest.reg) THEN {} ELSE {two.reg})
        \cup {stack[Len(stack) - 1].place, Last(stack).place}

\* Mutant: the operands are given back before the destination is allocated.
ReduceGivingBackEarly ==
    /\ TopAre(<<"operand", "operand">>)
    /\ LET one  == Load(busy, stack[Len(stack) - 1].place)
           two  == Load(one.busy, Last(stack).place)
           dest == Get(two.busy \ {one.reg, two.reg})
       IN  Binop(one, two, dest, {one.reg, two.reg})

ReduceBinop ==
    /\ TopAre(<<"operand", "operand">>)
    /\ LET one  == Load(busy, stack[Len(stack) - 1].place)
           two  == Load(one.busy, Last(stack).place)
           dest == Get(two.busy)
       IN  \E downwards \in Layouts :
              Binop(one, two, dest, Marked(one, two, dest, downwards))

CloseParen ==
    /\ TopAre(<<"(", "operand">>)
    /\ stack' = Append(Below, Last(stack))
    /\ phase' = "operator"
    /\ faults' = {}
    /\ UNCHANGED <<busy, stmt, abandoned>>

\* An array element is a variable in memory, a call's result is in $v0; the
\* register of the subscript is not given back.  Arrays with the name of a
\* callee, which would be in $v0 too, are left out.
CloseSubscript ==
    /\ \E kind \in {"[", "argument"} :
          /\ TopAre(<<kind, "operand">>)
          /\ stack' = Append(Below, Operand(IF kind = "[" THEN Mem ELSE V0))
    /\ phase' = "operator"
    /\ abandoned' = abandoned \cup ({Last(stack).place} \cap Reg)
    /\ faults' = {}
    /\ UNCHANGED <<busy, stmt>>

WholeExpression == TopAre(<<"operand">>) /\ Len(stack) = 1

EndStatement ==
    /\ stack' = << >>
    /\ phase' = "operand"
    /\ stmt' = "none"

\* A value in place is loaded, used and given back.
Consume(place) ==
    LET got    == Load(busy, place)
        marked == {got.reg, place}
    IN  /\ busy' = mark_temp_reg_free(got.busy, marked)
        /\ faults' = got.faults \cup WildMark(marked)

\* The value of an assignment or a return.
EndValue ==
    /\ WholeExpression /\ stmt \in {"assign", "return"}
    /\ Consume(stack[1].place)
    /\ EndStatement
    /\ UNCHANGED abandoned

\* A condition is tested in its place, and no register is given back.
EndCondition ==
    /\ WholeExpression /\ stmt = "condition"
    /\ abandoned' = abandoned \cup ({stack[1].place} \cap Reg)
    /\ EndStatement
    /\ faults' = {}
    /\ UNCHANGED busy

\* lhs = read(): the value comes from $v0 without an expression.
Read ==
    /\ Parsing("operand") /\ stmt = "assign" /\ stack = << >>
    /\ Consume(V0)
    /\ EndStatement
    /\ UNCHANGED abandoned

\* write(lhs).  The place of the variable is $v0 when a call has found the name
\* of its callee taken by a local variable and written its result's place there.
Write ==
    /\ stmt = "none" \/ (Target /\ stmt = "write")
    /\ \E place \in {Mem, V0} : Consume(place)
    /\ EndStatement
    /\ UNCHANGED abandoned

\* The end of a call statement.
EndCall ==
    /\ Target /\ stmt = "call"
    /\ EndStatement
    /\ faults' = {}
    /\ UNCHANGED <<busy, abandoned>>

Next ==
    \/ \E s \in {"assign", "return", "condition"} : Begin(s)
    \/ \E s \in {"lhs", "write"} : BeginElement(s, "[")
    \/ BeginElement("call", "argument")
    \/ \E place \in {Mem, V0} : PushPlace(place)
    \/ PushConstant
    \/ SubscriptConstant
    \/ \E kind \in BracketKind : OpenBracket(kind)
    \/ Operator
    \/ NextSubscript
    \/ AssignSign
    \/ Terminate
    \/ ReduceBinop
    \/ CloseParen
    \/ CloseSubscript
    \/ EndValue
    \/ EndCondition
    \/ Read
    \/ Write
    \/ EndCall

Spec == Init /\ [][Next]_vars

-----------------------------------------------------------------------------
(* Type invariant.                                                          *)
Item == [kind : BracketKind \cup {"operand"}, place : Place]

TypeOK ==
    /\ busy \subseteq Reg
    /\ stack \in Seq(Item) /\ Len(stack) <= MaxStack
    /\ phase \in {"operand", "operator", "infix", "reduce"}
    /\ stmt \in {"none", "assign", "return", "condition", "lhs", "write", "call"}
    /\ abandoned \subseteq Reg
    /\ faults \subseteq {"exhausted", "wild"}

(* The allocatable registers that the operands of a stack wait in.          *)
PendingIn(s) == {s[i].place : i \in DOMAIN s} \cap Reg

Pending == PendingIn(stack)

HeldOnce(s) ==
    \A i, j \in DOMAIN s : s[i].place \in Reg /\ s[i].place = s[j].place => i = j

(* Every occupied register has exactly one owner: it holds one operand that *)
(* is still to be used, or nobody will give it back.  So no register that   *)
(* holds the value of a pending operand is handed out again, and the only   *)
(* registers lost are those that conditions, subscripts and overwritten     *)
(* register strings leave behind.                                           *)
OneOwner ==
    /\ busy = Pending \cup abandoned
    /\ Pending \cap abandoned = {}
    /\ HeldOnce(stack)

(* get_free_temp_reg fails only close to the limit: a step can take two     *)
(* registers and the destination of an operation, so when it fails all but  *)
(* two are pending or abandoned.                                            *)
ExhaustedNearLimit ==
    [][ "exhausted" \in faults' => Cardinality(Pending \cup abandoned) >= NREG - 2 ]_vars

(* codegen.h:58: get_free_temp_reg returns -1 "if all registers are         *)
(* currently being used", here by pending operands and by the three         *)
(* registers of one operation.                                              *)
ExhaustedOnlyWhenUsed ==
    [][ "exhausted" \in faults' => Cardinality(Pending) >= NREG - 2 ]_vars

(* codegen.h:62: mark_temp_reg_free does nothing when its argument is not a *)
(* temporary register; it never writes outside of the register list.        *)
NeverWild == "wild" \notin faults
=============================================================================
