---------------------------- MODULE ControlFlow ----------------------------
(***************************************************************************)
(* Code generation for statements: the productions of Assig4/parser.y for  *)
(* functions, blocks, if, while, for, write and return with the label      *)
(* stack and the string labels of Assig4/codegen.c, and the run of the     *)
(* code that they emit.                                                    *)
(*                                                                         *)
(* The parser reads a whole program, production by production, and emits   *)
(* code; then a function of it is run.  The code of an expression is one   *)
(* instruction: the registers in it are the subject of ExprGen.            *)
(***************************************************************************)
EXTENDS Integers, Sequences, FiniteSets, SequencesExt

CONSTANTS
    STACK_SIZ,   \* size of the label stack, 1000 in codegen.h
    SLABELS,     \* size of slabel_arr, 100 in codegen.c
    MaxStmt,     \* bound on the statements of a program
    MaxFunction, \* bound on its functions
    MaxGlobal    \* bound on its global variables

ASSUME SizeAssumption ==
    /\ STACK_SIZ \in Nat \ {0}
    /\ SLABELS \in Nat \ {0}
    /\ {MaxStmt, MaxFunction, MaxGlobal} \subseteq Nat

VARIABLES
    code,         \* the output file
    label_no,     \* number of the last label
    label_stack,  \* labels of the open statements
    slabel_arr,   \* labels to be defined at the end of the function
    sconst_gen,   \* sconst_label_gen, number of the next string label
    globals,      \* number of global variables
    open,         \* functions and statements that are not complete, innermost last
    expect,       \* what the parser does next, "run" when the code is run
    prog,         \* the statements read so far
    fun,          \* the function that runs, 0 while parsing
    last,         \* what was executed last
    at,           \* next instruction
    test          \* outcome of the last condition, in a register

genVars == <<code, label_no, label_stack, slabel_arr, sconst_gen, globals, open, prog>>
runVars == <<fun, last, at, test>>
vars == <<genVars, expect, runVars>>

Structured == INSTANCE StructuredProgram WITH Limit <- STACK_SIZ

-----------------------------------------------------------------------------
(* codegen.c: the label stack.  s_push accepts one element too many, and    *)
(* the word behind the array is the field index.  The behaviour is          *)
(* undefined: what is left in index is the label or the incremented index,  *)
(* and a read from behind the structure returns anything.                   *)

s_init == [stack |-> [i \in 0 .. STACK_SIZ - 1 |-> 0], index |-> -1]

s_push(s, n) ==
    CASE s.index >= STACK_SIZ     -> {s}
      [] s.index = STACK_SIZ - 1  -> {[s EXCEPT !.index = k] : k \in {n, STACK_SIZ}}
      [] OTHER -> {[stack |-> [s.stack EXCEPT ![s.index + 1] = n], index |-> s.index + 1]}

s_get(s) ==
    CASE s.index < 0              -> {-1}
      [] s.index \in DOMAIN s.stack -> {s.stack[s.index]}
      [] s.index = STACK_SIZ      -> {STACK_SIZ}
      [] OTHER                    -> 0 .. label_no

\* Mutant: the last element is never popped.
PopToLast(s) == IF s.index <= 0 THEN s ELSE [s EXCEPT !.index = @ - 1]

s_pop(s) == IF s.index < 0 THEN s ELSE [s EXCEPT !.index = @ - 1]

-----------------------------------------------------------------------------
(* The output.                                                              *)

NoLabel == <<"none", 0>>

Instr(op, label, n) == [op |-> op, label |-> label, stmt |-> n]
Label(label) == Instr("label", label, 0)
Jump(label) == Instr("j", label, 0)
BranchIfZero(label) == Instr("beqz", label, 0)
Address(label) == Instr("la", label, 0)
Data(label) == Instr("data", label, 0)
Do(n) == Instr("do", NoLabel, n)
Test(n) == Instr("test", NoLabel, n)

Emit(instrs) == code' = code \o instrs

\* gen_string_labels: the labels in the array are defined, behind the code.
Definitions == [i \in DOMAIN slabel_arr |-> Data(slabel_arr[i])]

\* Mutant: the counter is not set back, so the labels are emitted again.
EpilogKeepingLabels(f) ==
    /\ Emit(<<Label(<<"end", f>>)>> \o Definitions)
    /\ UNCHANGED slabel_arr

gen_func_epilog(f) ==
    /\ Emit(<<Label(<<"end", f>>)>> \o Definitions)
    /\ slabel_arr' = << >>

\* Mutant: the label is numbered by its place in the array.
PushNumberedByPlace(label, next) ==
    IF Len(slabel_arr) < SLABELS
    THEN /\ slabel_arr' = Append(slabel_arr, label)
         /\ sconst_gen' = Len(slabel_arr) + 1
         /\ expect' = next
    ELSE /\ expect' = "smashed"
         /\ UNCHANGED <<slabel_arr, sconst_gen>>

\* Mutant: the array is taken to have one entry more.
PushOneMore(label, next) ==
    IF Len(slabel_arr) <= SLABELS
    THEN /\ slabel_arr' = Append(slabel_arr, label)
         /\ sconst_gen' = sconst_gen + 1
         /\ expect' = next
    ELSE /\ expect' = "smashed"
         /\ UNCHANGED <<slabel_arr, sconst_gen>>

\* Behind the last entry other variables are overwritten; what the parser does
\* then is not modelled.
push_string_label(label, next) ==
    IF Len(slabel_arr) < SLABELS
    THEN /\ slabel_arr' = Append(slabel_arr, label)
         /\ sconst_gen' = sconst_gen + 1
         /\ expect' = next
    ELSE /\ expect' = "smashed"
         /\ UNCHANGED <<slabel_arr, sconst_gen>>

-----------------------------------------------------------------------------
Init ==
    /\ code = << >>
    /\ label_no = 0
    /\ label_stack = s_init
    /\ slabel_arr = << >>
    /\ sconst_gen = 0
    /\ globals = 0
    /\ open = << >>
    /\ expect = "top"
    /\ prog = << >>
    /\ fun = 0
    /\ last = Structured!Nothing
    /\ at = 1
    /\ test = TRUE

-----------------------------------------------------------------------------
(* Parsing.  expect is                                                      *)
(*   "top"      between functions                                           *)
(*   "decls"    between declarations of globals and the next function       *)
(*   "stmt"     before a statement, or at the end of a list of them         *)
(*   "cond"     before the condition of a while                             *)
(*   "reduced"  a statement is complete, the next token is not read yet     *)
(*   "no else"  a statement is complete, the next token is not ELSE         *)

Context == Last(open)
Kind(n) == prog[n].kind
HoldsList(ctx) == Kind(ctx.stmt) \in {"function", "block"}
In(n, slot) == [stmt |-> n, slot |-> slot]

\* The state after a complete statement, with the contexts around it in o.
AfterStmt(o, lookahead) == IF HoldsList(Last(o)) THEN "stmt" ELSE lookahead

Statements == Cardinality({n \in DOMAIN prog : Kind(n) # "function"})
Functions == Cardinality({n \in DOMAIN prog : Kind(n) = "function"})

New == Len(prog) + 1

BeginStmt(kind) ==
    /\ expect = "stmt"
    /\ Statements < MaxStmt
    /\ prog' = Append(prog, Structured!Stmt(kind, Context.stmt, Context.slot))

GlobalDecl ==
    /\ expect \in {"top", "decls"}
    /\ globals < MaxGlobal
    /\ globals' = globals + 1
    /\ push_string_label(<<"global", globals + 1>>, "decls")
    /\ UNCHANGED <<code, label_no, label_stack, open, prog, runVars>>

FuncBegin ==
    /\ expect \in {"top", "decls"}
    /\ Functions < MaxFunction
    /\ prog' = Append(prog, Structured!Stmt("function", 0, "body"))
    /\ open' = <<In(New, "body")>>
    /\ Emit(<<Label(<<"begin", New>>)>>)
    /\ expect' = "stmt"
    /\ UNCHANGED <<label_no, label_stack, slabel_arr, sconst_gen, globals, runVars>>

\* An expression ends before the closing brace of a list, so that the end of a
\* list is in "stmt" too.
FuncEnd ==
    /\ expect = "stmt"
    /\ Len(open) = 1
    /\ gen_func_epilog(Context.stmt)
    /\ open' = << >>
    /\ expect' = "top"
    /\ UNCHANGED <<label_no, label_stack, sconst_gen, globals, prog, runVars>>

\* Assignments, calls and returns; a return leaves its value in $v0 and the
\* code goes on.
Simple(kind) ==
    /\ BeginStmt(kind)
    /\ Emit(<<Do(New)>>)
    /\ expect' = AfterStmt(open, "reduced")
    /\ UNCHANGED <<label_no, label_stack, slabel_arr, sconst_gen, globals, open, runVars>>

\* A statement with a global variable in it.
UseGlobal ==
    /\ BeginStmt("global")
    /\ \E g \in 1 .. globals : Emit(<<Address(<<"global", g>>), Do(New)>>)
    /\ expect' = AfterStmt(open, "reduced")
    /\ UNCHANGED <<label_no, label_stack, slabel_arr, sconst_gen, globals, open, runVars>>

\* The place that insert_symbol gives to a name.  Parameters and variables of
\* structure type keep it, all others get another one; no instruction defines it.
NamedPlace == <<"place", 0>>

\* A statement with a parameter or a structure variable in it.
UseNamedPlace ==
    /\ BeginStmt("named")
    /\ Emit(<<Address(NamedPlace), Do(New)>>)
    /\ expect' = AfterStmt(open, "reduced")
    /\ UNCHANGED <<label_no, label_stack, slabel_arr, sconst_gen, globals, open, runVars>>

\* write of a string constant.
WriteString ==
    LET label == <<"slabel", sconst_gen>>
    IN  /\ BeginStmt("string")
        /\ push_string_label(label, AfterStmt(open, "reduced"))
        /\ Emit(<<Address(label), Do(New)>>)
        /\ UNCHANGED <<label_no, label_stack, globals, open, runVars>>

BlockBegin ==
    /\ BeginStmt("block")
    /\ Emit(<<Do(New)>>)
    /\ open' = Append(open, In(New, "body"))
    /\ expect' = "stmt"
    /\ UNCHANGED <<label_no, label_stack, slabel_arr, sconst_gen, globals, runVars>>

BlockEnd ==
    /\ expect = "stmt"
    /\ Kind(Context.stmt) = "block"
    /\ open' = Front(open)
    /\ expect' = AfterStmt(Front(open), "reduced")
    /\ UNCHANGED <<code, label_no, label_stack, slabel_arr, sconst_gen, globals, prog, runVars>>

IfTest ==
    /\ BeginStmt("if")
    /\ Emit(<<Test(New), BranchIfZero(<<"else", label_no + 1>>)>>)
    /\ label_no' = label_no + 1
    /\ label_stack' \in s_push(label_stack, label_no + 1)
    /\ open' = Append(open, In(New, "then"))
    /\ expect' = "stmt"
    /\ UNCHANGED <<slabel_arr, sconst_gen, globals, runVars>>

Complete(lookaheads) == expect \in lookaheads /\ ~ HoldsList(Context)

\* Mutant: the label is numbered by label_no, not by the stack.
BranchesByLabelNo(k) == <<Jump(<<"exit", k>>), Label(<<"else", label_no>>)>>

\* The code between the two branches.
BetweenBranches(k) == <<Jump(<<"exit", k>>), Label(<<"else", k>>)>>

\* ELSE goes to the innermost if that can have it.
IfElse ==
    /\ Complete({"reduced"})
    /\ Context.slot = "then"
    /\ \E k \in s_get(label_stack) : Emit(BetweenBranches(k))
    /\ open' = Append(Front(open), In(Context.stmt, "else"))
    /\ expect' = "stmt"
    /\ UNCHANGED <<label_no, label_stack, slabel_arr, sconst_gen, globals, prog, runVars>>

IfWithoutElse ==
    /\ Complete({"reduced", "no else"})
    /\ Context.slot = "then"
    /\ \E k, exit \in s_get(label_stack) : Emit(BetweenBranches(k) \o <<Label(<<"exit", exit>>)>>)
    /\ label_stack' = s_pop(label_stack)
    /\ open' = Front(open)
    /\ expect' = AfterStmt(Front(open), "no else")
    /\ UNCHANGED <<label_no, slabel_arr, sconst_gen, globals, prog, runVars>>

IfEnd ==
    /\ Complete({"reduced", "no else"})
    /\ Context.slot = "else"
    /\ \E k \in s_get(label_stack) : Emit(<<Label(<<"exit", k>>)>>)
    /\ label_stack' = s_pop(label_stack)
    /\ open' = Front(open)
    /\ expect' = AfterStmt(Front(open), expect)
    /\ UNCHANGED <<label_no, slabel_arr, sconst_gen, globals, prog, runVars>>

WhileHead ==
    /\ BeginStmt("while")
    /\ Emit(<<Label(<<"test", label_no + 1>>)>>)
    /\ label_no' = label_no + 1
    /\ label_stack' \in s_push(label_stack, label_no + 1)
    /\ open' = Append(open, In(New, "body"))
    /\ expect' = "cond"
    /\ UNCHANGED <<slabel_arr, sconst_gen, globals, runVars>>

\* The exit label is numbered by label_no, not by the stack.
WhileTest ==
    /\ expect = "cond"
    /\ Emit(<<Test(Context.stmt), BranchIfZero(<<"exit", label_no>>)>>)
    /\ expect' = "stmt"
    /\ UNCHANGED <<label_no, label_stack, slabel_arr, sconst_gen, globals, open, prog, runVars>>

\* Mutant: the exit label first.
ExitBeforeJump(k) == <<Label(<<"exit", k>>), Jump(<<"test", k>>)>>

\* Mutant: no exit label.
LoopEndUnlabelled(k) == <<Jump(<<"test", k>>)>>

LoopEnd(k) == <<Jump(<<"test", k>>), Label(<<"exit", k>>)>>

WhileEnd ==
    /\ Complete({"reduced", "no else"})
    /\ Kind(Context.stmt) = "while"
    /\ \E k \in s_get(label_stack) : Emit(LoopEnd(k))
    /\ label_stack' = s_pop(label_stack)
    /\ open' = Front(open)
    /\ expect' = AfterStmt(Front(open), expect)
    /\ UNCHANGED <<label_no, slabel_arr, sconst_gen, globals, prog, runVars>>

\* for has no code of its own: both assignments and the condition stand before
\* the body.
ForHead ==
    /\ BeginStmt("for")
    /\ Emit(<<Do(New), Test(New), Do(New)>>)
    /\ open' = Append(open, In(New, "body"))
    /\ expect' = "stmt"
    /\ UNCHANGED <<label_no, label_stack, slabel_arr, sconst_gen, globals, runVars>>

ForEnd ==
    /\ Complete({"reduced", "no else"})
    /\ Kind(Context.stmt) = "for"
    /\ open' = Front(open)
    /\ expect' = AfterStmt(Front(open), expect)
    /\ UNCHANGED <<code, label_no, label_stack, slabel_arr, sconst_gen, globals, prog, runVars>>

-----------------------------------------------------------------------------
(* Running the output from the first instruction of a function to its end.  *)

Positions(op, label) == {i \in DOMAIN code : code[i].op = op /\ code[i].label = label}

RunFrom ==
    /\ expect = "top"
    /\ \E f \in DOMAIN prog :
          /\ Kind(f) = "function"
          /\ fun' = f
          /\ last' = Structured!Did(f, TRUE)
          /\ at' \in Positions("label", <<"begin", f>>)
    /\ expect' = "run"
    /\ UNCHANGED <<genVars, test>>

Instruction == code[at]
AtOp(ops) == expect = "run" /\ at \in DOMAIN code /\ Instruction.op \in ops
AtEnd == AtOp({"label"}) /\ Instruction.label = <<"end", fun>>

\* An instruction of the program's own.
Perform ==
    /\ AtOp({"do", "test"})
    /\ \E outcome \in IF Instruction.op = "test" THEN BOOLEAN ELSE {TRUE} :
          /\ last' = Structured!Did(Instruction.stmt, outcome)
          /\ test' = outcome
    /\ at' = at + 1
    /\ UNCHANGED <<genVars, expect, fun>>

GoTo(label) == at' \in Positions("label", label)

Transfer ==
    /\ ~ AtEnd
    /\ \/ AtOp({"label", "la"}) /\ at' = at + 1
       \/ AtOp({"j"}) /\ GoTo(Instruction.label)
       \/ AtOp({"beqz"}) /\ IF test THEN at' = at + 1 ELSE GoTo(Instruction.label)
    /\ UNCHANGED <<genVars, expect, fun, last, test>>

Finish ==
    /\ AtEnd
    /\ last' = Structured!Did(Structured!End, TRUE)
    /\ expect' = "halted"
    /\ UNCHANGED <<genVars, fun, at, test>>

Parse ==
    \/ GlobalDecl
    \/ FuncBegin
    \/ FuncEnd
    \/ \E kind \in {"assign", "return"} : Simple(kind)
    \/ UseGlobal
    \/ UseNamedPlace
    \/ WriteString
    \/ BlockBegin
    \/ BlockEnd
    \/ IfTest
    \/ IfElse
    \/ IfWithoutElse
    \/ IfEnd
    \/ WhileHead
    \/ WhileTest
    \/ WhileEnd
    \/ ForHead
    \/ ForEnd

Machine == Perform \/ Transfer \/ Finish

Next == Parse \/ RunFrom \/ Machine

Spec == Init /\ [][Next]_vars /\ WF_vars(Machine)

-----------------------------------------------------------------------------
Instrs == [op : {"do", "test", "beqz", "j", "label", "la", "data"},
           label : {"none", "begin", "end", "else", "exit", "test", "slabel", "global", "place"} \X Int,
           stmt : Nat]

(* Type invariant.                                                          *)
TypeOK ==
    /\ code \in Seq(Instrs)
    /\ label_no \in Nat
    /\ DOMAIN label_stack.stack = 0 .. STACK_SIZ - 1
    /\ label_stack.index \in Nat \cup {-1}
    /\ slabel_arr \in Seq({"slabel", "global"} \X Nat) /\ Len(slabel_arr) <= SLABELS
    /\ {sconst_gen, globals, fun} \subseteq Nat
    /\ open \in Seq([stmt : DOMAIN prog, slot : {"body", "then", "else"}])
    /\ expect \in {"top", "decls", "stmt", "cond", "reduced", "no else", "smashed",
                   "run", "halted"}
    /\ expect \in {"top", "decls", "run", "halted"} => open = << >>
    /\ at \in 1 .. Len(code) + 1
    /\ test \in BOOLEAN

\* The places of conditional statements in open, and those further out than i.
OpenConditionals == {i \in DOMAIN open : Kind(open[i].stmt) \in Structured!Conditional}
Around(i) == {j \in OpenConditionals : j < i}

\* The number that the stack has for the conditional statement at i.
NumberOf(i) == label_stack.stack[Cardinality(Around(i))]

\* The first instruction that has the number n of a conditional statement.
FirstUse(kind, n) ==
    IF kind = "while" THEN Positions("label", <<"test", n>>) ELSE Positions("beqz", <<"else", n>>)

WithinLimit == \A n \in DOMAIN prog : Structured!Depth(prog)[n] <= STACK_SIZ

(* The label stack holds one label for each open conditional statement, the *)
(* innermost on top, and the label numbers grow inwards; so every           *)
(* production of a statement reads the number that its first one has        *)
(* pushed, whatever statements were in between.  The stack takes            *)
(* STACK_SIZ nested statements.                                             *)
StackMirrorsNesting ==
    WithinLimit =>
        /\ label_stack.index + 1 = Cardinality(OpenConditionals)
        /\ \A i \in OpenConditionals :
              /\ NumberOf(i) \in 1 .. label_no
              /\ \A j \in Around(i) : NumberOf(j) < NumberOf(i)
              /\ FirstUse(Kind(open[i].stmt), NumberOf(i)) # {}

(* No label is defined twice in the output: not by nested statements, not   *)
(* by different functions, not by the string labels and globals that are    *)
(* emitted behind each function.                                            *)
LabelsUnique ==
    WithinLimit =>
        \A i, j \in DOMAIN code :
            /\ code[i].op \in {"label", "data"}
            /\ code[j].op \in {"label", "data"}
            /\ code[i].label = code[j].label
            => i = j

InFunction(i) == Cardinality({j \in 1 .. i : code[j].op = "label" /\ code[j].label[1] = "begin"})

(* After a function, jumps and branches lead to labels of their function,   *)
(* and every string and global that the output has the address of is in its *)
(* data, whichever function or globals come next.  Only the places of       *)
(* parameters and structure variables have no definition: the code loads    *)
(* and stores _a for a parameter a.                                         *)
LabelsResolved ==
    WithinLimit /\ expect \in {"top", "decls"} =>
        \A i \in DOMAIN code :
            /\ code[i].op \in {"j", "beqz"} =>
                  \E d \in Positions("label", code[i].label) : InFunction(d) = InFunction(i)
            /\ code[i].op = "la" =>
                  Positions("data", code[i].label) # {} \/ code[i].label = NamedPlace

\* String constants and globals since the last function.
Pending ==
    LET lastFunction == {n \in DOMAIN prog : Kind(n) = "function"}
        strings == {i \in DOMAIN code : code[i].op = "la" /\ code[i].label[1] = "slabel"}
        defined == {i \in DOMAIN code : code[i].op = "data"}
    IN  Cardinality(strings) + globals - Cardinality(defined)

(* The array of string labels is overrun only when one function, with the   *)
(* globals in front of it, has more labels than the array has places:       *)
(* labels of earlier functions do not count.                                *)
OverrunOnlyByOneFunction == expect = "smashed" => Pending > SLABELS

(* A program without for, with returns only at the end of functions and     *)
(* with at most STACK_SIZ nested conditional statements is executed         *)
(* statement by statement in the order that its nesting gives.              *)
FollowsStructure == Structured!Spec

(* The generated jumps never go round in a circle without executing a       *)
(* statement, nor lead nowhere.                                             *)
KeepsExecuting ==
    expect = "run" /\ WithinLimit ~> expect = "halted" \/ AtOp({"do", "test"})

(* What codegen.h says of s_push, "@return false if stack is full": with    *)
(* STACK_SIZ labels on it, the stack takes no other one.                    *)
FullStackRefuses ==
    [][label_stack.index = STACK_SIZ - 1 /\ label_no' > label_no =>
          label_stack' = label_stack]_vars
=============================================================================
