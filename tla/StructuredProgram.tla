------------------------- MODULE StructuredProgram -------------------------
(***************************************************************************)
(* What the code generated for the statements of a C-- program promises:   *)
(* the program is read, then one of its functions is run, statement by     *)
(* statement, in the order that the nesting of the statements gives.       *)
(*                                                                         *)
(* A statement is known by its number in the text.  Executing it means     *)
(* executing what stands for it itself: the assignment, write or call, the *)
(* condition of an if or while, the nop at the start of a block.           *)
(***************************************************************************)
EXTENDS Integers, Sequences, FiniteSetsExt

CONSTANT Limit   \* how deep conditional statements may be nested

VARIABLES
    prog,   \* the statements in the order of the text, with kind, parent and slot
    fun,    \* the function that runs, 0 while the program is being read
    last    \* what was executed last, with the outcome if it is a condition

vars == <<prog, fun, last>>

Leaf == {"assign", "string", "global", "named", "return"}
Conditional == {"if", "while"}
StmtKind == Leaf \cup Conditional \cup {"function", "block", "for"}

\* The parent of a function is 0.
Stmt(kind, parent, slot) == [kind |-> kind, parent |-> parent, slot |-> slot]

\* Executed last: n, with this outcome.
Did(n, outcome) == [stmt |-> n, outcome |-> outcome]
Nothing == Did(0, TRUE)

\* 0 is the end of the function.
End == 0

Stmts(p) == DOMAIN p

Children(p, n, slot) == {m \in Stmts(p) : p[m].parent = n /\ p[m].slot = slot}

FirstOf(S, otherwise) == IF S = {} THEN otherwise ELSE Min(S)

\* What comes after a statement when it is finished.
Follow(p) ==
    LET after[n \in Stmts(p)] ==
          LET parent  == p[n].parent
              younger == {m \in Children(p, parent, p[n].slot) : m > n}
          IN  CASE parent = 0                                -> End
                [] parent # 0 /\ p[parent].kind = "function" -> FirstOf(younger, End)
                [] parent # 0 /\ p[parent].kind = "block"    -> FirstOf(younger, after[parent])
                [] parent # 0 /\ p[parent].kind = "while"    -> parent
                [] OTHER                                     -> after[parent]
    IN  after

\* What is executed after n with the outcome that it had.
Successor(p, n, outcome) ==
    LET after == Follow(p)[n]
    IN  CASE p[n].kind = "return"              -> End
          [] p[n].kind \in {"function", "block"} -> FirstOf(Children(p, n, "body"), after)
          [] p[n].kind = "if" /\ outcome       -> Min(Children(p, n, "then"))
          [] p[n].kind = "if" /\ ~ outcome     -> FirstOf(Children(p, n, "else"), after)
          [] p[n].kind = "while" /\ outcome    -> Min(Children(p, n, "body"))
          [] OTHER                             -> after

\* The number of conditional statements around n, itself included.
Depth(p) ==
    LET depth[n \in Stmts(p)] ==
          (IF p[n].parent = 0 THEN 0 ELSE depth[p[n].parent])
          + (IF p[n].kind \in Conditional THEN 1 ELSE 0)
    IN  depth

(***************************************************************************)
(* The programs that the promise is about.  for is documented as not       *)
(* supported.  A return only stores the value: the code goes on behind it, *)
(* so it has to be the last thing that its function does.                  *)
(***************************************************************************)
Supported(p) ==
    \A n \in Stmts(p) :
        /\ p[n].kind # "for"
        /\ p[n].kind = "return" => Follow(p)[n] = End
        /\ Depth(p)[n] <= Limit

Init ==
    /\ prog = << >>
    /\ fun = 0
    /\ last = Nothing

\* More text is read; what has been read stays.
Read ==
    /\ fun = 0
    /\ SubSeq(prog', 1, Len(prog)) = prog
    /\ UNCHANGED <<fun, last>>

Start ==
    /\ fun = 0
    /\ \E f \in Stmts(prog) :
          /\ prog[f].kind = "function"
          /\ fun' = f
          /\ last' = Did(f, TRUE)
    /\ UNCHANGED prog

Execute ==
    /\ fun # 0
    /\ last.stmt # End
    /\ last'.stmt = Successor(prog, last.stmt, last.outcome)
    /\ UNCHANGED <<prog, fun>>

\* Nothing is promised about the other programs.
Unsupported == ~ Supported(prog)

Next == Read \/ Start \/ Execute \/ Unsupported

Spec == Init /\ [][Next]_vars
=============================================================================
