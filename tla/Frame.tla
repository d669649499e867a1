------------------------------- MODULE Frame -------------------------------
(***************************************************************************)
(* Calls in the generated code: gen_func_prolog and gen_func_epilog of     *)
(* Assig4/codegen.c, the call sequence of function_call and the frame      *)
(* slots that var_decl of Assig4/parser.y gives to local variables.        *)
(*                                                                         *)
(* Addresses are in words.  A function that is entered with the stack      *)
(* pointer at S stores $ra at S and $fp at S - 1, makes S - 1 its frame    *)
(* pointer and takes _framesize words below; the registers $8 ... are      *)
(* saved at the top of them.  Local number k lies at $fp - k: the same     *)
(* words.  The frame size does not depend on the number of locals.         *)
(***************************************************************************)
EXTENDS Integers, Sequences, SequencesExt

CONSTANTS
    NREG,      \* number of temporary registers, 8
    Function,  \* functions, numbered in the order of their declarations
    Main,      \* the number of main
    NLocals,   \* number of local variables of each function
    Top        \* address of the first frame, bound on the size of the stack

ASSUME FrameAssumption ==
    /\ NREG \in Nat \ {0}
    /\ Function \subseteq Nat
    /\ Main \in Function
    /\ NLocals \in [Function -> Nat]
    /\ Top \in Nat

Reg == 0 .. NREG - 1
Addr == 0 .. Top

\* The word-sized values that can be told apart: addresses in the stack, return
\* addresses (the depth of the call), the values of locals and of expressions.
Value == {"addr", "ra", "local", "temp"} \X Int \X Int
Word(a) == <<"addr", a, 0>>
Return(d) == <<"ra", d, 0>>
Local(d, k) == <<"local", d, k>>
Temp(d, i) == <<"temp", d, i>>
Unknown == <<"temp", 0, 0>>

VARIABLES
    mem,      \* the stack
    sp, fp,   \* $sp, $fp
    ra,       \* $ra
    reg,      \* the temporary registers
    calls,    \* the active functions, innermost last
    running   \* FALSE when the program has ended

vars == <<mem, sp, fp, ra, reg, calls, running>>

(***************************************************************************)
(* calls is a history variable.  For each activation it has the function,  *)
(* $sp and $fp and the temporary registers at the call, the return         *)
(* address, and the locals that have been assigned.                        *)
(***************************************************************************)
Activation(f, s, p, link, saved) ==
    [fn |-> f, sp |-> s, fp |-> p, ra |-> link, reg |-> saved, assigned |-> {}]

Depth == Len(calls)
Current == Last(calls)

-----------------------------------------------------------------------------
(* codegen.c.  The machine is the tuple of memory and registers.            *)

\* 32 bytes, and 36 for main.
FrameSize(f) == IF f = Main THEN NREG + 1 ELSE NREG

\* Where the prolog of f, entered with $sp = s, leaves $sp and saves register i.
EntrySp(f, s) == s - 2 - FrameSize(f)

SaveSlot(bottom, i) == bottom + NREG - i

\* The register whose slot is a.
SavedAt(bottom, a) == bottom + NREG - a

\* Mutant: $fp is stored at 4($sp), over the last register.
PrologStoringFpLast(m, f, s, p, link, r) ==
    LET bottom == EntrySp(f, s)
    IN  [a \in Addr |->
            CASE a = bottom + 1             -> Word(p)
              [] a > bottom + 1 /\ SavedAt(bottom, a) \in Reg -> r[SavedAt(bottom, a)]
              [] a = s                      -> link
              [] OTHER                      -> m[a]]

\* The memory after the prolog of f, entered with $sp, $fp, $ra and registers
\* s, p, link, r.
gen_func_prolog(m, f, s, p, link, r) ==
    LET bottom == EntrySp(f, s)
    IN  [a \in Addr |->
            CASE SavedAt(bottom, a) \in Reg -> r[SavedAt(bottom, a)]
              [] a = s                      -> link
              [] a = s - 1                  -> Word(p)
              [] OTHER                      -> m[a]]

\* Mutant: the epilog counts the slots from 28($sp).
EpilogLoadingLow(m, s) == [i \in Reg |-> m[SaveSlot(s, i) - 1]]

\* The registers that the epilog loads.
gen_func_epilog(m, s) == [i \in Reg |-> m[SaveSlot(s, i)]]

LocalSlot(p, k) == p - k

\* The lowest word that f, entered with $sp = s, reads or writes.
Lowest(f, s) == IF EntrySp(f, s) <= s - 1 - NLocals[f] THEN EntrySp(f, s) ELSE s - 1 - NLocals[f]

-----------------------------------------------------------------------------
\* main is entered by the loader.
Init ==
    LET zero == [i \in Reg |-> Unknown]
    IN  /\ Lowest(Main, Top) >= 0
        /\ mem = gen_func_prolog([a \in Addr |-> Unknown], Main, Top, Top, Return(0), zero)
        /\ sp = EntrySp(Main, Top)
        /\ fp = Top - 1
        /\ ra = Return(0)
        /\ reg = zero
        /\ calls = <<Activation(Main, Top, Top, Return(0), zero)>>
        /\ running = TRUE

\* An assignment to local variable number k.
Assign(k) ==
    /\ running
    /\ k \in 1 .. NLocals[Current.fn]
    /\ mem' = [mem EXCEPT ![LocalSlot(fp, k)] = Local(Depth, k)]
    /\ calls' = [calls EXCEPT ![Depth].assigned = @ \cup {k}]
    /\ UNCHANGED <<sp, fp, ra, reg, running>>

\* An expression leaves a value in register i.
Compute(i) ==
    /\ running
    /\ reg' = [reg EXCEPT ![i] = Temp(Depth, i)]
    /\ UNCHANGED <<mem, sp, fp, ra, calls, running>>

\* Mutant: the caller makes no room.
CallWithoutRoom(g) ==
    LET link == Return(Depth)
    IN  /\ running
        /\ g <= Current.fn
        /\ Lowest(g, sp) >= 0
        /\ ra' = link
        /\ mem' = gen_func_prolog(mem, g, sp, fp, link, reg)
        /\ sp' = EntrySp(g, sp)
        /\ fp' = sp - 1
        /\ calls' = Append(calls, Activation(g, sp, fp, link, reg))
        /\ UNCHANGED <<reg, running>>

\* A function calls itself or one that is declared before it.  The caller makes
\* room for one word.
Call(g) ==
    LET s    == sp - 1
        link == Return(Depth)
    IN  /\ running
        /\ g <= Current.fn
        /\ Lowest(g, s) >= 0
        /\ ra' = link
        /\ mem' = gen_func_prolog(mem, g, s, fp, link, reg)
        /\ sp' = EntrySp(g, s)
        /\ fp' = s - 1
        /\ calls' = Append(calls, Activation(g, s, fp, link, reg))
        /\ UNCHANGED <<reg, running>>

\* The end of a function: the epilog, jr $ra, and the caller's word is given back.
FunctionReturns ==
    /\ running
    /\ Current.fn # Main
    /\ reg' = gen_func_epilog(mem, sp)
    /\ ra' = mem[fp + 1]
    /\ sp' = fp + 2
    /\ fp' = mem[fp][2]
    /\ calls' = Front(calls)
    /\ UNCHANGED <<mem, running>>

\* Mutant: main returns as the other functions do.
MainReturns ==
    /\ running
    /\ Current.fn = Main
    /\ reg' = gen_func_epilog(mem, sp)
    /\ ra' = mem[fp + 1]
    /\ sp' = fp + 2
    /\ fp' = mem[fp][2]
    /\ calls' = Front(calls)
    /\ UNCHANGED <<mem, running>>

\* main ends the program, whoever has called it.
MainExits ==
    /\ running
    /\ Current.fn = Main
    /\ reg' = gen_func_epilog(mem, sp)
    /\ ra' = mem[fp + 1]
    /\ sp' = fp + 1
    /\ fp' = mem[fp][2]
    /\ running' = FALSE
    /\ UNCHANGED <<mem, calls>>

Next ==
    \/ \E k \in 1 .. Top : Assign(k)
    \/ \E i \in Reg : Compute(i)
    \/ \E g \in Function : Call(g)
    \/ FunctionReturns
    \/ MainExits

Spec == Init /\ [][Next]_vars

-----------------------------------------------------------------------------
(* Type invariant.                                                          *)
TypeOK ==
    /\ mem \in [Addr -> Value]
    /\ sp \in Int /\ fp \in Int
    /\ ra \in Value
    /\ reg \in [Reg -> Value]
    /\ calls \in Seq([fn : Function, sp : Int, fp : Int, ra : Value,
                      reg : [Reg -> Value], assigned : SUBSET Nat])
    /\ Depth > 0
    /\ running \in BOOLEAN

(* The return address and the frame pointer that a function has stored are  *)
(* there until it returns, however many locals it and the functions that    *)
(* it calls have, and $fp and $sp are where the epilog takes them to be.    *)
LinksKept ==
    /\ \A d \in 1 .. Depth :
          /\ mem[calls[d].sp] = calls[d].ra
          /\ mem[calls[d].sp - 1] = Word(calls[d].fp)
    /\ running => fp = Current.sp - 1 /\ sp = EntrySp(Current.fn, Current.sp)

\* The locals that lie above the frames of the functions that f calls.
Covered(f) == FrameSize(f) + 1

(* A local variable has the value last assigned to it, in the functions     *)
(* that wait for a call too, if it is among the first NREG + 1 of its       *)
(* function (one more in main): its word is also the save slot of a         *)
(* register, but no call writes it.  The other locals are lost in a call.   *)
LocalsKept ==
    \A d \in 1 .. Depth : \A k \in calls[d].assigned :
        k <= Covered(calls[d].fn) =>
            mem[LocalSlot(calls[d].sp - 1, k)] = Local(d, k)

(* A call gives $sp, $fp and the return address back, and of the temporary  *)
(* registers those whose save slot is not also the word of a local that the *)
(* function has assigned: a caller that keeps a value in a register across  *)
(* a call keeps it if the callee has few enough locals.                     *)
CallPreserves ==
    [][FunctionReturns =>
          /\ sp' = Current.sp + 1
          /\ fp' = Current.fp
          /\ ra' = Current.ra
          /\ \A i \in Reg : i + 1 \notin Current.assigned => reg'[i] = Current.reg[i]]_vars
=============================================================================
