---------------------------- MODULE StoresRemoval ----------------------------
(***************************************************************************)
(* The LLVM pass StoresRemoval2 of Assig5/StoresRemoval/StoresRemoval.cpp, *)
(* run on one basic block.                                                 *)
(*                                                                         *)
(* The pass collects the names of the operands of all stores, and then     *)
(* erases a store when the name of one of its operands occurs more than    *)
(* once in what it collected.  It tells values apart by name only: locals  *)
(* and globals may share one, and a temporary has none.                    *)
(***************************************************************************)
EXTENDS Integers, Sequences, SequencesExt, FiniteSets, FiniteSetsExt, Functions

CONSTANTS
    Value,     \* what a store has as operands
    NameOf,    \* the names of these values, NoName for a temporary
    NoName,
    MaxBlock   \* bound on the length of a basic block

ASSUME ValueAssumption ==
    /\ DOMAIN NameOf = Value
    /\ MaxBlock \in Nat

VARIABLES
    input,    \* history: the block that the pass is given
    block,    \* positions of input that have not been erased
    names,    \* the vector of names
    pc,       \* the first loop, the second one, or the end
    DI,       \* the instruction to look at
    U,        \* the operand of it to look at: 1 the value, 2 the pointer
    Changed

vars == <<input, block, names, pc, DI, U, Changed>>

\* A store has its operands, value first, and these are never the same: the type
\* of the pointer is that of a pointer to the value.  For any other instruction,
\* the operands do not matter.
Store == {inst \in [store : {TRUE}, operands : Value \X Value] :
             inst.operands[1] # inst.operands[2]}
Other == [store |-> FALSE, operands |-> << >>]

Name == Range(NameOf)
Operand(i, u) == NameOf[input[i].operands[u]]

Init ==
    /\ input \in SeqOf(Store \cup {Other}, MaxBlock)
    /\ block = DOMAIN input
    /\ names = << >>
    /\ pc = "collect"
    /\ DI = 1
    /\ U = 1
    /\ Changed = FALSE

-----------------------------------------------------------------------------
(* The first loop.                                                          *)

\* Mutant: a name that is in the vector is not put there again.
NewName(str) == IF str = NoName \/ str \in Range(names) THEN << >> ELSE <<str>>

\* What an operand adds to the vector: its name, if it has one.
Named(str) == IF str = NoName THEN << >> ELSE <<str>>

\* The vector with the names that store i has as operands.
Collected(i) == names \o Named(Operand(i, 1)) \o Named(Operand(i, 2))

Collect ==
    /\ pc = "collect"
    /\ DI \in DOMAIN input
    /\ names' = IF input[DI].store THEN Collected(DI) ELSE names
    /\ DI' = DI + 1
    /\ UNCHANGED <<input, block, pc, U, Changed>>

Rewind ==
    /\ pc = "collect"
    /\ DI \notin DOMAIN input
    /\ pc' = "erase"
    /\ DI' = 1
    /\ UNCHANGED <<input, block, names, U, Changed>>

-----------------------------------------------------------------------------
(* The second loop.  It goes on with the operands of a store that it has    *)
(* just erased.                                                             *)

\* Mutant: the name stays in the vector when its store is erased.
KeepInVector(str) == names

\* The vector without the first occurrence of a name.
WithoutFirst(str) == RemoveFirst(names, str)

\* Mutant: every name in the vector is a reason to erase.
SeenOnce(str) == str \in Range(names)

\* The places of a name in the vector.
Places(str) == {k \in DOMAIN names : names[k] = str}

\* The name occurs more than once in the vector.
Repeated(str) == Cardinality(Places(str)) > 1

\* On to the next operand, or to the next instruction.
NextOperand == IF U = 1 THEN U' = 2 /\ DI' = DI ELSE U' = 1 /\ DI' = DI + 1

AtOperand == pc = "erase" /\ DI \in block /\ input[DI].store

SkipOther ==
    /\ pc = "erase"
    /\ DI \in DOMAIN input
    /\ ~ input[DI].store
    /\ DI' = DI + 1
    /\ UNCHANGED <<input, block, names, pc, U, Changed>>

KeepForNow ==
    /\ AtOperand
    /\ Operand(DI, U) = NoName \/ ~ Repeated(Operand(DI, U))
    /\ NextOperand
    /\ UNCHANGED <<input, block, names, pc, Changed>>

\* Mutant: the block changes, and the pass does not say so.
EraseUnreported ==
    /\ AtOperand
    /\ Operand(DI, U) # NoName
    /\ Repeated(Operand(DI, U))
    /\ block' = block \ {DI}
    /\ names' = WithoutFirst(Operand(DI, U))
    /\ NextOperand
    /\ UNCHANGED <<input, pc, Changed>>

Erase ==
    /\ AtOperand
    /\ Operand(DI, U) # NoName
    /\ Repeated(Operand(DI, U))
    /\ block' = block \ {DI}
    /\ names' = WithoutFirst(Operand(DI, U))
    /\ Changed' = TRUE
    /\ NextOperand
    /\ UNCHANGED <<input, pc>>

\* The next operand of a store that is gone: undefined behaviour.
ReadErased ==
    /\ pc = "erase"
    /\ DI \in DOMAIN input \ block
    /\ input[DI].store
    /\ pc' = "undefined"
    /\ UNCHANGED <<input, block, names, DI, U, Changed>>

Finish ==
    /\ pc = "erase"
    /\ DI \notin DOMAIN input
    /\ pc' = "done"
    /\ UNCHANGED <<input, block, names, DI, U, Changed>>

Next == Collect \/ Rewind \/ SkipOther \/ KeepForNow \/ Erase \/ ReadErased \/ Finish

Spec == Init /\ [][Next]_vars

-----------------------------------------------------------------------------
Stores == {i \in DOMAIN input : input[i].store}

\* The operands, as pairs of an instruction and a place in it, of these stores
\* that have this name.
Mentions(stores, str) == {m \in stores \X {1, 2} : Operand(m[1], m[2]) = str}

(* Type invariant.                                                          *)
TypeOK ==
    /\ input \in Seq(Store \cup {Other})
    /\ block \subseteq DOMAIN input
    /\ names \in Seq(Name \ {NoName})
    /\ pc \in {"collect", "erase", "done", "undefined"}
    /\ DI \in 1 .. Len(input) + 1
    /\ U \in {1, 2}
    /\ Changed = (block # DOMAIN input)

(* In the second loop the vector is a count of what is left: for every name *)
(* that a remaining store mentions it has one entry per mention.  The pass  *)
(* removes one entry for each store that it erases, and this is enough only *)
(* because the other operand of that store is not mentioned anywhere else.  *)
VectorCountsMentions ==
    pc \in {"erase", "done"} /\ (DI \in DOMAIN input => DI \in block \/ ~ input[DI].store) =>
        \A str \in Name \ {NoName} :
            LET left == Cardinality(Mentions(block \cap Stores, str))
            IN  left # 0 => Cardinality(Places(str)) = left

(* The pass reads a store that it has erased only when it looks at the      *)
(* pointer, after it has erased this store for the name of its value: a     *)
(* later store still has this name, or the pointer itself has it.           *)
UndefinedOnlyForNamedValues ==
    pc = "undefined" =>
        /\ U = 2
        /\ Operand(DI, 1) # NoName
        /\ \E m \in Mentions((block \cap Stores) \cup {DI}, Operand(DI, 1)) :
              m[1] > DI \/ m = <<DI, 2>>

(* When the pass is done, no name is left that is mentioned twice: of the   *)
(* stores to a variable only one remains.                                   *)
NoRepetitionLeft ==
    pc = "done" => \A str \in Name \ {NoName} : Cardinality(Mentions(block \cap Stores, str)) <= 1

\* The last store to a value, of these stores; 0 if there is none.
LastStore(stores, v) == Max({i \in stores : input[i].operands[2] = v} \cup {0})

(* The last store to a variable whose name no later store mentions is never *)
(* erased for the sake of another store to this variable.  It can be lost   *)
(* in one way only, for the name of its value, and then the pass is still   *)
(* at this store: it goes on with the pointer of it, which is undefined.    *)
(* This is about stores alone: a load may come between two of them, and the *)
(* pass does not look at loads.                                             *)
LastStoreKept ==
    \A v \in Value :
        LET last == LastStore(Stores, v)
        IN  /\ last # 0
            /\ \A m \in Mentions(Stores, NameOf[v]) : m[1] <= last \/ NameOf[v] = NoName
            => last \in block \/ (DI = last /\ U = 2 /\ Operand(last, 1) # NoName)

(* A store is erased only when an operand that comes after one of its own   *)
(* has the same name, although the vector has names from further up too:    *)
(* the operand of a later store, or the pointer for the name of the value.  *)
ErasedForALaterMention ==
    [][\A i \in block \ block' : \E u \in {1, 2} :
          /\ Operand(i, u) # NoName
          /\ \E m \in Mentions(block \cap Stores, Operand(i, u)) :
                m[1] > i \/ (m[1] = i /\ m[2] > u)]_vars

(* What Assig5/README.md says the pass erases: "store instructions which    *)
(* are storing values to an operand which is being overwritten in a later   *)
(* instruction within the same basic block".                                *)
ErasedWhenOverwritten ==
    [][\A i \in block \ block' : \E j \in Stores :
          j > i /\ input[j].operands[2] = input[i].operands[2]]_vars
=============================================================================
