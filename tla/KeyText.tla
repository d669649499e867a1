------------------------------ MODULE KeyText ------------------------------
(***************************************************************************)
(* The text of a symbol table key.  A string is the sequence of its        *)
(* character codes.  gen_key of Assig4/symboltable.c writes the scope in   *)
(* decimal in front of the name, and hash of Assig4/hashtable.c adds the   *)
(* codes up.                                                               *)
(***************************************************************************)
EXTENDS Integers, Sequences, SequencesExt

CONSTANT HT_SIZ   \* number of buckets

\* sprintf("%d") of a scope, which is never negative.
myitoa(i) ==
    LET digits[n \in Nat] ==
            IF n < 10 THEN <<48 + n>> ELSE digits[n \div 10] \o <<48 + (n % 10)>>
    IN  digits[i]

gen_key(name, scope) == myitoa(scope) \o name

\* A key has at most 260 characters below 128, so the unsigned sum of the
\* code does not wrap around.
hash_text(text) == FoldLeft(LAMBDA sum, code : sum + code, 0, text) % HT_SIZ
=============================================================================
