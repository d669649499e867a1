--------------------------- MODULE MCSymbolTable ---------------------------
(* Names of one letter, hashed as the code does, in a table small enough    *)
(* for symbols of different scopes to share buckets.                        *)
EXTENDS SymbolTable

CONSTANTS a, b, c

Text == INSTANCE KeyText

Letter == (a :> 97) @@ (b :> 98) @@ (c :> 99)

\* The model keeps a key as a pair: no two pairs have the same text, although
\* both scopes and names may have several digits.
SmallName == {<<97>>, <<98>>, <<97, 49>>, <<97, 48>>, <<97, 49, 48>>, <<98, 49>>}

ASSUME KeyTextsDiffer ==
    \A p, q \in SmallName \X (0 .. 12) :
        Text!gen_key(p[1], p[2]) = Text!gen_key(q[1], q[2]) => p = q

MCKey == (0 .. MaxScope) \X Name

MCHash == [k \in MCKey |-> Text!hash_text(Text!gen_key(<<Letter[k[2]]>>, k[1]))]

\* The symbols are addresses: the code only compares them.
SymbolSymmetry == Permutations(Symbol)
=============================================================================
