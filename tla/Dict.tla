------------------------------- MODULE Dict -------------------------------
(***************************************************************************)
(* What a client of the hash table observes: a dictionary from keys to     *)
(* data, with the results of the calls.                                    *)
(*                                                                         *)
(* The dictionary is forgetful.  Two keys may collide (Collide, an         *)
(* equivalence), and the table remembers which of two colliding keys is    *)
(* the older one.  Removing a key forgets that key alone if an older key   *)
(* collides with it, and every key that collides with it otherwise.  With  *)
(* Collide the identity this is the dictionary that hashtable.h documents: *)
(* removing a key forgets that key.                                        *)
(***************************************************************************)
CONSTANTS Key, Data, NULL, Collide

VARIABLES
    dict,      \* the data of every key, NULL when the key is absent
    older,     \* pairs <<j, k>> of present colliding keys, j inserted first
    result     \* the operation performed last and what it returned

dvars == <<dict, older, result>>

Present == {k \in Key : dict[k] # NULL}

Init ==
    /\ dict = [k \in Key |-> NULL]
    /\ older = {}
    /\ result = <<"init">>

Insert(k, d) ==
    \/ /\ dict[k] = NULL
       /\ dict' = [dict EXCEPT ![k] = d]
       /\ older' = older \cup {<<j, k>> : j \in {p \in Present : <<p, k>> \in Collide}}
       /\ result' = <<"insert", k, TRUE>>
    \/ /\ dict[k] # NULL
       /\ result' = <<"insert", k, FALSE>>
       /\ UNCHANGED <<dict, older>>

Get(k) ==
    /\ result' = <<"get", k, dict[k]>>
    /\ UNCHANGED <<dict, older>>

\* The keys that removing k forgets.
Forgotten(k) ==
    IF \E j \in Key : <<j, k>> \in older
    THEN {k}
    ELSE {j \in Key : <<j, k>> \in Collide}

Remove(k) ==
    \/ /\ dict[k] # NULL
       /\ dict' = [j \in Key |-> IF j \in Forgotten(k) THEN NULL ELSE dict[j]]
       /\ older' = {p \in older : p[1] \notin Forgotten(k) /\ p[2] \notin Forgotten(k)}
       /\ result' = <<"remove", k, TRUE>>
    \/ /\ dict[k] = NULL
       /\ result' = <<"remove", k, FALSE>>
       /\ UNCHANGED <<dict, older>>

ToList ==
    /\ result' = <<"list", {dict[k] : k \in Present}>>
    /\ UNCHANGED <<dict, older>>

Next ==
    \/ \E k \in Key, d \in Data : Insert(k, d)
    \/ \E k \in Key : Get(k) \/ Remove(k)
    \/ ToList

Spec == Init /\ [][Next]_dvars
===========================================================================
