----------------------------- MODULE HashTable -----------------------------
(***************************************************************************)
(* The hash table of Assig4/hashtable.c under every sequence of calls of   *)
(* its interface: h_insert, h_get, h_remove and ht_to_list.                *)
(*                                                                         *)
(* The caller owns the data objects: it allocates one, passes it to        *)
(* h_insert once, and leaves it to h_remove to free it, as create_symbol,  *)
(* insert_symbol and delete_scope do.                                      *)
(***************************************************************************)
EXTENDS HashTableOps

CONSTANT Data   \* the data objects callers may allocate

ASSUME DataAssumption == NULL \notin Data

VARIABLES
    table,     \* bucket -> its chain of entries
    freed,     \* data objects that h_remove has passed to free()
    used,      \* data objects that a caller has passed to h_insert
    result     \* the operation performed last and what it returned

vars == <<table, freed, used, result>>

Init ==
    /\ table = h_init
    /\ freed = {}
    /\ used = {}
    /\ result = <<"init">>

CallInsert(k, d) ==
    /\ d \notin used
    /\ used' = used \cup {d}
    /\ table' = h_insert(table, k, d)
    /\ result' = <<"insert", k, CanInsert(table, k)>>
    /\ UNCHANGED freed

CallGet(k) ==
    /\ result' = <<"get", k, h_get(table, k)>>
    /\ UNCHANGED <<table, freed, used>>

CallRemove(k) ==
    /\ table' = h_remove(table, k)
    /\ freed' = freed \cup FreedBy(table, k)
    /\ result' = <<"remove", k, ~ CanInsert(table, k)>>
    /\ UNCHANGED used

CallToList ==
    /\ result' = <<"list", ht_to_list(table)>>
    /\ UNCHANGED <<table, freed, used>>

Next ==
    \/ \E k \in Key, d \in Data : CallInsert(k, d)
    \/ \E k \in Key : CallGet(k)
    \/ \E k \in Key : CallRemove(k)
    \/ CallToList

Spec == Init /\ [][Next]_vars

-----------------------------------------------------------------------------
(* Type invariant: every bucket is a chain of entries, and the bookkeeping  *)
(* of the data objects stays within Data.                                   *)
TypeOK ==
    /\ table \in Tables(Data)
    /\ freed \subseteq Data
    /\ used \subseteq Data

(* Every entry stays in the bucket of its key and keys stay unique in their *)
(* chain, whatever the operations do to the chains.                         *)
ChainInv == WellFormed(table)

(* No entry points to data that h_remove has freed, and no two entries      *)
(* share a data object: otherwise h_get or ht_to_list would hand out freed  *)
(* memory, or a second h_remove would free the object again.                *)
DataUsed ==
    \A b \in Bucket : \A i \in DOMAIN table[b] : table[b][i].data \in used

NoneFreed ==
    \A b \in Bucket : \A i \in DOMAIN table[b] : table[b][i].data \notin freed

Unshared ==
    \A b, c \in Bucket : \A i \in DOMAIN table[b], j \in DOMAIN table[c] :
        table[b][i].data = table[c][j].data => b = c /\ i = j

NoDangling == DataUsed /\ NoneFreed /\ Unshared

-----------------------------------------------------------------------------
(***************************************************************************)
(* Refinement.  The dictionary a client sees maps a key to what h_get      *)
(* returns; of two colliding keys the one nearer to the head is the older. *)
(***************************************************************************)
DictOf == [k \in Key |-> h_get(table, k)]

OlderOf ==
    {p \in Key \X Key : /\ hash[p[1]] = hash[p[2]]
                        /\ h_get_entry(table, p[1]) > 0
                        /\ h_get_entry(table, p[1]) < h_get_entry(table, p[2])}

ResultOf == IF result[1] = "list" THEN <<"list", ListElements(result[2])>> ELSE result

SameBucket == {p \in Key \X Key : hash[p[1]] = hash[p[2]]}

Forgetful == INSTANCE Dict
    WITH dict <- DictOf, older <- OlderOf, result <- ResultOf, Collide <- SameBucket

(* The table implements the forgetful dictionary: all operations return     *)
(* what the dictionary returns, and h_remove loses a key other than its     *)
(* own only when that key is younger and in the same bucket, and no older   *)
(* key is there.                                                            *)
ForgetfulDict == Forgetful!Spec

(* hashtable.h documents h_remove as "Remove an entry from the table": a    *)
(* step makes a key absent only by removing that key.                       *)
RemovesOneEntry ==
    [][\A k \in Key : h_get(table, k) # NULL /\ h_get(table', k) = NULL
            => result' = <<"remove", k, TRUE>>]_vars
=============================================================================
