--------------------------- MODULE HashTableOps ---------------------------
(***************************************************************************)
(* The operations of Assig4/hashtable.c as operators on the value of a     *)
(* table.  A bucket of the code is a linked list whose head is either the  *)
(* placeholder with index = -1 (the empty sequence here) or an entry; the  *)
(* sequence t[b] holds the entries of bucket b from head to tail.  The     *)
(* text of a key is abstracted: hash is a constant function, so whatever   *)
(* is proved here holds for every hash function with values in the table.  *)
(*                                                                         *)
(* Nothing here is recursive, so modules with proofs may build on it.      *)
(***************************************************************************)
EXTENDS Integers, Sequences, SequencesExt

CONSTANTS
    Key,       \* the key strings in use
    HT_SIZ,    \* number of buckets, 100 in hashtable.h
    hash,      \* the bucket of every key, hash() of hashtable.c
    NULL       \* the null pointer that h_get returns for an absent key

Bucket == 0 .. HT_SIZ - 1

ASSUME HashAssumption ==
    /\ HT_SIZ \in Nat \ {0}
    /\ hash \in [Key -> Bucket]

\* The table h_init returns: every bucket holds its placeholder only.
h_init == [b \in Bucket |-> << >>]

Entry(key, data) == [key |-> key, data |-> data]

(***************************************************************************)
(* Search.  The position of the first entry of a chain whose key is equal, *)
(* 0 for NULL.                                                             *)
(***************************************************************************)
ll_search(chain, key) ==
    IF \E i \in DOMAIN chain : chain[i].key = key
    THEN CHOOSE i \in DOMAIN chain :
            /\ chain[i].key = key
            /\ \A j \in DOMAIN chain : j < i => chain[j].key # key
    ELSE 0

\* h_get_entry looks only into the bucket the key hashes to.
h_get_entry(t, key) == ll_search(t[hash[key]], key)

h_get(t, key) ==
    LET i == h_get_entry(t, key)
    IN  IF i = 0 THEN NULL ELSE t[hash[key]][i].data

(***************************************************************************)
(* Insertion.  h_insert appends a new entry at the tail of its chain, or   *)
(* leaves the table alone when the chain holds the key.                    *)
(***************************************************************************)
CanInsert(t, key) == h_get_entry(t, key) = 0

\* Mutant: ll_insert without its search for a duplicate.
InsertDuplicate(t, key, data) ==
    [t EXCEPT ![hash[key]] = Append(@, Entry(key, data))]

\* Mutant: ll_insert that links the new node in front of the chain.
InsertAtHead(t, key, data) ==
    IF CanInsert(t, key)
    THEN [t EXCEPT ![hash[key]] = << Entry(key, data) >> \o @]
    ELSE t

h_insert(t, key, data) ==
    IF CanInsert(t, key)
    THEN [t EXCEPT ![hash[key]] = Append(@, Entry(key, data))]
    ELSE t

(***************************************************************************)
(* Removal.  An entry that has a predecessor is unlinked.  The head of a   *)
(* chain becomes a placeholder again (index = -1, next = NULL), and with   *)
(* its next pointer goes every entry behind it.                            *)
(***************************************************************************)
RemoveFromChain(chain, i) == IF i = 1 THEN << >> ELSE RemoveAt(chain, i)

\* Mutant: h_remove that frees the data and forgets to take the entry out.
RemoveWithoutUnlink(t, key) == t

\* Mutant: h_remove that cuts the chain at an interior entry as well.
RemoveTail(t, key) ==
    LET i == h_get_entry(t, key)
    IN  IF i = 0 THEN t
        ELSE [t EXCEPT ![hash[key]] = SubSeq(@, 1, i - 1)]

h_remove(t, key) ==
    LET i == h_get_entry(t, key)
    IN  IF i = 0 THEN t
        ELSE [t EXCEPT ![hash[key]] = RemoveFromChain(@, i)]

\* Mutant: h_remove that frees the data of a key it did not find.
FreeUnchecked(t, key) == {h_get(t, key)}

\* The data objects that h_remove hands to free().
FreedBy(t, key) == IF h_get(t, key) = NULL THEN {} ELSE {h_get(t, key)}

(***************************************************************************)
(* ht_to_list copies the data pointers, bucket by bucket and from head to  *)
(* tail.  The list is kept as one row per bucket: its order is that of the *)
(* buckets first and of the positions in a row second.                     *)
(***************************************************************************)
ht_to_list(t) == [b \in Bucket |-> [i \in DOMAIN t[b] |-> t[b][i].data]]

ListElements(list) == UNION {{list[b][i] : i \in DOMAIN list[b]} : b \in Bucket}

\* The tables whose entries point to data objects of D.
Tables(D) == [Bucket -> Seq([key : Key, data : D])]

(***************************************************************************)
(* Well-formed tables.  Every entry hangs in the bucket its key hashes to, *)
(* and no chain holds a key twice: h_get_entry searches one chain and      *)
(* takes the first match, so an entry that breaks this could be neither    *)
(* found nor removed.                                                      *)
(***************************************************************************)
WellPlaced(t) == \A b \in Bucket : \A i \in DOMAIN t[b] : hash[t[b][i].key] = b

UniqueKeys(t) ==
    \A b \in Bucket : \A i, j \in DOMAIN t[b] : t[b][i].key = t[b][j].key => i = j

WellFormed(t) == WellPlaced(t) /\ UniqueKeys(t)

\* The keys a table holds, and the data objects it points to.
KeysOf(t) == {k \in Key : h_get_entry(t, k) # 0}
DataOf(t) == ListElements(ht_to_list(t))
===========================================================================
