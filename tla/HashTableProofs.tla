-------------------------- MODULE HashTableProofs --------------------------
(***************************************************************************)
(* The invariants of HashTable for every set of keys and data, every       *)
(* number of buckets and every hash function.                              *)
(***************************************************************************)
EXTENDS HashTable, HashTableLemmas

-----------------------------------------------------------------------------
(* The type invariant and the shape of the chains are inductive together.   *)
ShapeInv == TypeOK /\ ChainInv

LEMMA ShapeInit == Init => ShapeInv
  BY DEF Init, ShapeInv, TypeOK, ChainInv, h_init, Tables, WellFormed,
     WellPlaced, UniqueKeys

LEMMA ShapeNext == ShapeInv /\ [Next]_vars => ShapeInv'
<1> SUFFICES ASSUME ShapeInv, [Next]_vars PROVE ShapeInv'
  OBVIOUS
<1> USE DEF ShapeInv, TypeOK, ChainInv
<1>1. ASSUME NEW k \in Key, NEW d \in Data, CallInsert(k, d) PROVE ShapeInv'
  BY <1>1, InsertFacts DEF CallInsert
<1>2. ASSUME NEW k \in Key, CallGet(k) PROVE ShapeInv'
  BY <1>2 DEF CallGet
<1>3. ASSUME NEW k \in Key, CallRemove(k) PROVE ShapeInv'
  <2>1. table' \in Tables(Data) /\ WellFormed(table')
    BY <1>3, RemoveFacts DEF CallRemove
  <2>2. FreedBy(table, k) \subseteq Data
    <3>1. FreedBy(table, k) = {} \/ FreedBy(table, k) = {h_get(table, k)}
      BY DEF FreedBy
    <3>2. h_get(table, k) = NULL \/ h_get(table, k) \in Data
      BY DataAssumption, GetFacts
    <3> QED BY <3>1, <3>2 DEF FreedBy
  <2> QED BY <1>3, <2>1, <2>2 DEF CallRemove
<1>4. CASE CallToList
  BY <1>4 DEF CallToList
<1>5. CASE UNCHANGED vars
  BY <1>5 DEF vars
<1> QED BY <1>1, <1>2, <1>3, <1>4, <1>5 DEF Next

LEMMA ShapeInvariant == Spec => []ShapeInv
  BY ShapeInit, ShapeNext, PTL DEF Spec

(* Every state of every run is well typed.                                  *)
THEOREM TypeCorrect == Spec => []TypeOK
  BY ShapeInvariant, PTL DEF ShapeInv

(* No sequence of operations misplaces or duplicates an entry.              *)
THEOREM ChainsWellFormed == Spec => []ChainInv
  BY ShapeInvariant, PTL DEF ShapeInv

-----------------------------------------------------------------------------
(* NoDangling is inductive on the tables of ShapeInv, because a caller      *)
(* inserts a data object once: freed objects are among the used ones.       *)
DanglingInv == NoDangling /\ freed \subseteq used

LEMMA DanglingInit == Init => DanglingInv
  BY DEF Init, DanglingInv, NoDangling, DataUsed, NoneFreed, Unshared, h_init

LEMMA InsertKeepsDangling ==
    ASSUME ShapeInv, DanglingInv, NEW k \in Key, NEW d \in Data, CallInsert(k, d)
    PROVE  DanglingInv'
<1>0. table \in Tables(Data) /\ WellFormed(table)
  BY DEF ShapeInv, TypeOK, ChainInv
<1>1. /\ table' = h_insert(table, k, d)
      /\ d \notin used /\ used' = used \cup {d} /\ freed' = freed
  BY DEF CallInsert
<1>2. \A b \in Bucket : \A i \in DOMAIN table'[b] :
        \/ i \in DOMAIN table[b] /\ table'[b][i] = table[b][i]
        \/ b = hash[k] /\ i = Len(table[b]) + 1 /\ table'[b][i].data = d
  <2> TAKE b \in Bucket
  <2> TAKE i \in DOMAIN table'[b]
  <2>1. CASE b # hash[k] \/ ~ CanInsert(table, k)
    BY <1>0, <1>1, <2>1, InsertFacts DEF h_insert
  <2>2. CASE b = hash[k] /\ CanInsert(table, k)
    <3>1. table[b] \in Seq([key : Key, data : Data])
      BY <1>0 DEF Tables
    <3>2. table'[b] = Append(table[b], Entry(k, d))
      BY <1>0, <1>1, <2>2, InsertFacts
    <3>3. Entry(k, d) \in [key : Key, data : Data] /\ Entry(k, d).data = d
      BY DEF Entry
    <3> QED BY <2>2, <3>1, <3>2, <3>3
  <2> QED BY <2>1, <2>2
<1>3. DataUsed' /\ NoneFreed' /\ freed' \subseteq used'
  BY <1>1, <1>2 DEF DanglingInv, NoDangling, DataUsed, NoneFreed
<1>4. Unshared'
  BY <1>1, <1>2 DEF DanglingInv, NoDangling, DataUsed, Unshared
<1> QED BY <1>3, <1>4 DEF DanglingInv, NoDangling

LEMMA RemoveKeepsDangling ==
    ASSUME ShapeInv, DanglingInv, NEW k \in Key, CallRemove(k)
    PROVE  DanglingInv'
<1> DEFINE p == h_get_entry(table, k)
<1>0. table \in Tables(Data) /\ WellFormed(table)
  BY DEF ShapeInv, TypeOK, ChainInv
<1>1. table' = h_remove(table, k) /\ used' = used /\ freed' = freed \cup FreedBy(table, k)
  BY DEF CallRemove
<1> HIDE DEF p
<1>5. table' \in Tables(Data)
  BY <1>0, <1>1, RemoveFacts
<1>6. \A b \in Bucket : table'[b] \in Seq([key : Key, data : Data])
  BY <1>5 DEF Tables
<1>2. CASE p = 0
  BY <1>1, <1>2 DEF p, h_remove, FreedBy, h_get, DanglingInv, NoDangling, DataUsed, NoneFreed,
     Unshared
<1>3. CASE p # 0
  <2>1. /\ hash[k] \in Bucket
        /\ table[hash[k]] \in Seq([key : Key, data : Data])
        /\ p \in DOMAIN table[hash[k]]
    <3>1. h_get_entry(table, k) # 0
      BY <1>3 DEF p
    <3> QED BY <1>0, <3>1, GetEntryFacts DEF p
  <2>2. FreedBy(table, k) \subseteq {table[hash[k]][p].data}
    BY <1>3 DEF FreedBy, h_get, p
  <2> DEFINE old(b, i) == IF b = hash[k] THEN OldPosition(i, p) ELSE i
  <2>3. \A b \in Bucket : \A i \in DOMAIN table'[b] :
          old(b, i) \in DOMAIN table[b] /\ table'[b][i] = table[b][old(b, i)]
    <3>1. h_get_entry(table, k) # 0
      BY <1>3 DEF p
    <3>2. /\ \A b \in Bucket : b # hash[k] => table'[b] = table[b]
          /\ \A i \in DOMAIN table'[hash[k]] :
               /\ OldPosition(i, p) \in DOMAIN table[hash[k]]
               /\ table'[hash[k]][i] = table[hash[k]][OldPosition(i, p)]
      BY <1>0, <1>1, <3>1, RemoveFacts DEF p
    <3> QED BY <3>2
  <2>4. \A b \in Bucket : \A i \in DOMAIN table'[b] : b = hash[k] => old(b, i) # p
    <3> SUFFICES ASSUME NEW i \in DOMAIN table'[hash[k]] PROVE OldPosition(i, p) # p
      OBVIOUS
    <3> QED BY <1>6, <2>1 DEF OldPosition
  <2>5. \A b \in Bucket : \A i, j \in DOMAIN table'[b] : old(b, i) = old(b, j) => i = j
    <3> SUFFICES ASSUME NEW b \in Bucket, NEW i \in DOMAIN table'[b], NEW j \in DOMAIN table'[b],
                        old(b, i) = old(b, j)
                 PROVE  i = j
      OBVIOUS
    <3> QED BY <1>6, <2>1 DEF OldPosition
  <2> HIDE DEF old
  <2>6. DataUsed'
    BY <1>1, <2>3 DEF DanglingInv, NoDangling, DataUsed
  <2>7. Unshared'
    BY <2>3, <2>5 DEF DanglingInv, NoDangling, Unshared
  <2>8. NoneFreed'
    <3> SUFFICES ASSUME NEW b \in Bucket, NEW i \in DOMAIN table'[b]
                 PROVE  table'[b][i].data \notin freed'
      BY DEF NoneFreed
    <3>1. table[b][old(b, i)].data # table[hash[k]][p].data
      BY <2>1, <2>3, <2>4 DEF DanglingInv, NoDangling, Unshared
    <3> QED BY <1>1, <2>2, <2>3, <3>1 DEF DanglingInv, NoDangling, NoneFreed
  <2>9. freed' \subseteq used'
    BY <1>1, <2>1, <2>2 DEF DanglingInv, NoDangling, DataUsed
  <2> QED BY <2>6, <2>7, <2>8, <2>9 DEF DanglingInv, NoDangling
<1> QED BY <1>2, <1>3

LEMMA DanglingNext == ShapeInv /\ DanglingInv /\ [Next]_vars => DanglingInv'
<1> SUFFICES ASSUME ShapeInv, DanglingInv, [Next]_vars PROVE DanglingInv'
  OBVIOUS
<1>1. ASSUME NEW k \in Key, NEW d \in Data, CallInsert(k, d) PROVE DanglingInv'
  BY <1>1, InsertKeepsDangling
<1>2. ASSUME NEW k \in Key, CallRemove(k) PROVE DanglingInv'
  BY <1>2, RemoveKeepsDangling
<1>3. CASE UNCHANGED <<table, freed, used>>
  BY <1>3 DEF DanglingInv, NoDangling, DataUsed, NoneFreed, Unshared
<1> QED BY <1>1, <1>2, <1>3 DEF Next, CallGet, CallToList, vars

(* The table never points to freed data, and no object is freed twice.      *)
THEOREM NeverDangling == Spec => []NoDangling
  BY ShapeInvariant, DanglingInit, DanglingNext, PTL DEF Spec, DanglingInv

-----------------------------------------------------------------------------
(* The refinement of the forgetful dictionary.                              *)

LEMMA RefinementInit == Init => Forgetful!Init
<1> SUFFICES ASSUME Init PROVE Forgetful!Init
  OBVIOUS
<1>1. \A k \in Key : h_get_entry(table, k) = 0
  BY HashAssumption DEF Init, h_init, h_get_entry, ll_search
<1> QED BY <1>1 DEF Init, Forgetful!Init, DictOf, OlderOf, ResultOf, h_get

LEMMA InsertRefines ==
    ASSUME ShapeInv, NEW k \in Key, NEW d \in Data, CallInsert(k, d)
    PROVE  Forgetful!Insert(k, d)
<1>1. table \in Tables(Data) /\ WellFormed(table) /\ NULL \notin Data
  BY DataAssumption DEF ShapeInv, TypeOK, ChainInv
<1>2. table' = h_insert(table, k, d) /\ result' = <<"insert", k, CanInsert(table, k)>>
  BY DEF CallInsert
<1>3. ResultOf' = <<"insert", k, CanInsert(table, k)>>
  BY <1>2 DEF ResultOf
<1>4. DictOf[k] = NULL <=> CanInsert(table, k)
  BY <1>1, GetFacts DEF DictOf
<1>5. CASE ~ CanInsert(table, k)
  <2>1. table' = table
    BY <1>2, <1>5 DEF h_insert
  <2>2. DictOf' = DictOf /\ OlderOf' = OlderOf
    BY <2>1 DEF DictOf, OlderOf
  <2>3. CanInsert(table, k) = FALSE
    BY <1>5, Zenon DEF CanInsert
  <2> QED BY <1>3, <1>4, <1>5, <2>2, <2>3 DEF Forgetful!Insert
<1>6. CASE CanInsert(table, k)
  <2>1. \A j \in Key : h_get(table', j) = IF j = k THEN d ELSE h_get(table, j)
    BY <1>1, <1>2, <1>6, GetAfterInsert
  <2>2. DictOf' = [DictOf EXCEPT ![k] = d]
    BY <2>1 DEF DictOf
  <2>3. \A j \in Key : h_get_entry(table', j) =
          IF j = k THEN Len(table[hash[k]]) + 1 ELSE h_get_entry(table, j)
    BY <1>1, <1>2, <1>6, EntryAfterInsert
  <2>4. \A j \in Key : /\ h_get_entry(table, j) \in 0 .. Len(table[hash[j]])
                       /\ Len(table[hash[j]]) \in Nat
                       /\ h_get_entry(table, j) = 0 <=> DictOf[j] = NULL
    <3> TAKE j \in Key
    <3>1. /\ table[hash[j]] \in Seq([key : Key, data : Data])
          /\ h_get_entry(table, j) \in 0 .. Len(table[hash[j]])
      BY <1>1, GetEntryFacts
    <3>2. DictOf[j] = NULL <=> CanInsert(table, j)
      BY <1>1, GetFacts DEF DictOf
    <3> QED BY <3>1, <3>2 DEF CanInsert
  <2>5. OlderOf' = OlderOf \cup
          {<<j, k>> : j \in {i \in Forgetful!Present : <<i, k>> \in SameBucket}}
    <3>1. ASSUME NEW i \in Key, NEW j \in Key
          PROVE  <<i, j>> \in OlderOf' <=>
                   \/ <<i, j>> \in OlderOf
                   \/ j = k /\ DictOf[i] # NULL /\ hash[i] = hash[k]
      <4>1. <<i, j>> \in OlderOf' <=> /\ hash[i] = hash[j]
                                      /\ h_get_entry(table', i) > 0
                                      /\ h_get_entry(table', i) < h_get_entry(table', j)
        BY DEF OlderOf
      <4>2. <<i, j>> \in OlderOf <=> /\ hash[i] = hash[j]
                                     /\ h_get_entry(table, i) > 0
                                     /\ h_get_entry(table, i) < h_get_entry(table, j)
        BY DEF OlderOf
      <4>3. h_get_entry(table, k) = 0
        BY <1>6 DEF CanInsert
      <4>4. CASE i # k /\ j # k
        BY <2>3, <4>1, <4>2, <4>4
      <4>5. CASE i # k /\ j = k
        BY <2>3, <2>4, <4>1, <4>2, <4>3, <4>5
      <4>6. CASE i = k /\ j # k
        BY <2>3, <2>4, <4>1, <4>2, <4>3, <4>6
      <4>7. CASE i = k /\ j = k
        BY <2>3, <2>4, <4>1, <4>2, <4>3, <4>7
      <4> QED BY <4>4, <4>5, <4>6, <4>7
    <3> DEFINE new == {<<j, k>> : j \in {i \in Forgetful!Present : <<i, k>> \in SameBucket}}
    <3>2. ASSUME NEW i \in Key, NEW j \in Key
          PROVE  <<i, j>> \in new <=> j = k /\ DictOf[i] # NULL /\ hash[i] = hash[k]
      <4> DEFINE S == {x \in Forgetful!Present : <<x, k>> \in SameBucket}
      <4>1. \A x : x \in S <=> x \in Key /\ DictOf[x] # NULL /\ hash[x] = hash[k]
        BY DEF Forgetful!Present, SameBucket
      <4>3. new = {<<x, k>> : x \in S}
        OBVIOUS
      <4> HIDE DEF S, new
      <4>2. <<i, j>> \in {<<x, k>> : x \in S} <=> i \in S /\ j = k
        OBVIOUS
      <4> QED BY <4>1, <4>2, <4>3
    <3>3. new \subseteq Key \X Key
      <4>1. \A j \in Forgetful!Present : <<j, k>> \in Key \X Key
        BY DEF Forgetful!Present
      <4> QED BY <4>1, Zenon
    <3>4. OlderOf \subseteq Key \X Key /\ OlderOf' \subseteq Key \X Key
      BY DEF OlderOf
    <3> HIDE DEF new
    <3>5. ASSUME NEW o \in Key \X Key
          PROVE  o \in OlderOf' <=> o \in OlderOf \/ o \in new
      <4>1. PICK i \in Key, j \in Key : o = <<i, j>>
        OBVIOUS
      <4> QED BY <3>1, <3>2, <4>1
    <3> QED BY <3>3, <3>4, <3>5 DEF new
  <2> QED BY <1>3, <1>4, <1>6, <2>2, <2>5 DEF Forgetful!Insert
<1> QED BY <1>5, <1>6

LEMMA LostIsForgotten ==
    ASSUME ShapeInv, NEW k \in Key, h_get_entry(table, k) # 0
    PROVE  Forgetful!Forgotten(k) = LostWith(table, k)
<1>1. table \in Tables(Data) /\ WellFormed(table)
  BY DEF ShapeInv, TypeOK, ChainInv
<1> DEFINE chain == table[hash[k]]
           p == h_get_entry(table, k)
<1>2. /\ chain \in Seq([key : Key, data : Data]) /\ hash[k] \in Bucket
      /\ p \in 0 .. Len(chain)
  BY <1>1, GetEntryFacts
<1>3. CASE p = 1
  <2>1. ~ \E j \in Key : <<j, k>> \in OlderOf
    <3> SUFFICES ASSUME NEW j \in Key, <<j, k>> \in OlderOf PROVE FALSE
      OBVIOUS
    <3>1. h_get_entry(table, j) \in Nat
      <4>1. /\ table[hash[j]] \in Seq([key : Key, data : Data])
            /\ h_get_entry(table, j) \in 0 .. Len(table[hash[j]])
        BY <1>1, GetEntryFacts
      <4> QED BY <4>1
    <3> QED BY <1>3, <3>1 DEF OlderOf
  <2> QED BY <1>3, <2>1 DEF Forgetful!Forgotten, SameBucket, LostWith
<1>4. CASE p # 1
  <2>1. p > 1 /\ 1 \in DOMAIN chain
    BY <1>2, <1>4
  <2> DEFINE j == chain[1].key
  <2>2. j \in Key
    <3>1. \A S : \A s \in Seq(S) : \A i \in DOMAIN s : s[i] \in S
      OBVIOUS
    <3>2. chain[1] \in [key : Key, data : Data]
      BY <1>2, <2>1, <3>1, Zenon
    <3> QED BY <3>2
  <2>3. hash[j] = hash[k]
    BY <1>1, <1>2, <2>1 DEF WellFormed, WellPlaced
  <2> HIDE DEF j
  <2>4. h_get_entry(table, j) = 1
    <3>1. \A i \in 1 .. Len(table[hash[j]]) :
            table[hash[j]][i].key = j => h_get_entry(table, j) = i
      BY <1>1, <2>2, GetEntryFacts
    <3>2. 1 \in 1 .. Len(table[hash[j]]) /\ table[hash[j]][1].key = j
      BY <1>2, <2>1, <2>3 DEF j
    <3> QED BY <3>1, <3>2
  <2>5. <<j, k>> \in OlderOf
    BY <2>1, <2>2, <2>3, <2>4 DEF OlderOf
  <2> QED BY <1>4, <2>2, <2>5 DEF Forgetful!Forgotten, LostWith
<1> QED BY <1>3, <1>4

LEMMA RemoveRefines ==
    ASSUME ShapeInv, NEW k \in Key, CallRemove(k)
    PROVE  Forgetful!Remove(k)
<1>1. table \in Tables(Data) /\ WellFormed(table) /\ NULL \notin Data
  BY DataAssumption DEF ShapeInv, TypeOK, ChainInv
<1>2. table' = h_remove(table, k) /\ result' = <<"remove", k, ~ CanInsert(table, k)>>
  BY DEF CallRemove
<1>3. ResultOf' = <<"remove", k, ~ CanInsert(table, k)>>
  BY <1>2 DEF ResultOf
<1>4. DictOf[k] = NULL <=> CanInsert(table, k)
  BY <1>1, GetFacts DEF DictOf
<1>5. CASE CanInsert(table, k)
  <2>1. table' = table
    BY <1>2, <1>5 DEF h_remove, CanInsert
  <2> QED BY <1>3, <1>4, <1>5, <2>1 DEF Forgetful!Remove, DictOf, OlderOf
<1>6. CASE ~ CanInsert(table, k)
  <2>0. h_get_entry(table, k) # 0
    BY <1>6 DEF CanInsert
  <2> DEFINE lost == LostWith(table, k)
  <2>1. Forgetful!Forgotten(k) = lost
    BY <2>0, LostIsForgotten
  <2>2. \A j \in Key : h_get(table', j) = IF j \in lost THEN NULL ELSE h_get(table, j)
    BY <1>1, <1>2, <2>0, GetAfterRemove
  <2>3. \A j \in Key : h_get_entry(table', j) =
          IF j \in lost THEN 0
          ELSE IF hash[j] = hash[k] /\ h_get_entry(table, j) > h_get_entry(table, k)
               THEN h_get_entry(table, j) - 1
               ELSE h_get_entry(table, j)
    BY <1>1, <1>2, <2>0, EntryAfterRemove
  <2>4. \A j \in Key : h_get_entry(table, j) \in Nat
    <3> TAKE j \in Key
    <3>1. /\ table[hash[j]] \in Seq([key : Key, data : Data])
          /\ h_get_entry(table, j) \in 0 .. Len(table[hash[j]])
      BY <1>1, GetEntryFacts
    <3> QED BY <3>1
  <2>5. k \in lost
    BY DEF LostWith
  <2>6. \A j \in Key : h_get_entry(table, j) = h_get_entry(table, k) /\ hash[j] = hash[k]
          => j = k
    <3> TAKE j \in Key
    <3>1. /\ h_get_entry(table, k) # 0 => table[hash[k]][h_get_entry(table, k)].key = k
          /\ h_get_entry(table, j) # 0 => table[hash[j]][h_get_entry(table, j)].key = j
      BY <1>1, GetEntryFacts
    <3> QED BY <2>0, <3>1
  <2> HIDE DEF lost
  <2>7. DictOf' = [j \in Key |-> IF j \in lost THEN NULL ELSE DictOf[j]]
    BY <2>2 DEF DictOf
  <2>8. OlderOf' = {o \in OlderOf : o[1] \notin lost /\ o[2] \notin lost}
    <3>1. ASSUME NEW i \in Key, NEW j \in Key
          PROVE  <<i, j>> \in OlderOf' <=>
                   <<i, j>> \in OlderOf /\ i \notin lost /\ j \notin lost
      <4>1. <<i, j>> \in OlderOf' <=> /\ hash[i] = hash[j]
                                      /\ h_get_entry(table', i) > 0
                                      /\ h_get_entry(table', i) < h_get_entry(table', j)
        BY DEF OlderOf
      <4>2. <<i, j>> \in OlderOf <=> /\ hash[i] = hash[j]
                                     /\ h_get_entry(table, i) > 0
                                     /\ h_get_entry(table, i) < h_get_entry(table, j)
        BY DEF OlderOf
      <4>3. h_get_entry(table', i) \in Nat /\ h_get_entry(table', j) \in Nat
        BY <2>0, <2>3, <2>4
      <4>4. CASE i \in lost \/ j \in lost
        BY <2>3, <4>1, <4>3, <4>4
      <4>5. CASE i \notin lost /\ j \notin lost
        <5>1. CASE hash[i] = hash[k] /\ hash[j] = hash[k]
          BY <2>0, <2>3, <2>4, <2>5, <2>6, <4>1, <4>2, <4>5, <5>1
        <5>2. CASE ~ (hash[i] = hash[k] /\ hash[j] = hash[k])
          BY <2>3, <4>1, <4>2, <4>5, <5>2
        <5> QED BY <5>1, <5>2
      <4> QED BY <4>4, <4>5
    <3> QED BY <3>1 DEF OlderOf
  <2> QED BY <1>3, <1>4, <1>6, <2>1, <2>7, <2>8 DEF Forgetful!Remove
<1> QED BY <1>5, <1>6

LEMMA ToListRefines ==
    ASSUME ShapeInv, CallToList
    PROVE  Forgetful!ToList
<1>1. table \in Tables(Data) /\ WellFormed(table) /\ NULL \notin Data
  BY DataAssumption DEF ShapeInv, TypeOK, ChainInv
<1>2. ResultOf' = <<"list", ListElements(ht_to_list(table))>>
  BY DEF CallToList, ResultOf
<1>3. ASSUME NEW b \in Bucket, NEW i \in DOMAIN table[b]
      PROVE  /\ table[b][i].key \in Key
             /\ DictOf[table[b][i].key] = table[b][i].data
             /\ table[b][i].data \in Data
  <2> DEFINE k == table[b][i].key
  <2>1. table[b] \in Seq([key : Key, data : Data])
    BY <1>1 DEF Tables
  <2>2. table[b][i] \in [key : Key, data : Data]
    <3>1. \A S : \A s \in Seq(S) : \A x \in DOMAIN s : s[x] \in S
      OBVIOUS
    <3> QED BY <2>1, <3>1, Zenon
  <2>3. k \in Key /\ hash[k] = b /\ i \in 1 .. Len(table[b]) /\ i # 0
    BY <1>1, <2>1, <2>2 DEF WellFormed, WellPlaced
  <2>4. \A x \in 1 .. Len(table[hash[k]]) :
          table[hash[k]][x].key = k => h_get_entry(table, k) = x
    BY <1>1, <2>3, GetEntryFacts
  <2>5. h_get_entry(table, k) = i
    BY <2>3, <2>4
  <2> QED BY <2>2, <2>3, <2>5 DEF DictOf, h_get
<1>4. ASSUME NEW k \in Key, DictOf[k] # NULL
      PROVE  \E b \in Bucket : \E i \in DOMAIN table[b] : DictOf[k] = table[b][i].data
  <2>1. h_get_entry(table, k) # 0 /\ DictOf[k] = table[hash[k]][h_get_entry(table, k)].data
    BY <1>4 DEF DictOf, h_get
  <2>2. /\ hash[k] \in Bucket
        /\ DOMAIN table[hash[k]] = 1 .. Len(table[hash[k]])
        /\ h_get_entry(table, k) \in 0 .. Len(table[hash[k]])
    BY <1>1, GetEntryFacts
  <2>3. h_get_entry(table, k) \in DOMAIN table[hash[k]]
    BY <2>1, <2>2
  <2> QED BY <2>1, <2>2, <2>3
<1>5. \A d : d \in ListElements(ht_to_list(table)) <=>
        \E b \in Bucket : \E i \in DOMAIN table[b] : d = table[b][i].data
  <2> DEFINE list == ht_to_list(table)
  <2>1. \A b \in Bucket : DOMAIN list[b] = DOMAIN table[b]
    BY DEF ht_to_list
  <2>2. \A b \in Bucket : \A i \in DOMAIN table[b] : list[b][i] = table[b][i].data
    BY DEF ht_to_list
  <2> HIDE DEF list
  <2>3. \A d : d \in ListElements(list) <=>
          \E b \in Bucket : \E i \in DOMAIN list[b] : d = list[b][i]
    BY DEF ListElements
  <2> QED BY <2>1, <2>2, <2>3 DEF list
<1>6. ListElements(ht_to_list(table)) = {DictOf[k] : k \in Forgetful!Present}
  <2>1. ASSUME NEW d, d \in ListElements(ht_to_list(table))
        PROVE  d \in {DictOf[k] : k \in Forgetful!Present}
    <3>1. PICK b \in Bucket : \E i \in DOMAIN table[b] : d = table[b][i].data
      BY <1>5, <2>1
    <3>2. PICK i \in DOMAIN table[b] : d = table[b][i].data
      BY <3>1
    <3>3. table[b][i].key \in Key /\ DictOf[table[b][i].key] = d /\ d # NULL
      BY <1>1, <1>3, <3>2
    <3> QED BY <3>3 DEF Forgetful!Present
  <2>2. ASSUME NEW d, d \in {DictOf[k] : k \in Forgetful!Present}
        PROVE  d \in ListElements(ht_to_list(table))
    <3>1. PICK k \in Key : DictOf[k] # NULL /\ d = DictOf[k]
      BY <2>2 DEF Forgetful!Present
    <3> QED BY <1>4, <1>5, <3>1
  <2> QED BY <2>1, <2>2
<1>7. UNCHANGED <<DictOf, OlderOf>>
  BY DEF CallToList, DictOf, OlderOf
<1> QED BY <1>2, <1>6, <1>7 DEF Forgetful!ToList

LEMMA RefinementNext == ShapeInv /\ [Next]_vars => [Forgetful!Next]_(Forgetful!dvars)
<1> SUFFICES ASSUME ShapeInv, [Next]_vars PROVE [Forgetful!Next]_(Forgetful!dvars)
  OBVIOUS
<1>1. ASSUME NEW k \in Key, NEW d \in Data, CallInsert(k, d) PROVE Forgetful!Next
  BY <1>1, InsertRefines DEF Forgetful!Next
<1>2. ASSUME NEW k \in Key, CallGet(k) PROVE Forgetful!Next
  <2>1. Forgetful!Get(k)
    BY <1>2 DEF CallGet, Forgetful!Get, DictOf, OlderOf, ResultOf
  <2> QED BY <2>1 DEF Forgetful!Next
<1>3. ASSUME NEW k \in Key, CallRemove(k) PROVE Forgetful!Next
  BY <1>3, RemoveRefines DEF Forgetful!Next
<1>4. CASE CallToList
  BY <1>4, ToListRefines DEF Forgetful!Next
<1>5. CASE UNCHANGED vars
  BY <1>5 DEF vars, Forgetful!dvars, DictOf, OlderOf, ResultOf
<1> QED BY <1>1, <1>2, <1>3, <1>4, <1>5 DEF Next

(* Every behaviour of the hash table is one of the forgetful dictionary.    *)
THEOREM ImplementsForgetfulDict == Spec => ForgetfulDict
  BY ShapeInvariant, RefinementInit, RefinementNext, PTL
  DEF Spec, ForgetfulDict, Forgetful!Spec
=============================================================================
