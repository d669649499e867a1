-------------------------- MODULE HashTableLemmas --------------------------
(***************************************************************************)
(* What the operators of HashTableOps preserve and return, for every key   *)
(* set, every number of buckets and every hash function.                   *)
(***************************************************************************)
EXTENDS HashTableOps, FiniteSetTheorems, TLAPS

(* RemoveAt takes one element out and keeps the order of the others.        *)
LEMMA RemoveAtFacts ==
    ASSUME NEW S, NEW s \in Seq(S), NEW i \in 1 .. Len(s)
    PROVE  /\ RemoveAt(s, i) \in Seq(S)
           /\ Len(RemoveAt(s, i)) = Len(s) - 1
           /\ \A j \in 1 .. Len(s) - 1 :
                RemoveAt(s, i)[j] = IF j < i THEN s[j] ELSE s[j + 1]
<1> DEFINE pre == SubSeq(s, 1, i - 1)
           post == SubSeq(s, i + 1, Len(s))
<1>1. /\ pre \in Seq(S) /\ Len(pre) = i - 1
      /\ \A j \in 1 .. i - 1 : pre[j] = s[j]
  OBVIOUS
<1>2. /\ post \in Seq(S) /\ Len(post) = Len(s) - i
      /\ \A j \in 1 .. Len(s) - i : post[j] = s[j + i]
  OBVIOUS
<1> HIDE DEF pre, post
<1>3. RemoveAt(s, i) = pre \o post
  BY DEF RemoveAt, pre, post
<1>4. RemoveAt(s, i) \in Seq(S) /\ Len(RemoveAt(s, i)) = Len(s) - 1
  BY <1>1, <1>2, <1>3
<1>5. ASSUME NEW j \in 1 .. Len(s) - 1
      PROVE  RemoveAt(s, i)[j] = IF j < i THEN s[j] ELSE s[j + 1]
  <2>1. CASE j < i
    BY <1>1, <1>2, <1>3, <2>1
  <2>2. CASE ~ (j < i)
    <3>1. j - (i - 1) \in 1 .. Len(s) - i
      BY <2>2
    <3>2. (pre \o post)[j] = post[j - (i - 1)]
      BY <1>1, <1>2, <2>2, <3>1
    <3>3. post[j - (i - 1)] = s[j + 1]
      BY <1>2, <3>1
    <3> QED BY <1>3, <2>2, <3>2, <3>3
  <2> QED BY <2>1, <2>2
<1> QED BY <1>4, <1>5

(* In a chain without duplicate keys, ll_search finds the one entry of a    *)
(* key, and nothing for any other key.                                      *)
LEMMA SearchFacts ==
    ASSUME NEW chain, NEW key, NEW n \in Nat, DOMAIN chain = 1 .. n,
           \A i, j \in DOMAIN chain : chain[i].key = chain[j].key => i = j
    PROVE  /\ ll_search(chain, key) \in 0 .. n
           /\ ll_search(chain, key) # 0 => chain[ll_search(chain, key)].key = key
           /\ \A i \in 1 .. n : chain[i].key = key => ll_search(chain, key) = i
<1>1. CASE \E i \in DOMAIN chain : chain[i].key = key
  <2>1. PICK i \in DOMAIN chain : chain[i].key = key
    BY <1>1
  <2>2. \A j \in DOMAIN chain : j < i => chain[j].key # key
    BY <2>1
  <2>3. /\ ll_search(chain, key) \in DOMAIN chain
        /\ chain[ll_search(chain, key)].key = key
    BY <1>1, <2>1, <2>2 DEF ll_search
  <2> QED BY <2>1, <2>3
<1>2. CASE ~ \E i \in DOMAIN chain : chain[i].key = key
  BY <1>2 DEF ll_search
<1> QED BY <1>1, <1>2

(* The same for h_get_entry on a well-formed table.                         *)
LEMMA GetEntryFacts ==
    ASSUME NEW D, NEW t \in Tables(D), WellFormed(t), NEW k \in Key
    PROVE  /\ hash[k] \in Bucket
           /\ t[hash[k]] \in Seq([key : Key, data : D])
           /\ DOMAIN t[hash[k]] = 1 .. Len(t[hash[k]])
           /\ h_get_entry(t, k) \in 0 .. Len(t[hash[k]])
           /\ h_get_entry(t, k) # 0 => t[hash[k]][h_get_entry(t, k)].key = k
           /\ \A i \in 1 .. Len(t[hash[k]]) :
                t[hash[k]][i].key = k => h_get_entry(t, k) = i
<1>1. hash[k] \in Bucket
  BY HashAssumption
<1>2. t[hash[k]] \in Seq([key : Key, data : D])
  BY <1>1 DEF Tables
<1>3. DOMAIN t[hash[k]] = 1 .. Len(t[hash[k]]) /\ Len(t[hash[k]]) \in Nat
  BY <1>2
<1>4. \A i, j \in DOMAIN t[hash[k]] : t[hash[k]][i].key = t[hash[k]][j].key => i = j
  BY <1>1 DEF WellFormed, UniqueKeys
<1> QED BY <1>1, <1>2, <1>3, <1>4, SearchFacts DEF h_get_entry

(* h_get returns NULL exactly for the keys that may be inserted, and         *)
(* h_remove frees the data of the entry it finds.                           *)
LEMMA GetFacts ==
    ASSUME NEW D, NULL \notin D, NEW t \in Tables(D), WellFormed(t), NEW k \in Key
    PROVE  /\ h_get(t, k) \in D \cup {NULL}
           /\ h_get(t, k) = NULL <=> CanInsert(t, k)
           /\ CanInsert(t, k) => FreedBy(t, k) = {}
           /\ ~ CanInsert(t, k) => FreedBy(t, k) = {t[hash[k]][h_get_entry(t, k)].data}
<1>1. CASE h_get_entry(t, k) = 0
  BY <1>1 DEF h_get, CanInsert, FreedBy
<1>2. CASE h_get_entry(t, k) # 0
  <2>1. t[hash[k]][h_get_entry(t, k)] \in [key : Key, data : D]
    <3>1. /\ t[hash[k]] \in Seq([key : Key, data : D])
          /\ h_get_entry(t, k) \in 0 .. Len(t[hash[k]])
      BY GetEntryFacts
    <3>2. \A S : \A s \in Seq(S) : \A i \in 1 .. Len(s) : s[i] \in S
      OBVIOUS
    <3>3. h_get_entry(t, k) \in 1 .. Len(t[hash[k]])
      BY <1>2, <3>1
    <3> QED BY <3>1, <3>2, <3>3, Zenon
  <2>2. h_get(t, k) = t[hash[k]][h_get_entry(t, k)].data
    BY <1>2 DEF h_get
  <2> QED BY <1>2, <2>1, <2>2 DEF CanInsert, FreedBy
<1> QED BY <1>1, <1>2

(* h_insert keeps the table well-formed and touches one chain, to which it  *)
(* appends the entry when the key is new.                                   *)
LEMMA InsertFacts ==
    ASSUME NEW D, NEW t \in Tables(D), WellFormed(t), NEW k \in Key, NEW d \in D
    PROVE  /\ h_insert(t, k, d) \in Tables(D)
           /\ WellFormed(h_insert(t, k, d))
           /\ \A b \in Bucket : b # hash[k] => h_insert(t, k, d)[b] = t[b]
           /\ CanInsert(t, k) =>
                h_insert(t, k, d)[hash[k]] = Append(t[hash[k]], Entry(k, d))
<1> DEFINE u == h_insert(t, k, d)
           chain == t[hash[k]]
           e == Entry(k, d)
<1>1. CASE ~ CanInsert(t, k)
  BY <1>1 DEF h_insert
<1>2. CASE CanInsert(t, k)
  <2>1. /\ hash[k] \in Bucket
        /\ chain \in Seq([key : Key, data : D])
        /\ \A i \in 1 .. Len(chain) : chain[i].key # k
    BY <1>2, GetEntryFacts, SMTT(30) DEF CanInsert
  <2>2. e \in [key : Key, data : D] /\ e.key = k
    BY DEF Entry
  <2> HIDE DEF e
  <2>3. /\ Append(chain, e) \in Seq([key : Key, data : D])
        /\ Len(Append(chain, e)) = Len(chain) + 1
        /\ \A i \in 1 .. Len(chain) : Append(chain, e)[i] = chain[i]
        /\ Append(chain, e)[Len(chain) + 1] = e
    BY <2>1, <2>2
  <2>4. u = [t EXCEPT ![hash[k]] = Append(chain, e)]
    BY <1>2 DEF h_insert, e
  <2> HIDE DEF u
  <2>5. u \in Tables(D)
    BY <2>1, <2>3, <2>4 DEF Tables
  <2>6. u[hash[k]] = Append(chain, e) /\ \A b \in Bucket : b # hash[k] => u[b] = t[b]
    BY <2>1, <2>4 DEF Tables
  <2>7. WellPlaced(u)
    <3> SUFFICES ASSUME NEW b \in Bucket, NEW i \in DOMAIN u[b]
                 PROVE  hash[u[b][i].key] = b
      BY DEF WellPlaced
    <3>1. CASE b # hash[k]
      BY <2>6, <3>1 DEF WellFormed, WellPlaced
    <3>2. CASE b = hash[k] /\ i \in 1 .. Len(chain)
      BY <2>1, <2>3, <2>6, <3>2 DEF WellFormed, WellPlaced
    <3>3. CASE b = hash[k] /\ i = Len(chain) + 1
      BY <2>2, <2>3, <2>6, <3>3
    <3> QED BY <2>1, <2>3, <2>6, <3>1, <3>2, <3>3
  <2>8. UniqueKeys(u)
    <3> SUFFICES ASSUME NEW b \in Bucket, NEW i \in DOMAIN u[b], NEW j \in DOMAIN u[b],
                        u[b][i].key = u[b][j].key
                 PROVE  i = j
      BY DEF UniqueKeys
    <3>1. CASE b # hash[k]
      BY <2>6, <3>1 DEF WellFormed, UniqueKeys
    <3>2. CASE b = hash[k]
      <4>1. DOMAIN u[b] = 1 .. Len(chain) + 1
        BY <2>1, <2>3, <2>6, <3>2
      <4>2. DOMAIN chain = 1 .. Len(chain) /\ Len(chain) \in Nat
        BY <2>1
      <4>3. CASE i \in 1 .. Len(chain) /\ j \in 1 .. Len(chain)
        BY <2>1, <2>3, <2>6, <3>2, <4>2, <4>3, SMTT(30) DEF WellFormed, UniqueKeys
      <4>4. CASE i = Len(chain) + 1 \/ j = Len(chain) + 1
        <5>1. \A x \in 1 .. Len(chain) : u[b][x].key # k
          BY <2>1, <2>3, <2>6, <3>2
        <5>2. u[b][Len(chain) + 1].key = k
          BY <2>2, <2>3, <2>6, <3>2
        <5>3. \A x : x \in 1 .. Len(chain) \/ x = Len(chain) + 1
              <=> x \in 1 .. Len(chain) + 1
          BY <4>2
        <5> QED BY <4>1, <4>4, <5>1, <5>2, <5>3
      <4>5. \A x : x \in 1 .. Len(chain) + 1 => x \in 1 .. Len(chain) \/ x = Len(chain) + 1
        <5> HIDE DEF chain
        <5> QED BY <4>2
      <4>6. i \in 1 .. Len(chain) + 1 /\ j \in 1 .. Len(chain) + 1
        BY <4>1, Zenon
      <4> QED BY <4>3, <4>4, <4>5, <4>6, Zenon
    <3> QED BY <3>1, <3>2
  <2> QED BY <1>2, <2>5, <2>6, <2>7, <2>8 DEF WellFormed, u, e
<1> QED BY <1>1, <1>2

(* Where an entry of the chain stood before RemoveFromChain took out        *)
(* element p.                                                               *)
OldPosition(i, p) == IF i < p THEN i ELSE i + 1

(* h_remove keeps the table well-formed, touches one chain, and leaves in   *)
(* it entries that were there before, in their order and without the key.   *)
LEMMA RemoveFacts ==
    ASSUME NEW D, NEW t \in Tables(D), WellFormed(t), NEW k \in Key
    PROVE  /\ h_remove(t, k) \in Tables(D)
           /\ WellFormed(h_remove(t, k))
           /\ \A b \in Bucket : b # hash[k] => h_remove(t, k)[b] = t[b]
           /\ h_get_entry(t, k) # 0 =>
                /\ Len(h_remove(t, k)[hash[k]]) =
                     IF h_get_entry(t, k) = 1 THEN 0 ELSE Len(t[hash[k]]) - 1
                /\ \A i \in DOMAIN h_remove(t, k)[hash[k]] :
                     /\ OldPosition(i, h_get_entry(t, k)) \in DOMAIN t[hash[k]]
                     /\ h_remove(t, k)[hash[k]][i] =
                          t[hash[k]][OldPosition(i, h_get_entry(t, k))]
<1> DEFINE u == h_remove(t, k)
           chain == t[hash[k]]
           p == h_get_entry(t, k)
<1>1. CASE p = 0
  BY <1>1 DEF h_remove
<1>2. CASE p # 0
  <2>1. /\ hash[k] \in Bucket
        /\ chain \in Seq([key : Key, data : D])
        /\ p \in 1 .. Len(chain)
    BY <1>2, GetEntryFacts
  <2> DEFINE rest == RemoveFromChain(chain, p)
  <2>2. u = [t EXCEPT ![hash[k]] = rest]
    BY <1>2 DEF h_remove
  <2> HIDE DEF u, p
  <2>3. /\ rest \in Seq([key : Key, data : D])
        /\ Len(rest) = IF p = 1 THEN 0 ELSE Len(chain) - 1
        /\ \A i \in 1 .. Len(rest) : /\ OldPosition(i, p) \in 1 .. Len(chain)
                                     /\ rest[i] = chain[OldPosition(i, p)]
    <3>1. CASE p = 1
      BY <2>1, <3>1 DEF RemoveFromChain
    <3>2. CASE p # 1
      <4>1. rest = RemoveAt(chain, p)
        BY <3>2 DEF RemoveFromChain
      <4>2. /\ rest \in Seq([key : Key, data : D])
            /\ Len(rest) = Len(chain) - 1
            /\ \A j \in 1 .. Len(chain) - 1 :
                 rest[j] = IF j < p THEN chain[j] ELSE chain[j + 1]
        BY <2>1, <4>1, RemoveAtFacts
      <4> HIDE DEF rest
      <4> QED BY <2>1, <3>2, <4>2 DEF OldPosition
    <3> QED BY <3>1, <3>2
  <2> HIDE DEF rest
  <2>4. u \in Tables(D)
    BY <2>1, <2>2, <2>3 DEF Tables
  <2>5. u[hash[k]] = rest /\ \A b \in Bucket : b # hash[k] => u[b] = t[b]
    BY <2>1, <2>2 DEF Tables
  <2>6. WellPlaced(u)
    <3> SUFFICES ASSUME NEW b \in Bucket, NEW i \in DOMAIN u[b]
                 PROVE  hash[u[b][i].key] = b
      BY DEF WellPlaced
    <3>1. CASE b # hash[k]
      BY <2>5, <3>1 DEF WellFormed, WellPlaced
    <3>2. CASE b = hash[k]
      <4>1. i \in 1 .. Len(rest)
        BY <2>3, <2>5, <3>2
      <4>2. OldPosition(i, p) \in DOMAIN chain /\ u[b][i] = chain[OldPosition(i, p)]
        BY <2>1, <2>3, <2>5, <3>2, <4>1
      <4> QED BY <3>2, <4>2 DEF WellFormed, WellPlaced
    <3> QED BY <3>1, <3>2
  <2>7. UniqueKeys(u)
    <3> SUFFICES ASSUME NEW b \in Bucket, NEW i \in DOMAIN u[b], NEW j \in DOMAIN u[b],
                        u[b][i].key = u[b][j].key
                 PROVE  i = j
      BY DEF UniqueKeys
    <3>1. CASE b # hash[k]
      BY <2>5, <3>1 DEF WellFormed, UniqueKeys
    <3>2. CASE b = hash[k]
      <4>1. i \in 1 .. Len(rest) /\ j \in 1 .. Len(rest)
        BY <2>3, <2>5, <3>2
      <4>2. OldPosition(i, p) \in DOMAIN chain /\ u[b][i] = chain[OldPosition(i, p)]
        BY <2>1, <2>3, <2>5, <3>2, <4>1, SMTT(30)
      <4>3. OldPosition(j, p) \in DOMAIN chain /\ u[b][j] = chain[OldPosition(j, p)]
        BY <2>1, <2>3, <2>5, <3>2, <4>1, SMTT(30)
      <4>4. OldPosition(i, p) = OldPosition(j, p)
        BY <3>2, <4>2, <4>3 DEF WellFormed, UniqueKeys
      <4> QED BY <2>1, <4>1, <4>4 DEF OldPosition
    <3> QED BY <3>1, <3>2
  <2>8. DOMAIN rest = 1 .. Len(rest) /\ DOMAIN chain = 1 .. Len(chain)
    BY <2>1, <2>3
  <2> QED BY <2>3, <2>4, <2>5, <2>6, <2>7, <2>8 DEF WellFormed, u, p
<1> QED BY <1>1, <1>2

(* After h_insert the new key is found at the tail, and every other key     *)
(* where it was.                                                            *)
LEMMA EntryAfterInsert ==
    ASSUME NEW D, NEW t \in Tables(D), WellFormed(t), NEW k \in Key, NEW d \in D,
           NEW j \in Key
    PROVE  h_get_entry(h_insert(t, k, d), j) =
             IF j = k /\ CanInsert(t, k) THEN Len(t[hash[k]]) + 1 ELSE h_get_entry(t, j)
<1> DEFINE u == h_insert(t, k, d)
<1>1. CASE ~ CanInsert(t, k)
  BY <1>1 DEF h_insert
<1>2. CASE CanInsert(t, k)
  <2>1. u \in Tables(D) /\ WellFormed(u)
    BY InsertFacts
  <2>2. /\ u[hash[k]] = Append(t[hash[k]], Entry(k, d))
        /\ \A b \in Bucket : b # hash[k] => u[b] = t[b]
    BY <1>2, InsertFacts
  <2> HIDE DEF u
  <2>3. /\ hash[k] \in Bucket /\ hash[j] \in Bucket
        /\ t[hash[k]] \in Seq([key : Key, data : D])
    BY GetEntryFacts
  <2>4. Entry(k, d) \in [key : Key, data : D] /\ Entry(k, d).key = k
    BY DEF Entry
  <2>5. /\ Len(u[hash[k]]) = Len(t[hash[k]]) + 1
        /\ \A i \in 1 .. Len(t[hash[k]]) : u[hash[k]][i] = t[hash[k]][i]
        /\ u[hash[k]][Len(t[hash[k]]) + 1].key = k
    BY <2>2, <2>3, <2>4
  <2>6. CASE j = k
    <3>1. Len(t[hash[k]]) + 1 \in 1 .. Len(u[hash[k]])
      BY <2>3, <2>5
    <3>2. \A i \in 1 .. Len(u[hash[k]]) :
            u[hash[k]][i].key = k => h_get_entry(u, k) = i
      BY <2>1, GetEntryFacts
    <3> QED BY <1>2, <2>5, <2>6, <3>1, <3>2 DEF u
  <2>7. CASE hash[j] # hash[k]
    <3>1. u[hash[j]] = t[hash[j]]
      BY <2>2, <2>3, <2>7
    <3> QED BY <2>7, <3>1 DEF h_get_entry, u
  <2>8. CASE j # k /\ hash[j] = hash[k]
    <3> DEFINE q == h_get_entry(u, j)
               r == h_get_entry(t, j)
    <3>1. /\ q \in 0 .. Len(u[hash[j]])
          /\ q # 0 => u[hash[j]][q].key = j
          /\ \A i \in 1 .. Len(u[hash[j]]) : u[hash[j]][i].key = j => q = i
      BY <2>1, GetEntryFacts
    <3>2. /\ r \in 0 .. Len(t[hash[j]])
          /\ r # 0 => t[hash[j]][r].key = j
          /\ \A i \in 1 .. Len(t[hash[j]]) : t[hash[j]][i].key = j => r = i
      BY GetEntryFacts
    <3> HIDE DEF q, r
    <3>3. q = r
      <4> DEFINE n == Len(t[hash[k]])
      <4>0. n \in Nat
        BY <2>3
      <4>1. CASE r # 0
        <5>1. r \in 1 .. n /\ r \in 1 .. Len(u[hash[j]]) /\ u[hash[j]][r].key = j
          BY <2>5, <2>8, <3>2, <4>0, <4>1
        <5> QED BY <3>1, <5>1
      <4>2. CASE r = 0
        <5>1. \A i \in 1 .. n : u[hash[j]][i].key # j
          BY <2>5, <2>8, <3>2, <4>0, <4>2
        <5>2. u[hash[j]][n + 1].key # j
          BY <2>5, <2>8
        <5>3. q \in 0 .. n + 1 /\ (q # 0 => u[hash[j]][q].key = j)
          BY <2>5, <2>8, <3>1
        <5>4. q \in 1 .. n \/ q = n + 1 \/ q = 0
          BY <4>0, <5>3
        <5> QED BY <4>2, <5>1, <5>2, <5>3, <5>4
      <4> QED BY <4>1, <4>2
    <3> QED BY <2>8, <3>3 DEF q, r, u
  <2> QED BY <2>6, <2>7, <2>8
<1> QED BY <1>1, <1>2

LEMMA GetAfterInsert ==
    ASSUME NEW D, NEW t \in Tables(D), WellFormed(t), NEW k \in Key, NEW d \in D,
           NEW j \in Key, NULL \notin D
    PROVE  h_get(h_insert(t, k, d), j) =
             IF j = k /\ CanInsert(t, k) THEN d ELSE h_get(t, j)
<1> DEFINE u == h_insert(t, k, d)
<1>1. CASE ~ CanInsert(t, k)
  BY <1>1 DEF h_insert
<1>2. CASE CanInsert(t, k)
  <2>1. h_get_entry(u, j) =
          IF j = k THEN Len(t[hash[k]]) + 1 ELSE h_get_entry(t, j)
    BY <1>2, EntryAfterInsert
  <2>2. /\ u[hash[k]] = Append(t[hash[k]], Entry(k, d))
        /\ \A b \in Bucket : b # hash[k] => u[b] = t[b]
    BY <1>2, InsertFacts
  <2> HIDE DEF u
  <2>3. /\ hash[k] \in Bucket /\ hash[j] \in Bucket
        /\ t[hash[k]] \in Seq([key : Key, data : D])
        /\ h_get_entry(t, j) \in 0 .. Len(t[hash[j]])
    BY GetEntryFacts
  <2>4. Entry(k, d) \in [key : Key, data : D] /\ Entry(k, d).data = d
    BY DEF Entry
  <2>5. /\ \A i \in 1 .. Len(t[hash[k]]) : u[hash[k]][i] = t[hash[k]][i]
        /\ u[hash[k]][Len(t[hash[k]]) + 1].data = d
        /\ Len(t[hash[k]]) \in Nat
    BY <2>2, <2>3, <2>4
  <2>6. CASE j = k
    BY <1>2, <2>1, <2>5, <2>6 DEF h_get, u
  <2>7. CASE j # k
    <3>1. h_get_entry(t, j) # 0 =>
            u[hash[j]][h_get_entry(t, j)] = t[hash[j]][h_get_entry(t, j)]
      BY <2>2, <2>3, <2>5
    <3> QED BY <2>1, <2>7, <3>1 DEF h_get, u
  <2> QED BY <2>6, <2>7
<1> QED BY <1>1, <1>2

(* The keys that h_remove(t, k) makes absent: k, and with the head of a     *)
(* chain everything behind it.                                              *)
LostWith(t, k) ==
    IF h_get_entry(t, k) = 1 THEN {j \in Key : hash[j] = hash[k]} ELSE {k}

(* After h_remove the lost keys are absent, and of the others only those    *)
(* behind the removed entry have moved, by one place.                       *)
LEMMA EntryAfterRemove ==
    ASSUME NEW D, NEW t \in Tables(D), WellFormed(t), NEW k \in Key, NEW j \in Key,
           h_get_entry(t, k) # 0
    PROVE  h_get_entry(h_remove(t, k), j) =
             IF j \in LostWith(t, k) THEN 0
             ELSE IF hash[j] = hash[k] /\ h_get_entry(t, j) > h_get_entry(t, k)
                  THEN h_get_entry(t, j) - 1
                  ELSE h_get_entry(t, j)
<1> DEFINE u == h_remove(t, k)
           p == h_get_entry(t, k)
           q == h_get_entry(u, j)
           r == h_get_entry(t, j)
<1>1. u \in Tables(D) /\ WellFormed(u)
  BY RemoveFacts
<1>2. /\ \A b \in Bucket : b # hash[k] => u[b] = t[b]
      /\ Len(u[hash[k]]) = IF p = 1 THEN 0 ELSE Len(t[hash[k]]) - 1
      /\ \A i \in DOMAIN u[hash[k]] :
           /\ OldPosition(i, p) \in DOMAIN t[hash[k]]
           /\ u[hash[k]][i] = t[hash[k]][OldPosition(i, p)]
  BY RemoveFacts
<1>3. /\ hash[k] \in Bucket /\ hash[j] \in Bucket
      /\ t[hash[k]] \in Seq([key : Key, data : D])
      /\ p \in 1 .. Len(t[hash[k]]) /\ t[hash[k]][p].key = k
      /\ \A i \in 1 .. Len(t[hash[k]]) : t[hash[k]][i].key = k => p = i
  BY GetEntryFacts
<1>4. CASE hash[j] # hash[k]
  <2>1. u[hash[j]] = t[hash[j]]
    BY <1>2, <1>3, <1>4
  <2>2. j \notin LostWith(t, k)
    BY <1>4 DEF LostWith
  <2> QED BY <1>4, <2>1, <2>2 DEF h_get_entry
<1>5. CASE hash[j] = hash[k]
  <2>1. /\ q \in 0 .. Len(u[hash[k]])
        /\ q # 0 => u[hash[k]][q].key = j
        /\ \A i \in 1 .. Len(u[hash[k]]) : u[hash[k]][i].key = j => q = i
    <3>1. /\ q \in 0 .. Len(u[hash[j]])
          /\ q # 0 => u[hash[j]][q].key = j
          /\ \A i \in 1 .. Len(u[hash[j]]) : u[hash[j]][i].key = j => q = i
      BY <1>1, GetEntryFacts
    <3> HIDE DEF q, u
    <3> QED BY <1>5, <3>1
  <2>2. /\ r \in 0 .. Len(t[hash[k]])
        /\ r # 0 => t[hash[k]][r].key = j
        /\ \A i \in 1 .. Len(t[hash[k]]) : t[hash[k]][i].key = j => r = i
    <3>1. /\ r \in 0 .. Len(t[hash[j]])
          /\ r # 0 => t[hash[j]][r].key = j
          /\ \A i \in 1 .. Len(t[hash[j]]) : t[hash[j]][i].key = j => r = i
      BY GetEntryFacts
    <3> HIDE DEF r
    <3> QED BY <1>5, <3>1
  <2>3. DOMAIN u[hash[k]] = 1 .. Len(u[hash[k]]) /\ DOMAIN t[hash[k]] = 1 .. Len(t[hash[k]])
    BY <1>1, <1>3, GetEntryFacts
  <2>4. j \in LostWith(t, k) <=> (p = 1 \/ j = k)
    BY <1>5 DEF LostWith
  <2>5. Len(t[hash[k]]) \in Nat
    BY <1>3
  <2> HIDE DEF p, q, r, u
  <2>6. CASE p = 1
    BY <1>2, <2>1, <2>4, <2>6 DEF p, q, u
  <2>7. CASE p # 1 /\ j = k
    <3>1. \A i \in DOMAIN u[hash[k]] : u[hash[k]][i].key # k
      <4> SUFFICES ASSUME NEW i \in DOMAIN u[hash[k]], u[hash[k]][i].key = k
                   PROVE  FALSE
        OBVIOUS
      <4>1. /\ OldPosition(i, p) \in 1 .. Len(t[hash[k]])
            /\ t[hash[k]][OldPosition(i, p)].key = k
        BY <1>2, <2>3
      <4>2. OldPosition(i, p) = p
        BY <1>3, <4>1
      <4>3. i \in Nat /\ p \in Nat
        BY <1>3, <2>3, <2>5
      <4> QED BY <4>2, <4>3 DEF OldPosition
    <3>2. q = 0
      BY <2>1, <2>3, <2>7, <3>1
    <3> QED BY <2>4, <2>7, <3>2 DEF p, q, u
  <2>8. CASE p # 1 /\ j # k
    <3> DEFINE new == IF r > p THEN r - 1 ELSE r
    <3>1. r # p
      BY <1>3, <2>2, <2>8
    <3>2. CASE r # 0
      <4>1. new \in DOMAIN u[hash[k]] /\ OldPosition(new, p) = r
        BY <1>2, <1>3, <2>2, <2>3, <2>5, <2>8, <3>1, <3>2 DEF OldPosition
      <4>2. u[hash[k]][new].key = j
        BY <1>2, <2>2, <3>2, <4>1
      <4> HIDE DEF new
      <4>3. q = new
        BY <2>1, <2>3, <4>1, <4>2
      <4> QED BY <1>5, <2>4, <2>8, <4>3 DEF new, p, q, r, u
    <3>3. CASE r = 0
      <4>1. q = 0
        BY <1>2, <2>1, <2>2, <2>3, <3>3
      <4>2. ~ (r > p)
        BY <1>3, <2>5, <3>3
      <4> QED BY <2>4, <2>8, <3>3, <4>1, <4>2 DEF p, q, r, u
    <3> QED BY <3>2, <3>3
  <2> QED BY <2>6, <2>7, <2>8
<1> QED BY <1>4, <1>5

LEMMA GetAfterRemove ==
    ASSUME NEW D, NEW t \in Tables(D), WellFormed(t), NEW k \in Key, NEW j \in Key,
           h_get_entry(t, k) # 0
    PROVE  h_get(h_remove(t, k), j) =
             IF j \in LostWith(t, k) THEN NULL ELSE h_get(t, j)
<1> DEFINE u == h_remove(t, k)
           p == h_get_entry(t, k)
           q == h_get_entry(u, j)
           r == h_get_entry(t, j)
<1>1. q = IF j \in LostWith(t, k) THEN 0
          ELSE IF hash[j] = hash[k] /\ r > p THEN r - 1 ELSE r
  BY EntryAfterRemove
<1>2. /\ \A b \in Bucket : b # hash[k] => u[b] = t[b]
      /\ \A i \in DOMAIN u[hash[k]] :
           /\ OldPosition(i, p) \in DOMAIN t[hash[k]]
           /\ u[hash[k]][i] = t[hash[k]][OldPosition(i, p)]
  BY RemoveFacts
<1>3. /\ hash[k] \in Bucket /\ hash[j] \in Bucket
      /\ Len(t[hash[k]]) \in Nat
      /\ p \in 1 .. Len(t[hash[k]]) /\ t[hash[k]][p].key = k
  <2>1. /\ hash[k] \in Bucket /\ hash[j] \in Bucket
        /\ t[hash[k]] \in Seq([key : Key, data : D])
        /\ p \in 0 .. Len(t[hash[k]]) /\ t[hash[k]][p].key = k
    BY GetEntryFacts
  <2> HIDE DEF p
  <2>2. p # 0
    BY DEF p
  <2> QED BY <2>1, <2>2
<1>4. /\ r \in 0 .. Len(t[hash[j]])
      /\ r # 0 => t[hash[j]][r].key = j
      /\ q \in 0 .. Len(u[hash[j]])
      /\ DOMAIN u[hash[j]] = 1 .. Len(u[hash[j]])
  <2>1. u \in Tables(D) /\ WellFormed(u)
    BY RemoveFacts
  <2> HIDE DEF u
  <2> QED BY <2>1, GetEntryFacts
<1> HIDE DEF p, q, r, u
<1>5. CASE j \in LostWith(t, k)
  BY <1>1, <1>5 DEF h_get, q, u
<1>6. CASE j \notin LostWith(t, k)
  <2>1. CASE r = 0
    BY <1>1, <1>3, <1>6, <2>1 DEF h_get, q, r, u
  <2>2. CASE r # 0
    <3>1. j # k
      BY <1>6 DEF LostWith
    <3>2. hash[j] = hash[k] => r # p
      BY <1>3, <1>4, <2>2, <3>1
    <3>3. q # 0 /\ u[hash[j]][q] = t[hash[j]][r]
      <4>1. CASE hash[j] # hash[k]
        BY <1>1, <1>2, <1>3, <1>6, <2>2, <4>1
      <4>2. CASE hash[j] = hash[k]
        <5>1. q # 0 /\ OldPosition(q, p) = r
          BY <1>1, <1>3, <1>4, <1>6, <2>2, <3>2, <4>2 DEF OldPosition
        <5>2. q \in DOMAIN u[hash[k]]
          BY <1>3, <1>4, <4>2, <5>1
        <5> QED BY <1>2, <4>2, <5>1, <5>2
      <4> QED BY <4>1, <4>2
    <3> QED BY <1>6, <2>2, <3>3 DEF h_get, q, r, u
  <2> QED BY <2>1, <2>2
<1> QED BY <1>5, <1>6
===========================================================================
