------------------------- MODULE SymbolTableProofs -------------------------
(***************************************************************************)
(* Deleting a scope neither loses nor frees an open declaration and leaves *)
(* no local behind, for any names, any symbols, any nesting and any hash   *)
(* function, although h_remove loses whole chains.                         *)
(***************************************************************************)
EXTENDS SymbolTable, HashTableLemmas

(***************************************************************************)
(* The inductive invariant.  In every chain the symbols that delete_scope  *)
(* removes are behind the ones that stay (Sorted), so that what is lost    *)
(* with a head is to be removed anyway; there are none of them outside of  *)
(* a function's body (NoLocals).  During the deletion the copy of the      *)
(* pointers names each symbol once, and what is still to be removed is     *)
(* ahead of the cursor, where nothing has been freed (Deletion).           *)
(***************************************************************************)
KeyOf(h, s) == gen_key(h[s].name, h[s].scope)

Deletable(h, s) == ~ SkippedByDelete(h[s], 1)

Matching(t, h, d) ==
    \A b \in Bucket : \A i \in DOMAIN t[b] :
        t[b][i].data \in d /\ t[b][i].key = KeyOf(h, t[b][i].data)

Unfreed(t, f) == \A b \in Bucket : \A i \in DOMAIN t[b] : t[b][i].data \notin f

Sorted(t, h) ==
    \A b \in Bucket : \A i, j \in DOMAIN t[b] :
        i < j /\ Deletable(h, t[b][i].data) => Deletable(h, t[b][j].data)

NoLocals(t, h) == \A b \in Bucket : \A i \in DOMAIN t[b] : ~ Deletable(h, t[b][i].data)

\* The live symbols are found.
Found(t, h, d) == \A s \in d : h_get(t, KeyOf(h, s)) = s

\* Position i of row b is not behind the cursor.
Ahead(b, i, c) == b > c[1] \/ (b = c[1] /\ i >= c[2])

\* Every symbol of the copy exists and is there once.
Copied(l, h) ==
    /\ \A b \in Bucket : \A i \in DOMAIN l[b] : l[b][i] \in DOMAIN h
    /\ \A b, c \in Bucket : \A i \in DOMAIN l[b], j \in DOMAIN l[c] :
          KeyOf(h, l[b][i]) = KeyOf(h, l[c][j]) => b = c /\ i = j

\* Nothing ahead of the cursor has been freed.
UnfreedAhead(l, c, f) ==
    \A b \in Bucket : \A i \in DOMAIN l[b] : Ahead(b, i, c) => l[b][i] \notin f

\* What is still to be removed lies ahead of the cursor.
StillToRemove(t, h, l, c) ==
    \A b \in Bucket : \A i \in DOMAIN t[b] : Deletable(h, t[b][i].data) =>
        \E r \in Bucket : \E j \in DOMAIN l[r] : Ahead(r, j, c) /\ l[r][j] = t[b][i].data

\* What is in the table is in the copy.
InCopy(t, l) ==
    \A b \in Bucket : \A i \in DOMAIN t[b] :
        \E r \in Bucket : \E j \in DOMAIN l[r] : l[r][j] = t[b][i].data

Deletion ==
    pc = "delete" =>
        /\ Copied(list, heap)
        /\ UnfreedAhead(list, cursor, freed)
        /\ StillToRemove(symtab, heap, list, cursor)
        /\ InCopy(symtab, list)
        /\ \A s \in declared : heap[s].scope >= 1 => s \in dead

Phase ==
    /\ pc \in {"top", "params", "insert"} => NoLocals(symtab, heap)
    /\ pc \in {"top", "params", "decls", "stmts", "delete"} => Sorted(symtab, heap)
    /\ pc \in {"top", "delete", "insert"} => cur_scope = 0
    /\ pc \in {"params", "decls", "stmts"} => cur_scope >= 1
    /\ pc \in {"params", "decls", "stmts", "delete", "insert"} =>
          fn \in DOMAIN heap /\ heap[fn].scope = 0

IInv ==
    /\ TypeOK
    /\ WellFormed(symtab)
    /\ Matching(symtab, heap, declared)
    /\ Found(symtab, heap, declared \ dead)
    /\ freed \subseteq dead
    /\ \A s \in dead : heap[s].scope >= 1
    /\ Unfreed(symtab, freed)
    /\ Phase
    /\ Deletion

-----------------------------------------------------------------------------
(* What the operations do to a table of symbols.                            *)

LEMMA InitTable ==
    /\ h_init \in Tables(Symbol)
    /\ \A b \in Bucket : h_init[b] = << >> /\ DOMAIN h_init[b] = {}
    /\ ht_to_list(h_init) \in [Bucket -> Seq(Symbol)]
    /\ 0 \in Bucket
<1>1. \A b \in Bucket : h_init[b] = << >> /\ DOMAIN h_init[b] = {}
  BY DEF h_init
<1>2. h_init \in Tables(Symbol)
  BY DEF h_init, Tables
<1>3. ht_to_list(h_init) = [b \in Bucket |-> << >>]
  BY <1>1 DEF ht_to_list
<1> QED BY <1>1, <1>2, <1>3, HashAssumption DEF Bucket

\* The entries of a table have keys and symbols, and the chains are sequences.
LEMMA ChainFacts ==
    ASSUME NEW t \in Tables(Symbol), NEW b \in Bucket
    PROVE  /\ Len(t[b]) \in Nat
           /\ DOMAIN t[b] = 1 .. Len(t[b])
           /\ \A i \in DOMAIN t[b] : t[b][i].key \in Key /\ t[b][i].data \in Symbol
<1>1. t[b] \in Seq([key : Key, data : Symbol])
  BY DEF Tables
<1>2. DOMAIN t[b] = 1 .. Len(t[b]) /\ Len(t[b]) \in Nat
  BY <1>1
<1>3. \A i \in DOMAIN t[b] : t[b][i] \in [key : Key, data : Symbol]
  <2> DEFINE R == [key : Key, data : Symbol]
             chain == t[b]
  <2> HIDE DEF R, chain
  <2>1. chain \in Seq(R)
    BY <1>1 DEF R, chain
  <2>2. \A i \in DOMAIN chain : chain[i] \in R
    BY <2>1
  <2> QED BY <2>2 DEF R, chain
<1> QED BY <1>2, <1>3

\* Insertion of a new key adds one entry behind the others of its chain.
LEMMA Inserted ==
    ASSUME NEW t \in Tables(Symbol), WellFormed(t), NEW k \in Key, NEW s \in Symbol,
           CanInsert(t, k), NEW b \in Bucket
    PROVE  /\ DOMAIN t[b] \subseteq DOMAIN h_insert(t, k, s)[b]
           /\ \A i \in DOMAIN h_insert(t, k, s)[b] :
                \/ i \in DOMAIN t[b] /\ h_insert(t, k, s)[b][i] = t[b][i]
                \/ /\ h_insert(t, k, s)[b][i].key = k
                   /\ h_insert(t, k, s)[b][i].data = s
                   /\ \A j \in DOMAIN t[b] : j < i
<1> DEFINE u == h_insert(t, k, s)
<1>1. CASE b # hash[k]
  BY <1>1, InsertFacts
<1>2. CASE b = hash[k]
  <2>1. u[b] = Append(t[b], Entry(k, s))
    BY <1>2, InsertFacts
  <2>2. t[b] \in Seq([key : Key, data : Symbol]) /\ Entry(k, s) \in [key : Key, data : Symbol]
    BY DEF Tables, Entry
  <2>3. /\ DOMAIN u[b] = 1 .. Len(t[b]) + 1
        /\ \A i \in 1 .. Len(t[b]) : u[b][i] = t[b][i]
        /\ u[b][Len(t[b]) + 1] = Entry(k, s)
        /\ Len(t[b]) \in Nat
    BY <2>1, <2>2
  <2>4. Entry(k, s).key = k /\ Entry(k, s).data = s
    BY DEF Entry
  <2> QED BY <2>3, <2>4, ChainFacts
<1> QED BY <1>1, <1>2

\* Removal leaves entries of the table, in their order, and not the key.
LEMMA Removed ==
    ASSUME NEW t \in Tables(Symbol), WellFormed(t), NEW k \in Key,
           NEW b \in Bucket, NEW i \in DOMAIN h_remove(t, k)[b]
    PROVE  /\ h_remove(t, k)[b][i].key # k
           /\ \E m \in DOMAIN t[b] : h_remove(t, k)[b][i] = t[b][m]
           /\ \A j \in DOMAIN h_remove(t, k)[b] : i < j =>
                \E m, n \in DOMAIN t[b] :
                    m < n /\ h_remove(t, k)[b][i] = t[b][m] /\ h_remove(t, k)[b][j] = t[b][n]
<1> DEFINE u == h_remove(t, k)
           p == h_get_entry(t, k)
<1>1. /\ hash[k] \in Bucket
      /\ p \in Nat
      /\ p # 0 => p \in DOMAIN t[hash[k]] /\ t[hash[k]][p].key = k
      /\ \A j \in DOMAIN t[hash[k]] : t[hash[k]][j].key = k => p = j
      /\ DOMAIN t[hash[k]] = 1 .. Len(t[hash[k]])
      /\ Len(t[hash[k]]) \in Nat
  <2>1. /\ hash[k] \in Bucket
        /\ p \in 0 .. Len(t[hash[k]])
        /\ p # 0 => t[hash[k]][p].key = k
        /\ \A j \in 1 .. Len(t[hash[k]]) : t[hash[k]][j].key = k => p = j
    BY GetEntryFacts
  <2>2. DOMAIN t[hash[k]] = 1 .. Len(t[hash[k]]) /\ Len(t[hash[k]]) \in Nat
    BY <2>1, ChainFacts
  <2> QED BY <2>1, <2>2
<1>2. u \in Tables(Symbol) /\ WellFormed(u)
  BY RemoveFacts
<1>3. DOMAIN u[b] = 1 .. Len(u[b]) /\ Len(u[b]) \in Nat
  BY <1>2, ChainFacts
<1>4. CASE b # hash[k] \/ p = 0
  <2>1. u[b] = t[b]
    <3>1. CASE b # hash[k]
      BY <3>1, RemoveFacts
    <3>2. CASE p = 0
      BY <3>2 DEF h_remove
    <3> QED BY <1>4, <3>1, <3>2
  <2>2. u[b][i].key # k
    <3>1. CASE b # hash[k]
      BY <1>2, <3>1 DEF WellFormed, WellPlaced
    <3>2. CASE b = hash[k] /\ p = 0
      BY <1>1, <2>1, <3>2
    <3> QED BY <1>4, <3>1, <3>2
  <2> QED BY <2>1, <2>2
<1>5. CASE b = hash[k] /\ p # 0
  <2>1. \A j \in DOMAIN u[b] : /\ OldPosition(j, p) \in DOMAIN t[b]
                               /\ u[b][j] = t[b][OldPosition(j, p)]
    BY <1>5, RemoveFacts
  <2>2. OldPosition(i, p) # p /\ \A j \in DOMAIN u[b] : i < j => OldPosition(i, p) < OldPosition(j, p)
    BY <1>1, <1>3 DEF OldPosition
  <2>3. u[b][i].key # k
    BY <1>1, <1>5, <2>1, <2>2
  <2> QED BY <2>1, <2>2, <2>3
<1> QED BY <1>4, <1>5

\* A symbol that is in the table under its key.
LEMMA GotFromChain ==
    ASSUME NEW t \in Tables(Symbol), WellFormed(t), NEW k \in Key, h_get(t, k) # NULL
    PROVE  /\ hash[k] \in Bucket
           /\ h_get_entry(t, k) \in DOMAIN t[hash[k]]
           /\ t[hash[k]][h_get_entry(t, k)].key = k
           /\ t[hash[k]][h_get_entry(t, k)].data = h_get(t, k)
           /\ h_get(t, k) \in Symbol
           /\ ~ CanInsert(t, k)
<1>1. h_get_entry(t, k) # 0
  BY DEF h_get
<1>2. /\ hash[k] \in Bucket
      /\ h_get_entry(t, k) \in 0 .. Len(t[hash[k]])
      /\ t[hash[k]][h_get_entry(t, k)].key = k
      /\ DOMAIN t[hash[k]] = 1 .. Len(t[hash[k]])
      /\ Len(t[hash[k]]) \in Nat
  BY <1>1, GetEntryFacts, ChainFacts
<1>3. h_get_entry(t, k) \in DOMAIN t[hash[k]]
  BY <1>1, <1>2
<1> QED BY <1>1, <1>2, <1>3, ChainFacts DEF h_get, CanInsert

-----------------------------------------------------------------------------
(* What they do to the parts of the invariant.                              *)

\* A new key: its symbol has to come behind those that stay.
LEMMA InsertKeeps ==
    ASSUME NEW t \in Tables(Symbol), WellFormed(t), NEW h, NEW d, NEW s \in Symbol,
           KeyOf(h, s) \in Key, CanInsert(t, KeyOf(h, s)), Matching(t, h, d),
           NEW u, u = h_insert(t, KeyOf(h, s), s)
    PROVE  /\ u \in Tables(Symbol) /\ WellFormed(u)
           /\ Matching(u, h, d \cup {s})
           /\ \A f : Unfreed(t, f) /\ s \notin f => Unfreed(u, f)
           /\ NoLocals(t, h) /\ ~ Deletable(h, s) => NoLocals(u, h)
           /\ Sorted(t, h) /\ (Deletable(h, s) \/ NoLocals(t, h)) => Sorted(u, h)
           /\ \A live : Found(t, h, live) /\ live \subseteq Symbol
                         /\ (\A x \in live : KeyOf(h, x) \in Key)
                => Found(u, h, live \cup {s})
<1> DEFINE k == KeyOf(h, s)
<1>1. u \in Tables(Symbol) /\ WellFormed(u)
  BY InsertFacts
<1>2. \A b \in Bucket :
        /\ DOMAIN t[b] \subseteq DOMAIN u[b]
        /\ \A i \in DOMAIN u[b] : \/ i \in DOMAIN t[b] /\ u[b][i] = t[b][i]
                                 \/ /\ u[b][i].key = k /\ u[b][i].data = s
                                    /\ \A j \in DOMAIN t[b] : j < i
  BY Inserted
<1>3. Matching(u, h, d \cup {s})
  BY <1>2 DEF Matching
<1>4. ASSUME NEW f, Unfreed(t, f), s \notin f
      PROVE  Unfreed(u, f)
  BY <1>2, <1>4 DEF Unfreed
<1>5. ASSUME NoLocals(t, h), ~ Deletable(h, s)
      PROVE  NoLocals(u, h)
  BY <1>2, <1>5 DEF NoLocals
<1>6. ASSUME Sorted(t, h), Deletable(h, s) \/ NoLocals(t, h)
      PROVE  Sorted(u, h)
  <2> SUFFICES ASSUME NEW b \in Bucket, NEW i \in DOMAIN u[b], NEW j \in DOMAIN u[b],
                      i < j, Deletable(h, u[b][i].data)
               PROVE  Deletable(h, u[b][j].data)
    BY DEF Sorted
  <2>1. i \in Nat /\ j \in Nat /\ \A m \in DOMAIN t[b] : m \in Nat
    BY <1>1, ChainFacts
  <2>2. CASE j \in DOMAIN t[b] /\ u[b][j] = t[b][j]
    <3>1. i \in DOMAIN t[b] /\ u[b][i] = t[b][i]
      BY <1>2, <2>1, <2>2
    <3> QED BY <1>6, <2>2, <3>1 DEF Sorted
  <2>3. CASE u[b][j].data = s /\ \A m \in DOMAIN t[b] : m < j
    <3>1. CASE Deletable(h, s)
      BY <2>3, <3>1
    <3>2. CASE NoLocals(t, h) /\ ~ Deletable(h, s)
      <4>1. i \notin DOMAIN t[b] \/ u[b][i] # t[b][i]
        BY <3>2 DEF NoLocals
      <4> QED BY <1>2, <3>2, <4>1
    <3> QED BY <1>6, <3>1, <3>2
  <2> QED BY <1>2, <2>2, <2>3
<1>7. ASSUME NEW live, Found(t, h, live), live \subseteq Symbol,
             \A x \in live : KeyOf(h, x) \in Key
      PROVE  Found(u, h, live \cup {s})
  <2> SUFFICES ASSUME NEW x \in live \cup {s}
               PROVE  h_get(u, KeyOf(h, x)) = x
    BY DEF Found
  <2>1. KeyOf(h, x) \in Key
    BY <1>7
  <2>2. h_get(u, KeyOf(h, x)) = IF KeyOf(h, x) = k THEN s ELSE h_get(t, KeyOf(h, x))
    BY <2>1, GetAfterInsert, SymbolAssumption
  <2>3. CASE x = s
    BY <2>2, <2>3
  <2>4. CASE x # s
    <3>1. h_get(t, KeyOf(h, x)) = x /\ x # NULL
      BY <1>7, <2>4, SymbolAssumption DEF Found
    <3>2. KeyOf(h, x) # k
      BY <2>1, <3>1, GotFromChain
    <3> QED BY <2>2, <3>1, <3>2
  <2> QED BY <2>3, <2>4
<1> QED BY <1>1, <1>3, <1>4, <1>5, <1>6, <1>7

\* The symbols of a set keep their fields when others are created.
LEMMA HeapKeeps ==
    ASSUME NEW t, NEW h, NEW g, NEW d, Matching(t, h, d),
           \A x \in d : g[x].name = h[x].name /\ g[x].scope = h[x].scope
    PROVE  /\ Matching(t, g, d)
           /\ \A live : live \subseteq d /\ Found(t, h, live) => Found(t, g, live)
           /\ (\A x \in d : Deletable(g, x) <=> Deletable(h, x)) =>
                /\ NoLocals(t, h) => NoLocals(t, g)
                /\ Sorted(t, h) => Sorted(t, g)
<1>1. \A x \in d : KeyOf(g, x) = KeyOf(h, x)
  BY DEF KeyOf
<1>2. Matching(t, g, d)
  BY <1>1 DEF Matching
<1>3. \A live : live \subseteq d /\ Found(t, h, live) => Found(t, g, live)
  BY <1>1 DEF Found
<1>4. ASSUME \A x \in d : Deletable(g, x) <=> Deletable(h, x)
      PROVE  /\ NoLocals(t, h) => NoLocals(t, g)
             /\ Sorted(t, h) => Sorted(t, g)
  <2>1. \A b \in Bucket : \A i \in DOMAIN t[b] :
          Deletable(g, t[b][i].data) <=> Deletable(h, t[b][i].data)
    BY <1>4 DEF Matching
  <2> QED BY <2>1 DEF NoLocals, Sorted
<1> QED BY <1>2, <1>3, <1>4

\* Removing a symbol that is to be deleted loses only such symbols.
LEMMA RemoveKeeps ==
    ASSUME NEW t \in Tables(Symbol), WellFormed(t), NEW h, NEW d, Matching(t, h, d),
           NEW e, Deletable(h, e), KeyOf(h, e) \in Key,
           h_get(t, KeyOf(h, e)) \in {e, NULL}, Sorted(t, h),
           NEW u, u = h_remove(t, KeyOf(h, e))
    PROVE  /\ u \in Tables(Symbol) /\ WellFormed(u)
           /\ Matching(u, h, d)
           /\ Sorted(u, h)
           /\ FreedBy(t, KeyOf(h, e)) \subseteq {e} \cap d
           /\ \A f : Unfreed(t, f) => Unfreed(u, f \cup FreedBy(t, KeyOf(h, e)))
           /\ \A b \in Bucket : \A i \in DOMAIN u[b] :
                u[b][i].data # e /\ \E m \in DOMAIN t[b] : u[b][i] = t[b][m]
           /\ \A live : /\ Found(t, h, live) /\ live \subseteq Symbol
                        /\ \A x \in live : KeyOf(h, x) \in Key /\ ~ Deletable(h, x)
                => Found(u, h, live)
<1> DEFINE k == KeyOf(h, e)
<1>1. u \in Tables(Symbol) /\ WellFormed(u)
  BY RemoveFacts
<1>2. \A b \in Bucket : \A i \in DOMAIN u[b] :
        /\ u[b][i].key # k
        /\ \E m \in DOMAIN t[b] : u[b][i] = t[b][m]
        /\ \A j \in DOMAIN u[b] : i < j =>
              \E m, n \in DOMAIN t[b] : m < n /\ u[b][i] = t[b][m] /\ u[b][j] = t[b][n]
  BY Removed
<1>3. Matching(u, h, d)
  BY <1>2 DEF Matching
<1>4. Sorted(u, h)
  BY <1>2 DEF Sorted
<1>5. FreedBy(t, k) \subseteq {e} \cap d
  <2>1. CASE h_get(t, k) = NULL
    BY <2>1 DEF FreedBy
  <2>2. CASE h_get(t, k) # NULL
    <3>1. h_get(t, k) = e /\ h_get(t, k) \in d
      BY <2>2, GotFromChain DEF Matching
    <3> QED BY <2>2, <3>1 DEF FreedBy
  <2> QED BY <2>1, <2>2
<1>6. \A b \in Bucket : \A i \in DOMAIN u[b] : u[b][i].data # e
  BY <1>2, <1>3 DEF Matching
<1>7. ASSUME NEW f, Unfreed(t, f)
      PROVE  Unfreed(u, f \cup FreedBy(t, k))
  BY <1>2, <1>5, <1>6, <1>7 DEF Unfreed
<1>8. ASSUME NEW live, Found(t, h, live), live \subseteq Symbol,
             \A x \in live : KeyOf(h, x) \in Key /\ ~ Deletable(h, x)
      PROVE  Found(u, h, live)
  <2> SUFFICES ASSUME NEW x \in live
               PROVE  h_get(u, KeyOf(h, x)) = x
    BY DEF Found
  <2>1. /\ KeyOf(h, x) \in Key /\ ~ Deletable(h, x)
        /\ h_get(t, KeyOf(h, x)) = x /\ x # NULL
    BY <1>8, SymbolAssumption DEF Found
  <2>2. CASE h_get_entry(t, k) = 0
    BY <2>1, <2>2 DEF h_remove
  <2>3. CASE h_get_entry(t, k) # 0
    <3>1. h_get(u, KeyOf(h, x)) =
            IF KeyOf(h, x) \in LostWith(t, k) THEN NULL ELSE h_get(t, KeyOf(h, x))
      BY <2>1, <2>3, GetAfterRemove
    <3>2. h_get(t, k) # NULL
      BY <2>3, GetFacts, SymbolAssumption DEF CanInsert
    <3>3. /\ hash[k] \in Bucket
          /\ h_get_entry(t, k) \in DOMAIN t[hash[k]]
          /\ t[hash[k]][h_get_entry(t, k)].data = e
      BY <3>2, GotFromChain
    <3>4. /\ hash[KeyOf(h, x)] \in Bucket
          /\ h_get_entry(t, KeyOf(h, x)) \in DOMAIN t[hash[KeyOf(h, x)]]
          /\ t[hash[KeyOf(h, x)]][h_get_entry(t, KeyOf(h, x))].data = x
      BY <2>1, GotFromChain
    <3>5. KeyOf(h, x) # k
      BY <2>1, <3>2
    <3>6. ASSUME h_get_entry(t, k) = 1, hash[KeyOf(h, x)] = hash[k]
          PROVE  FALSE
      <4>1. h_get_entry(t, KeyOf(h, x)) # 1
        BY <2>1, <3>3, <3>4, <3>6
      <4>2. h_get_entry(t, k) < h_get_entry(t, KeyOf(h, x))
        BY <3>3, <3>4, <3>6, <4>1, ChainFacts
      <4> QED BY <2>1, <3>3, <3>4, <3>6, <4>2 DEF Sorted
    <3>7. KeyOf(h, x) \notin LostWith(t, k)
      BY <3>5, <3>6 DEF LostWith
    <3> QED BY <2>1, <3>1, <3>7
  <2> QED BY <2>2, <2>3
<1> QED BY <1>1, <1>2, <1>3, <1>4, <1>5, <1>6, <1>7, <1>8

-----------------------------------------------------------------------------
(* The steps.                                                               *)

LEMMA HeapFacts ==
    ASSUME TypeOK, NEW x \in DOMAIN heap
    PROVE  /\ KeyOf(heap, x) \in Key
           /\ KeyOf(heap, x) = <<heap[x].scope, heap[x].name>>
           /\ heap[x].name \in Name /\ heap[x].scope \in Scope /\ heap[x].kind \in Kind
           /\ x \in Symbol /\ x # NULL
           /\ heap[x].scope \in Nat
BY SymbolAssumption DEF TypeOK, SymbolRec, KeyOf, gen_key, Scope

LEMMA InitIInv == Init => IInv
<1> SUFFICES ASSUME Init
             PROVE  IInv
  OBVIOUS
<1> USE DEF Init
<1>1. DOMAIN heap = {}
  OBVIOUS
<1>2. TypeOK
  BY <1>1, InitTable, SymbolAssumption DEF TypeOK, Scope
<1>3. WellFormed(symtab)
  BY InitTable DEF WellFormed, WellPlaced, UniqueKeys
<1>4. Matching(symtab, heap, declared) /\ Unfreed(symtab, freed)
  BY InitTable DEF Matching, Unfreed
<1>5. Found(symtab, heap, declared \ dead)
  BY DEF Found
<1>6. Phase
  BY InitTable DEF Phase, NoLocals, Sorted
<1>7. Deletion
  BY DEF Deletion
<1> QED BY <1>2, <1>3, <1>4, <1>5, <1>6, <1>7 DEF IInv

\* A declaration that is accepted, in one of the three places where there are some.
LEMMA DeclareNew ==
    ASSUME IInv, NEW name \in Name, NEW kind \in Kind, NEW s \in Symbol \ DOMAIN heap,
           \/ pc = "top" /\ kind = "NONE"
           \/ pc = "params" /\ kind = "PARAMETER"
           \/ pc = "decls" /\ kind = "NONE",
           lookup_symtab(name, cur_scope) = NULL,
           heap' = create_symbol(s, name, cur_scope, kind),
           symtab' = insert_symbol(s, name, cur_scope),
           declared' = declared \cup {s},
           UNCHANGED <<freed, cur_scope, pc, fn, list, cursor, dead, clash>>
    PROVE  IInv'
<1> DEFINE k == gen_key(name, cur_scope)
<1>1. /\ TypeOK
      /\ symtab \in Tables(Symbol) /\ WellFormed(symtab)
      /\ declared \subseteq DOMAIN heap /\ dead \subseteq declared
      /\ freed \subseteq dead
      /\ k \in Key
      /\ cur_scope \in Nat
  BY SymbolAssumption DEF IInv, TypeOK, gen_key, Scope
<1>2. /\ DOMAIN heap' = DOMAIN heap \cup {s}
      /\ heap'[s] = [name |-> name, scope |-> cur_scope, kind |-> kind]
      /\ \A x \in DOMAIN heap : heap'[x] = heap[x]
  BY DEF create_symbol
<1>3. /\ Matching(symtab, heap', declared)
      /\ Found(symtab, heap', declared \ dead)
      /\ NoLocals(symtab, heap) => NoLocals(symtab, heap')
      /\ Sorted(symtab, heap) => Sorted(symtab, heap')
  <2>1. Matching(symtab, heap, declared) /\ Found(symtab, heap, declared \ dead)
    BY DEF IInv
  <2>2. \A x \in declared : heap'[x].name = heap[x].name /\ heap'[x].scope = heap[x].scope
    BY <1>1, <1>2
  <2>3. \A x \in declared : Deletable(heap', x) <=> Deletable(heap, x)
    BY <1>1, <1>2 DEF Deletable
  <2> QED BY <2>1, <2>2, <2>3, HeapKeeps
<1>4. KeyOf(heap', s) = k
  BY <1>2 DEF KeyOf
<1>5. CanInsert(symtab, k)
  BY <1>1, GetFacts, SymbolAssumption DEF lookup_symtab
<1>6. symtab' = h_insert(symtab, k, s)
  BY DEF insert_symbol
<1>7. \A x \in declared \ dead : x \in Symbol /\ KeyOf(heap', x) \in Key
  <2>1. \A x \in declared : KeyOf(heap', x) = KeyOf(heap, x)
    BY <1>1, <1>2 DEF KeyOf
  <2> QED BY <1>1, <2>1, HeapFacts
<1>8. /\ symtab' \in Tables(Symbol) /\ WellFormed(symtab')
      /\ Matching(symtab', heap', declared \cup {s})
      /\ Unfreed(symtab, freed) /\ s \notin freed => Unfreed(symtab', freed)
      /\ NoLocals(symtab, heap') /\ ~ Deletable(heap', s) => NoLocals(symtab', heap')
      /\ Sorted(symtab, heap') /\ (Deletable(heap', s) \/ NoLocals(symtab, heap'))
            => Sorted(symtab', heap')
      /\ Found(symtab', heap', (declared \ dead) \cup {s})
  BY <1>1, <1>3, <1>4, <1>5, <1>6, <1>7, InsertKeeps
<1>9. s \notin freed /\ s \notin dead
  BY <1>1
<1>10. TypeOK'
  <2>1. heap'[s] \in SymbolRec
    BY <1>1, <1>2 DEF SymbolRec, TypeOK
  <2> QED BY <1>1, <1>2, <1>8, <2>1 DEF TypeOK
<1>11. Found(symtab', heap', declared' \ dead')
  BY <1>8, <1>9 DEF Found
<1>12. \A x \in dead' : heap'[x].scope >= 1
  BY <1>1, <1>2 DEF IInv
<1>13. Phase'
  <2>1. Phase
    BY DEF IInv
  <2>2. (Deletable(heap', s) <=> pc = "decls")
    BY <1>1, <1>2, <2>1 DEF Deletable, SkippedByDelete, Phase
  <2>3. /\ pc # "decls" => NoLocals(symtab', heap')
        /\ Sorted(symtab', heap')
    BY <1>3, <1>8, <2>1, <2>2 DEF Phase
  <2>4. pc # "top" => fn' \in DOMAIN heap' /\ heap'[fn'].scope = 0
    BY <1>1, <1>2, <2>1 DEF Phase
  <2> QED BY <2>1, <2>3, <2>4 DEF Phase
<1>14. Deletion'
  BY DEF Deletion
<1> QED BY <1>1, <1>8, <1>9, <1>10, <1>11, <1>12, <1>13, <1>14 DEF IInv

\* The fields of one symbol change, but not what makes its key.
LEMMA KindChanges ==
    ASSUME IInv, NEW old \in DOMAIN heap, NEW kind \in Kind,
           heap' = [heap EXCEPT ![old].kind = kind],
           UNCHANGED <<symtab, freed, declared, dead>>
    PROVE  /\ DOMAIN heap' = DOMAIN heap
           /\ \A x \in DOMAIN heap :
                heap'[x] \in SymbolRec /\ heap'[x].name = heap[x].name
                /\ heap'[x].scope = heap[x].scope
           /\ Matching(symtab', heap', declared')
           /\ Found(symtab', heap', declared' \ dead')
           /\ heap[old].scope = 0 =>
                /\ NoLocals(symtab, heap) => NoLocals(symtab', heap')
                /\ Sorted(symtab, heap) => Sorted(symtab', heap')
<1>1. DOMAIN heap' = DOMAIN heap
  OBVIOUS
<1>2. \A x \in DOMAIN heap : heap[x] \in SymbolRec
  BY DEF IInv, TypeOK
<1>3. \A x \in DOMAIN heap :
        heap'[x] = IF x = old THEN [heap[x] EXCEPT !.kind = kind] ELSE heap[x]
  OBVIOUS
<1>4. \A x \in DOMAIN heap :
        heap'[x] \in SymbolRec /\ heap'[x].name = heap[x].name /\ heap'[x].scope = heap[x].scope
  BY <1>2, <1>3 DEF SymbolRec
<1>5. /\ Matching(symtab, heap, declared) /\ Found(symtab, heap, declared \ dead)
      /\ declared \subseteq DOMAIN heap
  BY DEF IInv, TypeOK
<1>6. Matching(symtab', heap', declared') /\ Found(symtab', heap', declared' \ dead')
  <2>1. \A x \in declared : heap'[x].name = heap[x].name /\ heap'[x].scope = heap[x].scope
    BY <1>4, <1>5
  <2>2. Matching(symtab, heap', declared) /\ Found(symtab, heap', declared \ dead)
    BY <1>5, <2>1, HeapKeeps, ZenonT(30)
  <2> QED BY <2>2
<1>7. ASSUME heap[old].scope = 0
      PROVE  /\ NoLocals(symtab, heap) => NoLocals(symtab', heap')
             /\ Sorted(symtab, heap) => Sorted(symtab', heap')
  <2>1. \A x \in declared : Deletable(heap', x) <=> Deletable(heap, x)
    BY <1>3, <1>4, <1>5, <1>7 DEF Deletable, SkippedByDelete
  <2> QED BY <1>4, <1>5, <2>1, HeapKeeps
<1> QED BY <1>1, <1>4, <1>6, <1>7

\* A symbol that a lookup returns is a declared one with that name and scope.
LEMMA LookupFacts ==
    ASSUME IInv, NEW name \in Name, NEW scope \in Scope, lookup_symtab(name, scope) # NULL
    PROVE  /\ lookup_symtab(name, scope) \in declared
           /\ lookup_symtab(name, scope) \in DOMAIN heap
           /\ heap[lookup_symtab(name, scope)].scope = scope
<1> DEFINE k == gen_key(name, scope)
           s == lookup_symtab(name, scope)
<1>1. k \in Key
  BY SymbolAssumption DEF gen_key
<1>2. TypeOK /\ symtab \in Tables(Symbol) /\ WellFormed(symtab) /\ declared \subseteq DOMAIN heap
  BY DEF IInv, TypeOK
<1>3. /\ hash[k] \in Bucket
      /\ h_get_entry(symtab, k) \in DOMAIN symtab[hash[k]]
      /\ symtab[hash[k]][h_get_entry(symtab, k)].key = k
      /\ symtab[hash[k]][h_get_entry(symtab, k)].data = s
  BY <1>1, <1>2, GotFromChain DEF lookup_symtab
<1>4. s \in declared /\ k = KeyOf(heap, s)
  BY <1>3 DEF IInv, Matching
<1> QED BY <1>2, <1>4 DEF KeyOf, gen_key

\* A declaration that is refused.
LEMMA DeclareOld ==
    ASSUME IInv, NEW name \in Name, NEW kind \in Kind,
           lookup_symtab(name, cur_scope) # NULL,
           heap' = IF kind = "PARAMETER"
                   THEN [heap EXCEPT ![lookup_symtab(name, cur_scope)].kind = kind] ELSE heap,
           pc' = "redeclared",
           clash' = lookup_symtab(name, cur_scope),
           UNCHANGED <<symtab, freed, cur_scope, fn, list, cursor, declared, dead>>
    PROVE  IInv'
<1> DEFINE old == lookup_symtab(name, cur_scope)
<1>1. TypeOK /\ cur_scope \in Scope
  BY DEF IInv, TypeOK
<1>2. old \in DOMAIN heap
  BY <1>1, LookupFacts
<1>3. /\ DOMAIN heap' = DOMAIN heap
      /\ \A x \in DOMAIN heap : heap'[x] \in SymbolRec /\ heap'[x].scope = heap[x].scope
      /\ Matching(symtab', heap', declared')
      /\ Found(symtab', heap', declared' \ dead')
  <2>1. CASE kind = "PARAMETER"
    BY <1>2, <2>1, KindChanges
  <2>2. CASE kind # "PARAMETER"
    <3>1. heap' = heap
      BY <2>2
    <3> QED BY <3>1 DEF IInv, TypeOK
  <2> QED BY <2>1, <2>2
<1>4. TypeOK'
  BY <1>1, <1>2, <1>3 DEF TypeOK
<1>5. Phase' /\ Deletion'
  BY DEF Phase, Deletion
<1>6. \A x \in dead' : heap'[x].scope >= 1
  BY <1>1, <1>3 DEF IInv, TypeOK
<1> QED BY <1>3, <1>4, <1>5, <1>6 DEF IInv

LEMMA DeclareIInv ==
    ASSUME IInv, NEW name \in Name, NEW kind \in Kind,
           \/ pc = "top" /\ kind = "NONE"
           \/ pc = "params" /\ kind = "PARAMETER"
           \/ pc = "decls" /\ kind = "NONE",
           Declare(name, kind),
           UNCHANGED <<freed, cur_scope, fn, list, cursor, dead>>
    PROVE  IInv'
<1>1. CASE lookup_symtab(name, cur_scope) = NULL
  <2>1. PICK s \in Symbol \ DOMAIN heap :
             /\ heap' = create_symbol(s, name, cur_scope, kind)
             /\ symtab' = insert_symbol(s, name, cur_scope)
             /\ declared' = declared \cup {s}
             /\ UNCHANGED <<pc, clash>>
    BY <1>1 DEF Declare
  <2> QED BY <1>1, <2>1, DeclareNew
<1>2. CASE lookup_symtab(name, cur_scope) # NULL
  BY <1>2, DeclareOld DEF Declare
<1> QED BY <1>1, <1>2

LEMMA FuncBeginIInv ==
    ASSUME IInv, NEW name \in Name, FuncBegin(name)
    PROVE  IInv'
<1> DEFINE old == lookup_symtab(name, 0)
<1>1. /\ TypeOK /\ Phase /\ pc = "top" /\ 0 \in Scope /\ 1 \in Scope
      /\ NoLocals(symtab, heap) /\ Sorted(symtab, heap)
      /\ declared \subseteq DOMAIN heap /\ dead \subseteq declared
      /\ UNCHANGED <<symtab, freed, list, cursor, declared, dead, clash>>
      /\ pc' = "params" /\ cur_scope' = 1
  BY SymbolAssumption DEF IInv, TypeOK, FuncBegin, Phase, Scope
<1>2. /\ DOMAIN heap \subseteq DOMAIN heap' /\ DOMAIN heap' \subseteq Symbol
      /\ \A x \in DOMAIN heap' : heap'[x] \in SymbolRec
      /\ \A x \in DOMAIN heap : heap'[x].scope = heap[x].scope
      /\ Matching(symtab', heap', declared')
      /\ Found(symtab', heap', declared' \ dead')
      /\ NoLocals(symtab', heap') /\ Sorted(symtab', heap')
      /\ fn' \in DOMAIN heap' /\ heap'[fn'].scope = 0
  <2>1. CASE old = NULL
    <3>1. PICK s \in Symbol \ DOMAIN heap :
               heap' = create_symbol(s, name, 0, "FUNCTION") /\ fn' = s
      BY <2>1 DEF FuncBegin
    <3>2. /\ DOMAIN heap' = DOMAIN heap \cup {s}
          /\ heap'[s] = [name |-> name, scope |-> 0, kind |-> "FUNCTION"]
          /\ \A x \in DOMAIN heap : heap'[x] = heap[x]
      BY <3>1 DEF create_symbol
    <3>3. \A x \in DOMAIN heap' : heap'[x] \in SymbolRec
      BY <1>1, <3>2 DEF TypeOK, SymbolRec, Kind
    <3>4. \A x \in declared : /\ heap'[x].name = heap[x].name /\ heap'[x].scope = heap[x].scope
                              /\ Deletable(heap', x) <=> Deletable(heap, x)
      BY <1>1, <3>2 DEF Deletable
    <3>5. Matching(symtab, heap, declared) /\ Found(symtab, heap, declared \ dead)
      BY DEF IInv
    <3>6. /\ Matching(symtab', heap', declared')
          /\ Found(symtab', heap', declared' \ dead')
          /\ NoLocals(symtab', heap') /\ Sorted(symtab', heap')
      BY <1>1, <3>4, <3>5, HeapKeeps
    <3> QED BY <1>1, <3>1, <3>2, <3>3, <3>6 DEF TypeOK
  <2>2. CASE old # NULL
    <3>1. heap' = [heap EXCEPT ![old].kind = "FUNCTION"] /\ fn' = old
      BY <2>2 DEF FuncBegin
    <3>2. old \in DOMAIN heap /\ heap[old].scope = 0
      BY <1>1, <2>2, LookupFacts
    <3>3. "FUNCTION" \in Kind
      BY DEF Kind
    <3> QED BY <1>1, <3>1, <3>2, <3>3, KindChanges DEF TypeOK
  <2> QED BY <2>1, <2>2
<1>3. TypeOK'
  BY <1>1, <1>2 DEF TypeOK
<1>4. Phase' /\ Deletion'
  BY <1>1, <1>2 DEF Phase, Deletion
<1>5. \A x \in dead' : heap'[x].scope >= 1
  BY <1>1, <1>2 DEF IInv
<1>6. /\ WellFormed(symtab') /\ freed' \subseteq dead' /\ Unfreed(symtab', freed')
  BY <1>1 DEF IInv
<1> QED BY <1>2, <1>3, <1>4, <1>5, <1>6 DEF IInv

\* Reading a name or entering a block.
LEMMA ReadIInv ==
    ASSUME IInv, pc \in {"decls", "stmts"} \/ (pc = "params" /\ pc' = "decls"),
           pc' \in {"decls", "stmts", "undeclared"},
           cur_scope' \in Scope, cur_scope' >= 1,
           declared' = declared, dead' = dead \cup DeclaredFrom(cur_scope) \/ dead' = dead,
           UNCHANGED <<symtab, heap, freed, fn, list, cursor, clash>>
    PROVE  IInv'
<1>1. TypeOK /\ Phase /\ dead \subseteq declared
  BY DEF IInv, TypeOK
<1>2. cur_scope >= 1 /\ cur_scope \in Nat /\ fn \in DOMAIN heap /\ heap[fn].scope = 0
  BY <1>1 DEF TypeOK, Phase, Scope
<1>3. dead \subseteq dead' /\ dead' \subseteq declared
  BY <1>1 DEF DeclaredFrom
<1>4. TypeOK'
  BY <1>1, <1>3 DEF TypeOK
<1>5. Phase'
  BY <1>1, <1>2 DEF Phase
<1>6. Deletion'
  BY DEF Deletion
<1>7. \A x \in dead' : heap'[x].scope >= 1
  <2>1. \A x \in declared : heap[x].scope \in Nat
    BY <1>1, HeapFacts DEF TypeOK
  <2> QED BY <1>1, <1>2, <2>1 DEF IInv, DeclaredFrom
<1>8. Found(symtab', heap', declared' \ dead')
  BY <1>3 DEF IInv, Found
<1>9. freed' \subseteq dead'
  BY <1>3 DEF IInv
<1> QED BY <1>4, <1>5, <1>6, <1>7, <1>8, <1>9 DEF IInv

\* The copy that the deletion walks.
LEMMA FuncEndIInv ==
    ASSUME IInv, FuncEnd
    PROVE  IInv'
<1>1. /\ TypeOK /\ Phase /\ WellFormed(symtab) /\ Matching(symtab, heap, declared)
      /\ pc \in {"decls", "stmts"} /\ pc' = "delete" /\ cur_scope' = 0
      /\ list' = ht_to_list(symtab) /\ cursor' = <<0, 1>>
      /\ dead' = dead \cup DeclaredFrom(1)
      /\ UNCHANGED <<symtab, heap, freed, fn, declared, clash>>
      /\ symtab \in Tables(Symbol)
      /\ declared \subseteq DOMAIN heap /\ dead \subseteq declared
  BY DEF IInv, TypeOK, FuncEnd
<1>2. \A b \in Bucket :
        /\ DOMAIN list'[b] = DOMAIN symtab[b]
        /\ \A i \in DOMAIN symtab[b] : list'[b][i] = symtab[b][i].data
        /\ list'[b] \in Seq(Symbol)
  <2>1. SUFFICES ASSUME NEW b \in Bucket
                 PROVE  /\ DOMAIN list'[b] = DOMAIN symtab[b]
                        /\ \A i \in DOMAIN symtab[b] : list'[b][i] = symtab[b][i].data
                        /\ list'[b] \in Seq(Symbol)
    OBVIOUS
  <2>2. list'[b] = [i \in DOMAIN symtab[b] |-> symtab[b][i].data]
    BY <1>1 DEF ht_to_list
  <2>3. /\ Len(symtab[b]) \in Nat /\ DOMAIN symtab[b] = 1 .. Len(symtab[b])
        /\ \A i \in DOMAIN symtab[b] : symtab[b][i].data \in Symbol
    BY <1>1, ChainFacts
  <2> QED BY <2>2, <2>3
<1>3. list' \in [Bucket -> Seq(Symbol)]
  <2>1. list' = [b \in Bucket |-> list'[b]]
    BY <1>1 DEF ht_to_list
  <2> QED BY <1>2, <2>1
<1>4. /\ cursor' \in Bucket \X (Nat \ {0})
      /\ cursor'[1] = 0 /\ cursor'[2] = 1
  BY <1>1, InitTable
<1>5. \A b \in Bucket : \A i \in DOMAIN list'[b] : Ahead(b, i, cursor')
  <2> SUFFICES ASSUME NEW b \in Bucket, NEW i \in DOMAIN list'[b]
               PROVE  Ahead(b, i, cursor')
    OBVIOUS
  <2>1. b \in Nat /\ i \in Nat /\ i >= 1
    BY <1>1, <1>2, ChainFacts, HashAssumption DEF Bucket
  <2> QED BY <1>4, <2>1 DEF Ahead
<1>6. dead' \subseteq declared /\ dead \subseteq dead'
  BY <1>1 DEF DeclaredFrom
<1>7. TypeOK'
  <2>1. 0 \in Scope
    BY SymbolAssumption DEF Scope
  <2> QED BY <1>1, <1>3, <1>4, <1>6, <2>1 DEF TypeOK
<1>8. Phase'
  BY <1>1 DEF Phase
<1>9. Copied(list', heap')
  <2>1. \A b \in Bucket : \A i \in DOMAIN list'[b] : list'[b][i] \in DOMAIN heap
    BY <1>1, <1>2 DEF Matching
  <2>2. ASSUME NEW b \in Bucket, NEW c \in Bucket, NEW i \in DOMAIN list'[b],
               NEW j \in DOMAIN list'[c],
               KeyOf(heap, list'[b][i]) = KeyOf(heap, list'[c][j])
        PROVE  b = c /\ i = j
    <3>1. symtab[b][i].key = symtab[c][j].key
      BY <1>1, <1>2, <2>2 DEF Matching
    <3>2. b = c
      BY <1>1, <1>2, <3>1 DEF WellFormed, WellPlaced
    <3> QED BY <1>1, <1>2, <3>1, <3>2 DEF WellFormed, UniqueKeys
  <2> QED BY <1>1, <2>1, <2>2 DEF Copied
<1>10. UnfreedAhead(list', cursor', freed')
  BY <1>1, <1>2 DEF UnfreedAhead, IInv, Unfreed
<1>11. InCopy(symtab', list')
  BY <1>1, <1>2 DEF InCopy
<1>12. StillToRemove(symtab', heap', list', cursor')
  <2> SUFFICES ASSUME NEW b \in Bucket, NEW i \in DOMAIN symtab[b]
               PROVE  \E r \in Bucket : \E j \in DOMAIN list'[r] :
                         Ahead(r, j, cursor') /\ list'[r][j] = symtab[b][i].data
    BY <1>1 DEF StillToRemove
  <2> QED BY <1>2, <1>5
<1>13. \A s \in declared' : heap'[s].scope >= 1 => s \in dead'
  BY <1>1 DEF DeclaredFrom
<1>14. \A x \in dead' : heap'[x].scope >= 1
  BY <1>1 DEF IInv, DeclaredFrom
<1>15. Found(symtab', heap', declared' \ dead')
  BY <1>1, <1>6 DEF IInv, Found
<1>16. Deletion'
  BY <1>1, <1>9, <1>10, <1>11, <1>12, <1>13 DEF Deletion
<1>17. /\ WellFormed(symtab') /\ Matching(symtab', heap', declared')
       /\ freed' \subseteq dead' /\ Unfreed(symtab', freed')
  BY <1>1, <1>6 DEF IInv
<1> QED BY <1>7, <1>8, <1>14, <1>15, <1>16, <1>17 DEF IInv

\* Positions ahead of the cursor when it moves on.
LEMMA CursorFacts ==
    ASSUME TypeOK
    PROVE  /\ cursor[1] \in Bucket /\ cursor[1] \in Nat /\ cursor[1] <= HT_SIZ - 1
           /\ cursor[2] \in Nat /\ cursor[2] >= 1
           /\ \A b \in Bucket : /\ b \in Nat /\ b <= HT_SIZ - 1
                                /\ DOMAIN list[b] = 1 .. Len(list[b]) /\ Len(list[b]) \in Nat
<1>1. cursor \in Bucket \X (Nat \ {0}) /\ list \in [Bucket -> Seq(Symbol)]
  BY DEF TypeOK
<1>2. \A b \in Bucket : b \in Nat /\ b <= HT_SIZ - 1
  BY HashAssumption DEF Bucket
<1>3. \A b \in Bucket : DOMAIN list[b] = 1 .. Len(list[b]) /\ Len(list[b]) \in Nat
  BY <1>1
<1> QED BY <1>1, <1>2, <1>3

LEMMA NextRowIInv ==
    ASSUME IInv, DeleteNextRow
    PROVE  IInv'
<1>1. /\ TypeOK /\ Phase /\ Deletion /\ pc = "delete" /\ ~ AtElement
      /\ cursor[1] < HT_SIZ - 1 /\ cursor' = <<cursor[1] + 1, 1>>
      /\ UNCHANGED <<symtab, heap, freed, cur_scope, pc, fn, list, declared, dead, clash>>
  BY DEF IInv, DeleteNextRow
<1>2. cursor' \in Bucket \X (Nat \ {0}) /\ cursor'[1] = cursor[1] + 1 /\ cursor'[2] = 1
  BY <1>1, CursorFacts, HashAssumption DEF Bucket
<1>3. \A b \in Bucket : \A i \in DOMAIN list[b] : Ahead(b, i, cursor) <=> Ahead(b, i, cursor')
  <2> SUFFICES ASSUME NEW b \in Bucket, NEW i \in DOMAIN list[b]
               PROVE  Ahead(b, i, cursor) <=> Ahead(b, i, cursor')
    OBVIOUS
  <2>1. /\ b \in Nat /\ i \in 1 .. Len(list[b]) /\ Len(list[b]) \in Nat
        /\ cursor[1] \in Nat /\ cursor[2] \in Nat /\ cursor[2] >= 1
        /\ DOMAIN list[b] = 1 .. Len(list[b])
    BY <1>1, CursorFacts
  <2>2. b = cursor[1] => i < cursor[2]
    BY <1>1, <2>1 DEF AtElement
  <2> QED BY <1>2, <2>1, <2>2 DEF Ahead
<1>4. /\ UnfreedAhead(list, cursor', freed)
      /\ StillToRemove(symtab, heap, list, cursor')
  BY <1>1, <1>3 DEF Deletion, UnfreedAhead, StillToRemove
<1>5. TypeOK' /\ Phase'
  BY <1>1, <1>2 DEF TypeOK, Phase
<1>6. Deletion'
  BY <1>1, <1>4 DEF Deletion
<1> QED BY <1>1, <1>5, <1>6 DEF IInv

LEMMA DoneIInv ==
    ASSUME IInv, DeleteDone
    PROVE  IInv'
<1>1. /\ TypeOK /\ Phase /\ Deletion /\ pc = "delete" /\ ~ AtElement
      /\ cursor[1] = HT_SIZ - 1 /\ pc' = "insert"
      /\ list' = ht_to_list(h_init) /\ cursor' = <<0, 1>>
      /\ UNCHANGED <<symtab, heap, freed, cur_scope, fn, declared, dead, clash>>
  BY DEF IInv, DeleteDone
<1>2. \A b \in Bucket : \A i \in DOMAIN list[b] : ~ Ahead(b, i, cursor)
  <2> SUFFICES ASSUME NEW b \in Bucket, NEW i \in DOMAIN list[b]
               PROVE  ~ Ahead(b, i, cursor)
    OBVIOUS
  <2>1. /\ b \in Nat /\ b <= HT_SIZ - 1 /\ i \in 1 .. Len(list[b]) /\ Len(list[b]) \in Nat
        /\ cursor[2] \in Nat /\ cursor[2] >= 1
        /\ DOMAIN list[b] = 1 .. Len(list[b])
    BY <1>1, CursorFacts
  <2>2. b = cursor[1] => i < cursor[2]
    BY <1>1, <2>1 DEF AtElement
  <2> QED BY <1>1, <2>1, <2>2, HashAssumption DEF Ahead
<1>3. NoLocals(symtab, heap)
  BY <1>1, <1>2 DEF Deletion, StillToRemove, NoLocals
<1>4. TypeOK'
  BY <1>1, InitTable DEF TypeOK
<1>5. Phase' /\ Deletion'
  BY <1>1, <1>3 DEF Phase, Deletion
<1> QED BY <1>1, <1>4, <1>5 DEF IInv

\* The symbol under the cursor, when it is to be removed.
LEMMA ElementFacts ==
    ASSUME IInv, DeleteStep, Deletable(heap, Element)
    PROVE  /\ KeyOf(heap, Element) \in Key
           /\ h_get(symtab, KeyOf(heap, Element)) \in {Element, NULL}
           /\ Element \in declared => Element \in dead
<1> DEFINE e == Element
           k == KeyOf(heap, e)
<1>1. /\ TypeOK /\ Deletion /\ pc = "delete" /\ AtElement
      /\ symtab \in Tables(Symbol) /\ WellFormed(symtab)
  BY DEF IInv, TypeOK, DeleteStep
<1>2. Copied(list, heap) /\ InCopy(symtab, list)
  BY <1>1 DEF Deletion
<1>3. cursor[1] \in Bucket /\ cursor[2] \in DOMAIN list[cursor[1]]
  BY <1>1, CursorFacts DEF AtElement
<1>4. e \in DOMAIN heap
  BY <1>2, <1>3 DEF Copied, Element
<1>5. k \in Key /\ heap[e].scope \in Nat
  BY <1>1, <1>4, HeapFacts
<1>6. heap[e].scope >= 1
  BY <1>5 DEF Deletable, SkippedByDelete
<1>7. ASSUME h_get(symtab, k) # NULL
      PROVE  h_get(symtab, k) = e
  <2>1. PICK b \in Bucket : \E i \in DOMAIN symtab[b] :
              symtab[b][i].key = k /\ symtab[b][i].data = h_get(symtab, k)
    BY <1>1, <1>5, <1>7, GotFromChain
  <2>2. PICK i \in DOMAIN symtab[b] :
              symtab[b][i].key = k /\ symtab[b][i].data = h_get(symtab, k)
    BY <2>1
  <2>3. KeyOf(heap, symtab[b][i].data) = k
    BY <2>2 DEF IInv, Matching
  <2>4. PICK r \in Bucket : \E j \in DOMAIN list[r] : list[r][j] = symtab[b][i].data
    BY <1>2 DEF InCopy
  <2>5. PICK j \in DOMAIN list[r] : list[r][j] = symtab[b][i].data
    BY <2>4
  <2>6. r = cursor[1] /\ j = cursor[2]
    BY <1>2, <1>3, <2>3, <2>5 DEF Copied, Element
  <2> QED BY <2>2, <2>5, <2>6 DEF Element
<1>8. e \in declared => e \in dead
  BY <1>1, <1>6 DEF Deletion
<1> QED BY <1>5, <1>7, <1>8

LEMMA DeleteStepIInv ==
    ASSUME IInv, DeleteStep
    PROVE  IInv'
<1> DEFINE e == Element
           k == KeyOf(heap, e)
<1>1. /\ TypeOK /\ Phase /\ Deletion /\ pc = "delete" /\ AtElement
      /\ cursor' = <<cursor[1], cursor[2] + 1>>
      /\ UNCHANGED <<heap, cur_scope, pc, fn, list, declared, dead, clash>>
      /\ symtab \in Tables(Symbol) /\ WellFormed(symtab)
      /\ Matching(symtab, heap, declared) /\ Found(symtab, heap, declared \ dead)
      /\ Unfreed(symtab, freed) /\ freed \subseteq dead
      /\ dead \subseteq declared /\ declared \subseteq DOMAIN heap
      /\ Sorted(symtab, heap)
  BY DEF IInv, TypeOK, DeleteStep, Phase
<1>2. /\ Copied(list, heap) /\ UnfreedAhead(list, cursor, freed)
      /\ StillToRemove(symtab, heap, list, cursor) /\ InCopy(symtab, list)
      /\ \A s \in declared : heap[s].scope >= 1 => s \in dead
  BY <1>1 DEF Deletion
<1>3. /\ cursor[1] \in Bucket /\ cursor[2] \in DOMAIN list[cursor[1]]
      /\ cursor[1] \in Nat /\ cursor[2] \in Nat
      /\ cursor'[1] = cursor[1] /\ cursor'[2] = cursor[2] + 1
      /\ cursor' \in Bucket \X (Nat \ {0})
  BY <1>1, CursorFacts DEF AtElement
<1>4. \A b \in Bucket : \A i \in DOMAIN list[b] :
        Ahead(b, i, cursor') <=> Ahead(b, i, cursor) /\ ~ (b = cursor[1] /\ i = cursor[2])
  <2> SUFFICES ASSUME NEW b \in Bucket, NEW i \in DOMAIN list[b]
               PROVE  Ahead(b, i, cursor') <=>
                        Ahead(b, i, cursor) /\ ~ (b = cursor[1] /\ i = cursor[2])
    OBVIOUS
  <2>1. b \in Nat /\ i \in Nat
    BY <1>1, CursorFacts
  <2> QED BY <1>3, <2>1 DEF Ahead
<1>5. \A b \in Bucket : \A i \in DOMAIN list[b] :
        list[b][i] = e => b = cursor[1] /\ i = cursor[2]
  BY <1>2, <1>3 DEF Copied, Element
<1>6. /\ symtab' \in Tables(Symbol) /\ WellFormed(symtab')
      /\ Matching(symtab', heap, declared) /\ Found(symtab', heap, declared \ dead)
      /\ Sorted(symtab', heap)
      /\ freed' \subseteq freed \cup {e} /\ freed' \subseteq dead
      /\ Unfreed(symtab', freed')
      /\ \A b \in Bucket : \A i \in DOMAIN symtab'[b] :
            /\ Deletable(heap, symtab'[b][i].data) => symtab'[b][i].data # e
            /\ \E m \in DOMAIN symtab[b] : symtab'[b][i] = symtab[b][m]
  <2>1. CASE ~ Deletable(heap, e)
    <3>1. symtab' = symtab /\ freed' = freed
      BY <2>1 DEF DeleteStep, Deletable
    <3> QED BY <1>1, <2>1, <3>1
  <2>2. CASE Deletable(heap, e)
    <3>1. symtab' = h_remove(symtab, k) /\ freed' = freed \cup FreedBy(symtab, k)
      BY <2>2 DEF DeleteStep, Deletable, KeyOf
    <3>2. k \in Key /\ h_get(symtab, k) \in {e, NULL} /\ (e \in declared => e \in dead)
      BY <2>2, ElementFacts
    <3>3. \A x \in declared \ dead :
            x \in Symbol /\ KeyOf(heap, x) \in Key /\ ~ Deletable(heap, x)
      <4> SUFFICES ASSUME NEW x \in declared \ dead
                   PROVE  x \in Symbol /\ KeyOf(heap, x) \in Key /\ ~ Deletable(heap, x)
        OBVIOUS
      <4>1. x \in Symbol /\ KeyOf(heap, x) \in Key /\ heap[x].scope \in Nat
        BY <1>1, HeapFacts
      <4>2. heap[x].scope < 1
        BY <1>2, <4>1
      <4> QED BY <4>1, <4>2 DEF Deletable, SkippedByDelete
    <3>4. /\ symtab' \in Tables(Symbol) /\ WellFormed(symtab')
          /\ Matching(symtab', heap, declared)
          /\ Sorted(symtab', heap)
          /\ FreedBy(symtab, k) \subseteq {e} \cap declared
          /\ Unfreed(symtab', freed \cup FreedBy(symtab, k))
          /\ \A b \in Bucket : \A i \in DOMAIN symtab'[b] :
                symtab'[b][i].data # e /\ \E m \in DOMAIN symtab[b] : symtab'[b][i] = symtab[b][m]
          /\ Found(symtab', heap, declared \ dead)
      BY <1>1, <2>2, <3>1, <3>2, <3>3, RemoveKeeps
    <3> QED BY <1>1, <3>1, <3>2, <3>4
  <2> QED BY <2>1, <2>2
<1>7. UnfreedAhead(list, cursor', freed')
  BY <1>2, <1>4, <1>5, <1>6 DEF UnfreedAhead
<1>8. InCopy(symtab', list)
  <2> SUFFICES ASSUME NEW b \in Bucket, NEW i \in DOMAIN symtab'[b]
               PROVE  \E r \in Bucket : \E j \in DOMAIN list[r] : list[r][j] = symtab'[b][i].data
    BY DEF InCopy
  <2>1. PICK m \in DOMAIN symtab[b] : symtab'[b][i] = symtab[b][m]
    BY <1>6
  <2> QED BY <1>2, <2>1 DEF InCopy
<1>9. StillToRemove(symtab', heap, list, cursor')
  <2> SUFFICES ASSUME NEW b \in Bucket, NEW i \in DOMAIN symtab'[b],
                      Deletable(heap, symtab'[b][i].data)
               PROVE  \E r \in Bucket : \E j \in DOMAIN list[r] :
                         Ahead(r, j, cursor') /\ list[r][j] = symtab'[b][i].data
    BY DEF StillToRemove
  <2>1. PICK m \in DOMAIN symtab[b] : symtab'[b][i] = symtab[b][m]
    BY <1>6
  <2>2. PICK r \in Bucket : \E j \in DOMAIN list[r] :
             Ahead(r, j, cursor) /\ list[r][j] = symtab'[b][i].data
    BY <1>2, <2>1 DEF StillToRemove
  <2>3. PICK j \in DOMAIN list[r] : Ahead(r, j, cursor) /\ list[r][j] = symtab'[b][i].data
    BY <2>2
  <2>4. ~ (r = cursor[1] /\ j = cursor[2])
    BY <1>6, <2>3 DEF Element
  <2> QED BY <1>4, <2>3, <2>4
<1>10. TypeOK'
  <2>1. freed' \subseteq DOMAIN heap
    BY <1>1, <1>6
  <2> QED BY <1>1, <1>3, <1>6, <2>1 DEF TypeOK
<1>11. Phase'
  BY <1>1, <1>6 DEF Phase
<1>12. Deletion'
  BY <1>1, <1>2, <1>7, <1>8, <1>9 DEF Deletion
<1>13. \A x \in dead' : heap'[x].scope >= 1
  BY <1>1 DEF IInv
<1> QED BY <1>1, <1>6, <1>10, <1>11, <1>12, <1>13 DEF IInv

\* The function's own symbol comes after the deletion, when no local is left.
LEMMA FuncInsertIInv ==
    ASSUME IInv, FuncInsert
    PROVE  IInv'
<1> DEFINE name == heap[fn].name
           old == lookup_symtab(name, 0)
<1>1. /\ TypeOK /\ Phase /\ pc = "insert" /\ cur_scope = 0
      /\ fn \in DOMAIN heap /\ heap[fn].scope = 0
      /\ NoLocals(symtab, heap)
      /\ symtab \in Tables(Symbol) /\ WellFormed(symtab)
      /\ Matching(symtab, heap, declared) /\ Found(symtab, heap, declared \ dead)
      /\ Unfreed(symtab, freed) /\ freed \subseteq dead
      /\ dead \subseteq declared /\ declared \subseteq DOMAIN heap
      /\ \A x \in dead : heap[x].scope >= 1
      /\ UNCHANGED <<heap, freed, cur_scope, list, cursor, dead>>
  BY DEF IInv, TypeOK, Phase, FuncInsert
<1>2. /\ fn \in Symbol /\ KeyOf(heap, fn) \in Key /\ name \in Name /\ 0 \in Scope
      /\ KeyOf(heap, fn) = gen_key(name, 0)
      /\ ~ Deletable(heap, fn)
  BY <1>1, HeapFacts, SymbolAssumption DEF KeyOf, Deletable, SkippedByDelete, Scope
<1>3. CASE old = NULL
  <2>1. /\ symtab' = h_insert(symtab, KeyOf(heap, fn), fn)
        /\ declared' = declared \cup {fn}
        /\ pc' = "top" /\ fn' = NULL /\ UNCHANGED clash
    BY <1>2, <1>3, SymbolAssumption DEF FuncInsert, insert_symbol
  <2>2. CanInsert(symtab, KeyOf(heap, fn))
    BY <1>1, <1>2, <1>3, GetFacts, SymbolAssumption DEF lookup_symtab
  <2>3. fn \notin dead
    BY <1>1
  <2>4. \A x \in declared \ dead : x \in Symbol /\ KeyOf(heap, x) \in Key
    BY <1>1, HeapFacts
  <2>5. /\ symtab' \in Tables(Symbol) /\ WellFormed(symtab')
        /\ Matching(symtab', heap, declared \cup {fn})
        /\ Unfreed(symtab', freed)
        /\ NoLocals(symtab', heap)
        /\ Found(symtab', heap, (declared \ dead) \cup {fn})
    <3>1. declared \ dead \subseteq Symbol
      BY <2>4
    <3> QED BY <1>1, <1>2, <2>1, <2>2, <2>3, <2>4, <3>1, InsertKeeps
  <2>6. Found(symtab', heap', declared' \ dead')
    BY <1>1, <2>1, <2>5 DEF Found
  <2>7. Sorted(symtab', heap)
    BY <2>5 DEF NoLocals, Sorted
  <2>8. TypeOK'
    BY <1>1, <2>1, <2>5 DEF TypeOK
  <2>9. Phase' /\ Deletion'
    BY <1>1, <2>1, <2>5, <2>7 DEF Phase, Deletion
  <2> QED BY <1>1, <2>1, <2>5, <2>6, <2>8, <2>9 DEF IInv
<1>4. CASE old # NULL
  <2>1. pc' = "redeclared" /\ clash' = old /\ UNCHANGED <<symtab, declared, fn>>
    BY <1>4 DEF FuncInsert
  <2>2. old \in DOMAIN heap
    BY <1>2, <1>4, LookupFacts
  <2>3. TypeOK'
    BY <1>1, <2>1, <2>2 DEF TypeOK
  <2>4. Phase' /\ Deletion'
    BY <2>1 DEF Phase, Deletion
  <2> QED BY <1>1, <2>1, <2>3, <2>4 DEF IInv
<1> QED BY <1>3, <1>4

LEMMA NextIInv == IInv /\ [Next]_vars => IInv'
<1> SUFFICES ASSUME IInv, [Next]_vars
             PROVE  IInv'
  OBVIOUS
<1>1. CASE UNCHANGED vars
  BY <1>1 DEF vars, IInv, TypeOK, WellFormed, WellPlaced, UniqueKeys, Matching, Found,
              Unfreed, Phase, NoLocals, Sorted, Deletion, Copied, UnfreedAhead,
              StillToRemove, InCopy
<1>2. ASSUME NEW name \in Name, GlobalDecl(name)
      PROVE  IInv'
  BY <1>2, DeclareIInv DEF GlobalDecl, Kind
<1>3. ASSUME NEW name \in Name, FuncBegin(name)
      PROVE  IInv'
  BY <1>3, FuncBeginIInv
<1>4. ASSUME NEW name \in Name, Param(name)
      PROVE  IInv'
  BY <1>4, DeclareIInv DEF Param, Kind
<1>5. ASSUME NEW name \in Name, LocalDecl(name)
      PROVE  IInv'
  BY <1>5, DeclareIInv DEF LocalDecl, Kind
<1>6. pc \in {"params", "decls", "stmts"} => cur_scope \in Scope /\ cur_scope >= 1
  BY DEF IInv, TypeOK, Phase
<1>7. ASSUME NEW name \in Name, UseVar(name)
      PROVE  IInv'
  BY <1>6, <1>7, ReadIInv DEF UseVar
<1>8. ASSUME NEW name \in Name, Call(name)
      PROVE  IInv'
  BY <1>6, <1>8, ReadIInv DEF Call
<1>9. CASE FuncBody
  BY <1>6, <1>9, ReadIInv DEF FuncBody
<1>10. CASE BlockEnter
  <2>1. cur_scope' \in Scope /\ cur_scope' >= 1
    BY <1>6, <1>10, SymbolAssumption DEF BlockEnter, Scope
  <2> QED BY <1>10, <2>1, ReadIInv DEF BlockEnter
<1>11. CASE BlockExit
  <2>1. cur_scope' \in Scope /\ cur_scope' >= 1
    BY <1>6, <1>11, SymbolAssumption DEF BlockExit, Scope
  <2> QED BY <1>11, <2>1, ReadIInv DEF BlockExit
<1>12. CASE FuncEnd
  BY <1>12, FuncEndIInv
<1>13. CASE DeleteStep
  BY <1>13, DeleteStepIInv
<1>14. CASE DeleteNextRow
  BY <1>14, NextRowIInv
<1>15. CASE DeleteDone
  BY <1>15, DoneIInv
<1>16. CASE FuncInsert
  BY <1>16, FuncInsertIInv
<1> QED BY <1>1, <1>2, <1>3, <1>4, <1>5, <1>7, <1>8, <1>9, <1>10, <1>11, <1>12, <1>13,
           <1>14, <1>15, <1>16 DEF Next

LEMMA Invariance == Spec => []IInv
BY InitIInv, NextIInv, PTL DEF Spec

-----------------------------------------------------------------------------
(* The symbol table, the symbols and the walk over them have their types in *)
(* every state of every program.                                            *)
THEOREM TypeCorrect == Spec => []TypeOK
<1>1. IInv => TypeOK
  BY DEF IInv
<1> QED BY <1>1, Invariance, PTL

(* The key that delete_scope computes from a symbol is always the key that  *)
(* the symbol hangs under, and the table stays well formed.                 *)
THEOREM KeysAgree == Spec => []KeysMatchSymbols
<1>1. IInv => KeysMatchSymbols
  BY DEF IInv, Matching, KeyOf, KeysMatchSymbols
<1> QED BY <1>1, Invariance, PTL

(* No deletion loses a declaration whose block is still open, whichever     *)
(* keys share a bucket.                                                     *)
THEOREM OpenDeclarationsFound == Spec => []LiveFound
<1>1. IInv => LiveFound
  BY DEF IInv, Found, KeyOf, LiveFound, lookup_symtab
<1> QED BY <1>1, Invariance, PTL

(* delete_scope frees only symbols of closed blocks, reads none after it    *)
(* was freed, and leaves none of them in the table.                         *)
THEOREM DeletionIsSafe == Spec => []MemorySafe
<1>1. IInv => MemorySafe
  <2> SUFFICES ASSUME IInv
               PROVE  MemorySafe
    OBVIOUS
  <2>1. ASSUME pc = "delete", AtElement
        PROVE  Element \notin freed
    <3>1. UnfreedAhead(list, cursor, freed) /\ cursor[1] \in Bucket /\ cursor[2] \in Nat
          /\ cursor[1] \in Nat
      BY <2>1, CursorFacts DEF IInv, Deletion
    <3>2. Ahead(cursor[1], cursor[2], cursor)
      BY <3>1 DEF Ahead
    <3> QED BY <2>1, <3>1, <3>2 DEF UnfreedAhead, AtElement, Element
  <2> QED BY <2>1 DEF MemorySafe, IInv, Unfreed
<1> QED BY <1>1, Invariance, PTL

(* When a function has ended no local of it is left in the table.           *)
THEOREM LocalsAreGone == Spec => []NoLocalOutlives
<1>1. IInv => NoLocalOutlives
  <2> SUFFICES ASSUME IInv, pc \in {"top", "insert"}, NEW s \in DataOf(symtab)
               PROVE  heap[s].scope = 0 \/ heap[s].kind = "PARAMETER"
    BY DEF NoLocalOutlives
  <2>1. NoLocals(symtab, heap) /\ Matching(symtab, heap, declared)
    BY DEF IInv, Phase
  <2>2. PICK b \in Bucket : s \in {ht_to_list(symtab)[b][i] : i \in DOMAIN ht_to_list(symtab)[b]}
    BY DEF DataOf, ListElements
  <2>3. PICK i \in DOMAIN symtab[b] : s = symtab[b][i].data
    BY <2>2 DEF ht_to_list
  <2>4. s \in DOMAIN heap /\ ~ Deletable(heap, s)
    BY <2>1, <2>3 DEF NoLocals, Matching, IInv, TypeOK
  <2>5. heap[s].scope \in Nat
    BY <2>4, HeapFacts DEF IInv
  <2> QED BY <2>4, <2>5 DEF Deletable, SkippedByDelete
<1> QED BY <1>1, Invariance, PTL
=============================================================================
