----------------------------- MODULE SymbolLinks -----------------------------
(***************************************************************************)
(* The lists that Assig4/parser.y builds of symbols: declarators,          *)
(* parameters and arguments are chained through the field next of the      *)
(* symbols themselves, so a symbol is in one list at a time.               *)
(*                                                                         *)
(* A heap is a sequence of symtab_entry objects; a pointer is an index,    *)
(* and NULL is 0.                                                          *)
(***************************************************************************)
EXTENDS Integers, Sequences, SequencesExt, FiniteSetsExt

NULL == 0

\* The symbols met by following next from s, as far as a walk that repeats no
\* symbol can go.
Walk(heap, s) ==
    LET at[n \in 0 .. Len(heap)] ==
          IF n = 0 THEN s
          ELSE LET before == at[n - 1]
               IN  IF before = NULL THEN NULL ELSE heap[before].next
    IN  at

\* while (handle->next) from s does not end.
Endless(heap, s) == Walk(heap, s)[Len(heap)] # NULL

\* The list that starts with s, when it has an end.
Chain(heap, s) ==
    LET walk == Walk(heap, s)
    IN  [i \in 1 .. Min({n \in 0 .. Len(heap) : walk[n] = NULL}) |-> walk[i - 1]]

\* Mutant: the last symbol keeps its link.
LinkedOpen(heap, syms) ==
    [k \in DOMAIN heap |->
        IF k \in Range(Front(syms))
        THEN [heap[k] EXCEPT !.next = syms[SelectInSeq(syms, LAMBDA x : x = k) + 1]]
        ELSE heap[k]]

\* Parameters and arguments are linked from the last to the first, and the last
\* gets NULL.  Of two occurrences of a symbol the first one counts.
Linked(heap, syms) ==
    [k \in DOMAIN heap |->
        IF k \in Range(syms)
        THEN LET i == SelectInSeq(syms, LAMBDA x : x = k)
             IN  [heap[k] EXCEPT !.next = IF i = Len(syms) THEN NULL ELSE syms[i + 1]]
        ELSE heap[k]]

\* s is put at the end of the list of head, after a walk to it.
Extended(list, head, s) ==
    IF list.endless \/ Endless(list.heap, head)
    THEN [list EXCEPT !.endless = TRUE]
    ELSE [list EXCEPT !.heap[Last(Chain(list.heap, head))].next = s]

\* Declarators: each symbol is put at the end of the list of the first one.
\* Nothing is reset.
ListOf(heap, syms) ==
    LET list[n \in 0 .. Len(syms) - 1] ==
          IF n = 0 THEN [heap |-> heap, endless |-> FALSE]
          ELSE Extended(list[n - 1], syms[1], syms[n + 1])
    IN  list[Len(syms) - 1]
=============================================================================
