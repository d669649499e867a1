---------------------------- MODULE SymbolTable ----------------------------
(***************************************************************************)
(* Scopes and symbols of the C-- compiler: Assig4/symboltable.c on top of  *)
(* the hash table, driven by the productions of Assig4/parser.y that open  *)
(* and close scopes, declare names and look them up.                       *)
(*                                                                         *)
(* The state follows the parser through a program: global declarations,    *)
(* then functions, each with parameters (scope 1), the declarations and    *)
(* statements of its body (scope 1 too) and nested blocks (scope 2 and     *)
(* up).  yyerror exits, so an error is a state without successor.          *)
(***************************************************************************)
EXTENDS HashTableOps

CONSTANTS
    Name,      \* identifiers that are not type names
    Symbol,    \* the symtab_entry objects that malloc may return
    MaxScope   \* bound on the nesting depth of blocks

Scope == 0 .. MaxScope
Kind == {"NONE", "FUNCTION", "PARAMETER"}

ASSUME SymbolAssumption ==
    /\ MaxScope \in Nat \ {0}
    /\ Key = Scope \X Name
    /\ NULL \notin Symbol

VARIABLES
    symtab,    \* the symbol table
    heap,      \* the symtab_entry objects created so far: name, scope and kind
    freed,     \* those that have been freed
    cur_scope, \* nesting depth, 0 outside of functions
    pc,        \* where in the program the parser is
    fn,        \* current_function while a function is being parsed, else NULL
    list,      \* delete_scope's copy of the table's data pointers
    cursor,    \* the element of list that delete_scope looks at next
    declared,  \* symbols whose declaration was accepted
    dead,      \* declared symbols whose block has been closed
    clash      \* the symbol in the way of a declaration that was refused

vars == <<symtab, heap, freed, cur_scope, pc, fn, list, cursor, declared, dead, clash>>

-----------------------------------------------------------------------------
(* symboltable.c                                                            *)

\* The decimal scope in front of the name.  A name starts with a letter, so
\* the text determines both; MCSymbolTable hashes the text.
gen_key(name, scope) == <<scope, name>>

lookup_symtab(name, scope) == h_get(symtab, gen_key(name, scope))

lookup_symtab_prevscope(name, scope) ==
    LET hits == {k \in 0 .. scope : lookup_symtab(name, k) # NULL}
    IN  IF hits = {} THEN NULL ELSE lookup_symtab(name, Max(hits))

\* The heap with a new object s.
create_symbol(s, name, scope, kind) ==
    [x \in DOMAIN heap \cup {s} |->
        IF x = s THEN [name |-> name, scope |-> scope, kind |-> kind] ELSE heap[x]]

\* Mutant of insert_symbol: the key of the global scope.
InsertAsGlobal(s, name, scope) == h_insert(symtab, gen_key(name, 0), s)

insert_symbol(s, name, scope) == h_insert(symtab, gen_key(name, scope), s)

\* Mutants of the test below: the comparison the other way round, and off by one.
SkipInner(e, scope) == e.scope > scope \/ e.kind = "PARAMETER"

SkipUpTo(e, scope) == e.scope <= scope \/ e.kind = "PARAMETER"

\* The symbols delete_scope passes over: those of enclosing scopes, and the
\* parameters of every scope.
SkippedByDelete(e, scope) == e.scope < scope \/ e.kind = "PARAMETER"

-----------------------------------------------------------------------------
Init ==
    /\ symtab = h_init
    /\ heap = << >>
    /\ freed = {}
    /\ cur_scope = 0
    /\ pc = "top"
    /\ fn = NULL
    /\ list = ht_to_list(h_init)
    /\ cursor = <<0, 1>>
    /\ declared = {}
    /\ dead = {}
    /\ clash = NULL

(***************************************************************************)
(* A declaration of name in the current scope.  The lexer hands the parser *)
(* the symbol that the current scope has for the name, or else a new one;  *)
(* insert_symbol refuses the former, and yyerror ends the compilation.     *)
(***************************************************************************)
Declare(name, kind) ==
    LET old == lookup_symtab(name, cur_scope)
    IN  \/ /\ old = NULL
           /\ \E s \in Symbol \ DOMAIN heap :
                 /\ heap' = create_symbol(s, name, cur_scope, kind)
                 /\ symtab' = insert_symbol(s, name, cur_scope)
                 /\ declared' = declared \cup {s}
           /\ UNCHANGED <<pc, clash>>
        \/ /\ old # NULL
           /\ heap' = IF kind = "PARAMETER" THEN [heap EXCEPT ![old].kind = kind] ELSE heap
           /\ pc' = "redeclared"
           /\ clash' = old
           /\ UNCHANGED <<symtab, declared>>

GlobalDecl(name) ==
    /\ pc = "top"
    /\ Declare(name, "NONE")
    /\ UNCHANGED <<freed, cur_scope, fn, list, cursor, dead>>

\* type ID ( : the name of the function is read in scope 0 and its symbol is
\* kept aside, to be inserted when the function has been parsed.
FuncBegin(name) ==
    LET old == lookup_symtab(name, 0)
    IN  /\ pc = "top"
        /\ \/ /\ old = NULL
              /\ \E s \in Symbol \ DOMAIN heap :
                    /\ heap' = create_symbol(s, name, 0, "FUNCTION")
                    /\ fn' = s
           \/ /\ old # NULL
              /\ heap' = [heap EXCEPT ![old].kind = "FUNCTION"]
              /\ fn' = old
        /\ cur_scope' = 1
        /\ pc' = "params"
        /\ UNCHANGED <<symtab, freed, list, cursor, declared, dead, clash>>

Param(name) ==
    /\ pc = "params"
    /\ Declare(name, "PARAMETER")
    /\ UNCHANGED <<freed, cur_scope, fn, list, cursor, dead>>

FuncBody ==
    /\ pc = "params"
    /\ pc' = "decls"
    /\ UNCHANGED <<symtab, heap, freed, cur_scope, fn, list, cursor, declared, dead, clash>>

\* Declarations come first in a block.
LocalDecl(name) ==
    /\ pc = "decls"
    /\ Declare(name, "NONE")
    /\ UNCHANGED <<freed, cur_scope, fn, list, cursor, dead>>

\* A name in an expression, looked up from the current scope outwards.
UseVar(name) ==
    /\ pc \in {"decls", "stmts"}
    /\ pc' = IF lookup_symtab_prevscope(name, cur_scope) = NULL THEN "undeclared" ELSE "stmts"
    /\ UNCHANGED <<symtab, heap, freed, cur_scope, fn, list, cursor, declared, dead, clash>>

\* A call: the callee is a symbol of scope 0, or the function being parsed.
Call(name) ==
    /\ pc \in {"decls", "stmts"}
    /\ pc' = IF lookup_symtab(name, 0) = NULL /\ heap[fn].name # name
             THEN "undeclared" ELSE "stmts"
    /\ UNCHANGED <<symtab, heap, freed, cur_scope, fn, list, cursor, declared, dead, clash>>

BlockEnter ==
    /\ pc \in {"decls", "stmts"}
    /\ cur_scope < MaxScope
    /\ cur_scope' = cur_scope + 1
    /\ pc' = "decls"
    /\ UNCHANGED <<symtab, heap, freed, fn, list, cursor, declared, dead, clash>>

\* The declarations that end with a block of depth scope.
DeclaredFrom(scope) == {s \in declared : heap[s].scope >= scope}

\* Leaving a nested block does not touch the table.
BlockExit ==
    /\ pc \in {"decls", "stmts"}
    /\ cur_scope > 1
    /\ cur_scope' = cur_scope - 1
    /\ pc' = "stmts"
    /\ dead' = dead \cup DeclaredFrom(cur_scope)
    /\ UNCHANGED <<symtab, heap, freed, fn, list, cursor, declared, clash>>

(***************************************************************************)
(* The end of a function: delete_scope(cur_scope--) copies the table's     *)
(* data pointers and walks the copy, then the function's own symbol is     *)
(* inserted in scope 0.  The code warns that this order matters.           *)
(***************************************************************************)
FuncEnd ==
    /\ pc \in {"decls", "stmts"}
    /\ cur_scope = 1
    /\ cur_scope' = 0
    /\ pc' = "delete"
    /\ list' = ht_to_list(symtab)
    /\ cursor' = <<0, 1>>
    /\ dead' = dead \cup DeclaredFrom(1)
    /\ UNCHANGED <<symtab, heap, freed, fn, declared, clash>>

AtElement == cursor[2] \in DOMAIN list[cursor[1]]
Element == list[cursor[1]][cursor[2]]

\* One turn of delete_scope's loop, for scope 1.
DeleteStep ==
    /\ pc = "delete"
    /\ AtElement
    /\ IF SkippedByDelete(heap[Element], 1)
       THEN UNCHANGED <<symtab, freed>>
       ELSE LET key == gen_key(heap[Element].name, heap[Element].scope)
            IN  /\ symtab' = h_remove(symtab, key)
                /\ freed' = freed \cup FreedBy(symtab, key)
    /\ cursor' = <<cursor[1], cursor[2] + 1>>
    /\ UNCHANGED <<heap, cur_scope, pc, fn, list, declared, dead, clash>>

\* The row of a bucket is used up: go to the next one.
DeleteNextRow ==
    /\ pc = "delete"
    /\ ~ AtElement
    /\ cursor[1] < HT_SIZ - 1
    /\ cursor' = <<cursor[1] + 1, 1>>
    /\ UNCHANGED <<symtab, heap, freed, cur_scope, pc, fn, list, declared, dead, clash>>

DeleteDone ==
    /\ pc = "delete"
    /\ ~ AtElement
    /\ cursor[1] = HT_SIZ - 1
    /\ pc' = "insert"
    /\ list' = ht_to_list(h_init)
    /\ cursor' = <<0, 1>>
    /\ UNCHANGED <<symtab, heap, freed, cur_scope, fn, declared, dead, clash>>

FuncInsert ==
    LET name == heap[fn].name
        old == lookup_symtab(name, 0)
    IN  /\ pc = "insert"
        /\ \/ /\ old = NULL
              /\ symtab' = insert_symbol(fn, name, 0)
              /\ declared' = declared \cup {fn}
              /\ pc' = "top"
              /\ fn' = NULL
              /\ UNCHANGED clash
           \/ /\ old # NULL
              /\ pc' = "redeclared"
              /\ clash' = old
              /\ UNCHANGED <<symtab, declared, fn>>
        /\ UNCHANGED <<heap, freed, cur_scope, list, cursor, dead>>

Next ==
    \/ \E name \in Name :
          \/ GlobalDecl(name)
          \/ FuncBegin(name)
          \/ Param(name)
          \/ LocalDecl(name)
          \/ UseVar(name)
          \/ Call(name)
    \/ FuncBody
    \/ BlockEnter
    \/ BlockExit
    \/ FuncEnd
    \/ DeleteStep
    \/ DeleteNextRow
    \/ DeleteDone
    \/ FuncInsert

Spec == Init /\ [][Next]_vars

-----------------------------------------------------------------------------
SymbolRec == [name : Name, scope : Scope, kind : Kind]

(* Type invariant.                                                          *)
TypeOK ==
    /\ symtab \in Tables(Symbol)
    /\ DOMAIN heap \subseteq Symbol /\ \A s \in DOMAIN heap : heap[s] \in SymbolRec
    /\ freed \subseteq DOMAIN heap
    /\ declared \subseteq DOMAIN heap
    /\ dead \subseteq declared
    /\ cur_scope \in Scope
    /\ pc \in {"top", "params", "decls", "stmts", "delete", "insert",
               "redeclared", "undeclared"}
    /\ fn \in DOMAIN heap \cup {NULL}
    /\ list \in [Bucket -> Seq(Symbol)]
    /\ cursor \in Bucket \X (Nat \ {0})
    /\ clash \in DOMAIN heap \cup {NULL}

(* delete_scope recomputes the key of an entry from the name and scope      *)
(* stored in the symbol.  So the table must be well formed, and the key     *)
(* under which a symbol hangs must be the key its own fields give: with     *)
(* any other key delete_scope would free a symbol that it has not read.     *)
KeysMatchSymbols ==
    /\ WellFormed(symtab)
    /\ \A b \in Bucket : \A i \in DOMAIN symtab[b] :
          LET e == symtab[b][i]
          IN  /\ e.data \in declared
              /\ e.key = gen_key(heap[e.data].name, heap[e.data].scope)

(* Every declaration whose block is still open is found under its name and  *)
(* scope.  h_remove drops a whole chain when it removes the chain's head,   *)
(* so this holds only because the symbols that outlive a function are       *)
(* ahead of its locals in every chain: they are inserted before the first   *)
(* local, or after delete_scope as the function's own symbol is.            *)
LiveFound ==
    \A s \in declared \ dead : lookup_symtab(heap[s].name, heap[s].scope) = s

(* delete_scope frees only symbols whose block is closed, never reads a     *)
(* freed symbol through its copy of the table, and leaves no freed symbol   *)
(* in the table for a later lookup to return.                               *)
MemorySafe ==
    /\ freed \subseteq dead
    /\ \A b \in Bucket : \A i \in DOMAIN symtab[b] : symtab[b][i].data \notin freed
    /\ pc = "delete" /\ AtElement => Element \notin freed

(* Between two functions the table holds globals, functions and parameters  *)
(* only: no local of a function is visible in the next one.                 *)
NoLocalOutlives ==
    pc \in {"top", "insert"} =>
        \A s \in DataOf(symtab) : heap[s].scope = 0 \/ heap[s].kind = "PARAMETER"

-----------------------------------------------------------------------------
(* Assig4/Test3:15 says "allow same var name in different scope": a         *)
(* declaration is refused only when a declaration of an open block has the  *)
(* name in the same scope.                                                  *)
RefusedOnlyByLive == pc = "redeclared" => clash \notin dead

(* symboltable.h:48 documents lookup_symtab_prevscope as a search of the    *)
(* current scope and "all the previous scopes": in the body of a function   *)
(* it returns no declaration of a block that has been closed.               *)
LookupSeesOpenBlocks ==
    pc \in {"decls", "stmts"} =>
        \A name \in Name : lookup_symtab_prevscope(name, cur_scope) \notin dead
=============================================================================
