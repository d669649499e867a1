# Verification of the C-- compiler

TLA+ models, TLC runs and TLAPS proofs for the C-- compiler of this repository, and for the
LLVM pass beside it. The reference is the final version of the compiler, `src/Assig4/` (the directory
`Assig4-final` below it is a copy of the same sources). Paths below are relative to `src/`, and
`parser.y`, `hashtable.c` and so on without a directory are those of `Assig4/`.

## 1. The system

`parser filename out.s` reads a C-- program and writes MIPS assembly, in one pass:
flex scans, bison parses, and the actions of the productions check types, keep the
symbol table and emit code. Nothing runs concurrently and nothing is persisted. What
makes the program hard is *order*: the actions share global state (`cur_scope`, the
symbol table, the register list, the label stack, the symbols themselves) and each is correct only
because of the order in which the productions are reduced. An error calls `yyerror`, which exits.

| component | state | operations | used by | hard behaviour | what makes it correct |
|---|---|---|---|---|---|
| Hash table (`hashtable.c`) | 100 chains of entries | `h_init`, `h_insert`, `h_get`, `h_remove`, `ht_to_list` | symbol table, type table | removal of a chain's head; who owns the data | an entry is found under its key until it is removed; freed data is not reachable |
| Symbol table (`symboltable.c`, scope actions of `parser.y`, rule `{ID}` of `lexer3.l`) | `symtab`, `cur_scope`, symbols on the heap | `insert_symbol`, `lookup_symtab`, `lookup_symtab_prevscope`, `create_symbol`, `delete_scope` | lexer and parser | one deletion for all scopes of a function; deletion over a copy of the pointers; the order of insertion and deletion | open declarations are found, closed ones are not, freed symbols are never read |
| Temporary registers (`codegen.c`, expressions and statements of `parser.y`) | `temp_reg[8]`, the places of operands on the parser's stack | `get_free_temp_reg`, `mark_temp_reg_free` | every expression rule | allocation across reductions, exhaustion, 3-byte register strings | a register holds one pending value and is given back |
| Control-flow labels (`codegen.c`, statements of `parser.y`) | `label_no`, `label_stack` | `s_push`, `s_get`, `s_pop`, `if`, `while` | code generation | nesting; a label read from a global after it changed; the limit of the stack | jumps go to the labels of their own statement, labels are defined once |
| String labels, data section (`codegen.c`) | `slabel_arr[100]` and two counters | `push_string_label`, `gen_string_labels` | `write`, global declarations, epilog | limit; emission delayed to the end of a function | every label used is emitted once |
| Stack frames (`codegen.c`, calls and `var_decl` of `parser.y`) | `local_var_counter`, the MIPS stack | prolog, epilog, calls, `return` | code generation | frame size and slots; saved registers | caller's registers and locals survive a call |
| Type table (`typetable.c`) | `typetab` | `insert_type`, `is_type_exists`, `get_type`, `get_type_obj` | lexer: decides between `ID`, `TYPEDEF_NAME` and `STRUCT_NAME` | refused inserts; types have no scope | a name stands for one type |
| Symbol links (`parser.y`) | `next`, `n_param`, `type`, `type_ptr` of symbols | `id_list`, `param_list`, `call_param_list`, `lhs`, `function_call` | parser | the same symbol linked twice; fields overwritten by a use | arguments are counted, declared types stay |
| Type checks (`parser.y`) | the types in symbols | `match_type` and the tests in `expr`, `assign_expr`, `return_stmt`, `function_call` | parser | they read types that uses overwrite | a statement is accepted exactly when its declarations allow it |
| Lexer (`lexer3.l`) | `linenumber` | token rules | parser | the `{ID}` rule (above) | |
| StoresRemoval (`Assig5/StoresRemoval/`) | instruction list of a basic block, a vector of names | one LLVM pass | `opt` | erases while iterating; counts names, not addresses | removes only overwritten stores |
| Older versions (`Assig1`, `Assig2`, `Assig3`, `assignment1`) | earlier tables, scanners and parsers | | | `ht_to_list` of `assignment1` loops on a chain of two | |
| `lib/`, `hash-sandbox/`, `Assig1/uthash.h` | third-party hash tables | | nothing | | |

Interactions. The lexer calls `lookup_symtab` and `create_symbol` for every identifier
with the `cur_scope` of that moment, so the parser must have changed `cur_scope` before the
next token is read (it has: the actions involved are default reductions). `delete_scope`
calls `ht_to_list` once and `h_remove` once per symbol, and `h_remove` frees the symbol.
`function_decl` calls `delete_scope` and then inserts the function's own symbol; its comment
says "order matters". The expression rules hand registers to each other through the `place` of a
symbol, declarators, parameters and arguments are handed on as lists through its `next`, and the
type checks read its `type`: one object serves as table entry, list cell and operand.
Emitted code meets at run time what the compiler never looks at together: save slots and locals
of one frame, and the labels of one function and the next.

## 2. Modules

| module | what it is |
|---|---|
| `HashTableOps` | the operations of `hashtable.c` as operators on a table |
| `HashTable` | the table under every sequence of calls; safety properties and the refinement |
| `Dict` | what a client may rely on: a *forgetful* dictionary |
| `HashTableLemmas`, `HashTableProofs` | lemmas about the operators; theorems about `HashTable` |
| `KeyText` | the text of keys: `myitoa`, `gen_key`, `hash` |
| `SymbolTable`, `SymbolTableProofs` | scopes, declarations, lookups and `delete_scope`, on `HashTableOps`; theorems |
| `ExprGen`, `ExprGenProofs` | the register list and the rules that use it; theorems |
| `StructuredProgram` | what the code of a program promises: statements are executed as they are nested |
| `ControlFlow`, `ControlFlowProofs` | the statement productions with the label stack and the string labels, and the run of their output; theorems |
| `Frame`, `FrameProofs` | prolog, epilog, calls and frame slots on the MIPS stack; theorems |
| `SymbolLinks` | the lists that the parser makes of symbols |
| `Declarations`, `DeclarationsProofs` | declarations, types, calls and type checks, on `SymbolLinks`; theorems |
| `StoresRemoval`, `StoresRemovalProofs` | the LLVM pass on one basic block; theorems |
| `MCHashTable`, `MCSymbolTable`, `MCFrame`, `MCDeclarations`, `MCStoresRemoval` | constants and symmetry for the runs (`ExprGen` and `ControlFlow` need none) |

`HashTable` and `SymbolTable` both EXTEND `HashTableOps`, so the lemmas about the operators
serve both. `HashTable` takes `Forgetful == INSTANCE Dict WITH ...`, and `ControlFlow`
takes `Structured == INSTANCE StructuredProgram WITH Limit <- STACK_SIZ`.

### The hash table

A bucket is the sequence of its entries from head to tail. The head of an empty bucket is a
placeholder with `index = -1`, which is the empty sequence. `ll_search` is the first
position with the key. `h_insert` appends at the tail. `h_remove` takes an inner
entry out and, at the head, sets `index = -1` and `next = NULL`: the whole chain is lost
(`RemoveFromChain`). The data is freed in both cases (`FreedBy`). `hash` is a constant
function: what is proved holds for every hash function into the table.
`HashTable` adds the caller: data objects, each inserted at most once, and the result of the last call.

`Dict` states what is left of a dictionary when chains can be lost: it keeps, for colliding
keys, which one is older; removing a key forgets it alone if an older one collides with it,
and all its colliding keys if not. With `Collide` the identity it is the
dictionary that `hashtable.h` documents.

### The symbol table

The state follows the parser through a program: `pc` is `top` (global declarations),
`params`, `decls`/`stmts` (the body and its nested blocks), `delete` (inside
`delete_scope`), `insert` (the function's own symbol), and the two errors, from which there is
no step. A symbol is an element of `Symbol` (an address) with name, scope and
kind in `heap`; type, dimension, links and place are left out. `ARRAY` is `NONE` here: the
code compares the kind with `PARAMETER` only. Symbols that the lexer creates for a name that
is only used never reach the table and are left out.
`GlobalDecl`, `Param` and `LocalDecl` are `Declare`: the lexer's lookup in the current
scope, the creation of a symbol and `insert_symbol`, which happen in this order with no
other access to the table in between. `DeleteStep` is one turn of the loop of
`delete_scope`, with its test and `h_remove`, so that the state between two removals is visible.
`declared`, `dead` and `clash` are history variables: accepted declarations, those
whose block is closed, and the symbol that made a declaration fail.
A key is the pair of scope and name; `MCSymbolTable` assumes, and TLC evaluates, that different pairs
have different texts (scopes and names of several digits).

### Temporary registers

`stack` is the part of the parser's stack that belongs to the current statement: operands with
their places and open brackets. `binop` has no precedence and bison resolves its conflicts by
shifting, so operands are pushed until a token ends the expression (`Terminate`), then pairs are reduced
from the right (`ReduceBinop`), up to an open bracket or the statement. A place
is a register, `$-1` (`NoReg`), `$v0` (`V0`), or a variable's slot or label (`Mem`).
`abandoned` is a history variable: registers whose operand is gone without
`mark_temp_reg_free`. `faults` tells what happened in the last step.

Undefined behaviour: the register strings have three bytes and `$10` needs four. The
terminator goes to the neighbouring string. `Layouts` chooses the outcome: with local
arrays laid out downwards (gcc -O0) the neighbour becomes empty and its register is not given back, with the
opposite layout (gcc with a stack protector) the names grow at their ends, which
does not change the register they denote. `temp_reg[-37]` and `temp_reg[692]` are written
(for `$-1` and `$v0`) outside of the list; what lies there is not modelled, the
fault is recorded. `lhs = fread()` leaves the value of the production
undefined and is not modelled.

### Control flow

A behaviour of `ControlFlow` has two parts. First the parser reads a program, one mid-rule or final
action of `parser.y` per step: `open` is the stack of statements that are not complete,
`expect` what may come next, and `code` the output as a sequence of instructions. A simple
statement is one instruction `do`, a condition is one instruction `test`; what they compute is the business of `ExprGen`.
The distinction between "reduced" and "no else" in `expect` is bison's lookahead:
`ELSE` goes to the innermost `if`, and once the empty `else_part` has been reduced the next token is known
not to be `ELSE`. Then (`RunFrom`) one function of the program is executed by the machine
(`Perform`, `Transfer`, `Finish`), with every outcome of every condition.

`StructuredProgram` is the specification: the same program text as a tree, and an `Execute`
that goes from a statement to its successor in the tree. `FollowsStructure` says that the machine
implements it. It is a promise about programs without `for`
(`Assig4-final/README.md:34` lists it as not supported), in which a `return` is the last thing
that its function does (the code runs on behind it), and in which at most `STACK_SIZ` conditional statements are nested.

Undefined behaviour: the push at index `STACK_SIZ - 1` writes the word behind the array, which is
`index`; `s_push` leaves either the label or the incremented index there, and `s_get` beyond the
structure gives any label number. `slabel_arr` is followed by other variables: an overrun ends the
behaviour (`expect = "smashed"`).

### Stack frames

Addresses are in words. `gen_func_prolog` maps memory and registers at the entry of a function to those after its
prolog; calls (`Call`) and returns (`FunctionReturns`) are one step each, since nothing else runs
in between. A function calls itself or one that is declared before it, which is what `function_call`
accepts. `calls` is a history variable with, for each activation, what the machine should
give back. Values are distinguishable tokens: an address, a return address, a local's or a register's value of a given
activation, so that one that is found in the wrong word is noticed. The frame of `NREG`
words (eight, 32 bytes) is full of saved registers, and local number `k` is word `k` below `$fp`: locals and save slots
are the same words, which the properties state.

### Declarations

`heap` holds the symbols; `next`, `type`, `type_ptr`, `n_param`, `kind` and `place` are the fields of
`symtab_entry` that productions write. `SymbolLinks` has the lists: `Linked` is what
`param_list` and `call_param_list` do from right to left, `ListOf` what `id_list` does from
left to right, `Endless` whether a loop `while (handle->next)` ends. A declaration, a statement and a call
are one step each: the parser does nothing else in between. `pc` is `hang` when a loop does not end, `error` after `yyerror` (the program has
exited, and nothing of the state is kept), and `undefined` after
`struct_decl_list: type_decl` with a structure, whose `mytype_t` is then used as a `struct_field`.
The fields `decl`, `arity` and `marks` of a symbol, the field `depth` of a type and the variable
`misjudged` are history: what was declared, and which uses a symbol has had (the mark `twice` for a repeated argument, `again` for a symbol
that a list of declarators or members named although it was there already).

The symbol table is a function here; what the hash table loses is the subject of `SymbolTable`, and so
are nested blocks. Arrays are left out (`array_subscript` leaves its value undefined). Two members of a
structure never get their own symbols' types checked, since a member is a name and a type only.

What the model shows about the code, and the properties delimit: `f(a, a)` makes a cycle and the parser hangs; so does `int a, b;` followed by
`int a, b, c;`, in the loop of `id_list` and before the second declaration can be refused; a function that passes its
own parameter to a call may be recorded with another number of parameters; a call without arguments, and a recursive call,
is not counted; a member access `s.x` leaves the type of `x` in `s`; a member with the name of a variable
retypes the variable; calling a function whose name is also a local's gives the local the place `$v0`.

### StoresRemoval

`input` is the basic block as it was given, `block` the positions that are left, `names` the vector. Each
step handles an instruction of the first loop or an operand of the second one. `NameOf` need not be injective: a
local and a global may share a name, and temporaries share the empty one, which the pass skips. After
`eraseFromParent` the inner loop goes on with the next operand of the freed instruction (`ReadErased`): undefined.
`Assig5/README.md` describes the aim as erasing stores to an operand that a later one overwrites. The code
erases on a repeated *name* among all operands of stores, the stored value included, and looks at no load in between;
the properties say what is left of the aim.

## 3. Runs

| run | question | result |
|---|---|---|
| `hash_table` | chains stay well formed, no freed data is reachable, the table implements `Dict` | holds, 2 689 states |
| `hash_remove_doc` | does `h_remove` "Remove an entry from the table" (`hashtable.h:67`)? | violated: removing the head loses the others |
| `symbol_table` | are open declarations found and only closed ones freed, although `h_remove` loses chains? | holds, 640 866 states |
| `symtab_params_doc` | "allow same var name in different scope" (`Test3:15`) | violated: parameters are never deleted, `Test3` itself is refused |
| `symtab_blocks_doc` | "including all the previous scopes" (`symboltable.h:48`) | violated: closed sibling blocks are visible |
| `expr_gen` | does every occupied register have one owner, and does allocation fail only near the limit? | holds, 1 174 704 states |
| `expr_exhausted_doc` | "returns -1 if all registers are currently being used" (`codegen.h:58`) | violated: conditions keep their register |
| `expr_wild_doc` | "else do nothing" (`codegen.h:62`) | violated: `x = read()` marks `$v0` |
| `control_flow` | are labels unique and defined, does the emitted code follow the nesting and keep going? | holds, 1 008 670 states |
| `frame` | what survives a call, with frames too small for their locals? | holds, 972 282 states |
| `declarations` | when does the parser hang, misjudge a statement or forget a declaration? | holds, 157 229 states |
| `stores_removal` | which stores are erased, and when is freed memory read? | holds, 793 564 states |

Properties.

* `TypeOK` in each module. In `SymbolTable` it also says that the bookkeeping is consistent (`dead`
  within `declared` within the heap), in `ExprGen` that only registers of the list are marked.
* `ChainInv`, `NoDangling`: entries are where `h_get` looks for them; freed data is
  unreachable and no data object is shared, so there is no double free.
* `ForgetfulDict`: refinement of `Dict`.
* `KeysMatchSymbols`: `delete_scope` recomputes keys from the symbols; they agree with the table.
* `LiveFound`: each declaration of an open block is found. Because `h_remove` loses
  chains, it holds only since in every chain the symbols that stay are ahead of the locals:
  globals and parameters are inserted before the first local, functions after the deletion.
* `MemorySafe`: only closed symbols are freed, the loop never reads a freed one through its copy, and none is left in the table.
* `NoLocalOutlives`: no local survives its function.
* `OneOwner`: occupied registers are exactly those of pending operands and the abandoned ones, with no register in two roles.
* `ExhaustedNearLimit`: a step in which allocation fails starts with all but two registers owned.
* `StackMirrorsNesting`: the label stack holds exactly the labels of the open `if`s and `while`s, growing
  inwards. Holds up to the real capacity of the stack.
* `LabelsUnique`, `LabelsResolved`: no label is defined twice in the whole output, string labels and globals
  included; after each function every label used is defined, jumps in the same function.
* `OverrunOnlyByOneFunction`: `slabel_arr` is overrun only when one function and the globals in front of it have more labels than it
  has places.
* `FollowsStructure` (refinement of `StructuredProgram`) and `KeepsExecuting` (liveness: no circle of jumps without a
  statement in it, and no jump that leads nowhere).
* `LinksKept`, `LocalsKept`, `CallPreserves`: return addresses and frame pointers always survive; locals up to the size of the frame survive calls,
  the others may be lost; a call gives back the registers whose save slot is not the word of a local that the callee assigned.
* `HangsOnlyOnReuse`: a loop along `next` fails to end only if a call had a symbol twice, or a list of several declarators or
  members named a symbol of the scope that was there already.
* `JudgedByDeclarations`: as long as no earlier use has overwritten what it mentions, a statement is
  accepted if and only if the declarations allow it, calls by the number of their arguments. A `return` also reads the type of
  the function's own symbol.
* `SymbolsKept`: nothing but the three known uses changes a declared type or place.
* `TypeNamesUnique`, `MembersDiffer`: a name stands for one type, except for a structure declared inside one with the same tag; structures in use have different members.
* `VectorCountsMentions`: for every name that a remaining store mentions the vector has one entry per mention. This is not
  evident: an erased store takes one entry away and may have had two.
* `ErasedForALaterMention`, `NoRepetitionLeft`, `LastStoreKept`, `UndefinedOnlyForNamedValues`: a store is erased only for a mention that comes after
  it, in the end no name is mentioned twice, the last store to a variable that nothing later mentions is kept, and freed
  memory is read only when a named value is stored that is mentioned elsewhere too.

Bounds. `HashTable.cfg`: four keys, three in one bucket and one in another of three, so
chains of three form and are cut at the head, in the middle and at the tail; five data objects allow re-insertion after
a removal. `SymbolTable.cfg`: three names over two buckets with the real hash of the real key
text, so symbols of different scopes and names share chains; five symbols; `MaxScope = 2`, one level of nested
blocks, which with sibling blocks is where scope errors appear; programs have
several functions as long as symbols last (no state bounds their number). `ExprGen.cfg`: four registers
and five stack items: enough for a full operation with other operands pending, and for
exhaustion with and without abandoned registers; eight registers differ only in
the number of steps to the limit, and the proofs cover every number. `ControlFlow.cfg`: `STACK_SIZ = 2` and `SLABELS = 2` with
`MaxStmt = 4` statements, so that programs go two nested statements beyond the stack and past the array, with two functions
(labels must differ between them) and one global. `Frame.cfg`: two registers, and a function without
locals, one with two more than its frame covers, and `main` with one; 17 words take five to six nested calls. `Declarations.cfg`:
three names, three symbols, two types and at most three symbols and types together, two members per structure, two declarators per list
and two references per statement; they suffice for a list of two that is taken over by another one, a structure in a structure, and a call with
one target and one argument or with two arguments. `BaseType` is `{"INT", "FLOAT"}`: the conversion between them and
mismatches with structures both occur. `StoresRemoval.cfg`: blocks of up to four instructions with values of all three sorts (named, sharing a name, unnamed).

`SymbolTable`, `ControlFlow`, `Frame`, `Declarations` and `StoresRemoval` do not check deadlock: an error, an exit, an undefined step or the end of the
program or pass ends the behaviour.

Symmetry: data objects and symbols are addresses that the code only compares with each other and
with NULL; names in `Declarations` are only compared. Names in `SymbolTable` are not symmetric since their hashes differ.

Fairness: `WF_vars(Machine)` in `ControlFlow`. A processor that has a next instruction executes it; nothing is assumed
of the parser (it may never get to the end of its input) and nothing of the conditions (a `while` may run for ever, which is why
`KeepsExecuting` promises statements and not an end). The other specifications have no fairness: each operation there is a loop over a finite
list, and where such a loop does not end, `hang` is a state and `HangsOnlyOnReuse` an invariant.

Mutants: each property is violated by one plausible change of the code, which the module
defines ahead of the definition it changes (`InsertAtHead`, `ReduceGivingBackEarly`, `EpilogLoadingLow`, `NewName`, ...).

## 4. Proofs

All for every value of the constants (any keys, hash function, table size, names, symbols, nesting of blocks, number of
registers, expression length, layout, functions, locals, stack, values, length of a basic block, types, lists of declarators, members, parameters and arguments, programs, sizes of the label stack and
the array of string labels), from the named
assumptions of the modules only. Each theorem follows one pattern: an inductive `IInv`, which TLC found to hold on the
instance of the run before it was proved, implied by `Init`, kept by every step, and implying the property.

* `HashTableProofs`: `TypeCorrect`, `ChainsWellFormed`, `NeverDangling` and
  `ImplementsForgetfulDict`. The inductive invariant is the conjunction of the three
  properties: well-formedness needs the types, and `NoDangling` needs that keys are unique
  in a chain, otherwise the freed data could hang in a second entry. The refinement shows
  for each operation which abstract operation it is; `HashTableLemmas` says what each
  operator does to lookups and to the order of entries.
* `ExprGenProofs`: `TypeCorrect`, `RegistersHaveOneOwner` and `FailsNearTheLimit`. `OneOwner` alone is
  not inductive: statements that start with an array element drop the bottom of the
  stack without giving a register back, so `IInv` adds that this item is never in a
  register (`Bottom`), that brackets are not (`BracketsInMemory`), that nothing is on the stack
  between statements (`Idle`), and what keeps the stack within its bound (`Room`, `Filled`).
* `FrameProofs`: `TypeCorrect`, `LinksSurvive`, `LocalsSurvive` and `ReturnsRestore`. None of the properties is inductive: a step
  writes below `$sp`, or the local words of the current function, so that `IInv` says for every activation that is
  waiting what it expects of the memory (`Holds`) and that every later one was entered below the words it looks at
  (`Ordered`); `Chained` links the `$sp` and `$fp` that an activation found to those of its caller, which is what a return
  needs to put the caller's registers in place (`InPlace`), and `Fits` keeps all addresses within the stack.
  The lemma `Kept` shows that `Holds` survives every write below.
* `SymbolTableProofs`: `TypeCorrect`, `KeysAgree`, `OpenDeclarationsFound`, `DeletionIsSafe` and `LocalsAreGone`.
  The order of declarations carries the whole argument, since `h_remove` loses what is behind a head:
  in every chain the symbols that `delete_scope` takes away are behind those that stay (`Sorted`), so that a chain is
  only ever lost from a place where all the rest was to be deleted anyway. That order needs `NoLocals` wherever a global
  or a parameter is inserted, and it would break if a function's symbol went in before the deletion, which is what the
  comment "order matters" in `function_decl` is about. During the loop the copy of the pointers names every symbol
  once (`Copied`) and holds everything that is in the table (`InCopy`), nothing ahead of the cursor has been freed
  (`UnfreedAhead`), and what is still to be deleted is ahead of it (`StillToRemove`): the loop never reads freed
  memory, and when it ends there is nothing left to delete. The lemmas of `HashTableLemmas` say what an insertion and a
  removal do to lookups and positions.
* `ControlFlowProofs`: `TypeCorrect`, `StackFollowsNesting`, `LabelsDefinedOnce`, `LabelsAreResolved` and
  `OverrunByOneFunction`, from the safety part of `Spec`. The stack is a fixed array with an index and a
  program is a tree, so the invariant first says how they meet: `open` is a path in the tree (`Path`), the
  depth of a statement on it is the number of conditional statements up to it (`Deep`), and the word of the stack at each
  of these is its number, which grows inwards (`Numbered`). Hence a number belongs to one open statement, the labels
  that a statement has still to place are not in the output yet (`Placed`, which gives that labels are defined once), and a
  jump leads to a label that is in its function or that an open statement has still to place (`Resolving`). `Numbered`,
  `Placed` and `Resolving` need a nesting of at most `STACK_SIZ`; beyond it `s_push` writes behind the array.
  `Strings` says that the labels of `slabel_arr` are numbered apart from those that are defined, and `Counted` that
  its length is the uses and globals less the definitions so far: `gen_string_labels` alone empties it,
  at the end of each function, so that an overrun needs the labels of a single one. The number of definitions is counted by `Tally`, and the lemmas
  about it and about appending code (`Emitted`) are shared by all statements.
* `DeclarationsProofs`: `TypeCorrect`, `HangsOnlyAfterReuse`, `SymbolsStay`, `TypeNamesOnce`, `MembersChecked` and `Judged`.
  One object is table entry, list cell and operand, so every production can disturb every list, and the invariant says what survives.
  `Links`: as long as no symbol is marked `twice` or `again` there are ranks that fall along `next`, so that every walk ends; a production
  that links symbols leaves ranks of this kind (`Ranked`). `AllKept`: a symbol that no use has retyped is as
  declared, and a complete function has counted its parameters. The count is made after the body, hence `ParamsListed` (the parameters
  are different symbols and, if no call or structure had them, the list in the heap is the list of parameters) and `FnApart` (the current function is
  in no list and is no entry of the table yet, so that its end links it to nothing that leads back). With `TypeOK`,
  `InFunction` and `HangsOnlyOnReuse` these make `IInv`. The steps of the parser are reduced to eight kinds first
  (`NextCases`): an ordinary step only adds symbols, marks old ones and links what it names (`Quiet`, `Evolves`), and the others
  open a function, take a parameter, begin the body and end it, fail, or do not end. `NamesInv` for the type names adds to the two properties that the lexer knows the
  name of each type (`NamesKnown`), and that a type with the tag of a structure that is not complete is inside of it (`OpenTags`), which is the
  one way to declare a name twice. For `Judged`, an evaluation that reads no overwritten symbol finds the declared types
  (`CleanEvaluation`, by the length of the statement; `Agrees` tells how a type that was found and a declared type compare), and the
  arguments that are counted along `next` are those that were given (`ChainIs`). The recursion along links and over statements is by recursive functions;
  the lemmas `UpTo` and `RecursionExists`, from well-founded induction over a set, take the place of an induction theorem with an operator.
* `StoresRemovalProofs`: `TypeCorrect`, `VectorCounts`, `ErasedForCause`, `NoNameTwice`, `LastStoreStays` and
  `UndefinedForNamedValues`. `Counted` says that for a name that a remaining store mentions the vector has as many
  entries as there are mentions. It does not hold between the erasure of a store and the next instruction
  (`HalfErased`), where the vector is one behind or freed memory is about to be read; afterwards it holds again, because an
  erased store whose other operand has a name that occurs elsewhere ends in "undefined", so the name of its other operand
  is left nowhere and no longer counts (`NamedTwice`). `Settled` (names the cursor has passed are no longer repeated), `Justified` and
  `Behind` (what is gone is behind the cursor and was mentioned again later) then give the four results about the outcome. The first lemmas have the
  counting: appending adds a place of an element, `RemoveFirst` takes one away, and both leave other elements alone.

Only model-checked, on the instances of section 3:

* the refinement `FollowsStructure`: what the emitted code does must be what the program says, and an argument for all
  programs is an induction over the nested statements;
* `KeepsExecuting`: liveness under fairness, and `ENABLED`, are beyond the proof system;
* the text of keys (`KeyText`): what a recursive definition computes for every input needs an induction the provers
  cannot instantiate. The proofs about `SymbolTable` assume only that keys of different pairs differ, and
  TLC evaluates that assumption for the keys of the run;
* the runs that expect a violation, which show what a document promises and the code does not do.

## 5. Not modelled

* Emitted text: instruction strings, their layout and the file. `ExprGen`, `ControlFlow` and `Frame` keep what the text
  does to registers, control and memory. Values that programs compute are left out.
* Arrays and subscripts in `Declarations` (`array_subscript` leaves its semantic value undefined), float constants, and
  `struct_decl: STRUCT struct_block id_list` and `STRUCT ID ID`, which declare nothing that could be used.
* `lhs = fread()`, whose value is undefined.
* The other rules of `lexer3.l`: regular expressions that flex compiles, with the line number as their only state.
* The pass `storesremoval` (without the 2), which prints what it visits and changes nothing.
* `Assig3`, `Assig2`, `Assig1` and `assignment1`: earlier versions of the same parser, tables and scanner. Their code is
  the code of `Assig4` before it was finished, and models of them would repeat `HashTable`, `SymbolTable`
  and `Declarations` without code generation.
* `lib/`, `hash-sandbox/`, `Assig1/uthash.h` (third-party hash tables, some of them several times) and
  `Assig1/lex.yy.c` (generated). The compiler uses none of them. By lines they are most of the C code of the repository,
  and with the earlier versions they are the reason that the modelled lines are a small share of all of it.
* Allocation failure (`malloc` is never tested) and the failure to open a file.

What could come next: arrays in `Declarations`, and the refinement of `ControlFlow` as a theorem, from the invariant of
`ControlFlowProofs` and a fact about where the code of each statement begins and ends.
