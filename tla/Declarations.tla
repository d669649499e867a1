---------------------------- MODULE Declarations ----------------------------
(***************************************************************************)
(* Declarations, calls and type checks of Assig4/parser.y with the type    *)
(* table of Assig4/typetable.c and the ID rule of lexer3.l.                *)
(*                                                                         *)
(* The state follows the parser through a program: declarations of         *)
(* variables, structures and typedefs, functions with parameters, and      *)
(* assignments and calls in their bodies.  Programs with syntax errors are *)
(* left out.  Nested blocks, arrays and the losses of the hash table are   *)
(* the subject of SymbolTable: here the symbol table is a function.        *)
(***************************************************************************)
EXTENDS SymbolLinks, FiniteSets

CONSTANTS
    Name,        \* identifiers
    BaseType,    \* types with a keyword
    MaxSymbol,   \* bound on the symbols that the lexer creates
    MaxType,     \* bound on the structures and typedefs
    MaxObject,   \* bound on both together
    MaxField,    \* bound on the members of a structure
    MaxDeclarator, \* bound on the names in a list of declarators
    MaxReference \* bound on the references in a statement

ASSUME NameAssumption ==
    /\ "" \notin Name /\ "1" \notin Name
    /\ BaseType \subseteq {"VOID", "INT", "FLOAT"}
    /\ {MaxSymbol, MaxType, MaxObject, MaxField, MaxDeclarator, MaxReference} \subseteq Nat

VARIABLES
    heap,      \* the symtab_entry objects
    symtab,    \* the symbol table
    types,     \* the mytype_t objects
    typetab,   \* the type table
    scope,     \* cur_scope, 1 in a function
    pc,        \* what the parser is reading
    structs,   \* structures that are not complete, innermost last
    fn,        \* current_function
    params,    \* symbols of the parameters of fn
    misjudged  \* TRUE after a decision that the declarations do not justify

vars == <<heap, symtab, types, typetab, scope, pc, structs, fn, params, misjudged>>

Type == BaseType \cup {"VOID", "INT", "TYPEDEF", "STRUCT"}
Scope == {0, 1}

(***************************************************************************)
(* The fields decl, arity and marks are history: the type in the           *)
(* declaration, the number of parameters in it (-1 when their list was     *)
(* disturbed before the function was complete), and what has happened to   *)
(* the symbol since: "member" of it was read, it was in the list of a      *)
(* "field" of a structure, "call"ed by name, an "arg" of a call or "twice" *)
(* an argument of the same call, and named "again" with other declarators. *)
(***************************************************************************)
Symbol(name, type) ==
    [name |-> name, type |-> type, kind |-> "NONE", next |-> NULL, n_param |-> 0,
     type_ptr |-> NULL, place |-> "own", decl |-> type, arity |-> 0, marks |-> {}]

Disturbed(s) == heap[s].marks \cap {"arg", "field"} # {}
Retyped(s) == heap[s].marks \cap {"member", "field", "call"} # {}

\* There is room for these symbols, and for n types more.
Room(h, n) ==
    LET made == Len(types) + Len(structs) + n
    IN  Len(h) <= MaxSymbol /\ made <= MaxType /\ Len(h) + made <= MaxObject

-----------------------------------------------------------------------------
(* typetable.c and the ID rule of the lexer.                                *)

\* Mutant: a name that is in the symbol table is an identifier.
TokenBySymbol(name) ==
    IF typetab[name] = NULL \/ symtab[<<scope, name>>] # NULL THEN "ID"
    ELSE IF types[typetab[name]].type = "STRUCT" THEN "STRUCT_NAME" ELSE "TYPEDEF_NAME"

\* The token for a name: type names are known in every scope, and for good.
Token(name) ==
    IF typetab[name] = NULL THEN "ID"
    ELSE IF types[typetab[name]].type = "STRUCT" THEN "STRUCT_NAME" ELSE "TYPEDEF_NAME"

\* insert_type: the new object is made whether or not the table takes it.  The
\* nesting of structures at that point is history.
insert_type(name, type, fields) ==
    /\ types' = Append(types, [name |-> name, type |-> type, fields |-> fields,
                               depth |-> Len(structs)])
    /\ typetab' = IF typetab[name] = NULL
                  THEN [typetab EXCEPT ![name] = Len(types) + 1] ELSE typetab

\* The lexer gives the symbol of the current scope, or a new one.
Scan(h, name, type) ==
    IF symtab[<<scope, name>>] # NULL
    THEN [heap |-> h, sym |-> symtab[<<scope, name>>]]
    ELSE [heap |-> Append(h, Symbol(name, type)), sym |-> Len(h) + 1]

\* The heap and the symbols after the lexer has given one for each of the names.
ScanAll(names) ==
    LET scan[i \in 0 .. Len(names)] ==
          IF i = 0 THEN [heap |-> heap, syms |-> << >>]
          ELSE LET one == Scan(scan[i - 1].heap, names[i], "VOID")
               IN  [heap |-> one.heap, syms |-> Append(scan[i - 1].syms, one.sym)]
    IN  scan[Len(names)]

\* The names in a list of declarators.
Identifiers == {names \in SeqOf({n \in Name : Token(n) = "ID"}, MaxDeclarator) : names # << >>}

\* The symbols that were there when they were named with others in a list.
Reused(syms) == IF Len(syms) > 1 THEN Range(syms) \cap DOMAIN heap ELSE {}
Again(h, syms) ==
    [k \in DOMAIN h |-> IF k \in Reused(syms) THEN [h[k] EXCEPT !.marks = @ \cup {"again"}] ELSE h[k]]

-----------------------------------------------------------------------------
Init ==
    /\ heap = << >>
    /\ symtab = [key \in Scope \X Name |-> NULL]
    /\ types = << >>
    /\ typetab = [name \in Name |-> NULL]
    /\ scope = 0
    /\ pc = "decls"
    /\ structs = << >>
    /\ fn = NULL
    /\ params = << >>
    /\ misjudged = FALSE

\* yyerror ends the program: nothing that was declared is left.
yyerror ==
    /\ pc' = "error"
    /\ heap' = << >>
    /\ symtab' = [key \in Scope \X Name |-> NULL]
    /\ types' = << >>
    /\ typetab' = [name \in Name |-> NULL]
    /\ scope' = 0
    /\ structs' = << >>
    /\ fn' = NULL
    /\ params' = << >>

\* A type in front of a declarator: its enumeration and its mytype_t object.
Plain == {<<type, NULL>> : type \in BaseType}
         \cup {<<"TYPEDEF", NULL>> : n \in {n \in Name : Token(n) = "TYPEDEF_NAME"}}
Struct == {<<"STRUCT", typetab[n]>> : n \in {n \in Name : Token(n) = "STRUCT_NAME"}}

AtDecl == pc = "decls" /\ structs = << >>

\* The types that declarators may have now: after the closing brace of a
\* structure it is that structure.
DeclaratorType ==
    IF pc = "declarators" THEN {<<"STRUCT", Len(types)>>} ELSE Plain \cup Struct
AtDeclarators == pc \in {"decls", "declarators"}

\* Mutant: every name is entered with the first symbol of the list.
EnteredFirst(names, syms) ==
    [key \in DOMAIN symtab |->
        IF key \in {scope} \X Range(names) THEN syms[1] ELSE symtab[key]]

\* The symbol table with these names entered in the current scope.
Entered(names, syms) ==
    [key \in DOMAIN symtab |->
        IF key \in {scope} \X Range(names)
        THEN syms[SelectInSeq(names, LAMBDA n : n = key[2])] ELSE symtab[key]]

(***************************************************************************)
(* var_decl: the declarators become symbols of the current scope.  A       *)
(* symbol that is there already is refused.                                *)
(***************************************************************************)
DeclareVars(type, names) ==
    LET scan == ScanAll(names)
        list == ListOf(scan.heap, scan.syms)
        refused == ~ IsInjective(names) \/ \E n \in Range(names) : symtab[<<scope, n>>] # NULL
    IN  /\ Room(scan.heap, 0)
        /\ \/ /\ list.endless
              /\ pc' = "hang"
              /\ UNCHANGED <<symtab, types, typetab, scope, structs, fn, params>>
              /\ heap' = Again(heap, scan.syms)
           \/ ~ list.endless /\ refused /\ yyerror
           \/ /\ ~ list.endless /\ ~ refused
              /\ pc' = "decls"
              /\ UNCHANGED <<types, typetab, scope, structs, fn, params>>
              /\ heap' = [k \in DOMAIN list.heap |->
                             IF k \in Range(scan.syms)
                             THEN [list.heap[k] EXCEPT !.type = type[1], !.decl = type[1],
                                                       !.type_ptr = type[2]]
                             ELSE list.heap[k]]
              /\ symtab' = Entered(names, scan.syms)

VarDecl ==
    /\ AtDeclarators
    /\ structs = << >>
    /\ \E type \in DeclaratorType, names \in Identifiers : DeclareVars(type, names)
    /\ UNCHANGED misjudged

TypedefDecl(name) ==
    /\ AtDecl
    /\ Token(name) = "ID"
    /\ Room(heap, 1)
    /\ insert_type(name, "TYPEDEF", << >>)
    /\ UNCHANGED <<heap, symtab, scope, pc, structs, fn, params, misjudged>>

-----------------------------------------------------------------------------
(* Structures.  The members of a structure are read with id_list, so the    *)
(* lexer gives the symbols of variables that have the names of members.     *)

StructBegin(tag) ==
    /\ pc = "decls"
    /\ Token(tag) = "ID"
    /\ Room(heap, 1)
    /\ structs' = Append(structs, [tag |-> tag, fields |-> << >>])
    /\ UNCHANGED <<heap, symtab, types, typetab, scope, pc, fn, params, misjudged>>

\* create_field for each symbol of a list.
Fields(h, head) == LET list == Chain(h, head)
                   IN  [i \in DOMAIN list |-> <<h[list[i]].name, h[list[i]].type>>]

\* struct_var_decl of names with a type, in the structures open, and the fields
\* that it appends to the innermost of them.
AddMembers(open, type, names) ==
    LET scan == ScanAll(names)
        list == ListOf(scan.heap, scan.syms)
        head == scan.syms[1]
    IN  /\ Room(scan.heap, 0)
        /\ IF list.endless \/ Endless(list.heap, head)
           THEN /\ pc' = "hang"
                /\ heap' = Again(heap, scan.syms)
                /\ structs' = open
           ELSE LET before == Again(list.heap, scan.syms)
                    listed == Range(Chain(list.heap, head))
                    new    == [k \in DOMAIN before |->
                                  IF k \in listed
                                  THEN [before[k] EXCEPT
                                           !.type = type[1], !.marks = @ \cup {"field"},
                                           !.type_ptr = IF type[2] = NULL THEN @ ELSE type[2]]
                                  ELSE before[k]]
                    fields == Last(open).fields \o Fields(new, head)
                IN  /\ Len(fields) <= MaxField
                    /\ heap' = new
                    /\ structs' = [open EXCEPT ![Len(open)].fields = fields]
                    /\ pc' = "decls"

Members ==
    /\ AtDeclarators
    /\ structs # << >>
    /\ \E type \in DeclaratorType, names \in Identifiers : AddMembers(structs, type, names)
    /\ UNCHANGED <<symtab, types, typetab, scope, fn, params, misjudged>>

\* Mutant: members with the same name but different types pass.
SomethingDiffers(fields) == IsInjective(fields)

\* The check for duplicate members.
NamesDiffer(fields) == IsInjective([i \in DOMAIN fields |-> fields[i][1]])

\* The closing brace of a structure, with declarators behind it or without.
\* Without them, as the first thing in another structure, its type object is
\* taken for a field, and the behaviour is undefined.
StructEnd ==
    LET this  == Last(structs)
        outer == Front(structs)
    IN  /\ pc = "decls"
        /\ structs # << >>
        /\ this.fields # << >>
        /\ IF NamesDiffer(this.fields)
           THEN /\ \/ pc' = "declarators"
                   \/ pc' = IF outer # << >> /\ Last(outer).fields = << >>
                            THEN "undefined" ELSE "decls"
                /\ structs' = outer
                /\ insert_type(this.tag, "STRUCT", this.fields)
                /\ UNCHANGED <<heap, symtab, scope, fn, params>>
           ELSE yyerror
        /\ UNCHANGED misjudged

-----------------------------------------------------------------------------
(* Functions.                                                               *)

FuncBegin(type, name) ==
    LET scan == Scan(heap, name, type)
    IN  /\ AtDecl
        /\ scope = 0
        /\ Token(name) = "ID"
        /\ Room(scan.heap, 0)
        /\ heap' = [scan.heap EXCEPT ![scan.sym].type = type, ![scan.sym].decl = type,
                                 ![scan.sym].kind = "FUNCTION"]
        /\ fn' = scan.sym
        /\ scope' = 1
        /\ pc' = "params"
        /\ params' = << >>
        /\ UNCHANGED <<symtab, types, typetab, structs, misjudged>>

\* A structure as the type of a parameter has a tag that is not declared.
Param(type, name) ==
    LET scan == Scan(heap, name, type)
    IN  /\ pc = "params"
        /\ Token(name) = "ID"
        /\ Room(scan.heap, 0)
        /\ IF symtab[<<1, name>>] = NULL
           THEN /\ heap' = [scan.heap EXCEPT ![scan.sym].type = type,
                                             ![scan.sym].kind = "PARAMETER"]
                /\ symtab' = [symtab EXCEPT ![<<1, name>>] = scan.sym]
                /\ params' = Append(params, scan.sym)
                /\ UNCHANGED <<pc, types, typetab, scope, structs, fn>>
           ELSE yyerror
        /\ UNCHANGED misjudged

FuncBody ==
    /\ pc = "params"
    /\ heap' = IF params = << >> THEN heap ELSE Linked(heap, params)
    /\ pc' = "decls"
    /\ UNCHANGED <<symtab, types, typetab, scope, structs, fn, params, misjudged>>

\* The parameters are counted along the list, as it is after the body.  All
\* symbols of scope 1 but parameters are deleted.
FuncEnd ==
    LET head    == IF params = << >> THEN NULL ELSE params[1]
        counted == [heap EXCEPT ![fn].n_param = Len(Chain(heap, head)), ![fn].next = head,
                                ![fn].arity = IF \E s \in Range(params) : Disturbed(s)
                                              THEN -1 ELSE Len(params)]
        name    == heap[fn].name
        outer   == [key \in DOMAIN symtab |->
                       IF key[1] = 1 /\ symtab[key] # NULL /\ heap[symtab[key]].kind # "PARAMETER"
                       THEN NULL ELSE symtab[key]]
    IN  /\ pc \in {"decls", "stmts"} /\ scope = 1 /\ structs = << >>
        /\ \/ /\ Endless(heap, head)
              /\ pc' = "hang"
              /\ UNCHANGED <<heap, symtab, types, typetab, scope, structs, fn, params>>
           \/ ~ Endless(heap, head) /\ outer[<<0, name>>] # NULL /\ yyerror
           \/ /\ ~ Endless(heap, head) /\ outer[<<0, name>>] = NULL
              /\ UNCHANGED <<types, typetab, structs>>
              /\ heap' = counted
              /\ symtab' = [outer EXCEPT ![<<0, name>>] = fn]
              /\ scope' = 0
              /\ pc' = "decls"
              /\ fn' = NULL
              /\ params' = << >>
        /\ UNCHANGED misjudged

-----------------------------------------------------------------------------
(* Statements: variables and members are looked up, and a member access     *)
(* leaves the type of the member in the symbol of the structure.            *)

Constant == [name |-> "1", member |-> ""]

Visible(name) == IF symtab[<<1, name>>] # NULL THEN symtab[<<1, name>>] ELSE symtab[<<0, name>>]

\* The type of a member in a type object, as a pair like those of Plain.
FieldNames(obj) == {types[obj].fields[i][1] : i \in DOMAIN types[obj].fields}
FieldType(obj, member) ==
    LET fields == types[obj].fields
    IN  fields[SelectInSeq(fields, LAMBDA f : f[1] = member)][2]

\* lhs, and a constant as an argument.  acc has the symbols found so far.
lhs(acc, ref) ==
    IF ref = Constant
    THEN [acc EXCEPT !.heap = Append(@, Symbol("1", "INT")), !.syms = Append(@, Len(acc.heap) + 1)]
    ELSE LET s      == Visible(ref.name)
             obj    == acc.heap[s].type_ptr
             opaque == ref.member = "" \/ obj = NULL
         IN  IF \/ ~ acc.ok
                \/ s = NULL
                \/ ref.member # "" /\ acc.heap[s].type # "STRUCT"
                \/ ~ opaque /\ ref.member \notin FieldNames(obj)
             THEN [acc EXCEPT !.ok = FALSE]
             ELSE [acc EXCEPT
                      !.syms = Append(@, s),
                      !.heap = IF opaque THEN @
                               ELSE [acc.heap EXCEPT
                                        ![s].type = FieldType(obj, ref.member),
                                        ![s].marks = @ \cup {"member"}]]

Evaluate(refs) ==
    LET ev[i \in 0 .. Len(refs)] ==
          IF i = 0 THEN [heap |-> heap, syms |-> << >>, ok |-> TRUE]
          ELSE lhs(ev[i - 1], refs[i])
    IN  ev[Len(refs)]

\* Mutant: a float can go to an int as well.
MatchNumeric(l, r) ==
    /\ l[1] = r[1] \/ {l[1], r[1]} = {"INT", "FLOAT"}
    /\ l[1] = "STRUCT" /\ r[1] = "STRUCT" => l[2] = r[2]

\* assign_expr, with match_type: can a value of type r go to a place of type l?
match_type(l, r) ==
    /\ l[1] = r[1] \/ (l[1] = "FLOAT" /\ r[1] = "INT")
    /\ l[1] = "STRUCT" /\ r[1] = "STRUCT" => l[2] = r[2]

\* The checks of a binary operator, of operands with these types.
BinopAllowed(l, r) ==
    /\ l # r => {l, r} = {"INT", "FLOAT"}
    /\ "STRUCT" \notin {l, r}

\* The type that symbol s has now.
TypeNow(h, s) == <<h[s].type, h[s].type_ptr>>

(* What the declarations say of a reference, whatever has happened since.   *)
Resolves(ref) ==
    LET s == Visible(ref.name)
    IN  /\ s # NULL
        /\ ref.member # "" =>
              /\ heap[s].decl = "STRUCT"
              /\ heap[s].type_ptr # NULL => ref.member \in FieldNames(heap[s].type_ptr)

DeclaredType(ref) ==
    LET var == heap[Visible(ref.name)]
    IN  IF var.decl = "STRUCT" /\ ref.member # "" /\ var.type_ptr # NULL
        THEN <<FieldType(var.type_ptr, ref.member), NULL>>
        ELSE <<var.decl, IF var.decl = "STRUCT" THEN var.type_ptr ELSE NULL>>

Declared(refs) == [i \in DOMAIN refs |-> DeclaredType(refs[i])]

Numeric == {"INT", "FLOAT"}

\* Values of these types can be combined by an operator.
Combine(rs) ==
    Len(rs) > 1 => /\ \A r \in Range(rs) : r[1] # "STRUCT"
                   /\ {r[1] : r \in Range(rs)} \subseteq Numeric \/ Cardinality(Range(rs)) = 1

\* A place of type l takes the value, which has the type of the first operand.
Takes(l, rs) ==
    /\ Combine(rs)
    /\ l = rs[1] \/ (l[1] = "FLOAT" /\ rs[1][1] = "INT")

\* References to variables that mention no symbol whose type has been overwritten,
\* none of whose types another one overwrites, and no structure inside of another.
Clean(refs) ==
    LET named == {i \in DOMAIN refs : refs[i] # Constant}
    IN  /\ \A i \in named :
              LET s == Visible(refs[i].name)
              IN  /\ s # NULL => ~ Retyped(s)
                  /\ Resolves(refs[i]) /\ refs[i].member # "" => DeclaredType(refs[i])[1] # "STRUCT"
        /\ \A i, j \in named :
              i # j /\ refs[i].name = refs[j].name => refs[i].member = "" /\ refs[j].member = ""

\* The references that statements are made of: names that are declared and, after
\* the dot, names of members.  SymbolTable has the other ones.
References ==
    LET members == Name \cap UNION {FieldNames(obj) : obj \in DOMAIN types}
    IN  {ref \in [name : {n \in Name : Visible(n) # NULL}, member : members \cup {""}] :
            Token(ref.name) = "ID" /\ (ref.member = "" \/ Token(ref.member) = "ID")}
AtStmt == pc \in {"decls", "stmts"} /\ scope = 1 /\ structs = << >>

\* The types of the operands, one or two, and the check of the operator.
OperatorAllowed(h, syms) == Len(syms) > 1 => BinopAllowed(h[syms[1]].type, h[syms[2]].type)

\* misjudged is a history variable: a decision on clean operands that is not right.
Judge(clean, accepted, right) == misjudged' = (misjudged \/ (clean /\ accepted # right))

After(accepted, h) ==
    IF accepted
    THEN /\ pc' = "stmts"
         /\ heap' = h
         /\ UNCHANGED <<symtab, types, typetab, scope, structs, fn, params>>
    ELSE yyerror

\* l = a or l = a + b, where the evaluation of all of them gave ev.
Assign(l, operands, ev) ==
    LET refs     == <<l>> \o operands
        rest     == Tail(ev.syms)
        accepted == /\ ev.ok
                    /\ OperatorAllowed(ev.heap, rest)
                    /\ match_type(TypeNow(ev.heap, ev.syms[1]), TypeNow(ev.heap, rest[1]))
    IN  /\ After(accepted, ev.heap)
        /\ Judge(Clean(refs), accepted,
                 /\ \A i \in DOMAIN refs : Resolves(refs[i])
                 /\ Takes(DeclaredType(l), Declared(operands)))

\* return a or return a + b: the value has the very type of the function.
Return(operands, ev) ==
    LET accepted == /\ ev.ok
                    /\ OperatorAllowed(ev.heap, ev.syms)
                    /\ ev.heap[ev.syms[1]].type = heap[fn].type
    IN  /\ After(accepted, ev.heap)
        /\ Judge(Clean(operands) /\ ~ Retyped(fn), accepted,
                 /\ \A i \in DOMAIN operands : Resolves(operands[i])
                 /\ Combine(Declared(operands))
                 /\ DeclaredType(operands[1])[1] = heap[fn].decl)

-----------------------------------------------------------------------------
(***************************************************************************)
(* function_call.  The callee is looked up in scope 0; the function that   *)
(* is being parsed is not there yet, and its arguments are not counted.    *)
(* The value of the call is the symbol that the lexer found for the name,  *)
(* in the current scope: it gets the type of the function and the place    *)
(* $v0.                                                                    *)
(***************************************************************************)

\* The arguments are counted along their list.
ArgumentCount(h, head) == Len(Chain(h, head))

\* Mutant: the call writes to the symbol of that name in any scope.
CalledVisible(h, name, args) ==
    LET linked == IF args = << >> THEN h ELSE Linked(h, args)
        self   == Visible(name)
    IN  IF self = NULL THEN linked
        ELSE [linked EXCEPT ![self].place = "$v0"]

\* The heap after a call of name with these arguments.
Called(h, name, args) ==
    LET self   == symtab[<<1, name>>]
        callee == symtab[<<0, name>>]
        marked == [k \in DOMAIN h |->
                      IF k \in Range(args)
                      THEN [h[k] EXCEPT !.marks = @ \cup {"arg"} \cup
                               IF Cardinality({i \in DOMAIN args : args[i] = k}) > 1
                               THEN {"twice"} ELSE {}]
                      ELSE h[k]]
        linked == IF args = << >> THEN h ELSE Linked(marked, args)
    IN  IF self = NULL THEN linked
        ELSE [linked EXCEPT ![self].type = linked[IF callee = NULL THEN fn ELSE callee].type,
                            ![self].place = "$v0",
                            ![self].marks = @ \cup {"call"}]

\* The callee is complete, and nothing has disturbed what is decided below.
CleanCall(target, name, refs, args) ==
    LET callee == symtab[<<0, name>>]
    IN  /\ callee # NULL
        /\ refs # << >>
        /\ IsInjective(args)
        /\ heap[callee].kind = "FUNCTION" => heap[callee].arity # -1
        /\ target # << >> => /\ Clean(target \o refs)
                            /\ ~ Retyped(callee)
                            /\ symtab[<<1, name>>] = NULL

\* name(refs), and l = name(refs) where target is <<l>>, when the evaluation of target
\* and arguments gave ev.
Call(target, name, refs, ev) ==
    LET args   == SubSeq(ev.syms, Len(target) + 1, Len(ev.syms))
        callee == symtab[<<0, name>>]
        h      == Called(ev.heap, name, args)
        value  == <<heap[IF callee = NULL THEN fn ELSE callee].type, NULL>>
        known  == ev.ok /\ (callee # NULL \/ heap[fn].name = name)
        counts == known /\ refs # << >> /\ callee # NULL
        loops  == counts /\ Endless(h, args[1])
        accepted == /\ known
                    /\ counts => ArgumentCount(h, args[1]) = heap[callee].n_param
                    /\ target # << >> => match_type(TypeNow(h, ev.syms[1]), value)
        right  == /\ Len(refs) = heap[callee].arity
                  /\ \A i \in DOMAIN target :
                        Takes(DeclaredType(target[i]), <<<<heap[callee].decl, NULL>>>>)
    IN  /\ IF loops
           THEN /\ pc' = "hang"
                /\ heap' = h
                /\ UNCHANGED <<symtab, types, typetab, scope, structs, fn, params, misjudged>>
           ELSE /\ After(accepted, h)
                /\ Judge(ev.ok /\ CleanCall(target, name, refs, args), accepted, right)

\* The names that calls are made with: those that scope 0 has, and the current
\* function.  A call of any other one is an error.
Callees ==
    {n \in Name : Token(n) = "ID" /\ (symtab[<<0, n>>] # NULL \/ heap[fn].name = n)}

\* A statement has a place, or none, and operands or arguments.
Statement ==
    /\ AtStmt
    /\ LET places  == References
           callees == Callees
       IN  \E target \in SeqOf(places, 1) :
           \E refs \in SeqOf(places \cup {Constant}, MaxReference - Len(target)) :
              LET ev == Evaluate(target \o refs)
              IN  \/ Room(ev.heap, 0) /\ \E name \in callees : Call(target, name, refs, ev)
                  \/ /\ Len(refs) \in {1, 2} /\ Constant \notin Range(refs)
                     /\ IF target = << >> THEN Return(refs, ev) ELSE Assign(target[1], refs, ev)

Next ==
    \/ VarDecl
    \/ \E name \in Name : TypedefDecl(name) \/ StructBegin(name)
    \/ Members
    \/ StructEnd
    \/ \E type \in Plain, name \in Name : FuncBegin(type[1], name)
    \/ \E type \in BaseType \cup {"STRUCT"}, name \in Name : Param(type, name)
    \/ FuncBody
    \/ FuncEnd
    \/ Statement

Spec == Init /\ [][Next]_vars

-----------------------------------------------------------------------------
SymbolRec ==
    [name : Name \cup {"1"}, type : Type, kind : {"NONE", "FUNCTION", "PARAMETER"},
     next : Nat, n_param : Nat, type_ptr : Nat, place : {"own", "$v0"},
     decl : Type, arity : Nat \cup {-1},
     marks : SUBSET {"member", "field", "call", "arg", "twice", "again"}]
FieldSeq == Seq((Name \cup {"1"}) \X Type)

(* Type invariant.                                                          *)
TypeOK ==
    /\ heap \in Seq(SymbolRec)
    /\ \A s \in DOMAIN heap : heap[s].next <= Len(heap) /\ heap[s].type_ptr <= Len(types)
    /\ symtab \in [Scope \X Name -> 0 .. Len(heap)]
    /\ \A key \in DOMAIN symtab : symtab[key] # NULL => heap[symtab[key]].name = key[2]
    /\ types \in Seq([name : Name, type : {"TYPEDEF", "STRUCT"}, fields : FieldSeq, depth : Nat])
    /\ typetab \in [Name -> 0 .. Len(types)]
    /\ scope \in Scope
    /\ pc \in {"decls", "declarators", "params", "stmts", "error", "hang", "undefined"}
    /\ structs \in Seq([tag : Name, fields : FieldSeq])
    /\ fn \in 0 .. Len(heap)
    /\ params \in Seq(DOMAIN heap)
    /\ misjudged \in BOOLEAN

(* The parser hangs in one of its walks along next only after a list has    *)
(* named symbols that were there already: a call has a symbol twice among   *)
(* its arguments, or one of several declarators or members has the name of  *)
(* a variable of the scope.                                                 *)
HangsOnlyOnReuse ==
    pc = "hang" => \E s \in DOMAIN heap : heap[s].marks \cap {"again", "twice"} # {}

(* As long as the symbols that it mentions, and the function that returns,  *)
(* have kept the types of their declarations, an assignment or return is    *)
(* accepted if and only if the declarations allow it; and a call with       *)
(* arguments of a function that is complete is accepted if and only if it   *)
(* has as many as the declaration, unless it has one twice or a parameter   *)
(* of the function was itself passed to a call: the list of parameters is   *)
(* counted after the body.                                                  *)
JudgedByDeclarations == ~ misjudged

(* A symbol in the table keeps the type and the place of its declaration,   *)
(* unless a member of it was accessed, a structure has a member of its      *)
(* name, or a function of its name was called.                              *)
SymbolsKept ==
    \A key \in DOMAIN symtab :
        LET s == symtab[key]
        IN  s # NULL /\ ~ Retyped(s) => heap[s].type = heap[s].decl /\ heap[s].place = "own"

(* A type name stands for one type: of two types with the same name, one    *)
(* was declared inside the other.                                           *)
TypeNamesUnique ==
    \A i, j \in DOMAIN types :
        i < j /\ types[i].name = types[j].name => types[i].depth > types[j].depth

(* The members of a structure that is in use have different names.          *)
MembersDiffer ==
    \A i \in DOMAIN types : \A m, n \in DOMAIN types[i].fields :
        types[i].fields[m][1] = types[i].fields[n][1] => m = n
=============================================================================
