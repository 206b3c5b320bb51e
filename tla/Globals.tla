------------------------------ MODULE Globals ------------------------------
(***************************************************************************)
(* What becomes of a program's declarations: IRGen's passes over them      *)
(* (TypeResolver twice, FuncResolver, IREmitter), the tables they share    *)
(* (GlobalScope, the TypeConverter's classes), the symbols of the LLVM     *)
(* module, and, for a module that the verifier accepts, the run of the     *)
(* program as far as its globals are concerned.                            *)
(*                                                                         *)
(* A declaration is visited in one step of each pass.  Inside a function   *)
(* only one thing matters here: which name it uses; the rest of a body is  *)
(* in FuncEmitter and RefCount.  LLVM, the linker and the C runtime are    *)
(* external: a symbol whose name is taken is renamed silently, a function  *)
(* of internal linkage must have a body, the code generator knows special  *)
(* variables by their exact names.                                         *)
(***************************************************************************)
EXTENDS Integers, Sequences, FiniteSets

CONSTANTS Names,      \* what declarations can be called
          Decls,      \* the declarations programs are made of
          MaxDecls,   \* bound on their number
          Forms       \* the unhandled forms a program may use

VARIABLES program,    \* VSLContext::globals
          pass,       \* the pass that runs, then the life of the program
          at,         \* the declaration it visits next
          types,      \* TypeConverter::classes and the fields of the structs
          global,     \* GlobalScope
          module,     \* the module's symbols, in the order of their creation
          flagged,    \* FunctionNode::alreadyDefined
          emitter,    \* vslCtor, vslDtor, the lists, and which name a body uses
          errors,     \* something has been diagnosed
          crashed,    \* a null pointer was dereferenced or an assertion failed
          run         \* the globals that are live, gone, and read by the last step

vars == <<program, pass, at, types, global, module, flagged, emitter, errors,
          crashed, run>>

-----------------------------------------------------------------------------
(* Declarations *)

Index == 1..MaxDecls
None  == 0
IntType == "int"

\* ref: of a function, the type it returns; of an external function, its alias;
\* of a class, the type of its field. members: those of a class besides.
Decl == [k : {"func", "ext", "var", "class"}, name : Names,
         access : {"public", "private"}, ref : Names \cup {IntType},
         members : {"none", "ctor", "method", "methods"},
         maccess : {"public", "private"}]

ASSUME DeclsAssumption == /\ Decls \subseteq Decl
                          /\ \A d \in Decls : d.k = "ext" => d.ref \in Names
                          /\ MaxDecls \in Nat

Visited    == program[at]
Classes(p) == {p[i].name : i \in {j \in DOMAIN p : p[j].k = "class"}}

\* VSLContext::hasNamedType: the parser enters every type it reads.
HasNamedType(n) ==
    \E i \in DOMAIN program : \/ program[i].k = "class" /\ program[i].name = n
                              \/ program[i].k # "ext" /\ program[i].ref = n

\* Programs the passes do not handle, each under the name of its form.
Unhandled(d) ==
    LET Symbols   == {program[i] : i \in {j \in DOMAIN program : program[j].k # "class"}}
        Symbol(e) == IF e.k = "ext" THEN e.ref ELSE e.name
    IN  \/ "DuplicateMethod" \notin Forms /\ d.members = "methods"
        \/ /\ d.k # "class"
           /\ \E e \in Symbols :
                 \/ /\ "DuplicateVar" \notin Forms
                    /\ "var" \in {d.k, e.k} /\ d.name = e.name
                 \/ /\ "AliasClash" \notin Forms
                    /\ "ext" \in {d.k, e.k} /\ Symbol(d) = Symbol(e)

-----------------------------------------------------------------------------
(* LLVM symbols *)

SymbolOf == [decl : Index, role : {"func", "ext", "ctor", "method", "dtor", "var",
                                   "varctor", "vardtor"},
             name : Names, public : BOOLEAN, renamed : BOOLEAN,
             type : Names \cup {IntType}, as : Names \cup {IntType, "placeholder"},
             bodies : Nat]

\* The part of a symbol's name behind the dot.
Suffix(role) == CASE role \in {"ctor", "varctor"} -> "ctor"
                  [] role \in {"dtor", "vardtor"} -> "dtor"
                  [] role = "method"              -> "method"
                  [] OTHER                        -> ""

\* What TypeConverter::convert makes of a type at this time.
Convert(t) == IF t = IntType \/ t \in types.classes THEN t ELSE "placeholder"

\* A new symbol. Its name is the one asked for only if no symbol has it.
Create(m, role, name, public, type, bodies) ==
    Append(m, [decl |-> at, role |-> role, name |-> name, public |-> public,
               renamed |-> \E i \in DOMAIN m : /\ m[i].name = name /\ ~m[i].renamed
                                              /\ Suffix(m[i].role) = Suffix(role),
               type |-> type, as |-> Convert(type), bodies |-> bodies])

\* try_emplace: an entry that is there stays.
Emplace(table, key, symbol) ==
    IF table[key] = None THEN [table EXCEPT ![key] = symbol] ELSE table

AddBody(m, i) == [m EXCEPT ![i].bodies = @ + 1]

MergeAccess_Child(parent, child) == child     \* mutant: a class hides nothing

MergeAccess(parent, child) == IF parent = "public" THEN child ELSE parent
IsPublic(access) == access = "public"         \* accessToLinkage

-----------------------------------------------------------------------------
(* The program is parsed *)

Init ==
    /\ program = <<>> /\ pass = "parse" /\ at = 1
    /\ types = [classes |-> {}, struct |-> [n \in Names |-> "opaque"]]
    /\ global = [symtab |-> [n \in Names |-> None], ctors |-> [n \in Names |-> None],
                 methods |-> [n \in Names |-> None], dtors |-> [n \in Names |-> None]]
    /\ module = <<>>
    /\ flagged = {}
    /\ emitter = [vslCtor |-> None, vslDtor |-> None, ctors |-> <<>>, dtors |-> <<>>,
                  uses |-> [i \in Index |-> None]]
    /\ errors = FALSE /\ crashed = FALSE
    /\ run = [live |-> {}, gone |-> {}, touched |-> {}]

\* A class whose name is a class's is reported and dropped (parseClass); every
\* other declaration becomes the next global.
Parse(d) ==
    /\ pass = "parse" /\ Len(program) < MaxDecls /\ ~Unhandled(d)
    /\ IF d.k = "class" /\ d.name \in Classes(program)
       THEN errors' = TRUE /\ UNCHANGED program
       ELSE program' = Append(program, d) /\ UNCHANGED errors
    /\ UNCHANGED <<pass, at, types, global, module, flagged, emitter, crashed, run>>

\* A pass visits the declarations in their order.
\* mutant: FuncResolver runs before the classes are known
NextOf_FuncsFirst ==
    [parse |-> "funcs", funcs |-> "types1", types1 |-> "types2", types2 |-> "emit",
     emit |-> "verify"]

\* VSLParser::parse, the two passes of TypeResolver, FuncResolver, IREmitter.
NextOf == [parse |-> "types1", types1 |-> "types2", types2 |-> "funcs", funcs |-> "emit",
           emit |-> "verify"]

Visit(p) == /\ pass = p /\ at <= Len(program) /\ ~crashed
            /\ at' = at + 1
            /\ UNCHANGED <<program, pass>>

EndPass ==
    /\ pass \in DOMAIN NextOf /\ ~crashed
    /\ pass = "parse" \/ at > Len(program)
    /\ pass' = NextOf[pass] /\ at' = 1
    /\ UNCHANGED <<program, types, global, module, flagged, emitter, errors, crashed, run>>

-----------------------------------------------------------------------------
(* TypeResolver *)

\* mutant: any declaration's name becomes a class type
GatherInfo_Any ==
    /\ Visit("types1")
    /\ types' = [types EXCEPT !.classes = @ \cup {Visited.name}]
    /\ UNCHANGED <<global, module, flagged, emitter, errors, crashed, run>>

\* gatherInfo: the reference type of the class exists from here on.
GatherInfo ==
    /\ Visit("types1")
    /\ types' = IF Visited.k = "class"
                THEN [types EXCEPT !.classes = @ \cup {Visited.name}] ELSE types
    /\ UNCHANGED <<global, module, flagged, emitter, errors, crashed, run>>

\* resolve: the struct of the class gets its fields.
Resolve ==
    /\ Visit("types2")
    /\ types' = IF Visited.k = "class"
                THEN [types EXCEPT !.struct[Visited.name] = Convert(Visited.ref)] ELSE types
    /\ UNCHANGED <<global, module, flagged, emitter, errors, crashed, run>>

-----------------------------------------------------------------------------
(* FuncResolver *)

\* mutant: the symbol table is not consulted
VerifyFuncName_Type(n) == HasNamedType(n)

VerifyFuncName(n) == global.symtab[n] # None \/ HasNamedType(n)    \* TRUE: taken

\* visitFunction and visitExtFunc.
ResolveFunction ==
    /\ Visit("funcs") /\ Visited.k \in {"func", "ext"}
    /\ IF VerifyFuncName(Visited.name)
       THEN /\ errors' = TRUE
            /\ flagged' = IF Visited.k = "func" THEN flagged \cup {at} ELSE flagged
            /\ UNCHANGED <<global, module>>
       ELSE /\ module' = IF Visited.k = "func"
                         THEN Create(module, "func", Visited.name, IsPublic(Visited.access),
                                     Visited.ref, 0)
                         ELSE Create(module, "ext", Visited.ref, IsPublic(Visited.access),
                                     IntType, 0)
            /\ global' = [global EXCEPT !.symtab = Emplace(@, Visited.name, Len(module) + 1)]
            /\ UNCHANGED <<errors, flagged>>
    /\ UNCHANGED <<types, emitter, crashed, run>>

\* visitClass: the constructor or the methods, then the destructor. Of two
\* methods of one name setMethod keeps the first.
ResolveClass ==
    LET n        == Visited.name
        merged   == IsPublic(MergeAccess(Visited.access, Visited.maccess))
        Member(m, role) == Create(m, role, n, merged, IntType, 0)
        members  == CASE Visited.members = "none"    -> module
                      [] Visited.members = "ctor"    -> Member(module, "ctor")
                      [] Visited.members = "method"  -> Member(module, "method")
                      [] Visited.members = "methods" -> Member(Member(module, "method"), "method")
    IN  /\ Visit("funcs") /\ Visited.k = "class"
        /\ module' = Create(members, "dtor", n, IsPublic(Visited.access), IntType, 0)
        /\ global' = [global EXCEPT
                !.ctors   = IF Visited.members = "ctor" THEN Emplace(@, n, Len(module) + 1) ELSE @,
                !.methods = IF Visited.members \in {"method", "methods"}
                            THEN Emplace(@, n, Len(module) + 1) ELSE @,
                !.dtors   = Emplace(@, n, Len(members) + 1)]
        /\ UNCHANGED <<types, flagged, emitter, errors, crashed, run>>

\* mutant: variables are declared ahead like functions
PassOver_Declare ==
    /\ Visit("funcs") /\ Visited.k = "var"
    /\ module' = Create(module, "var", Visited.name, IsPublic(Visited.access), IntType, 0)
    /\ global' = [global EXCEPT !.symtab[Visited.name] = Len(module) + 1]
    /\ UNCHANGED <<types, flagged, emitter, errors, crashed, run>>

\* FuncResolver does not visit variables.
PassOver ==
    /\ Visit("funcs") /\ Visited.k = "var"
    /\ UNCHANGED <<types, global, module, flagged, emitter, errors, crashed, run>>

-----------------------------------------------------------------------------
(* IREmitter: what a name in a body or an initializer refers to *)

NoUse == "nothing"

\* lookupIdent, behind the local variables: a symbol, or else a constructor, if
\* canAccessMember; self is the class whose member the body belongs to.
Found(n, self) ==
    CASE global.symtab[n] # None -> global.symtab[n]
      [] global.symtab[n] = None /\ global.ctors[n] # None
         /\ (program[module[global.ctors[n]].decl].maccess = "public" \/ self = n)
                                 -> global.ctors[n]
      [] OTHER                   -> None

\* The declaration behind a name, or None.
Referent(n, self) ==
    IF n = NoUse \/ Found(n, self) = None THEN None ELSE module[Found(n, self)].decl

\* What running the code of declaration i reads or calls, directly or not. To
\* read a variable does not run its initializer.
Reach(p, uses, i) ==
    LET step[n \in 0..MaxDecls] ==
            IF n = 0 THEN {uses[i]}
            ELSE step[n - 1] \cup {uses[j] : j \in {k \in step[n - 1] \ {None} : p[k].k # "var"}}
    IN  step[MaxDecls] \ {None}

ReadsGlobals(uses, i) ==
    {j \in DOMAIN program : program[j].k = "var" /\ j \in Reach(program, uses, i)}

\* A global's initializer may call a function that reads a global declared later.
EarlyRead(uses) ==
    \E i \in DOMAIN program :
        program[i].k = "var" /\ \E j \in ReadsGlobals(uses, i) : j >= i

Uses(d) == /\ emitter' = [emitter EXCEPT !.uses[at] = d]
           /\ "EarlyRead" \in Forms \/ ~EarlyRead(emitter'.uses)

-----------------------------------------------------------------------------
(* IREmitter: functions and classes *)

\* visitFunction. A duplicate, diagnosed by now, is visited without a function
\* (FuncEmitter's BeginDuplicate) and leaves nothing here.
EmitFunction ==
    /\ Visit("emit") /\ Visited.k = "func"
    /\ IF at \in flagged
       THEN UNCHANGED <<module, emitter, errors>>
       ELSE \E n \in Names \cup {NoUse} :
              /\ module' = AddBody(module, global.symtab[Visited.name])
              /\ Uses(Referent(n, NoUse))
              /\ errors' = (errors \/ (n # NoUse /\ Referent(n, NoUse) = None))
    /\ UNCHANGED <<types, global, flagged, crashed, run>>

EmitExtFunc ==
    /\ Visit("emit") /\ Visited.k = "ext"
    /\ UNCHANGED <<types, global, module, flagged, emitter, errors, crashed, run>>

\* visitClass: visitCtor or visitMethod, then generateDtor. A method's body goes
\* into the function that is registered under its name.
EmitClass ==
    LET c    == Visited.name
        body == CASE Visited.members = "none"    -> module
                  [] Visited.members = "ctor"    -> AddBody(module, global.ctors[c])
                  [] Visited.members = "method"  -> AddBody(module, global.methods[c])
                  [] Visited.members = "methods" ->
                         AddBody(AddBody(module, global.methods[c]), global.methods[c])
    IN  /\ Visit("emit") /\ Visited.k = "class"
        /\ module' = AddBody(body, global.dtors[c])
        /\ \E n \in IF Visited.members = "none" THEN {NoUse} ELSE Names \cup {NoUse} :
              /\ Uses(Referent(n, c))
              /\ errors' = (errors \/ (n # NoUse /\ Referent(n, c) = None))
        /\ UNCHANGED <<types, global, flagged, crashed, run>>

-----------------------------------------------------------------------------
(* IREmitter: global variables *)

\* addGlobalCall: into the list of the function it knows, or into a list of its
\* own under a new "vsl.ctors" ("vsl.dtors") that it does not keep.
AddGlobalCall(lists, known, d) ==
    IF known # None THEN [lists EXCEPT ![known] = Append(@, d)] ELSE Append(lists, <<d>>)

AddGlobalCtor(e, d) == [e EXCEPT !.ctors = AddGlobalCall(@, e.vslCtor, d)]

AddGlobalDtor_Never(e, d) == e       \* mutant: the function is made and never called

AddGlobalDtor(e, d) == [e EXCEPT !.dtors = AddGlobalCall(@, e.vslDtor, d)]

\* The type of what an initializer that names a symbol yields.
ValueType(s) == IF module[s].role = "ctor" THEN module[s].name ELSE module[s].type

\* visitVariable: the constructor comes first, and stays if the initializer is
\* bad. setVar refuses a name that is taken, and the null pointer that
\* genGlobalVar returns for it is dereferenced; a function that is not called is
\* no value to store.
VisitVariable ==
    \E init \in Names \cup {"literal", "bad"}, called \in BOOLEAN :
      LET n      == Visited.name
          source == IF init \in Names THEN Found(init, NoUse) ELSE None
          valid  == init = "literal" \/ source # None
          type   == IF source = None THEN IntType ELSE ValueType(source)
          isFunc == source # None /\ module[source].role # "var"
          taken  == global.symtab[n] # None
          ctor   == Create(module, "varctor", n, FALSE, IntType, 1)
          var    == Create(ctor, "var", n, IsPublic(Visited.access), type, 0)
          hasDtor == type # IntType /\ global.dtors[type] # None
          listed == AddGlobalCtor([emitter EXCEPT !.uses[at] =
                                     IF source = None THEN None ELSE module[source].decl], at)
      IN  /\ Visit("emit") /\ Visited.k = "var"
          /\ called \/ (isFunc /\ "FuncValue" \in Forms)
          /\ "EarlyRead" \in Forms \/ ~EarlyRead(listed.uses)
          /\ crashed' = (valid /\ (taken \/ ~called))
          /\ errors' = (errors \/ ~valid \/ taken)
          /\ IF valid /\ ~taken
             THEN /\ global' = [global EXCEPT !.symtab = Emplace(@, n, Len(var))]
                  /\ module' = IF hasDtor THEN Create(var, "vardtor", n, FALSE, IntType, 1)
                               ELSE var
                  /\ emitter' = IF hasDtor THEN AddGlobalDtor(listed, at) ELSE listed
             ELSE /\ module' = ctor /\ emitter' = listed
                  /\ UNCHANGED global
          /\ UNCHANGED <<types, flagged, run>>

-----------------------------------------------------------------------------
(* The module is verified and linked, the program runs *)

\* A function without a body cannot have internal linkage.
Verify ==
    /\ pass = "verify" /\ pass' = "link"
    /\ errors' = (errors \/ \E i \in DOMAIN module : /\ module[i].role # "var"
                                                     /\ ~module[i].public
                                                     /\ module[i].bodies = 0)
    /\ UNCHANGED <<program, at, types, global, module, flagged, emitter, crashed, run>>

\* Only one variable can be called "llvm.global_ctors", one "llvm.global_dtors".
Link ==
    /\ pass = "link"
    /\ pass' = IF errors \/ Len(emitter.ctors) > 1 \/ Len(emitter.dtors) > 1
               THEN "rejected" ELSE "start"
    /\ UNCHANGED <<program, at, types, global, module, flagged, emitter, errors, crashed, run>>

Registered == {module[i].decl : i \in {j \in DOMAIN module : module[j].role = "var"}}
FirstOf(lists) == IF lists = <<>> THEN <<>> ELSE lists[1]

RunCtor ==
    /\ pass = "start" /\ at <= Len(FirstOf(emitter.ctors))
    /\ LET g == emitter.ctors[1][at]
       IN  run' = [run EXCEPT !.live = @ \cup {g}, !.touched = ReadsGlobals(emitter.uses, g)]
    /\ at' = at + 1
    /\ UNCHANGED <<program, pass, types, global, module, flagged, emitter, errors, crashed>>

RunMain ==
    /\ pass = "start" /\ at > Len(FirstOf(emitter.ctors))
    /\ pass' = "main" /\ run' = [run EXCEPT !.touched = Registered]
    /\ UNCHANGED <<program, at, types, global, module, flagged, emitter, errors, crashed>>

Exit ==
    /\ pass = "main" /\ pass' = "exit" /\ at' = 1
    /\ UNCHANGED <<program, types, global, module, flagged, emitter, errors, crashed, run>>

RunDtor ==
    /\ pass = "exit" /\ at <= Len(FirstOf(emitter.dtors))
    /\ LET g == emitter.dtors[1][at]
       IN  run' = [live |-> run.live \ {g}, gone |-> run.gone \cup {g}, touched |-> {g}]
    /\ at' = at + 1
    /\ UNCHANGED <<program, pass, types, global, module, flagged, emitter, errors, crashed>>

End ==
    /\ pass = "exit" /\ at > Len(FirstOf(emitter.dtors)) /\ pass' = "ended"
    /\ UNCHANGED <<program, at, types, global, module, flagged, emitter, errors, crashed, run>>

\* The program has ended, was rejected, or the compiler is gone.
Stopped == (pass \in {"ended", "rejected"} \/ crashed) /\ UNCHANGED vars

Next == \/ \E d \in Decls : Parse(d)
        \/ EndPass \/ GatherInfo \/ Resolve
        \/ ResolveFunction \/ ResolveClass \/ PassOver
        \/ EmitFunction \/ EmitExtFunc \/ EmitClass \/ VisitVariable
        \/ Verify \/ Link
        \/ RunCtor \/ RunMain \/ Exit \/ RunDtor \/ End \/ Stopped

Spec == Init /\ [][Next]_vars

-----------------------------------------------------------------------------
(* Properties *)

Passes == DOMAIN NextOf \cup {"verify", "link", "rejected", "start", "main", "exit", "ended"}
Symbols == None..Len(module)

TypeOK ==
    /\ program \in Seq(Decls) /\ Len(program) <= MaxDecls
    /\ pass \in Passes /\ at \in 1..MaxDecls + 1
    /\ types.classes \subseteq Classes(program)
    /\ types.struct \in [Names -> Names \cup {IntType, "opaque", "placeholder"}]
    /\ \A table \in {global.symtab, global.ctors, global.methods, global.dtors} :
           table \in [Names -> Symbols]
    /\ \A i \in DOMAIN module : module[i] \in SymbolOf /\ module[i].decl \in DOMAIN program
    /\ flagged \subseteq DOMAIN program
    /\ emitter.uses \in [Index -> {None} \cup DOMAIN program]
    /\ emitter.ctors \in Seq(Seq(Index)) /\ emitter.dtors \in Seq(Seq(Index))
    /\ errors \in BOOLEAN /\ crashed \in BOOLEAN
    /\ run.live \cup run.gone \cup run.touched \subseteq Registered

\* A type in a function's signature, of a global or of a field, used anywhere in
\* the text before its class, is the class's reference type; only a class that
\* the program never declares leaves a placeholder behind.
ForwardTypes ==
    LET Settled(type, as) ==
            as = IF type \in Classes(program) \cup {IntType} THEN type ELSE "placeholder"
    IN  /\ \A i \in DOMAIN module : Settled(module[i].type, module[i].as)
        /\ pass \in Passes \ {"parse", "types1", "types2"} =>
             \A i \in DOMAIN program :
                program[i].k = "class" => Settled(program[i].ref, types.struct[program[i].name])

\* A module that the verifier accepts. Nothing has been diagnosed.
Emitted == pass \in {"link", "rejected", "start"} /\ ~errors

\* A module without errors has one body for every function of the program, none
\* for an external one, and every declaration is found under its own name:
\* whatever could not be kept apart has been diagnosed, and no declaration brings
\* the emitter to a null pointer or an assertion.
OneBody ==
    /\ ~crashed
    /\ Emitted =>
        /\ \A i \in DOMAIN module :
               module[i].bodies = IF module[i].role \in {"ext", "var"} THEN 0 ELSE 1
        /\ \A i \in DOMAIN program :
               LET s == global.symtab[program[i].name]
               IN  program[i].k # "class" => s # None /\ module[s].decl = i

\* Another file can refer to exactly what is public, under the name it knows: no
\* public symbol gives way to another one of its name, and a member of a private
\* class is private whatever it says itself.
LinkageKept ==
    Emitted =>
      \A i \in DOMAIN module :
        LET d == program[module[i].decl]
            member == module[i].role \in {"ctor", "method"}
        IN  /\ module[i].public <=> /\ module[i].role \notin {"varctor", "vardtor"}
                                    /\ d.access = "public"
                                    /\ member => d.maccess = "public"
            /\ module[i].public => ~module[i].renamed

\* Code refers only to variables declared above it: a variable enters the symbol
\* table when its own initializer has been emitted and not before.
UsesSeen ==
    \A i \in DOMAIN program :
        LET j == emitter.uses[i] IN j # None /\ program[j].k = "var" => j < i

\* A program that is accepted sets its globals up and takes them down as
\* Lifecycle promises: each once, before and after main, and no code reads one
\* outside that time.
Life == INSTANCE Lifecycle WITH
            Global  <- Index,
            phase   <- IF pass \in {"start", "main", "exit", "ended"} THEN pass ELSE "build",
            all     <- Registered,
            objects <- {module[i].decl : i \in
                          {j \in DOMAIN module : /\ module[j].role = "var"
                                                 /\ module[j].type # IntType
                                                 /\ global.dtors[module[j].type] # None}},
            live    <- run.live,
            gone    <- run.gone,
            touched <- run.touched

KeepsLifecycle == Life!Spec

\* "call the ctor function at program start" (genGlobalVarCtor): in a module
\* without errors, the constructor of every global is in the list that the
\* runtime goes through.
CtorsCalled ==
    Emitted => \A g \in Registered : \E i \in DOMAIN FirstOf(emitter.ctors) :
                                          emitter.ctors[1][i] = g

=============================================================================
