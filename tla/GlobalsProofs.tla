--------------------------- MODULE GlobalsProofs ---------------------------
(***************************************************************************)
(* What is proved about the passes over the declarations, for programs of  *)
(* any length: types do not depend on the order of the declarations; code  *)
(* refers only to variables above it; every function has one body; public  *)
(* names are kept; and the globals of a program that links are set up and  *)
(* taken down as Lifecycle promises.                                       *)
(*                                                                         *)
(* The first two hold because of what a pass can rely on the passes before *)
(* it to have finished (PassesInv).  The others need what the module has   *)
(* of each declaration and which table entry leads to it (SymbolsInv), and *)
(* what the lists of constructors and destructors hold (LifeInv).          *)
(***************************************************************************)
EXTENDS Globals, SequenceTheorems, TLAPS

\* A symbol. The alias of an external function is any name.
Shape == [decl : Nat, role : {"func", "ext", "ctor", "method", "dtor", "var", "varctor",
                              "vardtor"},
          name : Names \cup {IntType}, public : BOOLEAN, renamed : BOOLEAN,
          type : Names \cup {IntType}, as : Names \cup {IntType, "placeholder"}, bodies : Nat]

Emitter == [vslCtor : {None}, vslDtor : {None}, ctors : Seq(Seq(Nat)), dtors : Seq(Seq(Nat)),
            uses : [Index -> Nat]]

Tables == [symtab : [Names -> Nat], ctors : [Names -> Nat], methods : [Names -> Nat],
           dtors : [Names -> Nat]]

Early == {"parse", "types1", "types2"}

Typed ==
    /\ program \in Seq(Decls) /\ Len(program) <= MaxDecls
    /\ pass \in Passes /\ at \in Nat \ {0}
    /\ types \in [classes : SUBSET Names,
                  struct : [Names -> Names \cup {IntType, "opaque", "placeholder"}]]
    /\ global \in Tables
    /\ module \in Seq(Shape)
    /\ emitter \in Emitter
    /\ pass \in Early => module = <<>>

\* What an entry of a table refers to is there.
Entered ==
    \A n \in Names : /\ global.symtab[n] <= Len(module) /\ global.ctors[n] <= Len(module)
                      /\ global.methods[n] <= Len(module) /\ global.dtors[n] <= Len(module)

-----------------------------------------------------------------------------
(* The module only grows *)

\* m2 has the symbols of m, with more bodies, and new ones of declaration `at`.
Grows(m, m2) ==
    /\ m2 \in Seq(Shape) /\ Len(m) <= Len(m2)
    /\ \A i \in 1..Len(m) : /\ m2[i].decl = m[i].decl /\ m2[i].role = m[i].role
                            /\ m2[i].type = m[i].type /\ m2[i].as = m[i].as
    /\ \A i \in Len(m) + 1..Len(m2) : m2[i].decl = at /\ m2[i].as = Convert(m2[i].type)

\* It has one symbol more.
Gains(m, m2) == Grows(m, m2) /\ Len(m2) = Len(m) + 1

LEMMA GrowsTwice ==
    ASSUME NEW m \in Seq(Shape), NEW m1, NEW m2, Grows(m, m1), Grows(m1, m2)
    PROVE  Grows(m, m2)
<1>1. Len(m) \in Nat /\ Len(m1) \in Nat /\ Len(m2) \in Nat
    BY DEF Grows
<1>2. ASSUME NEW i \in 1..Len(m)
      PROVE  /\ m2[i].decl = m[i].decl /\ m2[i].role = m[i].role
             /\ m2[i].type = m[i].type /\ m2[i].as = m[i].as
    <2>1. i \in 1..Len(m1)
        BY <1>1 DEF Grows
    <2> QED
        BY <2>1 DEF Grows
<1>3. ASSUME NEW i \in Len(m) + 1..Len(m2)
      PROVE  m2[i].decl = at /\ m2[i].as = Convert(m2[i].type)
    <2>1. CASE i \in 1..Len(m1)
        <3>1. i \in Len(m) + 1..Len(m1)
            BY <1>1, <2>1
        <3> QED
            BY <2>1, <3>1 DEF Grows
    <2>2. CASE i \notin 1..Len(m1)
        <3>1. i \in Len(m1) + 1..Len(m2)
            BY <1>1, <2>2
        <3> QED
            BY <3>1 DEF Grows
    <2> QED
        BY <2>1, <2>2
<1> QED
    BY <1>1, <1>2, <1>3 DEF Grows

LEMMA ConvertType ==
    ASSUME Typed, NEW t \in Names \cup {IntType}
    PROVE  Convert(t) \in Names \cup {IntType, "placeholder"}
BY DEF Typed, Convert

LEMMA CreateGrows ==
    ASSUME Typed, NEW m \in Seq(Shape),
           NEW role \in {"func", "ext", "ctor", "method", "dtor", "var", "varctor", "vardtor"},
           NEW name \in Names \cup {IntType}, NEW public \in BOOLEAN,
           NEW type \in Names \cup {IntType}, NEW bodies \in Nat
    PROVE  Gains(m, Create(m, role, name, public, type, bodies))
<1> DEFINE renamed == \E i \in DOMAIN m : /\ m[i].name = name /\ ~m[i].renamed
                                         /\ Suffix(m[i].role) = Suffix(role)
           s == [decl |-> at, role |-> role, name |-> name, public |-> public,
                 renamed |-> renamed, type |-> type, as |-> Convert(type), bodies |-> bodies]
<1>1. renamed \in BOOLEAN
    OBVIOUS
<1> HIDE DEF renamed
<1>2. s \in Shape
    BY <1>1, ConvertType DEF Shape, Typed
<1>3. s.decl = at /\ s.as = Convert(s.type)
    OBVIOUS
<1>4. Create(m, role, name, public, type, bodies) = Append(m, s)
    BY DEF Create, renamed
<1> HIDE DEF s
<1>5. /\ Append(m, s) \in Seq(Shape) /\ Len(Append(m, s)) = Len(m) + 1
      /\ \A i \in 1..Len(m) : Append(m, s)[i] = m[i]
      /\ Append(m, s)[Len(m) + 1] = s
    BY <1>2
<1>6. Len(m) \in Nat
    OBVIOUS
<1> QED
    BY <1>3, <1>4, <1>5, <1>6 DEF Gains, Grows

LEMMA OneMoreBody ==
    ASSUME NEW r \in Shape
    PROVE  LET s == [r EXCEPT !.bodies = @ + 1]
           IN  /\ s \in Shape /\ s.decl = r.decl /\ s.role = r.role
               /\ s.type = r.type /\ s.as = r.as
               /\ s.name = r.name /\ s.public = r.public /\ s.renamed = r.renamed
               /\ s.bodies = r.bodies + 1
BY DEF Shape

LEMMA AddBodyGrows ==
    ASSUME NEW m \in Seq(Shape), NEW i
    PROVE  Grows(m, AddBody(m, i)) /\ Len(AddBody(m, i)) = Len(m)
<1>1. DOMAIN m = 1..Len(m) /\ Len(m) \in Nat
    OBVIOUS
<1>2. CASE i \in 1..Len(m)
    <2>1. m[i] \in Shape
        BY <1>1, <1>2
    <2> DEFINE s == [m[i] EXCEPT !.bodies = @ + 1]
    <2>2. /\ s \in Shape /\ s.decl = m[i].decl /\ s.role = m[i].role
          /\ s.type = m[i].type /\ s.as = m[i].as
        BY <2>1, OneMoreBody
    <2>3. AddBody(m, i) = [m EXCEPT ![i] = s]
        BY DEF AddBody
    <2> HIDE DEF s
    <2>4. /\ AddBody(m, i) \in Seq(Shape) /\ Len(AddBody(m, i)) = Len(m)
          /\ AddBody(m, i)[i] = s
          /\ \A j \in 1..Len(m) : j # i => AddBody(m, i)[j] = m[j]
        BY <1>1, <1>2, <2>2, <2>3
    <2> QED
        BY <1>1, <2>2, <2>4 DEF Grows
<1>3. CASE i \notin 1..Len(m)
    <2>1. AddBody(m, i) = m
        BY <1>1, <1>3 DEF AddBody
    <2> QED
        BY <1>1, <2>1 DEF Grows
<1> QED
    BY <1>2, <1>3

-----------------------------------------------------------------------------
(* What a visit of FuncResolver or IREmitter does *)

\* A declaration that was in the module before this step, or none.
Above(d) == d = None \/ \E s \in 1..Len(module) : d = module[s].decl

\* The module grows by symbols of the declaration that is visited, of a variable
\* only in the last pass, and its code refers to what was there before.
Resolves ==
    /\ pass \in {"funcs", "emit"} /\ at \in 1..Len(program) /\ at' = at + 1
    /\ UNCHANGED <<program, pass, types>>
    /\ Grows(module, module')
    /\ Visited.k = "var" /\ pass = "funcs" => module' = module
    /\ global' \in Tables /\ Entered'
    /\ emitter' \in Emitter
    /\ \/ emitter'.uses = emitter.uses
       \/ \E d : Above(d) /\ emitter'.uses = [emitter.uses EXCEPT ![at] = d]

LEMMA GrowsNot ==
    ASSUME NEW m \in Seq(Shape)
    PROVE  Grows(m, m)
BY DEF Grows

\* Entries stay good when the module grows, and a new one is if it is in it.
LEMMA EmplaceGood ==
    ASSUME NEW table \in [Names -> Nat], NEW n \in Names, NEW i \in Nat
    PROVE  /\ Emplace(table, n, i) \in [Names -> Nat]
           /\ \A k \in Names : Emplace(table, n, i)[k] \in {table[k], i}
BY DEF Emplace

LEMMA SymtabGood ==
    ASSUME global \in Tables, Entered, NEW n \in Names, NEW i \in Nat, Len(module) \in Nat,
           Len(module') \in Nat, Len(module) <= Len(module'), i <= Len(module'),
           global' = [global EXCEPT !.symtab = Emplace(@, n, i)]
    PROVE  global' \in Tables /\ Entered'
<1> DEFINE t == Emplace(global.symtab, n, i)
<1>1. global.symtab \in [Names -> Nat]
    BY DEF Tables
<1>2. t \in [Names -> Nat] /\ \A k \in Names : t[k] \in {global.symtab[k], i}
    BY <1>1, EmplaceGood
<1>3. global' = [global EXCEPT !.symtab = t]
    OBVIOUS
<1> HIDE DEF t
<1>4. /\ global' \in Tables /\ global'.symtab = t /\ global'.ctors = global.ctors
      /\ global'.methods = global.methods /\ global'.dtors = global.dtors
    BY <1>2, <1>3 DEF Tables
<1>5. ASSUME NEW k \in Names
      PROVE  /\ t[k] <= Len(module') /\ global.ctors[k] <= Len(module')
             /\ global.methods[k] <= Len(module') /\ global.dtors[k] <= Len(module')
    <2>1. /\ global.symtab[k] \in Nat /\ global.ctors[k] \in Nat
          /\ global.methods[k] \in Nat /\ global.dtors[k] \in Nat
        BY <1>5 DEF Tables
    <2>2. /\ global.symtab[k] <= Len(module) /\ global.ctors[k] <= Len(module)
          /\ global.methods[k] <= Len(module) /\ global.dtors[k] <= Len(module)
        BY <1>5 DEF Entered
    <2>3. t[k] = global.symtab[k] \/ t[k] = i
        BY <1>2, <1>5
    <2> QED
        BY <2>1, <2>2, <2>3
<1> QED
    BY <1>4, <1>5 DEF Entered

LEMMA VisitedIn ==
    ASSUME Typed, at <= Len(program)
    PROVE  /\ at \in 1..Len(program) /\ at \in Index
           /\ Visited \in Decl
           /\ Visited.name \in Names /\ Visited.ref \in Names \cup {IntType}
           /\ IsPublic(Visited.access) \in BOOLEAN
<1>1. at \in 1..Len(program) /\ Len(program) \in Nat
    BY DEF Typed
<1>2. Visited \in Decls
    BY <1>1 DEF Typed, Visited
<1>3. Visited \in Decl
    BY <1>2, DeclsAssumption
<1>4. at \in Index
    BY <1>1, DeclsAssumption DEF Typed, Index
<1> QED
    BY <1>1, <1>3, <1>4 DEF Decl, IsPublic

LEMMA ResolveFunctionResolves ==
    ASSUME Typed, Entered, ResolveFunction
    PROVE  Resolves
<1>1. /\ pass = "funcs" /\ at <= Len(program) /\ at' = at + 1 /\ Visited.k # "var"
      /\ UNCHANGED <<program, pass, types, emitter>>
    BY DEF ResolveFunction, Visit
<1>2. Len(module) \in Nat /\ module \in Seq(Shape) /\ global \in Tables /\ emitter \in Emitter
    BY DEF Typed
<1>3. CASE VerifyFuncName(Visited.name)
    <2>1. module' = module /\ global' = global
        BY <1>3 DEF ResolveFunction
    <2> QED
        BY <1>1, <1>2, <2>1, GrowsNot, VisitedIn DEF Resolves, Entered
<1>4. CASE ~VerifyFuncName(Visited.name)
    <2>1. PICK n \in Names : n = Visited.name
        BY <1>1, VisitedIn
    <2>2. PICK r \in Names \cup {IntType} : r = Visited.ref
        BY <1>1, VisitedIn
    <2>3. PICK pub \in BOOLEAN : pub = IsPublic(Visited.access)
        BY <1>1, VisitedIn
    <2>4. Grows(module, module') /\ Len(module') = Len(module) + 1
        <3>1. \/ module' = Create(module, "func", n, pub, r, 0)
              \/ module' = Create(module, "ext", r, pub, IntType, 0)
            BY <1>4, <2>1, <2>2, <2>3 DEF ResolveFunction
        <3>2. Gains(module, Create(module, "func", n, pub, r, 0))
            BY <1>2, CreateGrows
        <3>3. Gains(module, Create(module, "ext", r, pub, IntType, 0))
            BY <1>2, CreateGrows
        <3> QED
            BY <3>1, <3>2, <3>3 DEF Gains
    <2>5. global' = [global EXCEPT !.symtab = Emplace(@, n, Len(module) + 1)]
        BY <1>4, <2>1 DEF ResolveFunction
    <2>6. PICK i \in Nat : i = Len(module) + 1
        BY <1>2
    <2>7. global' \in Tables /\ Entered'
        BY <1>2, <2>4, <2>5, <2>6, SymtabGood
    <2> QED
        BY <1>1, <1>2, <2>4, <2>7, VisitedIn DEF Resolves
<1> QED
    BY <1>3, <1>4

LEMMA PassOverResolves ==
    ASSUME Typed, Entered, PassOver
    PROVE  Resolves
BY VisitedIn, GrowsNot DEF PassOver, Visit, Typed, Entered, Resolves

\* What a table of symbols is when there are l of them.
Good(table, l) == table \in [Names -> Nat] /\ \A k \in Names : table[k] <= l

LEMMA StaysGood ==
    ASSUME NEW table, NEW l \in Nat, NEW l2 \in Nat, Good(table, l), l <= l2
    PROVE  Good(table, l2)
BY DEF Good

LEMMA EmplaceStaysGood ==
    ASSUME NEW table, NEW l \in Nat, NEW l2 \in Nat, Good(table, l), l <= l2,
           NEW n \in Names, NEW i \in Nat, i <= l2
    PROVE  Good(Emplace(table, n, i), l2)
<1>1. table \in [Names -> Nat] /\ \A k \in Names : table[k] <= l
    BY DEF Good
<1>2. /\ Emplace(table, n, i) \in [Names -> Nat]
      /\ \A k \in Names : Emplace(table, n, i)[k] \in {table[k], i}
    BY <1>1, EmplaceGood
<1> DEFINE t == Emplace(table, n, i)
<1> HIDE DEF t
<1>3. ASSUME NEW k \in Names
      PROVE  t[k] <= l2
    <2>1. table[k] \in Nat /\ table[k] <= l
        BY <1>1
    <2>2. t[k] = table[k] \/ t[k] = i
        BY <1>2 DEF t
    <2> QED
        BY <2>1, <2>2
<1>4. t \in [Names -> Nat]
    BY <1>2 DEF t
<1>5. Good(t, l2)
    BY <1>3, <1>4 DEF Good
<1> QED
    BY <1>5 DEF t

LEMMA ResolveClassResolves ==
    ASSUME Typed, Entered, ResolveClass
    PROVE  Resolves
<1>1. /\ pass = "funcs" /\ at <= Len(program) /\ at' = at + 1 /\ Visited.k = "class"
      /\ UNCHANGED <<program, pass, types, emitter>>
    BY DEF ResolveClass, Visit
<1>2. Len(module) \in Nat /\ module \in Seq(Shape) /\ global \in Tables /\ emitter \in Emitter
    BY DEF Typed
<1>3. PICK n \in Names : n = Visited.name
    BY <1>1, VisitedIn
<1>4. PICK pub \in BOOLEAN : pub = IsPublic(Visited.access)
    BY <1>1, VisitedIn
<1>5. PICK merged \in BOOLEAN :
          merged = IsPublic(MergeAccess(Visited.access, Visited.maccess))
    BY DEF IsPublic
<1>6. Visited.members \in {"none", "ctor", "method", "methods"}
    BY <1>1, VisitedIn DEF Decl
<1> DEFINE m1 == Create(module, "ctor", n, merged, IntType, 0)
           m2 == Create(module, "method", n, merged, IntType, 0)
           m3 == Create(m2, "method", n, merged, IntType, 0)
           members == CASE Visited.members = "none"    -> module
                        [] Visited.members = "ctor"    -> m1
                        [] Visited.members = "method"  -> m2
                        [] Visited.members = "methods" -> m3
<1>7. /\ module' = Create(members, "dtor", n, pub, IntType, 0)
      /\ global' = [global EXCEPT
                !.ctors   = IF Visited.members = "ctor" THEN Emplace(@, n, Len(module) + 1) ELSE @,
                !.methods = IF Visited.members \in {"method", "methods"}
                            THEN Emplace(@, n, Len(module) + 1) ELSE @,
                !.dtors   = Emplace(@, n, Len(members) + 1)]
    BY <1>3, <1>4, <1>5 DEF ResolveClass
<1>8. Gains(module, m1)
    BY <1>2, CreateGrows
<1>9. Gains(module, m2)
    BY <1>2, CreateGrows
<1>10. Gains(m2, m3)
    <2> HIDE DEF m2
    <2>1. m2 \in Seq(Shape)
        BY <1>9 DEF Gains, Grows
    <2> QED
        BY <2>1, CreateGrows
<1> HIDE DEF m1, m2, m3
<1>11. Grows(module, members)
    <2>1. Grows(module, m3)
        BY <1>2, <1>9, <1>10, GrowsTwice DEF Gains
    <2> QED
        BY <1>2, <1>6, <1>8, <1>9, <2>1, GrowsNot DEF Gains
<1> HIDE DEF members
<1>12. members \in Seq(Shape) /\ Len(members) \in Nat /\ Len(module) <= Len(members)
    BY <1>11 DEF Grows
<1>13. Gains(members, module')
    BY <1>7, <1>12, CreateGrows
<1>14. Grows(module, module') /\ Len(module') = Len(members) + 1 /\ Len(module') \in Nat
    BY <1>2, <1>11, <1>12, <1>13, GrowsTwice DEF Gains
<1>15. global' \in Tables /\ Entered'
    <2>1. /\ Good(global.symtab, Len(module)) /\ Good(global.ctors, Len(module))
          /\ Good(global.methods, Len(module)) /\ Good(global.dtors, Len(module))
        BY <1>2 DEF Entered, Tables, Good
    <2>2. PICK i \in Nat : i = Len(module) + 1
        BY <1>2
    <2>3. PICK j \in Nat : j = Len(members) + 1
        BY <1>12
    <2>4. PICK l \in Nat : l = Len(module)
        BY <1>2
    <2>5. PICK l2 \in Nat : l2 = Len(module')
        BY <1>14
    <2>6. l <= l2 /\ i <= l2 /\ j <= l2
        BY <1>12, <1>14, <2>2, <2>3, <2>4, <2>5
    <2>7. PICK s, c, m, d : s = global.symtab /\ c = global.ctors /\ m = global.methods
                            /\ d = global.dtors
        OBVIOUS
    <2>8. Good(s, l) /\ Good(c, l) /\ Good(m, l) /\ Good(d, l)
        BY <2>1, <2>4, <2>7
    <2>9. /\ Good(s, l2) /\ Good(c, l2) /\ Good(m, l2)
          /\ Good(Emplace(c, n, i), l2) /\ Good(Emplace(m, n, i), l2)
          /\ Good(Emplace(d, n, j), l2)
        BY <2>6, <2>8, StaysGood, EmplaceStaysGood
    <2>10. /\ DOMAIN global' = DOMAIN global /\ global'.symtab = s
           /\ global'.ctors \in {c, Emplace(c, n, i)}
           /\ global'.methods \in {m, Emplace(m, n, i)}
           /\ global'.dtors = Emplace(d, n, j)
           /\ global' = [symtab |-> global'.symtab, ctors |-> global'.ctors,
                         methods |-> global'.methods, dtors |-> global'.dtors]
        BY <1>2, <1>7, <2>2, <2>3, <2>7 DEF Tables
    <2>11. /\ Good(global'.symtab, l2) /\ Good(global'.ctors, l2)
           /\ Good(global'.methods, l2) /\ Good(global'.dtors, l2)
        BY <2>9, <2>10
    <2> QED
        BY <2>5, <2>10, <2>11 DEF Good, Tables, Entered
<1> QED
    BY <1>1, <1>2, <1>14, <1>15, VisitedIn DEF Resolves

LEMMA EnteredKept ==
    ASSUME Typed, Entered, Grows(module, module'), global' = global
    PROVE  global' \in Tables /\ Entered'
<1>1. global \in Tables /\ Len(module) \in Nat /\ Len(module') \in Nat
      /\ Len(module) <= Len(module')
    BY DEF Typed, Grows
<1>2. ASSUME NEW k \in Names
      PROVE  /\ global.symtab[k] <= Len(module') /\ global.ctors[k] <= Len(module')
             /\ global.methods[k] <= Len(module') /\ global.dtors[k] <= Len(module')
    <2>1. /\ global.symtab[k] \in Nat /\ global.ctors[k] \in Nat
          /\ global.methods[k] \in Nat /\ global.dtors[k] \in Nat
        BY <1>1, <1>2 DEF Tables
    <2>2. /\ global.symtab[k] <= Len(module) /\ global.ctors[k] <= Len(module)
          /\ global.methods[k] <= Len(module) /\ global.dtors[k] <= Len(module)
        BY <1>2 DEF Entered
    <2> QED
        BY <1>1, <2>1, <2>2
<1> QED
    BY <1>1, <1>2 DEF Entered

\* A name in a body refers to what is in the module by then.
LEMMA FoundThere ==
    ASSUME Typed, Entered, NEW n \in Names, NEW self
    PROVE  Found(n, self) \in Nat /\ Found(n, self) <= Len(module)
<1>1. global.symtab[n] \in Nat /\ global.ctors[n] \in Nat /\ Len(module) \in Nat
    BY DEF Typed, Tables
<1>2. global.symtab[n] <= Len(module) /\ global.ctors[n] <= Len(module)
    BY DEF Entered
<1>3. Found(n, self) \in {global.symtab[n], global.ctors[n], None}
    BY DEF Found
<1> QED
    BY <1>1, <1>2, <1>3 DEF None

LEMMA ReferentAbove ==
    ASSUME Typed, Entered, NEW n \in Names \cup {NoUse}, NEW self
    PROVE  Above(Referent(n, self))
<1>1. CASE n = NoUse \/ Found(n, self) = None
    BY <1>1 DEF Referent, Above
<1>2. CASE ~(n = NoUse \/ Found(n, self) = None)
    <2>1. PICK s : s = Found(n, self)
        OBVIOUS
    <2>2. n \in Names
        BY <1>2
    <2>3. s \in Nat /\ s <= Len(module) /\ s # None
        BY <1>2, <2>1, <2>2, FoundThere
    <2>4. s \in 1..Len(module)
        BY <2>3 DEF None, Typed
    <2>5. Referent(n, self) = module[s].decl
        BY <1>2, <2>1 DEF Referent
    <2> QED
        BY <2>4, <2>5 DEF Above
<1> QED
    BY <1>1, <1>2

LEMMA AboveIn ==
    ASSUME Typed, NEW d, Above(d)
    PROVE  d \in Nat
<1>1. CASE d = None
    BY <1>1 DEF None
<1>2. CASE \E s \in 1..Len(module) : d = module[s].decl
    <2>1. PICK s \in 1..Len(module) : d = module[s].decl
        BY <1>2
    <2>2. module[s] \in Shape
        BY <2>1 DEF Typed
    <2> QED
        BY <2>1, <2>2 DEF Shape
<1> QED
    BY <1>1, <1>2 DEF Above

LEMMA UsesAbove ==
    ASSUME Typed, at \in Index, NEW d, Above(d), Uses(d)
    PROVE  emitter' \in Emitter /\ emitter'.uses = [emitter.uses EXCEPT ![at] = d]
<1>1. d \in Nat
    BY AboveIn
<1>2. emitter' = [emitter EXCEPT !.uses[at] = d]
    BY DEF Uses
<1> QED
    BY <1>1, <1>2 DEF Typed, Emitter

LEMMA EmitFunctionResolves ==
    ASSUME Typed, Entered, EmitFunction
    PROVE  Resolves
<1>1. /\ pass = "emit" /\ at <= Len(program) /\ at' = at + 1
      /\ UNCHANGED <<program, pass, types, global>>
    BY DEF EmitFunction, Visit
<1>2. module \in Seq(Shape) /\ emitter \in Emitter
    BY DEF Typed
<1>3. CASE at \in flagged
    <2>1. module' = module /\ emitter' = emitter
        BY <1>3 DEF EmitFunction
    <2>2. Grows(module, module')
        BY <1>2, <2>1, GrowsNot
    <2> QED
        BY <1>1, <1>2, <2>1, <2>2, EnteredKept, VisitedIn DEF Resolves
<1>4. CASE at \notin flagged
    <2>1. PICK n \in Names \cup {NoUse} :
              /\ module' = AddBody(module, global.symtab[Visited.name])
              /\ Uses(Referent(n, NoUse))
        BY <1>4 DEF EmitFunction
    <2>2. PICK i : i = global.symtab[Visited.name]
        OBVIOUS
    <2>3. Grows(module, module')
        BY <1>2, <2>1, <2>2, AddBodyGrows
    <2>4. PICK d : d = Referent(n, NoUse)
        OBVIOUS
    <2>5. Above(d)
        BY <2>4, ReferentAbove
    <2>6. emitter' \in Emitter /\ emitter'.uses = [emitter.uses EXCEPT ![at] = d]
        BY <1>1, <2>1, <2>4, <2>5, UsesAbove, VisitedIn
    <2> QED
        BY <1>1, <2>3, <2>5, <2>6, EnteredKept, VisitedIn DEF Resolves
<1> QED
    BY <1>3, <1>4

LEMMA EmitExtFuncResolves ==
    ASSUME Typed, Entered, EmitExtFunc
    PROVE  Resolves
<1>1. /\ pass = "emit" /\ at <= Len(program) /\ at' = at + 1
      /\ UNCHANGED <<program, pass, types, global, module, emitter>>
    BY DEF EmitExtFunc, Visit
<1>2. Grows(module, module') /\ emitter \in Emitter
    BY <1>1, GrowsNot DEF Typed
<1> QED
    BY <1>1, <1>2, EnteredKept, VisitedIn DEF Resolves

LEMMA EmitClassResolves ==
    ASSUME Typed, Entered, EmitClass
    PROVE  Resolves
<1>1. /\ pass = "emit" /\ at <= Len(program) /\ at' = at + 1 /\ Visited.k = "class"
      /\ UNCHANGED <<program, pass, types, global>>
    BY DEF EmitClass, Visit
<1>2. module \in Seq(Shape) /\ emitter \in Emitter
    BY DEF Typed
<1>3. Visited.members \in {"none", "ctor", "method", "methods"}
    BY <1>1, VisitedIn DEF Decl
<1>4. PICK c, d, m : /\ c = global.ctors[Visited.name] /\ m = global.methods[Visited.name]
                     /\ d = global.dtors[Visited.name]
    OBVIOUS
<1> DEFINE m1 == AddBody(module, c)
           m2 == AddBody(module, m)
           m3 == AddBody(m2, m)
           body == CASE Visited.members = "none"    -> module
                     [] Visited.members = "ctor"    -> m1
                     [] Visited.members = "method"  -> m2
                     [] Visited.members = "methods" -> m3
<1>5. module' = AddBody(body, d)
    BY <1>4 DEF EmitClass
<1>6. Grows(module, m1) /\ Grows(module, m2)
    BY <1>2, AddBodyGrows
<1>7. Grows(m2, m3)
    <2> HIDE DEF m2
    <2>1. m2 \in Seq(Shape)
        BY <1>6 DEF Grows
    <2> QED
        BY <2>1, AddBodyGrows
<1> HIDE DEF m1, m2, m3
<1>8. Grows(module, body)
    <2>1. Grows(module, m3)
        BY <1>2, <1>6, <1>7, GrowsTwice
    <2> QED
        BY <1>2, <1>3, <1>6, <2>1, GrowsNot
<1> HIDE DEF body
<1>9. Grows(body, module')
    <2>1. body \in Seq(Shape)
        BY <1>8 DEF Grows
    <2> QED
        BY <1>5, <2>1, AddBodyGrows
<1>10. Grows(module, module')
    BY <1>2, <1>8, <1>9, GrowsTwice
<1>11. PICK n \in Names \cup {NoUse} : Uses(Referent(n, Visited.name))
    BY DEF EmitClass
<1>12. PICK u : u = Referent(n, Visited.name)
    OBVIOUS
<1>13. Above(u)
    <2>1. PICK self : self = Visited.name
        OBVIOUS
    <2> QED
        BY <1>12, <2>1, ReferentAbove
<1>14. emitter' \in Emitter /\ emitter'.uses = [emitter.uses EXCEPT ![at] = u]
    BY <1>1, <1>11, <1>12, <1>13, UsesAbove, VisitedIn
<1> QED
    BY <1>1, <1>10, <1>13, <1>14, EnteredKept, VisitedIn DEF Resolves

LEMMA ListedIn ==
    ASSUME NEW e \in Emitter, NEW d \in Nat
    PROVE  /\ AddGlobalCtor(e, d) \in Emitter /\ AddGlobalCtor(e, d).uses = e.uses
           /\ AddGlobalCtor(e, d).ctors = Append(e.ctors, <<d>>)
           /\ AddGlobalCtor(e, d).dtors = e.dtors
           /\ AddGlobalDtor(e, d) \in Emitter /\ AddGlobalDtor(e, d).uses = e.uses
           /\ AddGlobalDtor(e, d).dtors = Append(e.dtors, <<d>>)
           /\ AddGlobalDtor(e, d).ctors = e.ctors
<1>1. e.ctors \in Seq(Seq(Nat)) /\ e.dtors \in Seq(Seq(Nat)) /\ e.vslCtor = None
      /\ e.vslDtor = None
    BY DEF Emitter
<1>2. <<d>> \in Seq(Nat)
    OBVIOUS
<1>3. PICK one \in Seq(Nat) : one = <<d>>
    BY <1>2
<1>4. /\ Append(e.ctors, one) \in Seq(Seq(Nat)) /\ Append(e.dtors, one) \in Seq(Seq(Nat))
    BY <1>1, AppendProperties
<1>5. /\ AddGlobalCtor(e, d) = [e EXCEPT !.ctors = Append(e.ctors, one)]
      /\ AddGlobalDtor(e, d) = [e EXCEPT !.dtors = Append(e.dtors, one)]
    BY <1>1, <1>3 DEF AddGlobalCtor, AddGlobalDtor, AddGlobalCall
<1>6. PICK cs, ds : cs = Append(e.ctors, one) /\ ds = Append(e.dtors, one)
    OBVIOUS
<1>7. /\ AddGlobalCtor(e, d) = [e EXCEPT !.ctors = cs]
      /\ AddGlobalDtor(e, d) = [e EXCEPT !.dtors = ds]
    BY <1>5, <1>6
<1>8. cs \in Seq(Seq(Nat)) /\ ds \in Seq(Seq(Nat))
    BY <1>4, <1>6
<1>9. /\ AddGlobalCtor(e, d) \in Emitter /\ AddGlobalCtor(e, d).uses = e.uses
      /\ AddGlobalCtor(e, d).ctors = cs /\ AddGlobalCtor(e, d).dtors = e.dtors
      /\ AddGlobalDtor(e, d) \in Emitter /\ AddGlobalDtor(e, d).uses = e.uses
      /\ AddGlobalDtor(e, d).dtors = ds /\ AddGlobalDtor(e, d).ctors = e.ctors
    BY <1>7, <1>8 DEF Emitter
<1> QED
    BY <1>3, <1>6, <1>9

LEMMA ValueTypeIn ==
    ASSUME Typed, NEW s \in 1..Len(module)
    PROVE  ValueType(s) \in Names \cup {IntType}
<1>1. module[s] \in Shape
    BY DEF Typed
<1> QED
    BY <1>1 DEF Shape, ValueType

LEMMA VisitVariableResolves ==
    ASSUME Typed, Entered, VisitVariable
    PROVE  Resolves
<1>1. PICK init \in Names \cup {"literal", "bad"}, called \in BOOLEAN :
        LET n      == Visited.name
            source == IF init \in Names THEN Found(init, NoUse) ELSE None
            valid  == init = "literal" \/ source # None
            type   == IF source = None THEN IntType ELSE ValueType(source)
            taken  == global.symtab[n] # None
            ctor   == Create(module, "varctor", n, FALSE, IntType, 1)
            var    == Create(ctor, "var", n, IsPublic(Visited.access), type, 0)
            hasDtor == type # IntType /\ global.dtors[type] # None
            listed == AddGlobalCtor([emitter EXCEPT !.uses[at] =
                                       IF source = None THEN None ELSE module[source].decl], at)
        IN  /\ Visit("emit") /\ Visited.k = "var"
            /\ IF valid /\ ~taken
               THEN /\ global' = [global EXCEPT !.symtab = Emplace(@, n, Len(var))]
                    /\ module' = IF hasDtor THEN Create(var, "vardtor", n, FALSE, IntType, 1)
                                 ELSE var
                    /\ emitter' = IF hasDtor THEN AddGlobalDtor(listed, at) ELSE listed
               ELSE /\ module' = ctor /\ emitter' = listed
                    /\ UNCHANGED global
            /\ UNCHANGED types
    BY DEF VisitVariable
<1>2. /\ pass = "emit" /\ at <= Len(program) /\ at' = at + 1 /\ Visited.k = "var"
      /\ UNCHANGED <<program, pass, types>>
    BY <1>1 DEF Visit
<1>3. /\ Len(module) \in Nat /\ module \in Seq(Shape) /\ global \in Tables
      /\ emitter \in Emitter /\ at \in Nat
    BY DEF Typed
<1>4. PICK n \in Names : n = Visited.name
    BY <1>2, VisitedIn
<1>5. PICK pub \in BOOLEAN : pub = IsPublic(Visited.access)
    BY <1>2, VisitedIn
<1>6. PICK source : source = IF init \in Names THEN Found(init, NoUse) ELSE None
    OBVIOUS
<1>7. source = None \/ source \in 1..Len(module)
    <2>1. CASE init \in Names
        <3>1. PICK self : self = NoUse
            OBVIOUS
        <3>2. source \in Nat /\ source <= Len(module)
            BY <1>6, <2>1, <3>1, FoundThere
        <3> QED
            BY <1>3, <3>2 DEF None
    <2> QED
        BY <1>6, <2>1
<1>8. PICK type \in Names \cup {IntType} :
          type = IF source = None THEN IntType ELSE ValueType(source)
    BY <1>7, ValueTypeIn
<1>9. PICK u : u = IF source = None THEN None ELSE module[source].decl
    OBVIOUS
<1>10. Above(u)
    BY <1>7, <1>9 DEF Above
<1> DEFINE ctor == Create(module, "varctor", n, FALSE, IntType, 1)
           var  == Create(ctor, "var", n, pub, type, 0)
           dtor == Create(var, "vardtor", n, FALSE, IntType, 1)
           used == [emitter EXCEPT !.uses[at] = u]
           listed == AddGlobalCtor(used, at)
<1>11. \/ /\ global' = [global EXCEPT !.symtab = Emplace(@, n, Len(var))]
          /\ \/ module' = dtor /\ emitter' = AddGlobalDtor(listed, at)
             \/ module' = var /\ emitter' = listed
       \/ module' = ctor /\ emitter' = listed /\ global' = global
    BY <1>1, <1>4, <1>5, <1>6, <1>8, <1>9
<1>12. Gains(module, ctor)
    BY <1>3, CreateGrows
<1> HIDE DEF ctor
<1>13. ctor \in Seq(Shape) /\ Gains(ctor, var)
    <2>1. ctor \in Seq(Shape)
        BY <1>12 DEF Gains, Grows
    <2> QED
        BY <2>1, CreateGrows
<1> HIDE DEF var
<1>14. var \in Seq(Shape) /\ Gains(var, dtor)
    <2>1. var \in Seq(Shape)
        BY <1>13 DEF Gains, Grows
    <2> QED
        BY <2>1, CreateGrows
<1> HIDE DEF dtor
<1>15. Grows(module, ctor) /\ Grows(module, var) /\ Grows(module, dtor)
    <2>1. Grows(module, var)
        BY <1>3, <1>12, <1>13, GrowsTwice DEF Gains
    <2>2. Grows(module, dtor)
        BY <1>3, <1>14, <2>1, GrowsTwice DEF Gains
    <2> QED
        BY <1>12, <2>1, <2>2 DEF Gains
<1>16. /\ Len(ctor) \in Nat /\ Len(var) \in Nat /\ Len(dtor) \in Nat
       /\ Len(dtor) = Len(var) + 1
    BY <1>12, <1>13, <1>14 DEF Gains, Grows
<1>17. used \in Emitter /\ used.uses = [emitter.uses EXCEPT ![at] = u]
    <2>1. u \in Nat
        BY <1>10, AboveIn
    <2> QED
        BY <1>3, <2>1 DEF Emitter
<1> HIDE DEF used
<1>18. listed \in Emitter /\ listed.uses = used.uses
    BY <1>3, <1>17, ListedIn
<1> HIDE DEF listed
<1>19. AddGlobalDtor(listed, at) \in Emitter /\ AddGlobalDtor(listed, at).uses = listed.uses
    BY <1>3, <1>18, ListedIn
<1>20. emitter' \in Emitter /\ emitter'.uses = [emitter.uses EXCEPT ![at] = u]
    BY <1>11, <1>17, <1>18, <1>19
<1>21. Grows(module, module')
    BY <1>11, <1>15
<1>22. global' \in Tables /\ Entered'
    <2>1. CASE global' = global
        BY <1>21, <2>1, EnteredKept
    <2>2. CASE /\ global' = [global EXCEPT !.symtab = Emplace(@, n, Len(var))]
               /\ module' \in {var, dtor}
        <3>1. PICK i \in Nat : i = Len(var)
            BY <1>16
        <3>2. global' = [global EXCEPT !.symtab = Emplace(@, n, i)]
            BY <2>2, <3>1
        <3>3. Len(module') \in Nat /\ i <= Len(module') /\ Len(module) <= Len(module')
            BY <1>16, <1>21, <2>2, <3>1 DEF Grows
        <3> QED
            BY <1>3, <3>2, <3>3, SymtabGood
    <2> QED
        BY <1>11, <2>1, <2>2
<1> QED
    BY <1>2, <1>10, <1>20, <1>21, <1>22, VisitedIn DEF Resolves

-----------------------------------------------------------------------------
(* What a pass can rely on *)

Settled(type, as) ==
    as = IF type \in Classes(program) \cup {IntType} THEN type ELSE "placeholder"

OneClass ==
    \A i, j \in 1..Len(program) :
        /\ program[i].k = "class" /\ program[j].k = "class"
        /\ program[i].name = program[j].name
        => i = j

\* The first pass has entered the classes that it has come to.
TypesKnown ==
    types.classes = {program[i].name : i \in {j \in 1..Len(program) :
                        /\ program[j].k = "class"
                        /\ pass # "parse" /\ (pass = "types1" => j < at)}}

StructsSettled ==
    \A i \in 1..Len(program) :
        program[i].k = "class" /\ (pass \notin Early \/ (pass = "types2" /\ i < at))
        => Settled(program[i].ref, types.struct[program[i].name])

SymbolsSettled == \A i \in 1..Len(module) : Settled(module[i].type, module[i].as)

\* What the module has of a variable is there because the last pass was there.
VarsVisited ==
    \A i \in 1..Len(module) :
        program[module[i].decl].k = "var" =>
            pass \notin Early \cup {"funcs"} /\ (pass = "emit" => module[i].decl < at)

NoUsesYet == pass \in Early => \A i \in Index : emitter.uses[i] = None

PassesInv == /\ Typed /\ Entered /\ OneClass /\ TypesKnown /\ StructsSettled
             /\ SymbolsSettled /\ VarsVisited /\ NoUsesYet /\ UsesSeen

\* The declarations have been visited, and what the passes made of them is used.
Rests ==
    /\ UNCHANGED <<program, types, global, module, emitter>>
    /\ \/ UNCHANGED <<pass, at>>
       \/ /\ pass \notin DOMAIN NextOf /\ pass' \in Passes \ DOMAIN NextOf
          /\ at' \in {at, at + 1, 1}

LEMMA NextCases ==
    ASSUME Typed, Entered, [Next]_vars
    PROVE  \/ \E d \in Decls : Parse(d)
           \/ EndPass \/ GatherInfo \/ Resolve \/ Resolves \/ Rests
<1>1. ASSUME Verify \/ Link \/ RunCtor \/ RunMain \/ Exit \/ RunDtor \/ End
      PROVE  Rests
    BY <1>1 DEF Verify, Link, RunCtor, RunMain, Exit, RunDtor, End, Rests, NextOf, Passes
<1>2. ASSUME Stopped \/ UNCHANGED vars
      PROVE  Rests
    BY <1>2 DEF Stopped, vars, Rests
<1> QED
    BY <1>1, <1>2, ResolveFunctionResolves, ResolveClassResolves, PassOverResolves,
       EmitFunctionResolves, EmitExtFuncResolves, EmitClassResolves, VisitVariableResolves
    DEF Next

LEMMA InitPasses == Init => PassesInv
<1> SUFFICES ASSUME Init
             PROVE  PassesInv
    OBVIOUS
<1>1. program = <<>> /\ module = <<>> /\ pass = "parse" /\ at = 1
    BY DEF Init
<1>2. Len(program) = 0 /\ Len(module) = 0 /\ program \in Seq(Decls) /\ module \in Seq(Shape)
    BY <1>1
<1>3. types = [classes |-> {}, struct |-> [n \in Names |-> "opaque"]]
    BY DEF Init
<1>4. global \in Tables /\ Entered
    BY <1>2 DEF Init, Tables, Entered, None
<1>5. emitter \in Emitter /\ \A i \in Index : emitter.uses[i] = None
    <2>1. emitter = [vslCtor |-> None, vslDtor |-> None, ctors |-> <<>>, dtors |-> <<>>,
                     uses |-> [i \in Index |-> None]]
        BY DEF Init
    <2>2. PICK none : none = <<>>
        OBVIOUS
    <2>3. none \in Seq(Seq(Nat))
        BY <2>2
    <2> QED
        BY <2>1, <2>2, <2>3 DEF Emitter, None
<1>6. Typed
    BY <1>1, <1>2, <1>3, <1>4, <1>5, DeclsAssumption DEF Typed, Passes, NextOf
<1>7. DOMAIN program = {} /\ 1..Len(program) = {} /\ 1..Len(module) = {}
    BY <1>1, <1>2
<1> QED
    BY <1>1, <1>3, <1>4, <1>5, <1>6, <1>7
    DEF PassesInv, OneClass, TypesKnown, StructsSettled, SymbolsSettled, VarsVisited,
        NoUsesYet, UsesSeen

LEMMA RestsKeeps ==
    ASSUME PassesInv, Rests
    PROVE  PassesInv'
<1>1. UNCHANGED <<program, types, global, module, emitter>>
    BY DEF Rests
<1>2. /\ pass' \in Passes /\ at' \in Nat \ {0}
      /\ \A p \in DOMAIN NextOf : pass' = p <=> pass = p
      /\ pass \in DOMAIN NextOf => at' = at
    BY DEF Rests, PassesInv, Typed
<1>3. /\ pass' \in Early <=> pass \in Early
      /\ pass' = "parse" <=> pass = "parse"
      /\ pass' = "types1" <=> pass = "types1"
      /\ pass' = "types2" <=> pass = "types2"
      /\ pass' = "funcs" <=> pass = "funcs"
      /\ pass' = "emit" <=> pass = "emit"
      /\ pass \in {"parse", "types1", "types2", "funcs", "emit"} => at' = at
    BY <1>2 DEF Early, NextOf
<1>4. Typed' /\ Entered' /\ OneClass' /\ NoUsesYet' /\ UsesSeen'
    BY <1>1, <1>2, <1>3 DEF PassesInv, Typed, Entered, OneClass, NoUsesYet, UsesSeen
<1>5. TypesKnown' /\ StructsSettled' /\ SymbolsSettled' /\ VarsVisited'
    BY <1>1, <1>3 DEF PassesInv, TypesKnown, StructsSettled, SymbolsSettled, VarsVisited,
                      Settled, Classes
<1> QED
    BY <1>4, <1>5 DEF PassesInv

LEMMA ParseKeeps ==
    ASSUME PassesInv, NEW d \in Decls, Parse(d)
    PROVE  PassesInv'
<1>1. /\ pass = "parse" /\ Len(program) < MaxDecls
      /\ UNCHANGED <<pass, at, types, global, module, emitter>>
      /\ \/ program' = program
         \/ /\ program' = Append(program, d)
            /\ ~(d.k = "class" /\ d.name \in Classes(program))
    BY DEF Parse
<1>2. program \in Seq(Decls) /\ Len(program) \in Nat /\ MaxDecls \in Nat
    BY DeclsAssumption DEF PassesInv, Typed
<1>3. CASE program' = program
    BY <1>1, <1>3 DEF PassesInv, Typed, Entered, OneClass, TypesKnown, StructsSettled,
        SymbolsSettled, VarsVisited, NoUsesYet, UsesSeen, Settled, Classes
<1>4. CASE /\ program' = Append(program, d)
           /\ ~(d.k = "class" /\ d.name \in Classes(program))
    <2>1. /\ program' \in Seq(Decls) /\ Len(program') = Len(program) + 1
          /\ \A i \in 1..Len(program) : program'[i] = program[i]
          /\ program'[Len(program) + 1] = d
          /\ DOMAIN program' = 1..Len(program')
        BY <1>2, <1>4
    <2>2. Typed' /\ Entered' /\ NoUsesYet'
        BY <1>1, <1>2, <2>1 DEF PassesInv, Typed, Entered, NoUsesYet
    <2>3. OneClass'
        <3>1. \A i \in 1..Len(program) :
                  ~(d.k = "class" /\ program[i].k = "class" /\ program[i].name = d.name)
            BY <1>2, <1>4 DEF Classes
        <3>2. ASSUME NEW i \in 1..Len(program'), NEW j \in 1..Len(program'),
                     program'[i].k = "class", program'[j].k = "class",
                     program'[i].name = program'[j].name
              PROVE  i = j
            <4>1. i \in 1..Len(program) \/ i = Len(program) + 1
                BY <1>2, <2>1
            <4>2. j \in 1..Len(program) \/ j = Len(program) + 1
                BY <1>2, <2>1
            <4> QED
                BY <2>1, <3>1, <3>2, <4>1, <4>2 DEF PassesInv, OneClass
        <3> QED
            BY <3>2 DEF OneClass
    <2>4. types.classes = {}
        BY <1>1 DEF PassesInv, TypesKnown
    <2>5. TypesKnown' /\ StructsSettled'
        BY <1>1, <2>4 DEF TypesKnown, StructsSettled, Early
    <2>6. module = <<>>
        BY <1>1 DEF PassesInv, Typed, Early
    <2>7. SymbolsSettled' /\ VarsVisited'
        BY <1>1, <2>6 DEF SymbolsSettled, VarsVisited
    <2>8. UsesSeen'
        <3>1. \A i \in Index : emitter.uses[i] = None
            BY <1>1 DEF PassesInv, NoUsesYet, Early
        <3>2. DOMAIN program' \subseteq Index
            BY <1>1, <1>2, <2>1 DEF Index
        <3> QED
            BY <1>1, <3>1, <3>2 DEF UsesSeen
    <2> QED
        BY <2>2, <2>3, <2>5, <2>7, <2>8 DEF PassesInv
<1> QED
    BY <1>1, <1>3, <1>4

LEMMA EndPassKeeps ==
    ASSUME PassesInv, EndPass
    PROVE  PassesInv'
<1>1. /\ pass \in {"parse", "types1", "types2", "funcs", "emit"}
      /\ pass = "parse" \/ at > Len(program)
      /\ at' = 1
      /\ UNCHANGED <<program, types, global, module, emitter>>
      /\ pass = "parse" => pass' = "types1"
      /\ pass = "types1" => pass' = "types2"
      /\ pass = "types2" => pass' = "funcs"
      /\ pass = "funcs" => pass' = "emit"
      /\ pass = "emit" => pass' = "verify"
    BY DEF EndPass, NextOf
<1>2. Len(program) \in Nat /\ at \in Nat
    BY DEF PassesInv, Typed
<1>3. \A i \in 1..Len(program) : pass # "parse" => i < at
    BY <1>1, <1>2
<1>4. Typed' /\ Entered' /\ OneClass' /\ NoUsesYet' /\ UsesSeen'
    BY <1>1 DEF PassesInv, Typed, Entered, OneClass, NoUsesYet, UsesSeen, Early, Passes, NextOf
<1>5. TypesKnown'
    <2>1. CASE pass = "parse"
        <3>1. types.classes = {}
            BY <2>1 DEF PassesInv, TypesKnown
        <3>2. \A j \in 1..Len(program) : ~(j < 1)
            BY <1>2
        <3> QED
            BY <1>1, <2>1, <3>1, <3>2 DEF TypesKnown
    <2>2. CASE pass # "parse"
        BY <1>1, <1>3, <2>2 DEF PassesInv, TypesKnown
    <2> QED
        BY <2>1, <2>2
<1>6. StructsSettled'
    <2>1. \A i \in 1..Len(program) : ~(i < 1)
        BY <1>2
    <2> QED
        BY <1>1, <1>3, <2>1 DEF PassesInv, StructsSettled, Settled, Classes, Early
<1>7. SymbolsSettled'
    BY <1>1 DEF PassesInv, SymbolsSettled, Settled, Classes
<1>8. VarsVisited'
    <2>1. pass \in Early => Len(module) = 0
        BY DEF PassesInv, Typed
    <2> QED
        BY <1>1, <2>1 DEF PassesInv, VarsVisited, Early
<1> QED
    BY <1>4, <1>5, <1>6, <1>7, <1>8 DEF PassesInv

LEMMA GatherInfoKeeps ==
    ASSUME PassesInv, GatherInfo
    PROVE  PassesInv'
<1>1. /\ pass = "types1" /\ at <= Len(program) /\ at' = at + 1
      /\ UNCHANGED <<program, pass, global, module, emitter>>
      /\ types' = IF Visited.k = "class"
                  THEN [types EXCEPT !.classes = @ \cup {Visited.name}] ELSE types
    BY DEF GatherInfo, Visit
<1>2. /\ at \in 1..Len(program) /\ Visited.name \in Names /\ Visited = program[at]
      /\ Len(program) \in Nat
    BY <1>1, VisitedIn DEF PassesInv, Typed, Visited
<1>3. /\ types \in [classes : SUBSET Names,
                     struct : [Names -> Names \cup {IntType, "opaque", "placeholder"}]]
      /\ types' \in [classes : SUBSET Names,
                      struct : [Names -> Names \cup {IntType, "opaque", "placeholder"}]]
      /\ types'.classes = IF Visited.k = "class" THEN types.classes \cup {Visited.name}
                          ELSE types.classes
    <2>1. types \in [classes : SUBSET Names,
                     struct : [Names -> Names \cup {IntType, "opaque", "placeholder"}]]
        BY DEF PassesInv, Typed
    <2> QED
        BY <1>1, <1>2, <2>1
<1>4. Typed' /\ Entered' /\ OneClass' /\ NoUsesYet' /\ UsesSeen'
    <2>1. Typed'
        <3>1. types' \in [classes : SUBSET Names,
                          struct : [Names -> Names \cup {IntType, "opaque", "placeholder"}]]
            BY <1>3
        <3>2. at' \in Nat \ {0}
            BY <1>1, <1>2
        <3>3. UNCHANGED <<program, pass, global, module, emitter>>
            BY <1>1
        <3> QED
            BY <3>1, <3>2, <3>3 DEF PassesInv, Typed
    <2>2. OneClass' /\ NoUsesYet' /\ UsesSeen'
        BY <1>1 DEF PassesInv, OneClass, NoUsesYet, UsesSeen
    <2>3. Entered'
        BY <1>1 DEF PassesInv, Entered
    <2> QED
        BY <2>1, <2>2, <2>3
<1>5. TypesKnown'
    <2>1. types.classes = {program[i].name : i \in {j \in 1..Len(program) :
                                                    program[j].k = "class" /\ j < at}}
        BY <1>1 DEF PassesInv, TypesKnown
    <2>2. types'.classes = {program[i].name : i \in {j \in 1..Len(program) :
                                                    program[j].k = "class" /\ j < at + 1}}
        <3>1. \A j \in 1..Len(program) : j < at + 1 <=> j < at \/ j = at
            BY <1>2
        <3> QED
            BY <1>2, <1>3, <2>1, <3>1
    <2> QED
        BY <1>1, <2>2 DEF TypesKnown
<1>6. StructsSettled'
    BY <1>1 DEF StructsSettled, Early
<1>7. module = <<>>
    BY <1>1 DEF PassesInv, Typed, Early
<1>8. SymbolsSettled' /\ VarsVisited'
    BY <1>1, <1>7 DEF SymbolsSettled, VarsVisited
<1> QED
    BY <1>4, <1>5, <1>6, <1>8 DEF PassesInv

\* From the second pass on a type is converted once and for all.
LEMMA ConvertSettles ==
    ASSUME PassesInv, pass \notin {"parse", "types1"}, NEW t
    PROVE  Settled(t, Convert(t))
<1>1. DOMAIN program = 1..Len(program)
    BY DEF PassesInv, Typed
<1>2. types.classes = Classes(program)
    BY <1>1 DEF PassesInv, TypesKnown, Classes
<1> QED
    BY <1>2 DEF Settled, Convert

LEMMA ResolveKeeps ==
    ASSUME PassesInv, Resolve
    PROVE  PassesInv'
<1>1. /\ pass = "types2" /\ at <= Len(program) /\ at' = at + 1
      /\ UNCHANGED <<program, pass, global, module, emitter>>
      /\ types' = IF Visited.k = "class"
                  THEN [types EXCEPT !.struct[Visited.name] = Convert(Visited.ref)] ELSE types
    BY DEF Resolve, Visit
<1>2. /\ at \in 1..Len(program) /\ Visited.name \in Names /\ Visited = program[at]
      /\ Visited.ref \in Names \cup {IntType} /\ Len(program) \in Nat
    BY <1>1, VisitedIn DEF PassesInv, Typed, Visited
<1>3. PICK n \in Names, r \in Names \cup {IntType} : n = Visited.name /\ r = Visited.ref
    BY <1>2
<1>4. PICK as : as = Convert(r)
    OBVIOUS
<1>5. Settled(r, as) /\ as \in Names \cup {IntType, "placeholder"}
    BY <1>1, <1>4, ConvertSettles, ConvertType DEF PassesInv
<1>6. /\ types \in [classes : SUBSET Names,
                     struct : [Names -> Names \cup {IntType, "opaque", "placeholder"}]]
      /\ types' \in [classes : SUBSET Names,
                      struct : [Names -> Names \cup {IntType, "opaque", "placeholder"}]]
      /\ types'.classes = types.classes
      /\ types'.struct = IF Visited.k = "class" THEN [types.struct EXCEPT ![n] = as]
                         ELSE types.struct
    <2>1. types \in [classes : SUBSET Names,
                     struct : [Names -> Names \cup {IntType, "opaque", "placeholder"}]]
        BY DEF PassesInv, Typed
    <2> QED
        BY <1>1, <1>3, <1>4, <1>5, <2>1
<1>7. Typed' /\ Entered' /\ OneClass' /\ NoUsesYet' /\ UsesSeen'
    <2>1. Typed'
        <3>1. types' \in [classes : SUBSET Names,
                          struct : [Names -> Names \cup {IntType, "opaque", "placeholder"}]]
            BY <1>6
        <3>2. at' \in Nat \ {0}
            BY <1>1, <1>2
        <3>3. UNCHANGED <<program, pass, global, module, emitter>>
            BY <1>1
        <3> QED
            BY <3>1, <3>2, <3>3 DEF PassesInv, Typed
    <2>2. OneClass' /\ NoUsesYet' /\ UsesSeen'
        BY <1>1 DEF PassesInv, OneClass, NoUsesYet, UsesSeen
    <2>3. Entered'
        BY <1>1 DEF PassesInv, Entered
    <2> QED
        BY <2>1, <2>2, <2>3
<1>8. TypesKnown'
    BY <1>1, <1>6 DEF PassesInv, TypesKnown
<1>9. StructsSettled'
    <2>1. ASSUME NEW i \in 1..Len(program), program[i].k = "class", i < at + 1
          PROVE  Settled(program[i].ref, types'.struct[program[i].name])
        <3>1. CASE i = at
            <4>1. program[i].ref = r /\ program[i].name = n /\ Visited.k = "class"
                BY <1>2, <1>3, <2>1, <3>1
            <4>2. types'.struct[n] = as
                BY <1>6, <4>1
            <4> QED
                BY <1>5, <4>1, <4>2
        <3>2. CASE i # at
            <4>1. i < at
                BY <1>2, <2>1, <3>2
            <4>2. Settled(program[i].ref, types.struct[program[i].name])
                BY <1>1, <2>1, <4>1 DEF PassesInv, StructsSettled
            <4>3. Visited.k = "class" => program[i].name # n
                BY <1>2, <1>3, <2>1, <3>2 DEF PassesInv, OneClass
            <4>4. types'.struct[program[i].name] = types.struct[program[i].name]
                <5>1. program[i] \in Decl
                    BY DeclsAssumption DEF PassesInv, Typed
                <5>2. PICK k \in Names : k = program[i].name
                    BY <5>1 DEF Decl
                <5>3. Visited.k = "class" => k # n
                    BY <4>3, <5>2
                <5>4. types'.struct[k] = types.struct[k]
                    BY <1>6, <5>3
                <5> QED
                    BY <5>2, <5>4
            <4> QED
                BY <4>2, <4>4
        <3> QED
            BY <3>1, <3>2
    <2> QED
        BY <1>1, <2>1 DEF StructsSettled, Settled, Classes, Early
<1>10. module = <<>>
    BY <1>1 DEF PassesInv, Typed, Early
<1>11. SymbolsSettled' /\ VarsVisited'
    BY <1>1, <1>10 DEF SymbolsSettled, VarsVisited
<1> QED
    BY <1>7, <1>8, <1>9, <1>11 DEF PassesInv

LEMMA ResolvesKeeps ==
    ASSUME PassesInv, Resolves
    PROVE  PassesInv'
<1>1. /\ pass \in {"funcs", "emit"} /\ at \in 1..Len(program) /\ at' = at + 1
      /\ UNCHANGED <<program, pass, types>>
      /\ Grows(module, module')
      /\ Visited.k = "var" /\ pass = "funcs" => module' = module
      /\ global' \in Tables /\ Entered' /\ emitter' \in Emitter
      /\ \/ emitter'.uses = emitter.uses
         \/ \E d : Above(d) /\ emitter'.uses = [emitter.uses EXCEPT ![at] = d]
    BY DEF Resolves
<1>2. /\ Len(module) \in Nat /\ Len(module') \in Nat /\ at \in Nat /\ Len(program) \in Nat
      /\ module \in Seq(Shape) /\ module' \in Seq(Shape) /\ emitter \in Emitter
      /\ Visited = program[at]
    BY <1>1 DEF PassesInv, Typed, Grows, Visited
<1>3. pass \notin Early
    BY <1>1 DEF Early
<1>4. /\ \A i \in 1..Len(module) : /\ module'[i].decl = module[i].decl
                                   /\ module'[i].type = module[i].type
                                   /\ module'[i].as = module[i].as
      /\ \A i \in Len(module) + 1..Len(module') :
             module'[i].decl = at /\ module'[i].as = Convert(module'[i].type)
    BY <1>1 DEF Grows
<1>5. \A i \in 1..Len(module') : i \in 1..Len(module) \/ i \in Len(module) + 1..Len(module')
    BY <1>2
<1>6. Typed' /\ Entered' /\ OneClass' /\ NoUsesYet'
    <2>1. Typed'
        <3>1. at' \in Nat \ {0} /\ pass' \notin Early
            BY <1>1, <1>2, <1>3
        <3>2. UNCHANGED <<program, pass, types>>
            BY <1>1
        <3>3. module' \in Seq(Shape) /\ global' \in Tables /\ emitter' \in Emitter
            BY <1>1, <1>2
        <3> QED
            BY <3>1, <3>2, <3>3 DEF PassesInv, Typed
    <2>2. OneClass' /\ NoUsesYet'
        BY <1>1, <1>3 DEF PassesInv, OneClass, NoUsesYet
    <2> QED
        BY <1>1, <2>1, <2>2
<1>7. TypesKnown' /\ StructsSettled'
    BY <1>1, <1>3 DEF PassesInv, TypesKnown, StructsSettled, Settled, Classes, Early
<1>8. SymbolsSettled'
    <2>1. ASSUME NEW i \in 1..Len(module')
          PROVE  Settled(module'[i].type, module'[i].as)
        <3>1. CASE i \in 1..Len(module)
            BY <1>4, <3>1 DEF PassesInv, SymbolsSettled
        <3>2. CASE i \in Len(module) + 1..Len(module')
            <4>1. PICK t : t = module'[i].type
                OBVIOUS
            <4> QED
                BY <1>1, <1>4, <3>2, <4>1, ConvertSettles
        <3> QED
            BY <1>5, <3>1, <3>2
    <2> QED
        BY <1>1, <2>1 DEF SymbolsSettled, Settled, Classes
<1>9. VarsVisited'
    <2>1. ASSUME NEW i \in 1..Len(module'), program[module'[i].decl].k = "var"
          PROVE  pass = "emit" /\ module'[i].decl < at + 1
        <3>1. CASE i \in 1..Len(module)
            <4>1. module'[i].decl = module[i].decl /\ module[i].decl \in Nat
                <5>1. module[i] \in Shape
                    BY <1>2, <3>1
                <5> QED
                    BY <1>4, <3>1, <5>1 DEF Shape
            <4>2. pass = "emit" /\ module[i].decl < at
                BY <1>1, <2>1, <3>1, <4>1 DEF PassesInv, VarsVisited
            <4> QED
                BY <1>2, <4>1, <4>2
        <3>2. CASE i \in Len(module) + 1..Len(module')
            <4>1. module'[i].decl = at
                BY <1>4, <3>2
            <4>2. module' # module
                BY <1>2, <3>2
            <4>3. pass # "funcs"
                BY <1>1, <1>2, <2>1, <4>1, <4>2
            <4> QED
                BY <1>1, <1>2, <4>1, <4>3
        <3> QED
            BY <1>5, <3>1, <3>2
    <2> QED
        BY <1>1, <1>3, <2>1 DEF VarsVisited, Early
<1>10. UsesSeen'
    <2>1. CASE emitter'.uses = emitter.uses
        BY <1>1, <2>1 DEF PassesInv, UsesSeen
    <2>2. CASE emitter'.uses # emitter.uses
        <3>1. PICK d : Above(d) /\ emitter'.uses = [emitter.uses EXCEPT ![at] = d]
            BY <1>1, <2>2
        <3>2. d # None /\ program[d].k = "var" => d < at
            <4>1. SUFFICES ASSUME d # None, program[d].k = "var"
                           PROVE  d < at
                OBVIOUS
            <4>2. PICK s \in 1..Len(module) : d = module[s].decl
                BY <3>1, <4>1 DEF Above
            <4> QED
                BY <1>1, <4>1, <4>2 DEF PassesInv, VarsVisited
        <3>3. \A i \in DOMAIN program :
                  emitter'.uses[i] = IF i = at THEN d ELSE emitter.uses[i]
            <4>1. DOMAIN program \subseteq Index /\ DOMAIN emitter.uses = Index
                BY <1>2, DeclsAssumption DEF PassesInv, Typed, Emitter, Index
            <4> QED
                BY <3>1, <4>1
        <3> QED
            BY <1>1, <3>2, <3>3 DEF PassesInv, UsesSeen
    <2> QED
        BY <2>1, <2>2
<1> QED
    BY <1>6, <1>7, <1>8, <1>9, <1>10, <1>1 DEF PassesInv

-----------------------------------------------------------------------------

LEMMA NextKeeps ==
    ASSUME PassesInv, [Next]_vars
    PROVE  PassesInv'
BY NextCases, ParseKeeps, EndPassKeeps, GatherInfoKeeps, ResolveKeeps, ResolvesKeeps,
   RestsKeeps DEF PassesInv

LEMMA AlwaysPasses == Spec => []PassesInv
BY InitPasses, NextKeeps, PTL DEF Spec

\* For programs of any length: where a class is declared does not matter to the
\* functions, globals and fields of its type, because both passes of TypeResolver
\* are over before anything else converts a type.
THEOREM TypesForward == Spec => []ForwardTypes
<1>1. PassesInv => ForwardTypes
    <2> SUFFICES ASSUME PassesInv
                 PROVE  ForwardTypes
        OBVIOUS
    <2>1. DOMAIN module = 1..Len(module) /\ DOMAIN program = 1..Len(program)
        BY DEF PassesInv, Typed
    <2> QED
        BY <2>1 DEF PassesInv, SymbolsSettled, StructsSettled, Settled, ForwardTypes, Early
<1> QED
    BY <1>1, AlwaysPasses, PTL

\* For programs of any length: what a body or an initializer refers to was in the
\* module before, and a variable is there only after its own visit.
THEOREM VariablesSeen == Spec => []UsesSeen
<1>1. PassesInv => UsesSeen
    BY DEF PassesInv
<1> QED
    BY <1>1, AlwaysPasses, PTL

-----------------------------------------------------------------------------
(* What the module has of a declaration *)

\* The passes handle the programs that are left without these forms.
Handled == {"DuplicateVar", "FuncValue", "DuplicateMethod", "AliasClash"} \cap Forms = {}

SymbolName(e) == IF e.k = "ext" THEN e.ref ELSE e.name

\* Of two declarations that are no classes one is not called like the other.
Apart(d, e) ==
    d.k # "class" /\ e.k # "class" =>
        /\ "var" \in {d.k, e.k} => d.name # e.name
        /\ "ext" \in {d.k, e.k} => SymbolName(d) # SymbolName(e)

ProgramHandled ==
    \A i \in 1..Len(program) :
        /\ program[i].members # "methods"
        /\ \A j \in 1..Len(program) : i # j => Apart(program[i], program[j])

\* FuncResolver, and IREmitter, have been at declaration i.
Resolved(i) == pass \notin Early /\ (pass = "funcs" => i < at)
WasEmitted(i) == pass \notin Early \cup {"funcs"} /\ (pass = "emit" => i < at)

OfVariable == {"var", "varctor", "vardtor"}

\* A symbol s is what the passes make of a declaration d.
Fits(s, d) ==
    /\ s.role \in {"func", "ext", "var"} => d.k = s.role /\ s.name = SymbolName(d)
    /\ s.role \in {"varctor", "vardtor"} => d.k = "var" /\ s.name = d.name
    /\ s.role \in {"ctor", "method", "dtor"} => d.k = "class" /\ s.name = d.name
    /\ s.role \in {"ctor", "method"} => d.members = s.role
    /\ s.public <=> /\ s.role \notin {"varctor", "vardtor"} /\ d.access = "public"
                    /\ s.role \in {"ctor", "method"} => d.maccess = "public"

SymbolsFit ==
    \A i \in 1..Len(module) :
        LET s == module[i]
        IN  /\ s.decl \in 1..Len(program) /\ Fits(s, program[s.decl])
            /\ s.public => ~s.renamed
            /\ s.role = "func" => s.decl \notin flagged
            /\ s.role \in OfVariable => WasEmitted(s.decl)
            /\ s.role \notin OfVariable => Resolved(s.decl)

\* A symbol that can get a body is the one that its table has for its name.
InTable(i, g) ==
    LET s == module[i]
    IN  /\ s.role = "func"   => g.symtab[s.name] = i
        /\ s.role = "ctor"   => g.ctors[s.name] = i
        /\ s.role = "method" => g.methods[s.name] = i
        /\ s.role = "dtor"   => g.dtors[s.name] = i

SymbolsInTables == \A i \in 1..Len(module) : InTable(i, global)

\* The symbols that a table has are of its kind and have the name they are under.
TablesFit ==
    \A n \in Names :
        /\ global.symtab[n] # None => LET s == module[global.symtab[n]]
                                      IN  /\ s.role \in {"func", "ext", "var"}
                                          /\ program[s.decl].name = n
        /\ global.ctors[n] # None => LET s == module[global.ctors[n]]
                                     IN  s.role = "ctor" /\ s.name = n
        /\ global.methods[n] # None => LET s == module[global.methods[n]]
                                       IN  s.role = "method" /\ s.name = n
        /\ global.dtors[n] # None => LET s == module[global.dtors[n]]
                                     IN  s.role = "dtor" /\ s.name = n

\* Declaration i is found under its name.
IsFound(i) == LET s == global.symtab[program[i].name]
              IN  s # None /\ module[s].decl = i

Registers ==
    \A i \in 1..Len(program) :
        LET d == program[i]
        IN  /\ d.k = "func" /\ Resolved(i) /\ i \notin flagged => IsFound(i)
            /\ d.k = "ext" /\ Resolved(i) /\ ~errors => IsFound(i)
            /\ d.k = "var" /\ WasEmitted(i) /\ ~errors => IsFound(i)
            /\ d.k = "class" /\ Resolved(i) =>
                   /\ global.dtors[d.name] # None
                   /\ d.members = "ctor" => global.ctors[d.name] # None
                   /\ d.members = "method" => global.methods[d.name] # None

BodiesCounted ==
    \A i \in 1..Len(module) :
        LET s == module[i]
        IN  s.bodies = IF s.role \in {"ext", "var"} THEN 0
                       ELSE IF WasEmitted(s.decl) THEN 1 ELSE 0

FlaggedReported == \A i \in flagged : errors /\ i \in 1..Len(program) /\ Resolved(i)

SymbolsInv ==
    /\ PassesInv /\ ProgramHandled /\ SymbolsFit /\ SymbolsInTables /\ TablesFit /\ Registers
    /\ BodiesCounted /\ FlaggedReported /\ ~crashed

-----------------------------------------------------------------------------
(* What a new symbol and a new body are *)

\* m2 is m and a symbol behind it, which is renamed only if another has its name.
Created(m, m2, role, name, public, bodies) ==
    LET s == m2[Len(m) + 1]
    IN  /\ m2 \in Seq(Shape) /\ Len(m2) = Len(m) + 1
        /\ \A i \in 1..Len(m) : m2[i] = m[i]
        /\ s.decl = at /\ s.role = role /\ s.name = name /\ s.public = public
        /\ s.bodies = bodies
        /\ s.renamed => \E i \in 1..Len(m) : /\ m[i].name = name
                                             /\ Suffix(m[i].role) = Suffix(role)

LEMMA CreateExact ==
    ASSUME Typed, NEW m \in Seq(Shape),
           NEW role \in {"func", "ext", "ctor", "method", "dtor", "var", "varctor", "vardtor"},
           NEW name \in Names \cup {IntType}, NEW public \in BOOLEAN,
           NEW type \in Names \cup {IntType}, NEW bodies \in Nat
    PROVE  Created(m, Create(m, role, name, public, type, bodies), role, name, public, bodies)
<1> DEFINE renamed == \E i \in DOMAIN m : /\ m[i].name = name /\ ~m[i].renamed
                                         /\ Suffix(m[i].role) = Suffix(role)
           s == [decl |-> at, role |-> role, name |-> name, public |-> public,
                 renamed |-> renamed, type |-> type, as |-> Convert(type), bodies |-> bodies]
<1>1. renamed \in BOOLEAN
    OBVIOUS
<1>2. DOMAIN m = 1..Len(m)
    OBVIOUS
<1>3. renamed => \E i \in 1..Len(m) : /\ m[i].name = name
                                      /\ Suffix(m[i].role) = Suffix(role)
    BY <1>2
<1> HIDE DEF renamed
<1>4. s \in Shape
    BY <1>1, ConvertType DEF Shape, Typed
<1>5. /\ s.decl = at /\ s.role = role /\ s.name = name /\ s.public = public
      /\ s.bodies = bodies /\ s.renamed = renamed
    OBVIOUS
<1>6. Create(m, role, name, public, type, bodies) = Append(m, s)
    BY DEF Create, renamed
<1> HIDE DEF s
<1>7. /\ Append(m, s) \in Seq(Shape) /\ Len(Append(m, s)) = Len(m) + 1
      /\ \A i \in 1..Len(m) : Append(m, s)[i] = m[i]
      /\ Append(m, s)[Len(m) + 1] = s
    BY <1>4
<1> QED
    BY <1>3, <1>5, <1>6, <1>7 DEF Created

LEMMA CreateType ==
    ASSUME NEW m \in Seq(Shape), NEW role, NEW name, NEW public, NEW type, NEW bodies
    PROVE  Create(m, role, name, public, type, bodies)[Len(m) + 1].type = type
<1> DEFINE s == [decl |-> at, role |-> role, name |-> name, public |-> public,
                 renamed |-> \E i \in DOMAIN m : /\ m[i].name = name /\ ~m[i].renamed
                                                /\ Suffix(m[i].role) = Suffix(role),
                 type |-> type, as |-> Convert(type), bodies |-> bodies]
<1>1. s.type = type
    OBVIOUS
<1>2. Create(m, role, name, public, type, bodies) = Append(m, s)
    BY DEF Create
<1> HIDE DEF s
<1>3. Append(m, s)[Len(m) + 1] = s
    OBVIOUS
<1> QED
    BY <1>1, <1>2, <1>3

LEMMA AddBodyExact ==
    ASSUME NEW m \in Seq(Shape), NEW i \in 1..Len(m)
    PROVE  LET m2 == AddBody(m, i)
           IN  /\ m2 \in Seq(Shape) /\ Len(m2) = Len(m)
               /\ \A j \in 1..Len(m) :
                      /\ m2[j].decl = m[j].decl /\ m2[j].role = m[j].role
                      /\ m2[j].name = m[j].name /\ m2[j].public = m[j].public
                      /\ m2[j].renamed = m[j].renamed
                      /\ m2[j].bodies = IF j = i THEN m[j].bodies + 1 ELSE m[j].bodies
<1>1. m[i] \in Shape
    OBVIOUS
<1> DEFINE s == [m[i] EXCEPT !.bodies = @ + 1]
<1>2. /\ s \in Shape /\ s.decl = m[i].decl /\ s.role = m[i].role /\ s.name = m[i].name
      /\ s.public = m[i].public /\ s.renamed = m[i].renamed /\ s.bodies = m[i].bodies + 1
    BY <1>1, OneMoreBody
<1>3. AddBody(m, i) = [m EXCEPT ![i] = s]
    BY DEF AddBody
<1> HIDE DEF s
<1>4. /\ AddBody(m, i) \in Seq(Shape) /\ Len(AddBody(m, i)) = Len(m)
      /\ \A j \in 1..Len(m) : AddBody(m, i)[j] = IF j = i THEN s ELSE m[j]
    BY <1>2, <1>3
<1> QED
    BY <1>2, <1>4
-----------------------------------------------------------------------------
(* A visit of FuncResolver or IREmitter, seen from the symbols *)

IsNew(i) == i \in Len(module) + 1..Len(module')

\* An entry stays, or is new and of the declaration that is visited.
EntriesStay(t, t2, roles) ==
    \A n \in Names : \/ t2[n] = t[n]
                     \/ /\ t[n] = None /\ n = Visited.name
                        /\ IsNew(t2[n]) /\ module'[t2[n]].role \in roles

SymbolsStay ==
    \A i \in 1..Len(module) :
        /\ module'[i].decl = module[i].decl /\ module'[i].role = module[i].role
        /\ module'[i].name = module[i].name /\ module'[i].public = module[i].public
        /\ module'[i].renamed = module[i].renamed

NewSymbolFits(i) ==
    LET s == module'[i]
    IN  /\ s.decl = at /\ Fits(s, Visited) /\ InTable(i, global)'
        /\ s.public => ~s.renamed
        /\ s.role = "func" => at \notin flagged'
        /\ s.role \in OfVariable <=> pass = "emit"
        /\ s.bodies = IF s.role \in {"varctor", "vardtor"} THEN 1 ELSE 0

\* A symbol that can have a body gets it in IREmitter's visit, from nobody else.
BodyGiven(i) ==
    LET s == module[i]
    IN  module'[i].bodies = IF pass = "emit" /\ s.decl = at /\ s.role \notin {"ext"} \cup OfVariable
                            THEN s.bodies + 1 ELSE s.bodies

NowFound(i) == LET s == global'.symtab[program[i].name]
               IN  s # None /\ module'[s].decl = i

VisitedRegisters ==
    /\ Visited.k = "func" /\ at \notin flagged' => NowFound(at)
    /\ Visited.k = "ext" /\ ~errors' => NowFound(at)
    /\ Visited.k = "var" /\ pass = "emit" /\ ~errors' => NowFound(at)
    /\ Visited.k = "class" =>
           /\ global'.dtors[Visited.name] # None
           /\ Visited.members = "ctor" => global'.ctors[Visited.name] # None
           /\ Visited.members = "method" => global'.methods[Visited.name] # None

VisitStep ==
    /\ Resolves
    /\ SymbolsStay /\ \A i \in Len(module) + 1..Len(module') : NewSymbolFits(i)
    /\ EntriesStay(global.symtab, global'.symtab, {"func", "ext", "var"})
    /\ EntriesStay(global.ctors, global'.ctors, {"ctor"})
    /\ EntriesStay(global.methods, global'.methods, {"method"})
    /\ EntriesStay(global.dtors, global'.dtors, {"dtor"})
    /\ VisitedRegisters
    /\ \A i \in 1..Len(module) : BodyGiven(i)
    /\ errors => errors'
    /\ flagged' = flagged \/ (flagged' = flagged \cup {at} /\ errors' /\ pass = "funcs")
    /\ ~crashed'

\* After the visit the pass has been at one declaration more.
NowResolved(i) == Resolved(i) \/ i = at
NowEmitted(i)  == WasEmitted(i) \/ (i = at /\ pass = "emit")

LEMMA VisitedThen ==
    ASSUME Typed, Resolves, NEW i \in 1..Len(program)
    PROVE  /\ Resolved(i)' <=> NowResolved(i)
           /\ WasEmitted(i)' <=> NowEmitted(i)
           /\ ~WasEmitted(at) /\ (pass = "funcs" => ~Resolved(at) /\ ~WasEmitted(i))
           /\ pass = "emit" => Resolved(i)
<1>1. /\ pass \in {"funcs", "emit"} /\ at \in 1..Len(program) /\ at' = at + 1
      /\ pass' = pass /\ pass \notin Early /\ Len(program) \in Nat
    BY DEF Resolves, Early, Typed
<1>2. (i < at + 1 <=> i < at \/ i = at) /\ ~(at < at)
    BY <1>1
<1> QED
    BY <1>1, <1>2 DEF Resolved, WasEmitted, NowResolved, NowEmitted, Early

\* What an old entry refers to stays what it was.
LEMMA EntryThere ==
    ASSUME Typed, Entered, NEW n \in Names
    PROVE  /\ global.symtab[n] # None => global.symtab[n] \in 1..Len(module)
           /\ global.ctors[n] # None => global.ctors[n] \in 1..Len(module)
           /\ global.methods[n] # None => global.methods[n] \in 1..Len(module)
           /\ global.dtors[n] # None => global.dtors[n] \in 1..Len(module)
<1>1. /\ global.symtab[n] \in Nat /\ global.ctors[n] \in Nat /\ Len(module) \in Nat
      /\ global.methods[n] \in Nat /\ global.dtors[n] \in Nat
    BY DEF Typed, Tables
<1>2. /\ global.symtab[n] <= Len(module) /\ global.ctors[n] <= Len(module)
      /\ global.methods[n] <= Len(module) /\ global.dtors[n] <= Len(module)
    BY DEF Entered
<1> QED
    BY <1>1, <1>2 DEF None

LEMMA NamesIn ==
    ASSUME Typed, NEW i \in 1..Len(program)
    PROVE  program[i] \in Decl /\ program[i].name \in Names
BY DeclsAssumption DEF Typed, Decl

\* An entry that stays refers to the same symbol of the larger module.
LEMMA EntryStays ==
    ASSUME NEW t, NEW t2, NEW roles, EntriesStay(t, t2, roles), NEW n \in Names,
           t[n] # None, t[n] \in 1..Len(module), Len(module) \in Nat
    PROVE  t2[n] = t[n]
BY DEF EntriesStay
\* Each visit keeps what the module has of the declarations before.
LEMMA VisitStepKeeps ==
    ASSUME SymbolsInv, VisitStep
    PROVE  SymbolsInv'
<1>1. Typed /\ Entered /\ Resolves /\ PassesInv /\ PassesInv'
    BY ResolvesKeeps DEF SymbolsInv, VisitStep, PassesInv
<1>2. /\ Len(module) \in Nat /\ Len(module') \in Nat /\ Len(module) <= Len(module')
      /\ at \in 1..Len(program) /\ Visited = program[at] /\ program' = program
      /\ pass' = pass /\ pass \in {"funcs", "emit"}
    BY <1>1 DEF Typed, Resolves, Grows, Visited
<1>3. \A i \in 1..Len(module') : i \in 1..Len(module) \/ i \in Len(module) + 1..Len(module')
    BY <1>2
<1>4. ProgramHandled'
    BY <1>2 DEF SymbolsInv, ProgramHandled, Apart, SymbolName
<1>0. /\ \A i \in 1..Len(program) : /\ Resolved(i)' <=> NowResolved(i)
                                    /\ WasEmitted(i)' <=> NowEmitted(i)
                                    /\ pass = "funcs" => ~Resolved(at) /\ ~WasEmitted(i)
      /\ ~WasEmitted(at)
    BY <1>1, <1>2, VisitedThen
<1>00. ASSUME NEW i \in 1..Len(program)
       PROVE  /\ NowResolved(i) <=> pass \notin Early /\ (pass = "funcs" => i < at')
              /\ NowEmitted(i) <=> /\ pass \notin Early \cup {"funcs"}
                                   /\ pass = "emit" => i < at'
    <2>1. pass \notin Early
        BY <1>2 DEF Early
    <2>2. (i < at' <=> i < at \/ i = at)
        BY <1>1, <1>2 DEF Resolves
    <2> QED
        BY <1>2, <2>1, <2>2 DEF NowResolved, NowEmitted, Resolved, WasEmitted
<1>5. ASSUME NEW i \in 1..Len(module)
      PROVE  /\ module'[i].decl = module[i].decl /\ module'[i].role = module[i].role
             /\ module'[i].name = module[i].name /\ module'[i].public = module[i].public
             /\ module'[i].renamed = module[i].renamed
             /\ module[i].decl \in 1..Len(program)
             /\ Fits(module[i], program[module[i].decl])
             /\ module[i].public => ~module[i].renamed
             /\ module[i].role = "func" => module[i].decl \notin flagged
             /\ module[i].role \in OfVariable => WasEmitted(module[i].decl)
             /\ module[i].role \notin OfVariable => Resolved(module[i].decl)
    BY DEF VisitStep, SymbolsStay, SymbolsInv, SymbolsFit
<1>6. ASSUME NEW i \in Len(module) + 1..Len(module')
      PROVE  NewSymbolFits(i)
    BY DEF VisitStep
<1>7. SymbolsFit'
    <2>1. ASSUME NEW i \in 1..Len(module')
          PROVE  /\ module'[i].public => ~module'[i].renamed
                 /\ \E d \in 1..Len(program) :
                        /\ d = module'[i].decl
                        /\ Fits(module'[i], program[d])
                        /\ module'[i].role = "func" => d \notin flagged'
                        /\ module'[i].role \in OfVariable => NowEmitted(d)
                        /\ module'[i].role \notin OfVariable => NowResolved(d)
        <3>1. CASE i \in 1..Len(module)
            <4>1. PICK d \in 1..Len(program) : d = module[i].decl
                BY <1>5, <3>1
            <4>2. /\ module'[i].role \in OfVariable => NowEmitted(d)
                  /\ module'[i].role \notin OfVariable => NowResolved(d)
                BY <1>5, <3>1, <4>1 DEF NowResolved, NowEmitted
            <4>3. Fits(module'[i], program[d])
                <5>1. Fits(module[i], program[d])
                    BY <1>5, <3>1, <4>1
                <5> QED
                    BY <1>5, <3>1, <5>1 DEF Fits
            <4>4. module[i].role = "func" => d \notin flagged'
                <5>1. CASE flagged' = flagged
                    BY <1>5, <3>1, <4>1, <5>1
                <5>2. CASE flagged' = flagged \cup {at} /\ pass = "funcs"
                    <6>1. module[i].role = "func" => d # at
                        BY <1>0, <1>5, <3>1, <4>1, <5>2 DEF OfVariable
                    <6> QED
                        BY <1>5, <3>1, <4>1, <5>2, <6>1
                <5> QED
                    BY <5>1, <5>2 DEF VisitStep
            <4>5. /\ module'[i].decl = d
                  /\ module'[i].public => ~module'[i].renamed
                  /\ module'[i].role = module[i].role
                BY <1>5, <3>1, <4>1
            <4> QED
                BY <4>1, <4>2, <4>3, <4>4, <4>5
        <3>2. CASE i \in Len(module) + 1..Len(module')
            <4>1. module'[i].decl = at /\ Fits(module'[i], program[at])
                BY <1>2, <1>6, <3>2 DEF NewSymbolFits
            <4>2. /\ module'[i].role \in OfVariable => NowEmitted(at)
                  /\ module'[i].role \notin OfVariable => NowResolved(at)
                BY <1>2, <1>6, <3>2 DEF NewSymbolFits, NowResolved, NowEmitted
            <4>3. /\ module'[i].public => ~module'[i].renamed
                  /\ module'[i].role = "func" => at \notin flagged'
                BY <1>6, <3>2 DEF NewSymbolFits
            <4> QED
                BY <1>2, <4>1, <4>2, <4>3
        <3> QED
            BY <1>3, <3>1, <3>2
    <2> QED
        BY <1>2, <1>00, <2>1 DEF SymbolsFit, Resolved, WasEmitted
<1>8. SymbolsInTables'
    <2>1. ASSUME NEW i \in 1..Len(module)
          PROVE  InTable(i, global)'
        <3>1. PICK d \in 1..Len(program) : d = module[i].decl
            BY <1>5
        <3>2. /\ module[i].role = "func" => module[i].name = program[d].name
              /\ module[i].role \in {"ctor", "method", "dtor"} => module[i].name = program[d].name
            BY <1>5, <3>1 DEF Fits, SymbolName
        <3>3. PICK n \in Names : n = program[d].name
            BY <1>1, NamesIn
        <3>4. InTable(i, global) /\ i # None
            BY <1>2 DEF SymbolsInv, SymbolsInTables, None
        <3>5. /\ module[i].role = "func" => global.symtab[n] = i
              /\ module[i].role = "ctor" => global.ctors[n] = i
              /\ module[i].role = "method" => global.methods[n] = i
              /\ module[i].role = "dtor" => global.dtors[n] = i
            BY <3>2, <3>3, <3>4 DEF InTable
        <3>6. /\ module[i].role = "func" => global'.symtab[n] = i
              /\ module[i].role = "ctor" => global'.ctors[n] = i
              /\ module[i].role = "method" => global'.methods[n] = i
              /\ module[i].role = "dtor" => global'.dtors[n] = i
            BY <3>4, <3>5 DEF VisitStep, EntriesStay
        <3> QED
            BY <1>5, <3>2, <3>3, <3>6 DEF InTable
    <2>2. ASSUME NEW i \in 1..Len(module')
          PROVE  InTable(i, global)'
        BY <1>3, <1>6, <2>1 DEF NewSymbolFits
    <2> QED
        BY <2>2 DEF SymbolsInTables
<1>9. TablesFit'
    <2>1. ASSUME NEW n \in Names
          PROVE  /\ global'.symtab[n] # None =>
                        /\ module'[global'.symtab[n]].role \in {"func", "ext", "var"}
                        /\ program[module'[global'.symtab[n]].decl].name = n
                 /\ global'.ctors[n] # None => /\ module'[global'.ctors[n]].role = "ctor"
                                               /\ module'[global'.ctors[n]].name = n
                 /\ global'.methods[n] # None => /\ module'[global'.methods[n]].role = "method"
                                                 /\ module'[global'.methods[n]].name = n
                 /\ global'.dtors[n] # None => /\ module'[global'.dtors[n]].role = "dtor"
                                               /\ module'[global'.dtors[n]].name = n
        <3>1. /\ global.symtab[n] # None => global.symtab[n] \in 1..Len(module)
              /\ global.ctors[n] # None => global.ctors[n] \in 1..Len(module)
              /\ global.methods[n] # None => global.methods[n] \in 1..Len(module)
              /\ global.dtors[n] # None => global.dtors[n] \in 1..Len(module)
            BY <1>1, EntryThere
        <3>2. /\ global.symtab[n] # None =>
                        /\ module[global.symtab[n]].role \in {"func", "ext", "var"}
                        /\ program[module[global.symtab[n]].decl].name = n
              /\ global.ctors[n] # None => /\ module[global.ctors[n]].role = "ctor"
                                           /\ module[global.ctors[n]].name = n
              /\ global.methods[n] # None => /\ module[global.methods[n]].role = "method"
                                             /\ module[global.methods[n]].name = n
              /\ global.dtors[n] # None => /\ module[global.dtors[n]].role = "dtor"
                                           /\ module[global.dtors[n]].name = n
            BY DEF SymbolsInv, TablesFit
        <3>3. ASSUME NEW j, IsNew(j), n = Visited.name
              PROVE  /\ program[module'[j].decl].name = n
                     /\ module'[j].role \in {"ctor", "method", "dtor"} => module'[j].name = n
            BY <1>2, <1>6, <3>3 DEF IsNew, NewSymbolFits, Fits
        <3>4. global'.symtab[n] # None =>
                        /\ module'[global'.symtab[n]].role \in {"func", "ext", "var"}
                        /\ program[module'[global'.symtab[n]].decl].name = n
            BY <1>5, <3>1, <3>2, <3>3 DEF VisitStep, EntriesStay
        <3>5. global'.ctors[n] # None => /\ module'[global'.ctors[n]].role = "ctor"
                                         /\ module'[global'.ctors[n]].name = n
            BY <1>5, <3>1, <3>2, <3>3 DEF VisitStep, EntriesStay
        <3>6. global'.methods[n] # None => /\ module'[global'.methods[n]].role = "method"
                                           /\ module'[global'.methods[n]].name = n
            BY <1>5, <3>1, <3>2, <3>3 DEF VisitStep, EntriesStay
        <3>7. global'.dtors[n] # None => /\ module'[global'.dtors[n]].role = "dtor"
                                         /\ module'[global'.dtors[n]].name = n
            BY <1>5, <3>1, <3>2, <3>3 DEF VisitStep, EntriesStay
        <3> QED
            BY <3>4, <3>5, <3>6, <3>7
    <2> QED
        BY <1>2, <2>1 DEF TablesFit
<1>10. Registers'
    <2>1. ASSUME NEW i \in 1..Len(program), IsFound(i)
          PROVE  NowFound(i)
        <3>1. PICK n \in Names : n = program[i].name
            BY <1>1, NamesIn
        <3>2. global.symtab[n] # None /\ module[global.symtab[n]].decl = i
            BY <2>1, <3>1 DEF IsFound
        <3>3. global.symtab[n] \in 1..Len(module)
            BY <1>1, <3>2, EntryThere
        <3>4. global'.symtab[n] = global.symtab[n]
            BY <3>2 DEF VisitStep, EntriesStay
        <3>5. module'[global.symtab[n]].decl = i
            BY <1>5, <3>2, <3>3
        <3> QED
            BY <1>2, <3>1, <3>2, <3>4, <3>5 DEF NowFound
    <2>2. ASSUME NEW i \in 1..Len(program)
          PROVE  /\ program[i].k = "func" /\ NowResolved(i) /\ i \notin flagged' => NowFound(i)
                 /\ program[i].k = "ext" /\ NowResolved(i) /\ ~errors' => NowFound(i)
                 /\ program[i].k = "var" /\ NowEmitted(i) /\ ~errors' => NowFound(i)
                 /\ program[i].k = "class" /\ NowResolved(i) =>
                       /\ global'.dtors[program[i].name] # None
                       /\ program[i].members = "ctor" => global'.ctors[program[i].name] # None
                       /\ program[i].members = "method" =>
                              global'.methods[program[i].name] # None
        <3>1. CASE i # at
            <4>1. (NowResolved(i) <=> Resolved(i)) /\ (NowEmitted(i) <=> WasEmitted(i))
                BY <3>1 DEF NowResolved, NowEmitted
            <4>2. /\ program[i].k = "func" /\ Resolved(i) /\ i \notin flagged => IsFound(i)
                  /\ program[i].k = "ext" /\ Resolved(i) /\ ~errors => IsFound(i)
                  /\ program[i].k = "var" /\ WasEmitted(i) /\ ~errors => IsFound(i)
                  /\ program[i].k = "class" /\ Resolved(i) =>
                       /\ global.dtors[program[i].name] # None
                       /\ program[i].members = "ctor" => global.ctors[program[i].name] # None
                       /\ program[i].members = "method" =>
                              global.methods[program[i].name] # None
                BY DEF SymbolsInv, Registers
            <4>3. (errors => errors') /\ (i \in flagged => i \in flagged')
                BY DEF VisitStep
            <4>4. PICK n \in Names : n = program[i].name
                BY <1>1, NamesIn
            <4>5. /\ global.dtors[n] # None => global'.dtors[n] # None
                  /\ global.ctors[n] # None => global'.ctors[n] # None
                  /\ global.methods[n] # None => global'.methods[n] # None
                BY DEF VisitStep, EntriesStay
            <4> QED
                BY <2>1, <4>1, <4>2, <4>3, <4>4, <4>5
        <3>2. CASE i = at
            <4>1. NowEmitted(at) => pass = "emit"
                BY <1>0 DEF NowEmitted
            <4>2. VisitedRegisters
                BY DEF VisitStep
            <4> QED
                BY <1>2, <3>2, <4>1, <4>2 DEF VisitedRegisters
        <3> QED
            BY <3>1, <3>2
    <2> QED
        BY <1>0, <1>2, <2>2 DEF Registers, IsFound, NowFound
<1>11. BodiesCounted'
    <2>1. ASSUME NEW i \in 1..Len(module')
          PROVE  \E d \in 1..Len(program) :
                    /\ d = module'[i].decl
                    /\ module'[i].bodies = IF module'[i].role \in {"ext", "var"} THEN 0
                                           ELSE IF NowEmitted(d) THEN 1 ELSE 0
        <3>1. CASE i \in 1..Len(module)
            <4>1. PICK d \in 1..Len(program) : d = module[i].decl
                BY <1>5, <3>1
            <4>2. module[i].bodies = IF module[i].role \in {"ext", "var"} THEN 0
                                     ELSE IF WasEmitted(d) THEN 1 ELSE 0
                BY <3>1, <4>1 DEF SymbolsInv, BodiesCounted
            <4>3. BodyGiven(i)
                BY <3>1 DEF VisitStep
            <4>4. NowEmitted(d) <=> WasEmitted(d) \/ (d = at /\ pass = "emit")
                BY DEF NowEmitted
            <4>5. ~WasEmitted(at)
                BY <1>0
            <4>6. module[i].role \in OfVariable => WasEmitted(d)
                BY <1>5, <3>1, <4>1
            <4>7. module'[i].decl = d /\ module'[i].role = module[i].role
                BY <1>5, <3>1, <4>1
            <4>8. module'[i].bodies = IF pass = "emit" /\ d = at
                                         /\ module[i].role \notin {"ext"} \cup OfVariable
                                      THEN module[i].bodies + 1 ELSE module[i].bodies
                BY <4>1, <4>3 DEF BodyGiven
            <4>9. CASE d = at /\ pass = "emit"
                <5>1. module[i].role \notin OfVariable
                    BY <4>5, <4>6, <4>9
                <5> QED
                    BY <4>2, <4>4, <4>5, <4>7, <4>8, <4>9, <5>1 DEF OfVariable
            <4>10. CASE ~(d = at /\ pass = "emit")
                BY <4>1, <4>2, <4>4, <4>7, <4>8, <4>10
            <4> QED
                BY <4>9, <4>10
        <3>2. CASE i \in Len(module) + 1..Len(module')
            <4>1. NewSymbolFits(i)
                BY <1>6, <3>2
            <4>2. /\ module'[i].decl = at /\ Fits(module'[i], Visited)
                  /\ module'[i].role \in OfVariable <=> pass = "emit"
                  /\ module'[i].bodies = IF module'[i].role \in {"varctor", "vardtor"}
                                         THEN 1 ELSE 0
                BY <4>1 DEF NewSymbolFits
            <4>3. NowEmitted(at) <=> pass = "emit"
                BY <1>0 DEF NowEmitted
            <4> QED
                BY <1>2, <4>2, <4>3 DEF OfVariable
        <3> QED
            BY <1>3, <3>1, <3>2
    <2> QED
        BY <1>00, <1>2, <2>1 DEF BodiesCounted, WasEmitted
<1>12. FlaggedReported'
    <2>1. ASSUME NEW i \in flagged'
          PROVE  errors' /\ i \in 1..Len(program) /\ NowResolved(i)
        <3>1. CASE i \in flagged
            <4>1. errors /\ i \in 1..Len(program) /\ Resolved(i)
                BY <3>1 DEF SymbolsInv, FlaggedReported
            <4> QED
                BY <4>1 DEF VisitStep, NowResolved
        <3>2. CASE i \notin flagged
            BY <1>2, <2>1, <3>2 DEF VisitStep, NowResolved
        <3> QED
            BY <3>1, <3>2
    <2> QED
        BY <1>00, <1>2, <2>1 DEF FlaggedReported, Resolved
<1> QED
    BY <1>1, <1>4, <1>7, <1>8, <1>9, <1>10, <1>11, <1>12 DEF SymbolsInv, VisitStep
-----------------------------------------------------------------------------
(* The visits, one by one *)

\* A visit that creates no symbol.
LEMMA NothingNew ==
    ASSUME SymbolsInv, Resolves, global' = global, Len(module') = Len(module), SymbolsStay,
           VisitedRegisters, \A i \in 1..Len(module) : BodyGiven(i),
           errors => errors', ~crashed',
           flagged' = flagged \/ (flagged' = flagged \cup {at} /\ errors' /\ pass = "funcs")
    PROVE  VisitStep
<1>1. Len(module) \in Nat
    BY DEF SymbolsInv, PassesInv, Typed
<1>2. Len(module) + 1..Len(module') = {}
    BY <1>1
<1>3. /\ EntriesStay(global.symtab, global'.symtab, {"func", "ext", "var"})
      /\ EntriesStay(global.ctors, global'.ctors, {"ctor"})
      /\ EntriesStay(global.methods, global'.methods, {"method"})
      /\ EntriesStay(global.dtors, global'.dtors, {"dtor"})
    BY DEF EntriesStay
<1> QED
    BY <1>2, <1>3 DEF VisitStep

\* A visit that does not touch the module.
LEMMA NothingDone ==
    ASSUME SymbolsInv, Resolves, global' = global, module' = module, VisitedRegisters,
           pass = "emit" => \A i \in 1..Len(module) :
                                module[i].decl = at => module[i].role \in {"ext"} \cup OfVariable,
           errors => errors', ~crashed',
           flagged' = flagged \/ (flagged' = flagged \cup {at} /\ errors' /\ pass = "funcs")
    PROVE  VisitStep
<1>1. SymbolsStay
    BY DEF SymbolsStay
<1>2. \A i \in 1..Len(module) : BodyGiven(i)
    BY DEF BodyGiven
<1> QED
    BY <1>1, <1>2, NothingNew

\* What a symbol of the visited declaration can be.
LEMMA OfVisited ==
    ASSUME SymbolsInv, NEW i \in 1..Len(module), module[i].decl = at
    PROVE  /\ Fits(module[i], Visited)
           /\ module[i].role = "func" => at \notin flagged
BY DEF SymbolsInv, SymbolsFit, Visited

LEMMA PassOverVisits ==
    ASSUME SymbolsInv, PassOver
    PROVE  VisitStep
<1>1. Resolves
    BY PassOverResolves DEF SymbolsInv, PassesInv
<1>2. /\ pass = "funcs" /\ Visited.k = "var" /\ global' = global /\ module' = module
      /\ flagged' = flagged /\ (errors => errors') /\ ~crashed'
    BY DEF PassOver, Visit, SymbolsInv
<1>3. VisitedRegisters
    BY <1>2 DEF VisitedRegisters
<1> QED
    BY <1>1, <1>2, <1>3, NothingDone

\* What was registered under the visited name is.
LEMMA StillRegistered ==
    ASSUME SymbolsInv, pass = "emit", at \in 1..Len(program)
    PROVE  /\ Visited.k = "func" /\ at \notin flagged => IsFound(at)
           /\ Visited.k = "ext" /\ ~errors => IsFound(at)
           /\ Visited.k = "class" =>
                 /\ global.dtors[Visited.name] # None
                 /\ Visited.members = "ctor" => global.ctors[Visited.name] # None
                 /\ Visited.members = "method" => global.methods[Visited.name] # None
<1>1. Resolved(at)
    BY DEF Resolved, Early
<1> QED
    BY <1>1 DEF SymbolsInv, Registers, Visited

LEMMA FoundNow ==
    ASSUME SymbolsInv, Resolves, SymbolsStay, global' = global, IsFound(at)
    PROVE  NowFound(at)
<1>1. PICK n \in Names : n = program[at].name
    BY NamesIn DEF SymbolsInv, PassesInv, Resolves
<1>2. global.symtab[n] # None /\ module[global.symtab[n]].decl = at
    BY <1>1 DEF IsFound
<1>3. global.symtab[n] \in 1..Len(module)
    BY <1>2, EntryThere DEF SymbolsInv, PassesInv
<1> QED
    BY <1>1, <1>2, <1>3 DEF NowFound, SymbolsStay

LEMMA EmitExtFuncVisits ==
    ASSUME SymbolsInv, EmitExtFunc
    PROVE  VisitStep
<1>1. Resolves
    BY EmitExtFuncResolves DEF SymbolsInv, PassesInv
<1>2. /\ pass = "emit" /\ Visited.k = "ext" /\ global' = global /\ module' = module
      /\ flagged' = flagged /\ (errors => errors') /\ ~crashed'
    BY DEF EmitExtFunc, Visit, SymbolsInv
<1>3. VisitedRegisters
    <2>1. SymbolsStay
        BY <1>2 DEF SymbolsStay
    <2>2. ~errors => IsFound(at)
        BY <1>1, <1>2, StillRegistered DEF Resolves
    <2> QED
        BY <1>1, <1>2, <2>1, <2>2, FoundNow DEF VisitedRegisters
<1>4. \A i \in 1..Len(module) : module[i].decl = at => module[i].role \in {"ext"} \cup OfVariable
    <2>1. ASSUME NEW i \in 1..Len(module), module[i].decl = at
          PROVE  module[i].role \in {"ext"} \cup OfVariable
        <3>1. Fits(module[i], Visited) /\ module[i] \in Shape
            BY <2>1, OfVisited DEF SymbolsInv, PassesInv, Typed
        <3> QED
            BY <1>2, <3>1 DEF Fits, Shape, OfVariable
    <2> QED
        BY <2>1
<1> QED
    BY <1>1, <1>2, <1>3, <1>4, NothingDone

LEMMA EmitFunctionVisits ==
    ASSUME SymbolsInv, EmitFunction
    PROVE  VisitStep
<1>1. Resolves
    BY EmitFunctionResolves DEF SymbolsInv, PassesInv
<1>2. /\ pass = "emit" /\ Visited.k = "func" /\ global' = global
      /\ flagged' = flagged /\ ~crashed' /\ at \in 1..Len(program)
      /\ Visited = program[at]
    BY <1>1 DEF EmitFunction, Visit, Resolves, Visited, SymbolsInv
<1>3. errors => errors'
    BY DEF EmitFunction
<1>4. ~crashed /\ Typed /\ Entered
    BY DEF SymbolsInv, PassesInv
<1>5. ASSUME NEW i \in 1..Len(module), module[i].decl = at
      PROVE  /\ module[i].role = "func" /\ module[i].name = Visited.name
             /\ at \notin flagged
    <2>1. Fits(module[i], Visited) /\ module[i] \in Shape
        BY <1>4, <1>5, OfVisited DEF Typed
    <2>2. module[i].role = "func" /\ module[i].name = Visited.name
        <3>1. module[i].role = "func"
            BY <1>2, <2>1 DEF Fits, Shape
        <3> QED
            BY <1>2, <2>1, <3>1 DEF Fits, SymbolName
    <2> QED
        BY <1>5, <2>2, OfVisited
<1>6. CASE at \in flagged
    <2>1. module' = module /\ \A i \in 1..Len(module) : module[i].decl # at
        BY <1>5, <1>6 DEF EmitFunction
    <2>2. VisitedRegisters
        BY <1>2, <1>6 DEF VisitedRegisters
    <2> QED
        BY <1>1, <1>2, <1>3, <1>4, <2>1, <2>2, NothingDone
<1>7. CASE at \notin flagged
    <2>1. PICK n \in Names : n = Visited.name
        BY <1>2, <1>4, NamesIn
    <2>2. PICK k : k = global.symtab[n]
        OBVIOUS
    <2>3. IsFound(at) /\ k # None /\ module[k].decl = at
        BY <1>2, <1>7, <2>1, <2>2, StillRegistered DEF IsFound
    <2>4. k \in 1..Len(module) /\ module \in Seq(Shape)
        BY <1>4, <2>2, <2>3, EntryThere DEF Typed
    <2>5. module' = AddBody(module, k)
        BY <1>7, <2>1, <2>2 DEF EmitFunction
    <2>6. /\ Len(module') = Len(module)
          /\ \A j \in 1..Len(module) :
                 /\ module'[j].decl = module[j].decl /\ module'[j].role = module[j].role
                 /\ module'[j].name = module[j].name /\ module'[j].public = module[j].public
                 /\ module'[j].renamed = module[j].renamed
                 /\ module'[j].bodies = IF j = k THEN module[j].bodies + 1 ELSE module[j].bodies
        BY <2>4, <2>5, AddBodyExact
    <2>7. SymbolsStay
        BY <2>6 DEF SymbolsStay
    <2>8. ASSUME NEW j \in 1..Len(module)
          PROVE  BodyGiven(j)
        <3>1. j = k <=> module[j].decl = at
            <4>1. ASSUME module[j].decl = at
                  PROVE  j = k
                <5>1. module[j].role = "func" /\ module[j].name = n
                    BY <1>5, <2>1, <4>1
                <5>2. InTable(j, global)
                    BY DEF SymbolsInv, SymbolsInTables
                <5> QED
                    BY <2>2, <5>1, <5>2 DEF InTable
            <4> QED
                BY <2>3, <4>1
        <3>2. j = k => module[j].role = "func"
            BY <1>5, <3>1
        <3> QED
            BY <1>2, <2>6, <3>1, <3>2 DEF BodyGiven, OfVariable
    <2>9. VisitedRegisters
        BY <1>1, <1>2, <2>3, <2>7, FoundNow DEF VisitedRegisters
    <2> QED
        BY <1>1, <1>2, <1>3, <1>4, <2>6, <2>7, <2>8, <2>9, NothingNew
<1> QED
    BY <1>6, <1>7
\* A symbol with the name of a class and a role of its members is the class's.
LEMMA ClassSymbol ==
    ASSUME SymbolsInv, at \in 1..Len(program), Visited.k = "class", NEW k \in 1..Len(module),
           module[k].role \in {"ctor", "method", "dtor"}, module[k].name = Visited.name
    PROVE  module[k].decl = at
<1>1. PICK d \in 1..Len(program) : d = module[k].decl /\ Fits(module[k], program[d])
    BY DEF SymbolsInv, SymbolsFit
<1>2. program[d].k = "class" /\ program[d].name = Visited.name
    BY <1>1 DEF Fits
<1> QED
    BY <1>1, <1>2 DEF SymbolsInv, PassesInv, OneClass, Visited

LEMMA EmitClassVisits ==
    ASSUME SymbolsInv, EmitClass
    PROVE  VisitStep
<1>1. Resolves
    BY EmitClassResolves DEF SymbolsInv, PassesInv
<1>2. /\ pass = "emit" /\ Visited.k = "class" /\ global' = global
      /\ flagged' = flagged /\ ~crashed' /\ at \in 1..Len(program)
      /\ Visited = program[at] /\ Visited.members \in {"none", "ctor", "method"}
    <2>1. Visited.members \in {"none", "ctor", "method", "methods"}
        BY <1>1, NamesIn DEF SymbolsInv, PassesInv, Resolves, Visited, Decl
    <2> QED
        BY <1>1, <2>1 DEF EmitClass, Visit, Resolves, Visited, SymbolsInv, ProgramHandled
<1>3. errors => errors'
    BY DEF EmitClass
<1>4. ~crashed /\ Typed /\ Entered /\ module \in Seq(Shape)
    BY DEF SymbolsInv, PassesInv, Typed
<1>5. PICK n \in Names : n = Visited.name
    BY <1>2, <1>4, NamesIn
<1>6. PICK c, m, d : c = global.ctors[n] /\ m = global.methods[n] /\ d = global.dtors[n]
    OBVIOUS
<1>7. /\ d # None /\ (Visited.members = "ctor" => c # None)
      /\ Visited.members = "method" => m # None
    BY <1>2, <1>5, <1>6, StillRegistered
<1>8. /\ d \in 1..Len(module) /\ module[d].role = "dtor" /\ module[d].decl = at
      /\ Visited.members = "ctor" =>
            c \in 1..Len(module) /\ module[c].role = "ctor" /\ module[c].decl = at
      /\ Visited.members = "method" =>
            m \in 1..Len(module) /\ module[m].role = "method" /\ module[m].decl = at
    <2>1. /\ d \in 1..Len(module)
          /\ Visited.members = "ctor" => c \in 1..Len(module)
          /\ Visited.members = "method" => m \in 1..Len(module)
        BY <1>4, <1>6, <1>7, EntryThere
    <2>2. /\ module[d].role = "dtor" /\ module[d].name = n
          /\ Visited.members = "ctor" => module[c].role = "ctor" /\ module[c].name = n
          /\ Visited.members = "method" => module[m].role = "method" /\ module[m].name = n
        BY <1>6, <1>7 DEF SymbolsInv, TablesFit
    <2> QED
        BY <1>2, <1>5, <2>1, <2>2, ClassSymbol
<1>9. ASSUME NEW j \in 1..Len(module), module[j].decl = at
      PROVE  /\ module[j].role \in {"ctor", "method", "dtor"}
             /\ module[j].role = "dtor" => j = d
             /\ module[j].role = "ctor" => j = c /\ Visited.members = "ctor"
             /\ module[j].role = "method" => j = m /\ Visited.members = "method"
    <2>1. Fits(module[j], Visited) /\ module[j] \in Shape
        BY <1>4, <1>9, OfVisited
    <2>2. module[j].role \in {"ctor", "method", "dtor"}
        BY <1>2, <2>1 DEF Fits, Shape
    <2>3. /\ module[j].name = n
          /\ module[j].role \in {"ctor", "method"} => Visited.members = module[j].role
        BY <1>5, <2>1, <2>2 DEF Fits
    <2>4. InTable(j, global)
        BY DEF SymbolsInv, SymbolsInTables
    <2> QED
        BY <1>6, <2>2, <2>3, <2>4 DEF InTable
<1>10. \/ Visited.members = "none" /\ module' = AddBody(module, d)
       \/ Visited.members = "ctor" /\ module' = AddBody(AddBody(module, c), d)
       \/ Visited.members = "method" /\ module' = AddBody(AddBody(module, m), d)
    BY <1>2, <1>5, <1>6 DEF EmitClass
<1>11. PICK given \in SUBSET (1..Len(module)) :
          /\ Len(module') = Len(module)
          /\ \A j \in 1..Len(module) :
                 /\ module'[j].decl = module[j].decl /\ module'[j].role = module[j].role
                 /\ module'[j].name = module[j].name /\ module'[j].public = module[j].public
                 /\ module'[j].renamed = module[j].renamed
                 /\ module'[j].bodies = IF j \in given THEN module[j].bodies + 1
                                        ELSE module[j].bodies
          /\ \A j \in 1..Len(module) : j \in given <=> module[j].decl = at
    <2>1. CASE Visited.members = "none"
        <3>1. /\ Len(module') = Len(module)
              /\ \A j \in 1..Len(module) :
                    /\ module'[j].decl = module[j].decl /\ module'[j].role = module[j].role
                    /\ module'[j].name = module[j].name /\ module'[j].public = module[j].public
                    /\ module'[j].renamed = module[j].renamed
                    /\ module'[j].bodies = IF j \in {d} THEN module[j].bodies + 1
                                           ELSE module[j].bodies
            BY <1>4, <1>8, <1>10, <2>1, AddBodyExact
        <3>2. \A j \in 1..Len(module) : j \in {d} <=> module[j].decl = at
            BY <1>8, <1>9, <2>1
        <3> QED
            BY <1>8, <3>1, <3>2
    <2>2. ASSUME NEW k \in 1..Len(module), module[k].role \in {"ctor", "method"},
                 module[k].decl = at,
                 \A j \in 1..Len(module) :
                    module[j].decl = at /\ module[j].role \in {"ctor", "method"} => j = k,
                 module' = AddBody(AddBody(module, k), d)
          PROVE  \E given \in SUBSET (1..Len(module)) :
                    /\ Len(module') = Len(module)
                    /\ \A j \in 1..Len(module) :
                         /\ module'[j].decl = module[j].decl /\ module'[j].role = module[j].role
                         /\ module'[j].name = module[j].name
                         /\ module'[j].public = module[j].public
                         /\ module'[j].renamed = module[j].renamed
                         /\ module'[j].bodies = IF j \in given THEN module[j].bodies + 1
                                                ELSE module[j].bodies
                    /\ \A j \in 1..Len(module) : j \in given <=> module[j].decl = at
        <3>1. k # d /\ d \in 1..Len(module) /\ k \in 1..Len(module)
            BY <1>8, <2>2
        <3>2. PICK m1 : m1 = AddBody(module, k)
            OBVIOUS
        <3>3. /\ m1 \in Seq(Shape) /\ Len(m1) = Len(module)
              /\ \A j \in 1..Len(module) :
                    /\ m1[j].decl = module[j].decl /\ m1[j].role = module[j].role
                    /\ m1[j].name = module[j].name /\ m1[j].public = module[j].public
                    /\ m1[j].renamed = module[j].renamed
                    /\ m1[j].bodies = IF j = k THEN module[j].bodies + 1 ELSE module[j].bodies
            BY <1>4, <3>1, <3>2, AddBodyExact
        <3>4. /\ Len(module') = Len(m1)
              /\ \A j \in 1..Len(m1) :
                    /\ module'[j].decl = m1[j].decl /\ module'[j].role = m1[j].role
                    /\ module'[j].name = m1[j].name /\ module'[j].public = m1[j].public
                    /\ module'[j].renamed = m1[j].renamed
                    /\ module'[j].bodies = IF j = d THEN m1[j].bodies + 1 ELSE m1[j].bodies
            <4>1. module' = AddBody(m1, d) /\ d \in 1..Len(m1)
                BY <2>2, <3>1, <3>2, <3>3
            <4> QED
                BY <3>3, <4>1, AddBodyExact
        <3>5. /\ Len(module') = Len(module)
              /\ \A j \in 1..Len(module) :
                    /\ module'[j].decl = module[j].decl /\ module'[j].role = module[j].role
                    /\ module'[j].name = module[j].name /\ module'[j].public = module[j].public
                    /\ module'[j].renamed = module[j].renamed
                    /\ module'[j].bodies = IF j \in {k, d} THEN module[j].bodies + 1
                                           ELSE module[j].bodies
            BY <3>1, <3>3, <3>4
        <3>6. \A j \in 1..Len(module) : j \in {k, d} <=> module[j].decl = at
            BY <1>8, <1>9, <2>2
        <3> QED
            BY <1>8, <3>5, <3>6
    <2>3. CASE Visited.members = "ctor"
        <3>1. /\ c \in 1..Len(module) /\ module[c].role \in {"ctor", "method"}
              /\ module[c].decl = at /\ module' = AddBody(AddBody(module, c), d)
            BY <1>8, <1>10, <2>3
        <3>2. \A j \in 1..Len(module) :
                 module[j].decl = at /\ module[j].role \in {"ctor", "method"} => j = c
            BY <1>9, <2>3
        <3> QED
            BY <2>2, <3>1, <3>2
    <2>4. CASE Visited.members = "method"
        <3>1. /\ m \in 1..Len(module) /\ module[m].role \in {"ctor", "method"}
              /\ module[m].decl = at /\ module' = AddBody(AddBody(module, m), d)
            BY <1>8, <1>10, <2>4
        <3>2. \A j \in 1..Len(module) :
                 module[j].decl = at /\ module[j].role \in {"ctor", "method"} => j = m
            BY <1>9, <2>4
        <3> QED
            BY <2>2, <3>1, <3>2
    <2> QED
        BY <1>2, <2>1, <2>3, <2>4
<1>12. SymbolsStay
    BY <1>11 DEF SymbolsStay
<1>13. \A j \in 1..Len(module) : BodyGiven(j)
    BY <1>2, <1>9, <1>11 DEF BodyGiven, OfVariable
<1>14. VisitedRegisters
    BY <1>2, <1>5, <1>6, <1>7 DEF VisitedRegisters
<1> QED
    BY <1>1, <1>2, <1>3, <1>11, <1>12, <1>13, <1>14, NothingNew
LEMMA SymtabEntry ==
    ASSUME global \in Tables, NEW n \in Names, NEW i, global.symtab[n] = None,
           global' = [global EXCEPT !.symtab = Emplace(@, n, i)]
    PROVE  /\ global'.symtab[n] = i
           /\ \A k \in Names : k # n => global'.symtab[k] = global.symtab[k]
           /\ global'.ctors = global.ctors /\ global'.methods = global.methods
           /\ global'.dtors = global.dtors
BY DEF Tables, Emplace

\* A function, an external function or a variable has no name of another's, unless
\* both are functions.
LEMMA NameFree ==
    ASSUME SymbolsInv, at \in 1..Len(program), Visited.k \in {"func", "ext", "var"},
           NEW i \in 1..Len(module), module[i].role \in {"func", "ext", "var"},
           module[i].decl # at, module[i].role # "func" \/ Visited.k # "func"
    PROVE  /\ module[i].name # SymbolName(Visited)
           /\ module[i].decl \in 1..Len(program)
           /\ "var" \in {module[i].role, Visited.k} =>
                  program[module[i].decl].name # Visited.name
<1>1. PICK d \in 1..Len(program) : d = module[i].decl /\ Fits(module[i], program[d])
    BY DEF SymbolsInv, SymbolsFit
<1>2. program[d].k = module[i].role /\ module[i].name = SymbolName(program[d])
    BY <1>1 DEF Fits
<1>3. Apart(program[d], Visited)
    BY <1>1 DEF SymbolsInv, ProgramHandled, Visited
<1>4. /\ "ext" \in {program[d].k, Visited.k} => SymbolName(program[d]) # SymbolName(Visited)
      /\ "var" \in {program[d].k, Visited.k} => program[d].name # Visited.name
    BY <1>2, <1>3 DEF Apart
<1>5. CASE "ext" \in {program[d].k, Visited.k}
    BY <1>1, <1>2, <1>4, <1>5
<1>6. CASE "ext" \notin {program[d].k, Visited.k}
    <2>1. "var" \in {program[d].k, Visited.k}
        BY <1>2, <1>6
    <2>2. SymbolName(program[d]) = program[d].name /\ SymbolName(Visited) = Visited.name
        BY <1>6 DEF SymbolName
    <2> QED
        BY <1>1, <1>2, <1>4, <2>1, <2>2
<1> QED
    BY <1>5, <1>6

\* FuncResolver finds no symbol of a variable, none of the declaration it visits.
LEMMA BeforeVisit ==
    ASSUME SymbolsInv, pass = "funcs", at \in 1..Len(program), NEW i \in 1..Len(module)
    PROVE  module[i].decl # at /\ module[i].role \notin OfVariable
<1>1. PICK d \in 1..Len(program) :
          /\ d = module[i].decl
          /\ module[i].role \in OfVariable => WasEmitted(d)
          /\ module[i].role \notin OfVariable => Resolved(d)
    BY DEF SymbolsInv, SymbolsFit
<1>2. module[i].role \notin OfVariable
    BY <1>1 DEF WasEmitted
<1>3. d < at
    BY <1>1, <1>2 DEF Resolved
<1> QED
    BY <1>1, <1>2, <1>3

LEMMA ResolveFunctionVisits ==
    ASSUME SymbolsInv, ResolveFunction
    PROVE  VisitStep
<1>1. Resolves
    BY ResolveFunctionResolves DEF SymbolsInv, PassesInv
<1>2. /\ pass = "funcs" /\ Visited.k \in {"func", "ext"} /\ ~crashed'
      /\ at \in 1..Len(program) /\ Visited = program[at]
    BY <1>1 DEF ResolveFunction, Visit, Resolves, Visited, SymbolsInv
<1>3. /\ Typed /\ Entered /\ module \in Seq(Shape) /\ global \in Tables /\ Len(module) \in Nat
    BY DEF SymbolsInv, PassesInv, Typed
<1>4. CASE VerifyFuncName(Visited.name)
    <2>1. /\ module' = module /\ global' = global /\ errors'
          /\ flagged' = flagged \/ flagged' = flagged \cup {at}
          /\ Visited.k = "func" => at \in flagged'
        BY <1>4 DEF ResolveFunction
    <2>2. VisitedRegisters
        BY <1>2, <2>1 DEF VisitedRegisters
    <2> QED
        BY <1>1, <1>2, <2>1, <2>2, NothingDone
<1>5. CASE ~VerifyFuncName(Visited.name)
    <2>1. PICK n \in Names : n = Visited.name
        BY <1>2, <1>3, NamesIn
    <2>2. PICK r \in Names \cup {IntType} : r = Visited.ref
        BY <1>2, <1>3, NamesIn DEF Decl
    <2>3. PICK pub \in BOOLEAN : pub = IsPublic(Visited.access)
        BY DEF IsPublic
    <2>4. global.symtab[n] = None
        BY <1>5, <2>1 DEF VerifyFuncName
    <2>5. PICK l : l = Len(module) + 1
        OBVIOUS
    <2>6. /\ global' = [global EXCEPT !.symtab = Emplace(@, n, l)]
          /\ errors' = errors /\ flagged' = flagged
          /\ Visited.k = "func" => module' = Create(module, "func", n, pub, r, 0)
          /\ Visited.k = "ext" => module' = Create(module, "ext", r, pub, IntType, 0)
        BY <1>2, <1>5, <2>1, <2>2, <2>3, <2>5 DEF ResolveFunction
    <2>7. PICK name \in Names \cup {IntType} : name = SymbolName(Visited)
        BY <2>1, <2>2 DEF SymbolName
    <2>8. /\ Len(module') = l /\ \A i \in 1..Len(module) : module'[i] = module[i]
          /\ module'[l].decl = at /\ module'[l].role = Visited.k /\ module'[l].name = name
          /\ module'[l].public = pub /\ module'[l].bodies = 0
          /\ module'[l].renamed => \E i \in 1..Len(module) :
                /\ module[i].name = name /\ Suffix(module[i].role) = Suffix(Visited.k)
        <3>1. PICK role \in {"func", "ext", "ctor", "method", "dtor", "var", "varctor",
                             "vardtor"} : role = Visited.k
            BY <1>2
        <3>2. PICK type \in Names \cup {IntType} :
                  module' = Create(module, role, name, pub, type, 0)
            BY <1>2, <2>1, <2>2, <2>6, <2>7, <3>1 DEF SymbolName
        <3>3. Created(module, module', role, name, pub, 0)
            BY <1>3, <3>2, CreateExact
        <3> QED
            BY <2>5, <3>1, <3>3 DEF Created
    <2>9. ~module'[l].renamed
        <3>1. SUFFICES ASSUME NEW i \in 1..Len(module), module[i].name = name,
                              Suffix(module[i].role) = Suffix(Visited.k)
                       PROVE  FALSE
            BY <2>8
        <3>2. /\ module[i] \in Shape /\ module[i].decl # at /\ module[i].role \notin OfVariable
            BY <1>2, <1>3, BeforeVisit
        <3>3. module[i].role \in {"func", "ext"}
            BY <1>2, <3>1, <3>2 DEF Suffix, OfVariable, Shape
        <3>4. CASE module[i].role # "func" \/ Visited.k # "func"
            BY <1>2, <2>7, <3>1, <3>2, <3>3, <3>4, NameFree
        <3>5. CASE module[i].role = "func" /\ Visited.k = "func"
            <4>1. InTable(i, global)
                BY DEF SymbolsInv, SymbolsInTables
            <4>2. name = n
                BY <2>1, <2>7, <3>5 DEF SymbolName
            <4> QED
                BY <2>4, <3>1, <3>5, <4>1, <4>2 DEF InTable, None
        <3> QED
            BY <3>4, <3>5
    <2>10. /\ global'.symtab[n] = l
           /\ \A k \in Names : k # n => global'.symtab[k] = global.symtab[k]
           /\ global'.ctors = global.ctors /\ global'.methods = global.methods
           /\ global'.dtors = global.dtors
        BY <1>3, <2>4, <2>6, SymtabEntry
    <2>11. IsNew(l) /\ \A i \in Len(module) + 1..Len(module') : i = l
        BY <1>3, <2>5, <2>8 DEF IsNew
    <2>12. SymbolsStay /\ \A i \in 1..Len(module) : BodyGiven(i)
        BY <1>2, <2>8 DEF SymbolsStay, BodyGiven
    <2>13. NewSymbolFits(l)
        <3>1. Fits(module'[l], Visited)
            BY <1>2, <2>3, <2>7, <2>8 DEF Fits, IsPublic
        <3>2. InTable(l, global)'
            <4>1. Visited.k = "func" => name = n
                BY <2>1, <2>7 DEF SymbolName
            <4> QED
                BY <1>2, <2>8, <2>10, <4>1 DEF InTable
        <3>3. at \notin flagged'
            BY <1>2, <2>6 DEF SymbolsInv, FlaggedReported, Resolved
        <3> QED
            BY <1>2, <2>8, <2>9, <3>1, <3>2, <3>3 DEF NewSymbolFits, OfVariable
    <2>14. /\ EntriesStay(global.symtab, global'.symtab, {"func", "ext", "var"})
           /\ EntriesStay(global.ctors, global'.ctors, {"ctor"})
           /\ EntriesStay(global.methods, global'.methods, {"method"})
           /\ EntriesStay(global.dtors, global'.dtors, {"dtor"})
        BY <1>2, <2>1, <2>4, <2>8, <2>10, <2>11 DEF EntriesStay
    <2>15. VisitedRegisters
        <3>1. l # None
            BY <1>3, <2>5 DEF None
        <3>2. NowFound(at)
            BY <1>2, <2>1, <2>8, <2>10, <3>1 DEF NowFound
        <3> QED
            BY <1>2, <3>2 DEF VisitedRegisters
    <2>16. errors => errors'
        BY <2>6
    <2> QED
        BY <1>1, <1>2, <2>6, <2>11, <2>12, <2>13, <2>14, <2>15, <2>16 DEF VisitStep
<1> QED
    BY <1>4, <1>5
\* No member of the class that is visited has a symbol yet, none is taken.
LEMMA ClassFree ==
    ASSUME SymbolsInv, pass = "funcs", at \in 1..Len(program), Visited.k = "class",
           NEW n, n = Visited.name
    PROVE  /\ n \in Names
           /\ global.ctors[n] = None /\ global.methods[n] = None /\ global.dtors[n] = None
           /\ \A i \in 1..Len(module) :
                  module[i].name = n => Suffix(module[i].role) \notin {"ctor", "method", "dtor"}
<1>1. Typed /\ Entered /\ module \in Seq(Shape)
    BY DEF SymbolsInv, PassesInv, Typed
<1>2. n \in Names
    BY <1>1, NamesIn DEF Visited
<1>3. ASSUME NEW i \in 1..Len(module), module[i].name = n
      PROVE  module[i].role \notin {"ctor", "method", "dtor"} \cup OfVariable
    <2>1. module[i].decl # at /\ module[i].role \notin OfVariable
        BY BeforeVisit
    <2> QED
        BY <1>3, <2>1, ClassSymbol
<1>4. ASSUME NEW i \in 1..Len(module), module[i].name = n
      PROVE  Suffix(module[i].role) \notin {"ctor", "method", "dtor"}
    <2>1. module[i].role \in {"func", "ext"}
        <3>1. module[i] \in Shape
            BY <1>1
        <3> QED
            BY <1>3, <1>4, <3>1 DEF Shape, OfVariable
    <2> QED
        BY <2>1 DEF Suffix
<1>5. /\ global.ctors[n] # None => global.ctors[n] \in 1..Len(module)
      /\ global.methods[n] # None => global.methods[n] \in 1..Len(module)
      /\ global.dtors[n] # None => global.dtors[n] \in 1..Len(module)
    BY <1>1, <1>2, EntryThere
<1>6. /\ global.ctors[n] # None => /\ module[global.ctors[n]].role = "ctor"
                                   /\ module[global.ctors[n]].name = n
      /\ global.methods[n] # None => /\ module[global.methods[n]].role = "method"
                                     /\ module[global.methods[n]].name = n
      /\ global.dtors[n] # None => /\ module[global.dtors[n]].role = "dtor"
                                   /\ module[global.dtors[n]].name = n
    BY <1>2 DEF SymbolsInv, TablesFit
<1>7. global.ctors[n] = None /\ global.methods[n] = None /\ global.dtors[n] = None
    BY <1>3, <1>5, <1>6
<1> QED
    BY <1>2, <1>4, <1>7

LEMMA ResolveClassVisits ==
    ASSUME SymbolsInv, ResolveClass
    PROVE  VisitStep
<1>1. Resolves
    BY ResolveClassResolves DEF SymbolsInv, PassesInv
<1>2. /\ pass = "funcs" /\ Visited.k = "class" /\ at \in 1..Len(program)
      /\ Visited = program[at] /\ flagged' = flagged /\ errors' = errors /\ ~crashed'
    BY <1>1 DEF ResolveClass, Visit, Resolves, Visited, SymbolsInv
<1>3. /\ Typed /\ module \in Seq(Shape) /\ global \in Tables /\ Len(module) \in Nat
    BY DEF SymbolsInv, PassesInv, Typed
<1>4. /\ Visited \in Decl /\ Visited.members \in {"none", "ctor", "method"}
    <2>1. Visited \in Decl
        BY <1>2, <1>3, NamesIn
    <2>2. Visited.members \in {"none", "ctor", "method", "methods"}
        BY <2>1 DEF Decl
    <2> QED
        BY <1>2, <2>1, <2>2 DEF SymbolsInv, ProgramHandled
<1>5. PICK n \in Names : n = Visited.name
    BY <1>2, <1>3, NamesIn
<1>6. /\ global.ctors[n] = None /\ global.methods[n] = None /\ global.dtors[n] = None
      /\ \A i \in 1..Len(module) :
             module[i].name = n => Suffix(module[i].role) \notin {"ctor", "method", "dtor"}
    BY <1>2, <1>5, ClassFree
<1>7. PICK pub \in BOOLEAN : pub = IsPublic(Visited.access)
    BY DEF IsPublic
<1>8. PICK merged \in BOOLEAN :
          merged = IsPublic(MergeAccess(Visited.access, Visited.maccess))
    BY DEF IsPublic
<1>9. /\ pub <=> Visited.access = "public"
      /\ merged <=> Visited.access = "public" /\ Visited.maccess = "public"
    BY <1>7, <1>8 DEF IsPublic, MergeAccess
<1>10. PICK members \in Seq(Shape) :
          /\ \/ Visited.members = "none" /\ members = module
             \/ /\ Visited.members \in {"ctor", "method"}
                /\ Created(module, members, Visited.members, n, merged, 0)
          /\ Created(members, module', "dtor", n, pub, 0)
          /\ global' = [global EXCEPT
                !.ctors   = IF Visited.members = "ctor" THEN Emplace(@, n, Len(module) + 1) ELSE @,
                !.methods = IF Visited.members \in {"method", "methods"}
                            THEN Emplace(@, n, Len(module) + 1) ELSE @,
                !.dtors   = Emplace(@, n, Len(members) + 1)]
    <2>1. PICK members : 
            /\ members = CASE Visited.members = "none"    -> module
                          [] Visited.members = "ctor"    ->
                                 Create(module, "ctor", n, merged, IntType, 0)
                          [] Visited.members = "method"  ->
                                 Create(module, "method", n, merged, IntType, 0)
                          [] Visited.members = "methods" ->
                                 Create(Create(module, "method", n, merged, IntType, 0),
                                        "method", n, merged, IntType, 0)
            /\ module' = Create(members, "dtor", n, pub, IntType, 0)
            /\ global' = [global EXCEPT
                !.ctors   = IF Visited.members = "ctor" THEN Emplace(@, n, Len(module) + 1) ELSE @,
                !.methods = IF Visited.members \in {"method", "methods"}
                            THEN Emplace(@, n, Len(module) + 1) ELSE @,
                !.dtors   = Emplace(@, n, Len(members) + 1)]
        BY <1>5, <1>7, <1>8 DEF ResolveClass
    <2>2. \/ Visited.members = "none" /\ members = module
          \/ /\ Visited.members \in {"ctor", "method"}
             /\ Created(module, members, Visited.members, n, merged, 0)
        <3>1. Visited.members = "none" => members = module
            BY <2>1
        <3>2. Visited.members = "ctor" => Created(module, members, "ctor", n, merged, 0)
            BY <1>3, <2>1, CreateExact
        <3>3. Visited.members = "method" => Created(module, members, "method", n, merged, 0)
            BY <1>3, <2>1, CreateExact
        <3> QED
            BY <1>4, <3>1, <3>2, <3>3
    <2>3. members \in Seq(Shape)
        BY <1>3, <2>2 DEF Created
    <2>4. Created(members, module', "dtor", n, pub, 0)
        BY <2>1, <2>3, CreateExact, <1>3
    <2> QED
        BY <2>1, <2>2, <2>3, <2>4
<1>11. PICK l, ld : l = Len(module) + 1 /\ ld = Len(members) + 1
    OBVIOUS
<1>12. /\ Len(members) \in Nat /\ Len(members) \in {Len(module), Len(module) + 1}
       /\ Len(module') = ld /\ Len(members) = IF Visited.members = "none" THEN Len(module) ELSE l
       /\ \A i \in 1..Len(module) : module'[i] = module[i]
       /\ Visited.members # "none" => module'[l] = members[l] /\ l # ld
    <2>1. /\ Len(module') = Len(members) + 1
          /\ \A i \in 1..Len(members) : module'[i] = members[i]
        BY <1>10 DEF Created
    <2>2. CASE Visited.members = "none"
        BY <1>3, <1>10, <1>11, <2>1, <2>2
    <2>3. CASE Visited.members # "none"
        <3>1. Len(members) = Len(module) + 1 /\ \A i \in 1..Len(module) : members[i] = module[i]
            BY <1>10, <2>3 DEF Created
        <3> QED
            BY <1>3, <1>10, <1>11, <2>1, <2>3, <3>1
    <2> QED
        BY <2>2, <2>3
<1>13. ASSUME NEW i \in Len(module) + 1..Len(module')
       PROVE  i = ld \/ (i = l /\ Visited.members # "none")
    BY <1>3, <1>11, <1>12, <1>13
<1>14. IsNew(ld) /\ (Visited.members # "none" => IsNew(l)) /\ l # None /\ ld # None
    BY <1>3, <1>11, <1>12 DEF IsNew, None
<1>15. /\ global'.symtab = global.symtab
       /\ global'.ctors = IF Visited.members = "ctor" THEN [global.ctors EXCEPT ![n] = l]
                          ELSE global.ctors
       /\ global'.methods = IF Visited.members = "method" THEN [global.methods EXCEPT ![n] = l]
                            ELSE global.methods
       /\ global'.dtors = [global.dtors EXCEPT ![n] = ld]
    <2>1. PICK c, m, d : /\ c = Emplace(global.ctors, n, l) /\ m = Emplace(global.methods, n, l)
                         /\ d = Emplace(global.dtors, n, ld)
        OBVIOUS
    <2>2. /\ c = [global.ctors EXCEPT ![n] = l] /\ m = [global.methods EXCEPT ![n] = l]
          /\ d = [global.dtors EXCEPT ![n] = ld]
        BY <1>6, <2>1 DEF Emplace
    <2>3. global' = [global EXCEPT !.ctors   = IF Visited.members = "ctor" THEN c ELSE @,
                                   !.methods = IF Visited.members = "method" THEN m ELSE @,
                                   !.dtors   = d]
        BY <1>4, <1>10, <1>11, <2>1
    <2> QED
        BY <1>3, <2>2, <2>3 DEF Tables
<1>16. /\ global'.dtors[n] = ld
       /\ Visited.members = "ctor" => global'.ctors[n] = l
       /\ Visited.members = "method" => global'.methods[n] = l
       /\ \A k \in Names : /\ k # n => global'.dtors[k] = global.dtors[k]
                           /\ \/ global'.ctors[k] = global.ctors[k]
                              \/ k = n /\ Visited.members = "ctor"
                           /\ \/ global'.methods[k] = global.methods[k]
                              \/ k = n /\ Visited.members = "method"
    BY <1>3, <1>15 DEF Tables
<1>17. NewSymbolFits(ld)
    <2>1. /\ module'[ld].decl = at /\ module'[ld].role = "dtor" /\ module'[ld].name = n
          /\ module'[ld].public = pub /\ module'[ld].bodies = 0
          /\ module'[ld].renamed => \E i \in 1..Len(members) :
                /\ members[i].name = n /\ Suffix(members[i].role) = Suffix("dtor")
        BY <1>10, <1>11 DEF Created
    <2>2. ~module'[ld].renamed
        <3>1. SUFFICES ASSUME NEW i \in 1..Len(members), members[i].name = n,
                              Suffix(members[i].role) = "dtor"
                       PROVE  FALSE
            BY <2>1 DEF Suffix
        <3>2. CASE i \in 1..Len(module) /\ members[i] = module[i]
            BY <1>6, <3>1, <3>2
        <3>3. CASE members[i].role \in {"ctor", "method"}
            BY <3>1, <3>3 DEF Suffix
        <3>4. \/ i \in 1..Len(module) /\ members[i] = module[i]
              \/ members[i].role \in {"ctor", "method"}
            BY <1>3, <1>10, <3>1 DEF Created
        <3> QED
            BY <3>2, <3>3, <3>4
    <2> QED
        BY <1>2, <1>5, <1>9, <1>16, <2>1, <2>2 DEF NewSymbolFits, Fits, InTable, OfVariable
<1>18. ASSUME Visited.members # "none"
       PROVE  NewSymbolFits(l)
    <2>1. /\ module'[l].decl = at /\ module'[l].role = Visited.members /\ module'[l].name = n
          /\ module'[l].public = merged /\ module'[l].bodies = 0
          /\ module'[l].renamed => \E i \in 1..Len(module) :
                /\ module[i].name = n /\ Suffix(module[i].role) = Suffix(Visited.members)
        BY <1>10, <1>11, <1>12, <1>18 DEF Created
    <2>2. Visited.members \in {"ctor", "method"} /\ Suffix(Visited.members) \in {"ctor", "method"}
        BY <1>4, <1>18 DEF Suffix
    <2>3. ~module'[l].renamed
        BY <1>6, <2>1, <2>2
    <2> QED
        BY <1>2, <1>5, <1>9, <1>16, <2>1, <2>2, <2>3 DEF NewSymbolFits, Fits, InTable, OfVariable
<1>19. SymbolsStay /\ \A i \in 1..Len(module) : BodyGiven(i)
    BY <1>2, <1>12 DEF SymbolsStay, BodyGiven
<1>20. module'[ld].role = "dtor"
       /\ (Visited.members # "none" => module'[l].role = Visited.members)
    <2>1. module'[ld].role = "dtor"
        BY <1>10, <1>11 DEF Created
    <2>2. Visited.members # "none" => module'[l].role = Visited.members
        BY <1>10, <1>11, <1>12 DEF Created
    <2> QED
        BY <2>1, <2>2
<1>21. /\ EntriesStay(global.symtab, global'.symtab, {"func", "ext", "var"})
       /\ EntriesStay(global.ctors, global'.ctors, {"ctor"})
       /\ EntriesStay(global.methods, global'.methods, {"method"})
       /\ EntriesStay(global.dtors, global'.dtors, {"dtor"})
    BY <1>5, <1>6, <1>14, <1>15, <1>16, <1>20 DEF EntriesStay
<1>22. VisitedRegisters
    BY <1>2, <1>5, <1>14, <1>16 DEF VisitedRegisters
<1> QED
    BY <1>1, <1>2, <1>13, <1>17, <1>18, <1>19, <1>21, <1>22 DEF VisitStep
\* No variable has been entered under the name that is visited.
LEMMA VariableFree ==
    ASSUME SymbolsInv, pass = "emit", at \in 1..Len(program), Visited.k = "var"
    PROVE  /\ global.symtab[Visited.name] = None
           /\ \A i \in 1..Len(module) :
                  module[i].decl # at /\ (module[i].name = Visited.name =>
                                              Suffix(module[i].role) # "")
<1>1. Typed /\ Entered /\ module \in Seq(Shape)
    BY DEF SymbolsInv, PassesInv, Typed
<1>2. PICK n \in Names : n = Visited.name
    BY <1>1, NamesIn DEF Visited
<1>3. SymbolName(Visited) = n
    BY <1>2 DEF SymbolName
<1>4. ASSUME NEW i \in 1..Len(module)
      PROVE  module[i].decl # at
    <2>1. SUFFICES ASSUME module[i].decl = at
                   PROVE  FALSE
        OBVIOUS
    <2>2. Fits(module[i], Visited) /\ module[i] \in Shape
        BY <1>1, <2>1, OfVisited
    <2>3. module[i].role \in OfVariable
        BY <2>2 DEF Fits, Shape, OfVariable
    <2>4. WasEmitted(at)
        BY <2>1, <2>3 DEF SymbolsInv, SymbolsFit
    <2> QED
        BY <2>4 DEF WasEmitted
<1>5. ASSUME NEW i \in 1..Len(module), module[i].role \in {"func", "ext", "var"}
      PROVE  /\ module[i].name # n /\ program[module[i].decl].name # n
    BY <1>2, <1>3, <1>4, <1>5, NameFree
<1>6. ASSUME NEW i \in 1..Len(module), module[i].name = n
      PROVE  Suffix(module[i].role) # ""
    <2>1. module[i].role \in {"ctor", "method", "dtor", "varctor", "vardtor"}
        <3>1. module[i] \in Shape
            BY <1>1
        <3> QED
            BY <1>5, <1>6, <3>1 DEF Shape
    <2> QED
        BY <2>1 DEF Suffix
<1>7. global.symtab[n] = None
    <2>1. SUFFICES ASSUME global.symtab[n] # None
                   PROVE  FALSE
        OBVIOUS
    <2>2. global.symtab[n] \in 1..Len(module)
        BY <1>1, <2>1, EntryThere
    <2>3. /\ module[global.symtab[n]].role \in {"func", "ext", "var"}
          /\ program[module[global.symtab[n]].decl].name = n
        BY <2>1 DEF SymbolsInv, TablesFit
    <2> QED
        BY <1>5, <2>2, <2>3
<1> QED
    BY <1>2, <1>4, <1>6, <1>7

\* What a visit of a variable does: to the module, with the variable's function,
\* the variable (if its initializer is good) and its destructor's function (if it
\* holds an object); to the lists; and to what names refer to.
VariableMade(n, pub, valid, hasDtor, type, ctor, var) ==
    /\ Created(module, ctor, "varctor", n, FALSE, 1)
    /\ Created(ctor, var, "var", n, pub, 0)
    /\ var[Len(ctor) + 1].type = type
    /\ hasDtor <=> type # IntType /\ global.dtors[type] # None
    /\ ~crashed'
    /\ errors => errors'
    /\ ~valid => module' = ctor /\ global' = global /\ errors'
    /\ valid => /\ global' = [global EXCEPT !.symtab = Emplace(@, n, Len(var))]
                /\ hasDtor => Created(var, module', "vardtor", n, FALSE, 1)
                /\ ~hasDtor => module' = var
    /\ emitter'.ctors = Append(emitter.ctors, <<at>>)
    /\ emitter'.dtors = IF valid /\ hasDtor THEN Append(emitter.dtors, <<at>>)
                        ELSE emitter.dtors
    /\ "EarlyRead" \in Forms \/ ~EarlyRead(emitter'.uses)

LEMMA VariableIsMade ==
    ASSUME Handled, SymbolsInv, VisitVariable, NEW n \in Names, n = Visited.name,
           NEW pub \in BOOLEAN, pub = IsPublic(Visited.access)
    PROVE  \E valid \in BOOLEAN, hasDtor \in BOOLEAN, type \in Names \cup {IntType},
              ctor \in Seq(Shape), var \in Seq(Shape) :
                  VariableMade(n, pub, valid, hasDtor, type, ctor, var)
<1>1. /\ Typed /\ Entered /\ module \in Seq(Shape) /\ global \in Tables /\ Len(module) \in Nat
      /\ emitter \in Emitter /\ emitter.vslCtor = None /\ emitter.vslDtor = None
    BY DEF SymbolsInv, PassesInv, Typed, Emitter
<1>2. global.symtab[n] = None
    <2>1. pass = "emit" /\ Visited.k = "var" /\ at \in 1..Len(program)
        <3>1. Resolves
            BY VisitVariableResolves DEF SymbolsInv, PassesInv
        <3> QED
            BY <3>1 DEF VisitVariable, Visit, Resolves
    <2> QED
        BY <2>1, VariableFree
<1>3. PICK init \in Names \cup {"literal", "bad"}, called \in BOOLEAN :
        LET name   == Visited.name
            source == IF init \in Names THEN Found(init, NoUse) ELSE None
            valid  == init = "literal" \/ source # None
            type   == IF source = None THEN IntType ELSE ValueType(source)
            isFunc == source # None /\ module[source].role # "var"
            taken  == global.symtab[name] # None
            ctor   == Create(module, "varctor", name, FALSE, IntType, 1)
            var    == Create(ctor, "var", name, IsPublic(Visited.access), type, 0)
            hasDtor == type # IntType /\ global.dtors[type] # None
            listed == AddGlobalCtor([emitter EXCEPT !.uses[at] =
                                       IF source = None THEN None ELSE module[source].decl], at)
        IN  /\ called \/ (isFunc /\ "FuncValue" \in Forms)
            /\ "EarlyRead" \in Forms \/ ~EarlyRead(listed.uses)
            /\ crashed' = (valid /\ (taken \/ ~called))
            /\ errors' = (errors \/ ~valid \/ taken)
            /\ IF valid /\ ~taken
               THEN /\ global' = [global EXCEPT !.symtab = Emplace(@, name, Len(var))]
                    /\ module' = IF hasDtor THEN Create(var, "vardtor", name, FALSE, IntType, 1)
                                 ELSE var
                    /\ emitter' = IF hasDtor THEN AddGlobalDtor(listed, at) ELSE listed
               ELSE /\ module' = ctor /\ emitter' = listed
                    /\ UNCHANGED global
    BY DEF VisitVariable
<1>4. PICK source : source = IF init \in Names THEN Found(init, NoUse) ELSE None
    OBVIOUS
<1>5. source = None \/ source \in 1..Len(module)
    <2>1. CASE init \in Names
        <3>1. PICK self : self = NoUse
            OBVIOUS
        <3>2. source \in Nat /\ source <= Len(module)
            BY <1>1, <1>4, <2>1, <3>1, FoundThere
        <3> QED
            BY <1>1, <3>2 DEF None
    <2> QED
        BY <1>4, <2>1
<1>6. PICK type \in Names \cup {IntType} :
          type = IF source = None THEN IntType ELSE ValueType(source)
    BY <1>1, <1>5, ValueTypeIn
<1>7. PICK valid \in BOOLEAN : valid = (init = "literal" \/ source # None)
    OBVIOUS
<1>8. PICK hasDtor \in BOOLEAN : hasDtor = (type # IntType /\ global.dtors[type] # None)
    OBVIOUS
<1>9. PICK ctor : ctor = Create(module, "varctor", n, FALSE, IntType, 1)
    OBVIOUS
<1>10. PICK var : var = Create(ctor, "var", n, pub, type, 0)
    OBVIOUS
<1>11. PICK use : use = IF source = None THEN None ELSE module[source].decl
    OBVIOUS
<1>12. PICK listed : listed = AddGlobalCtor([emitter EXCEPT !.uses[at] = use], at)
    OBVIOUS
<1>13. called
    BY <1>3 DEF Handled
<1>14. /\ crashed' = FALSE
       /\ errors' = (errors \/ ~valid)
       /\ "EarlyRead" \in Forms \/ ~EarlyRead(listed.uses)
       /\ ~valid => module' = ctor /\ global' = global /\ emitter' = listed
       /\ valid => /\ global' = [global EXCEPT !.symtab = Emplace(@, n, Len(var))]
                   /\ module' = IF hasDtor THEN Create(var, "vardtor", n, FALSE, IntType, 1)
                                ELSE var
                   /\ emitter' = IF hasDtor THEN AddGlobalDtor(listed, at) ELSE listed
    BY <1>2, <1>3, <1>4, <1>6, <1>7, <1>8, <1>9, <1>10, <1>11, <1>12, <1>13
<1>15. Created(module, ctor, "varctor", n, FALSE, 1)
    BY <1>1, <1>9, CreateExact
<1>16. ctor \in Seq(Shape)
    BY <1>15 DEF Created
<1>17. Created(ctor, var, "var", n, pub, 0)
    BY <1>1, <1>10, <1>16, CreateExact
<1>18. var \in Seq(Shape)
    BY <1>17 DEF Created
<1>19. Created(var, Create(var, "vardtor", n, FALSE, IntType, 1), "vardtor", n, FALSE, 1)
    BY <1>1, <1>18, CreateExact
<1>20. var[Len(ctor) + 1].type = type
    BY <1>10, <1>16, CreateType
<1>21. valid => /\ hasDtor => Created(var, module', "vardtor", n, FALSE, 1)
                /\ ~hasDtor => module' = var
    BY <1>14, <1>19
<1>22. PICK used \in Emitter : used = [emitter EXCEPT !.uses[at] = use]
    <2>1. at \in Nat
        BY <1>1 DEF Typed
    <2>2. use \in Nat
        <3>1. CASE source = None
            BY <1>11, <3>1 DEF None
        <3>2. CASE source \in 1..Len(module) /\ source # None
            <4>1. module[source] \in Shape
                BY <1>1, <3>2
            <4> QED
                BY <1>11, <3>2, <4>1 DEF Shape
        <3> QED
            BY <1>5, <3>1, <3>2 DEF None
    <2> QED
        BY <1>1, <2>2 DEF Emitter
<1>23. /\ listed.ctors = Append(emitter.ctors, <<at>>) /\ listed.dtors = emitter.dtors
       /\ AddGlobalDtor(listed, at).ctors = listed.ctors
       /\ AddGlobalDtor(listed, at).uses = listed.uses
       /\ AddGlobalDtor(listed, at).dtors = Append(listed.dtors, <<at>>)
    <2>1. at \in Nat
        BY <1>1 DEF Typed
    <2>2. used.ctors = emitter.ctors /\ used.dtors = emitter.dtors
        BY <1>1, <1>22 DEF Emitter
    <2>3. listed = AddGlobalCtor(used, at)
        BY <1>12, <1>22
    <2>4. /\ listed \in Emitter /\ listed.dtors = used.dtors
          /\ listed.ctors = Append(used.ctors, <<at>>)
        BY <2>1, <2>3, ListedIn
    <2>5. /\ AddGlobalDtor(listed, at).ctors = listed.ctors
          /\ AddGlobalDtor(listed, at).uses = listed.uses
          /\ AddGlobalDtor(listed, at).dtors = Append(listed.dtors, <<at>>)
        BY <2>1, <2>4, ListedIn
    <2> QED
        BY <2>2, <2>4, <2>5
<1>24. /\ emitter'.ctors = Append(emitter.ctors, <<at>>)
       /\ emitter'.dtors = IF valid /\ hasDtor THEN Append(emitter.dtors, <<at>>)
                           ELSE emitter.dtors
       /\ emitter'.uses = listed.uses
    BY <1>14, <1>23
<1>25. "EarlyRead" \in Forms \/ ~EarlyRead(emitter'.uses)
    BY <1>14, <1>24
<1>26. VariableMade(n, pub, valid, hasDtor, type, ctor, var)
    BY <1>8, <1>14, <1>15, <1>17, <1>20, <1>21, <1>24, <1>25 DEF VariableMade
<1> QED
    BY <1>16, <1>18, <1>26

LEMMA VisitVariableVisits ==
    ASSUME Handled, SymbolsInv, VisitVariable
    PROVE  VisitStep
<1>1. Resolves
    BY VisitVariableResolves DEF SymbolsInv, PassesInv
<1>2. /\ pass = "emit" /\ Visited.k = "var" /\ at \in 1..Len(program)
      /\ Visited = program[at] /\ flagged' = flagged
    BY <1>1 DEF VisitVariable, Visit, Resolves, Visited
<1>3. /\ Typed /\ Entered /\ module \in Seq(Shape) /\ global \in Tables /\ Len(module) \in Nat
    BY DEF SymbolsInv, PassesInv, Typed
<1>4. PICK n \in Names : n = Visited.name
    BY <1>2, <1>3, NamesIn
<1>5. /\ global.symtab[n] = None
      /\ \A i \in 1..Len(module) :
             module[i].decl # at /\ (module[i].name = n => Suffix(module[i].role) # "")
    BY <1>2, <1>4, VariableFree
<1>6. PICK pub \in BOOLEAN : pub = IsPublic(Visited.access)
    BY DEF IsPublic
<1>7. PICK valid \in BOOLEAN, hasDtor \in BOOLEAN, type \in Names \cup {IntType},
           ctor \in Seq(Shape), var \in Seq(Shape) :
               VariableMade(n, pub, valid, hasDtor, type, ctor, var)
    BY <1>4, <1>6, VariableIsMade
<1>8. /\ Created(module, ctor, "varctor", n, FALSE, 1)
      /\ ~crashed'
      /\ errors => errors'
      /\ ~valid => module' = ctor /\ global' = global /\ errors'
      /\ valid => /\ global' = [global EXCEPT !.symtab = Emplace(@, n, Len(var))]
                  /\ hasDtor => Created(var, module', "vardtor", n, FALSE, 1)
                  /\ ~hasDtor => module' = var
    BY <1>7 DEF VariableMade
<1>9. Created(ctor, var, "var", n, pub, 0)
    BY <1>7 DEF VariableMade
<1>10. valid /\ hasDtor => Created(var, module', "vardtor", n, FALSE, 1)
    BY <1>8
<1>11. PICK l : l = Len(module)
    OBVIOUS
<1>12. /\ l \in Nat /\ Len(module') \in {l + 1, l + 2, l + 3}
       /\ ~valid => Len(module') = l + 1
       /\ valid => Len(var) = l + 2 /\ Len(module') = IF hasDtor THEN l + 3 ELSE l + 2
       /\ \A i \in 1..l : module'[i] = module[i]
       /\ module'[l + 1] = ctor[l + 1]
       /\ valid => module'[l + 2] = var[l + 2]
    <2>1. Len(ctor) = l + 1 /\ \A i \in 1..l : ctor[i] = module[i]
        BY <1>8, <1>11 DEF Created
    <2>2. Len(var) = l + 2 /\ \A i \in 1..l + 1 : var[i] = ctor[i]
        BY <1>3, <1>9, <1>11, <2>1 DEF Created
    <2>3. valid /\ hasDtor => Len(module') = l + 3 /\ \A i \in 1..l + 2 : module'[i] = var[i]
        BY <1>3, <1>10, <1>11, <2>2 DEF Created
    <2>4. CASE ~valid
        BY <1>3, <1>8, <1>11, <2>1, <2>4
    <2>5. CASE valid /\ ~hasDtor
        BY <1>3, <1>8, <1>11, <2>1, <2>2, <2>5
    <2>6. CASE valid /\ hasDtor
        BY <1>3, <1>11, <2>1, <2>2, <2>3, <2>6
    <2> QED
        BY <2>4, <2>5, <2>6
<1>13. /\ module'[l + 1].decl = at /\ module'[l + 1].role = "varctor"
       /\ module'[l + 1].name = n /\ module'[l + 1].public = FALSE
       /\ module'[l + 1].bodies = 1
    BY <1>8, <1>11, <1>12 DEF Created
<1>14. ASSUME valid
       PROVE  /\ module'[l + 2].decl = at /\ module'[l + 2].role = "var"
              /\ module'[l + 2].name = n /\ module'[l + 2].public = pub
              /\ module'[l + 2].bodies = 0 /\ ~module'[l + 2].renamed
    <2>1. Len(ctor) = l + 1 /\ \A i \in 1..l : ctor[i] = module[i]
        BY <1>8, <1>11 DEF Created
    <2>2. Len(ctor) + 1 = l + 2
        BY <1>12, <2>1
    <2>3. /\ var[l + 2].decl = at /\ var[l + 2].role = "var"
          /\ var[l + 2].name = n /\ var[l + 2].public = pub
          /\ var[l + 2].bodies = 0
          /\ var[l + 2].renamed => \E i \in 1..Len(ctor) :
                /\ ctor[i].name = n /\ Suffix(ctor[i].role) = Suffix("var")
        BY <1>9, <2>2 DEF Created
    <2>4. ~var[l + 2].renamed
        <3>1. SUFFICES ASSUME NEW i \in 1..l + 1, ctor[i].name = n, Suffix(ctor[i].role) = ""
                       PROVE  FALSE
            BY <2>1, <2>3 DEF Suffix
        <3>2. CASE i = l + 1
            <4>1. ctor[i].role = "varctor"
                BY <1>12, <1>13, <3>2
            <4> QED
                BY <3>1, <4>1 DEF Suffix
        <3>3. CASE i # l + 1
            <4>1. i \in 1..l
                BY <1>12, <3>3
            <4> QED
                BY <1>5, <1>11, <2>1, <3>1, <4>1
        <3> QED
            BY <3>2, <3>3
    <2> QED
        BY <1>12, <1>14, <2>3, <2>4
<1>15. ASSUME valid, hasDtor
       PROVE  /\ module'[l + 3].decl = at /\ module'[l + 3].role = "vardtor"
              /\ module'[l + 3].name = n /\ module'[l + 3].public = FALSE
              /\ module'[l + 3].bodies = 1
    <2>1. Len(var) + 1 = l + 3
        BY <1>12, <1>15
    <2> QED
        BY <1>10, <1>15, <2>1 DEF Created
<1>16. ASSUME NEW i \in Len(module) + 1..Len(module')
       PROVE  i = l + 1 \/ (valid /\ i = l + 2) \/ (valid /\ hasDtor /\ i = l + 3)
    <2>1. i \in Nat /\ i >= l + 1 /\ i <= Len(module')
        BY <1>11, <1>12
    <2>2. CASE ~valid
        BY <1>12, <2>1, <2>2
    <2>3. CASE valid /\ ~hasDtor
        BY <1>12, <2>1, <2>3
    <2>4. CASE valid /\ hasDtor
        BY <1>12, <2>1, <2>4
    <2> QED
        BY <2>2, <2>3, <2>4
<1>17. ASSUME NEW i \in Len(module) + 1..Len(module')
       PROVE  NewSymbolFits(i)
    <2>1. CASE i = l + 1
        BY <1>2, <1>4, <1>13, <2>1 DEF NewSymbolFits, Fits, InTable, OfVariable
    <2>2. CASE valid /\ i = l + 2
        BY <1>2, <1>4, <1>6, <1>14, <2>2
        DEF NewSymbolFits, Fits, InTable, OfVariable, SymbolName, IsPublic
    <2>3. CASE valid /\ hasDtor /\ i = l + 3
        BY <1>2, <1>4, <1>15, <2>3 DEF NewSymbolFits, Fits, InTable, OfVariable
    <2> QED
        BY <1>16, <2>1, <2>2, <2>3
<1>18. valid => /\ global'.symtab[n] = l + 2
                /\ \A k \in Names : k # n => global'.symtab[k] = global.symtab[k]
                /\ global'.ctors = global.ctors /\ global'.methods = global.methods
                /\ global'.dtors = global.dtors
    <2>1. SUFFICES ASSUME valid
                   PROVE  /\ global'.symtab[n] = l + 2
                          /\ \A k \in Names : k # n => global'.symtab[k] = global.symtab[k]
                          /\ global'.ctors = global.ctors /\ global'.methods = global.methods
                          /\ global'.dtors = global.dtors
        OBVIOUS
    <2>2. PICK j : j = l + 2
        OBVIOUS
    <2>3. global' = [global EXCEPT !.symtab = Emplace(@, n, j)]
        BY <1>8, <1>12, <2>1, <2>2
    <2>4. /\ global'.symtab[n] = j
          /\ \A k \in Names : k # n => global'.symtab[k] = global.symtab[k]
          /\ global'.ctors = global.ctors /\ global'.methods = global.methods
          /\ global'.dtors = global.dtors
        BY <1>3, <1>5, <2>3, SymtabEntry
    <2> QED
        BY <2>2, <2>4
<1>19. ~valid => global' = global /\ errors'
    BY <1>8
<1>20. SymbolsStay
    BY <1>11, <1>12 DEF SymbolsStay
<1>21. \A i \in 1..Len(module) : BodyGiven(i)
    BY <1>5, <1>11, <1>12 DEF BodyGiven
<1>22. valid => IsNew(l + 2) /\ l + 2 # None
    BY <1>11, <1>12 DEF IsNew, None
<1>23. /\ EntriesStay(global.symtab, global'.symtab, {"func", "ext", "var"})
       /\ EntriesStay(global.ctors, global'.ctors, {"ctor"})
       /\ EntriesStay(global.methods, global'.methods, {"method"})
       /\ EntriesStay(global.dtors, global'.dtors, {"dtor"})
    <2>1. CASE ~valid
        BY <1>19, <2>1 DEF EntriesStay
    <2>2. CASE valid
        BY <1>4, <1>5, <1>14, <1>18, <1>22, <2>2 DEF EntriesStay
    <2> QED
        BY <2>1, <2>2
<1>24. VisitedRegisters
    <2>1. valid => NowFound(at)
        BY <1>2, <1>4, <1>14, <1>18, <1>22 DEF NowFound
    <2> QED
        BY <1>2, <1>19, <2>1 DEF VisitedRegisters
<1> QED
    BY <1>1, <1>2, <1>8, <1>17, <1>20, <1>21, <1>23, <1>24 DEF VisitStep
-----------------------------------------------------------------------------
(* The other steps *)

\* Before FuncResolver there is nothing that the invariant is about.
LEMMA NothingYet ==
    ASSUME PassesInv, pass \in Early, ProgramHandled, flagged = {}, ~crashed
    PROVE  SymbolsInv
<1>1. module = <<>> /\ 1..Len(module) = {} /\ Len(module) = 0
    BY DEF PassesInv, Typed
<1>2. SymbolsFit /\ SymbolsInTables /\ BodiesCounted
    BY <1>1 DEF SymbolsFit, SymbolsInTables, BodiesCounted
<1>3. ASSUME NEW n \in Names
      PROVE  /\ global.symtab[n] = None /\ global.ctors[n] = None
             /\ global.methods[n] = None /\ global.dtors[n] = None
    <2>1. Typed /\ Entered
        BY DEF PassesInv
    <2>2. 1..Len(module) = {}
        BY <1>1
    <2> QED
        BY <2>1, <2>2, EntryThere
<1>4. TablesFit
    BY <1>3 DEF TablesFit
<1>5. \A i : ~Resolved(i) /\ ~WasEmitted(i)
    BY DEF Resolved, WasEmitted
<1>6. Registers /\ FlaggedReported
    BY <1>5 DEF Registers, FlaggedReported
<1> QED
    BY <1>2, <1>4, <1>6 DEF SymbolsInv

LEMMA NotFlaggedYet ==
    ASSUME SymbolsInv, pass \in Early
    PROVE  flagged = {}
BY DEF SymbolsInv, FlaggedReported, Resolved

LEMMA InitSymbols == Init => SymbolsInv
<1> SUFFICES ASSUME Init
             PROVE  SymbolsInv
    OBVIOUS
<1>1. PassesInv
    BY InitPasses
<1>2. program = <<>> /\ pass \in Early /\ flagged = {} /\ ~crashed
    BY DEF Init, Early
<1>3. ProgramHandled
    BY <1>2 DEF ProgramHandled
<1> QED
    BY <1>1, <1>2, <1>3, NothingYet

LEMMA ParseSymbols ==
    ASSUME Handled, SymbolsInv, NEW d \in Decls, Parse(d)
    PROVE  SymbolsInv'
<1>1. PassesInv'
    BY ParseKeeps DEF SymbolsInv
<1>2. pass \in Early /\ pass' \in Early /\ flagged' = flagged /\ ~crashed'
    BY DEF Parse, Early, SymbolsInv
<1>3. flagged' = {}
    BY <1>2, NotFlaggedYet
<1>4. ProgramHandled'
    <2>1. CASE program' = program
        BY <2>1 DEF SymbolsInv, ProgramHandled
    <2>2. CASE program' = Append(program, d)
        <3>1. /\ Len(program) \in Nat /\ Len(program') = Len(program) + 1
              /\ \A i \in 1..Len(program) : program'[i] = program[i]
              /\ program'[Len(program) + 1] = d /\ DOMAIN program = 1..Len(program)
            BY <2>2 DEF SymbolsInv, PassesInv, Typed
        <3>2. d.members # "methods"
            BY DEF Parse, Unhandled, Handled
        <3>3. ASSUME NEW i \in 1..Len(program)
              PROVE  Apart(d, program[i]) /\ Apart(program[i], d)
            <4>1. SUFFICES ASSUME d.k # "class", program[i].k # "class"
                           PROVE  /\ "var" \in {d.k, program[i].k} => d.name # program[i].name
                                  /\ "ext" \in {d.k, program[i].k} =>
                                         SymbolName(d) # SymbolName(program[i])
                BY DEF Apart
            <4>2. program[i] \in {program[j] : j \in {k \in DOMAIN program :
                                                           program[k].k # "class"}}
                BY <3>1, <4>1
            <4> QED
                BY <4>1, <4>2 DEF Parse, Unhandled, Handled, SymbolName
        <3>4. ASSUME NEW i \in 1..Len(program')
              PROVE  /\ program'[i].members # "methods"
                     /\ \A j \in 1..Len(program') : i # j => Apart(program'[i], program'[j])
            <4>1. \A j \in 1..Len(program') : j \in 1..Len(program) \/ j = Len(program) + 1
                BY <3>1
            <4> QED
                BY <3>1, <3>2, <3>3, <4>1 DEF SymbolsInv, ProgramHandled
        <3> QED
            BY <3>4 DEF ProgramHandled, Apart, SymbolName
    <2> QED
        BY <2>1, <2>2 DEF Parse
<1>5. (PassesInv /\ pass \in Early /\ ProgramHandled /\ flagged = {} /\ ~crashed
       => SymbolsInv)'
    BY NothingYet, PTL
<1> QED
    BY <1>1, <1>2, <1>3, <1>4, <1>5

\* The symbols and what is told of them, when none of them is touched.
LEMMA SymbolsRest ==
    ASSUME SymbolsInv, PassesInv', UNCHANGED <<program, global, module, flagged, crashed>>,
           errors => errors',
           \A i \in 1..Len(program) : (Resolved(i)' <=> Resolved(i))
                                      /\ (WasEmitted(i)' <=> WasEmitted(i))
    PROVE  SymbolsInv'
<1>1. program' = program /\ global' = global /\ module' = module /\ flagged' = flagged
    OBVIOUS
<1>2. ProgramHandled'
    BY <1>1 DEF SymbolsInv, ProgramHandled, Apart, SymbolName
<1>3. ASSUME NEW i \in 1..Len(program)
      PROVE  /\ Resolved(i) <=> pass' \notin Early /\ (pass' = "funcs" => i < at')
             /\ WasEmitted(i) <=> /\ pass' \notin Early \cup {"funcs"}
                                  /\ pass' = "emit" => i < at'
    <2>1. /\ Resolved(i)' <=> pass' \notin Early /\ (pass' = "funcs" => i < at')
          /\ WasEmitted(i)' <=> /\ pass' \notin Early \cup {"funcs"}
                                /\ pass' = "emit" => i < at'
        BY DEF Resolved, WasEmitted, Early
    <2> QED
        BY <2>1
<1>4. SymbolsFit'
    <2>1. ASSUME NEW i \in 1..Len(module)
          PROVE  /\ module[i].public => ~module[i].renamed
                 /\ \E d \in 1..Len(program) :
                        /\ d = module[i].decl
                        /\ Fits(module[i], program[d])
                        /\ module[i].role = "func" => d \notin flagged
                        /\ module[i].role \in OfVariable => WasEmitted(d)
                        /\ module[i].role \notin OfVariable => Resolved(d)
        BY DEF SymbolsInv, SymbolsFit
    <2> QED
        BY <1>1, <1>3, <2>1 DEF SymbolsFit, Resolved, WasEmitted, Early
<1>5. SymbolsInTables' /\ TablesFit'
    BY <1>1 DEF SymbolsInv, SymbolsInTables, InTable, TablesFit
<1>6. Registers'
    <2>1. \A i \in 1..Len(program) :
            LET d == program[i]
            IN  /\ d.k = "func" /\ Resolved(i) /\ i \notin flagged => IsFound(i)
                /\ d.k = "ext" /\ Resolved(i) /\ ~errors' => IsFound(i)
                /\ d.k = "var" /\ WasEmitted(i) /\ ~errors' => IsFound(i)
                /\ d.k = "class" /\ Resolved(i) =>
                       /\ global.dtors[d.name] # None
                       /\ d.members = "ctor" => global.ctors[d.name] # None
                       /\ d.members = "method" => global.methods[d.name] # None
        BY DEF SymbolsInv, Registers
    <2> QED
        BY <1>1, <1>3, <2>1 DEF Registers, IsFound, Resolved, WasEmitted, Early
<1>7. BodiesCounted'
    <2>1. ASSUME NEW i \in 1..Len(module)
          PROVE  \E d \in 1..Len(program) :
                    /\ d = module[i].decl
                    /\ module[i].bodies = IF module[i].role \in {"ext", "var"} THEN 0
                                          ELSE IF WasEmitted(d) THEN 1 ELSE 0
        BY DEF SymbolsInv, SymbolsFit, BodiesCounted
    <2> QED
        BY <1>1, <1>3, <2>1 DEF BodiesCounted, WasEmitted, Early
<1>8. FlaggedReported'
    <2>1. \A i \in flagged : errors' /\ i \in 1..Len(program) /\ Resolved(i)
        BY DEF SymbolsInv, FlaggedReported
    <2> QED
        BY <1>1, <1>3, <2>1 DEF FlaggedReported, Resolved, Early
<1>9. ~crashed'
    BY DEF SymbolsInv
<1> QED
    BY <1>2, <1>4, <1>5, <1>6, <1>7, <1>8, <1>9 DEF SymbolsInv

LEMMA EndPassSymbols ==
    ASSUME SymbolsInv, EndPass
    PROVE  SymbolsInv'
<1>1. PassesInv'
    BY EndPassKeeps DEF SymbolsInv
<1>2. /\ pass \in {"parse", "types1", "types2", "funcs", "emit"} /\ at' = 1
      /\ pass = "parse" \/ at > Len(program)
      /\ UNCHANGED <<program, global, module, flagged, errors, crashed>>
      /\ pass = "parse" => pass' = "types1"
      /\ pass = "types1" => pass' = "types2"
      /\ pass = "types2" => pass' = "funcs"
      /\ pass = "funcs" => pass' = "emit"
      /\ pass = "emit" => pass' = "verify"
    BY DEF EndPass, NextOf
<1>3. Len(program) \in Nat /\ at \in Nat
    BY DEF SymbolsInv, PassesInv, Typed
<1>4. ASSUME NEW i \in 1..Len(program)
      PROVE  (Resolved(i)' <=> Resolved(i)) /\ (WasEmitted(i)' <=> WasEmitted(i))
    <2>1. ~(i < 1) /\ (pass # "parse" => i < at)
        BY <1>2, <1>3
    <2> QED
        BY <1>2, <2>1 DEF Resolved, WasEmitted, Early
<1>5. errors => errors'
    BY <1>2
<1>6. UNCHANGED <<program, global, module, flagged, crashed>>
    BY <1>2
<1> QED
    BY <1>1, <1>4, <1>5, <1>6, SymbolsRest

LEMMA TypesSymbols ==
    ASSUME SymbolsInv, GatherInfo \/ Resolve
    PROVE  SymbolsInv'
<1>1. PassesInv'
    BY GatherInfoKeeps, ResolveKeeps DEF SymbolsInv
<1>2. /\ pass \in {"types1", "types2"} /\ pass' = pass
      /\ UNCHANGED <<program, global, module, flagged, crashed>>
      /\ errors' = errors
    BY DEF GatherInfo, Resolve, Visit
<1>3. \A i \in 1..Len(program) : /\ Resolved(i)' <=> Resolved(i)
                                 /\ WasEmitted(i)' <=> WasEmitted(i)
    BY <1>2 DEF Resolved, WasEmitted, Early
<1>4. errors => errors'
    BY <1>2
<1> QED
    BY <1>1, <1>2, <1>3, <1>4, SymbolsRest

\* Verification, linking and the run of the program.
LEMMA RestSymbols ==
    ASSUME SymbolsInv,
           \/ Verify \/ Link \/ RunCtor \/ RunMain \/ Exit \/ RunDtor \/ End \/ Stopped
           \/ UNCHANGED vars
    PROVE  SymbolsInv'
<1>1. Rests
    BY DEF Verify, Link, RunCtor, RunMain, Exit, RunDtor, End, Stopped, vars, Rests, NextOf,
           Passes
<1>2. PassesInv'
    BY <1>1, RestsKeeps DEF SymbolsInv
<1>3. UNCHANGED <<program, global, module, flagged, crashed>>
    BY DEF Verify, Link, RunCtor, RunMain, Exit, RunDtor, End, Stopped, vars
<1>4. errors => errors'
    BY DEF Verify, Link, RunCtor, RunMain, Exit, RunDtor, End, Stopped, vars
<1>5. \/ pass' = pass /\ at' = at
      \/ /\ pass \notin {"parse", "types1", "types2", "funcs", "emit"}
         /\ pass' \notin {"parse", "types1", "types2", "funcs", "emit"}
    BY <1>1 DEF Rests, NextOf
<1>6. \A i \in 1..Len(program) : /\ Resolved(i)' <=> Resolved(i)
                                 /\ WasEmitted(i)' <=> WasEmitted(i)
    BY <1>5 DEF Resolved, WasEmitted, Early
<1> QED
    BY <1>2, <1>3, <1>4, <1>6, SymbolsRest

LEMMA NextSymbols ==
    ASSUME Handled, SymbolsInv, [Next]_vars
    PROVE  SymbolsInv'
<1>1. ASSUME ResolveFunction \/ ResolveClass \/ PassOver \/ EmitFunction \/ EmitExtFunc
             \/ EmitClass \/ VisitVariable
      PROVE  SymbolsInv'
    BY <1>1, ResolveFunctionVisits, ResolveClassVisits, PassOverVisits, EmitFunctionVisits,
       EmitExtFuncVisits, EmitClassVisits, VisitVariableVisits, VisitStepKeeps
<1> QED
    BY <1>1, ParseSymbols, EndPassSymbols, TypesSymbols, RestSymbols DEF Next

LEMMA AlwaysSymbols == Handled => (Spec => []SymbolsInv)
<1> SUFFICES ASSUME Handled
             PROVE  Spec => []SymbolsInv
    OBVIOUS
<1>1. SymbolsInv /\ [Next]_vars => SymbolsInv'
    BY NextSymbols
<1> QED
    BY <1>1, InitSymbols, PTL DEF Spec

\* For programs of any length, without the forms that the passes do not handle: a
\* module without errors has one body for each function, constructor, method and
\* destructor, and every declaration is found under its own name, because the
\* table entry of a name belongs to the first declaration that has it and each
\* later one has been reported; and IREmitter dereferences no null pointer.
THEOREM BodiesOnce == Handled => (Spec => []OneBody)
<1> SUFFICES ASSUME Handled
             PROVE  Spec => []OneBody
    OBVIOUS
<1>1. SymbolsInv => OneBody
    <2> SUFFICES ASSUME SymbolsInv
                 PROVE  OneBody
        OBVIOUS
    <2>1. DOMAIN module = 1..Len(module) /\ DOMAIN program = 1..Len(program)
          /\ module \in Seq(Shape) /\ program \in Seq(Decls)
        BY DEF SymbolsInv, PassesInv, Typed
    <2>2. ~crashed
        BY DEF SymbolsInv
    <2>3. ASSUME Emitted
          PROVE  /\ \A i : Resolved(i) /\ WasEmitted(i)
                 /\ flagged = {} /\ ~errors
        BY <2>3 DEF Emitted, Resolved, WasEmitted, Early, SymbolsInv, FlaggedReported
    <2>4. ASSUME Emitted, NEW i \in 1..Len(module)
          PROVE  module[i].bodies = IF module[i].role \in {"ext", "var"} THEN 0 ELSE 1
        BY <2>3, <2>4 DEF SymbolsInv, BodiesCounted
    <2>5. ASSUME Emitted, NEW i \in 1..Len(program), program[i].k # "class"
          PROVE  IsFound(i)
        <3>1. program[i].k \in {"func", "ext", "var"}
            <4>1. program[i] \in Decl
                BY <2>1, DeclsAssumption
            <4> QED
                BY <2>5, <4>1 DEF Decl
        <3> QED
            BY <2>3, <2>5, <3>1 DEF SymbolsInv, Registers
    <2> QED
        BY <2>1, <2>2, <2>4, <2>5 DEF OneBody, IsFound
<1> QED
    BY <1>1, AlwaysSymbols, PTL

\* For programs of any length, without those forms: what is public is what was
\* declared so, in a public class, and no public symbol has been renamed, because
\* a symbol whose name is taken belongs to a declaration that was reported or is
\* private to the module.
THEOREM PublicNames == Handled => (Spec => []LinkageKept)
<1> SUFFICES ASSUME Handled
             PROVE  Spec => []LinkageKept
    OBVIOUS
<1>1. SymbolsInv => LinkageKept
    <2> SUFFICES ASSUME SymbolsInv
                 PROVE  LinkageKept
        OBVIOUS
    <2>1. DOMAIN module = 1..Len(module)
        BY DEF SymbolsInv, PassesInv, Typed
    <2>2. ASSUME NEW i \in 1..Len(module)
          PROVE  /\ Fits(module[i], program[module[i].decl])
                 /\ module[i].public => ~module[i].renamed
        BY DEF SymbolsInv, SymbolsFit
    <2> QED
        BY <2>1, <2>2 DEF LinkageKept, Fits
<1> QED
    BY <1>1, AlwaysSymbols, PTL

-----------------------------------------------------------------------------
(* The lists of constructors and destructors, and the run of the program *)

Objects == {module[i].decl : i \in {j \in DOMAIN module :
               /\ module[j].role = "var" /\ module[j].type # IntType
               /\ global.dtors[module[j].type] # None}}

\* Each list has one function: of a variable that has been visited, of a global
\* that holds an object.
CtorLists ==
    /\ \A k \in 1..Len(emitter.ctors) : \E i \in 1..Len(program) :
           program[i].k = "var" /\ WasEmitted(i) /\ emitter.ctors[k] = <<i>>
    /\ \A i \in 1..Len(program) :
           program[i].k = "var" /\ WasEmitted(i) =>
               \E k \in 1..Len(emitter.ctors) : emitter.ctors[k] = <<i>>

DtorLists ==
    /\ \A k \in 1..Len(emitter.dtors) : \E i \in Objects : emitter.dtors[k] = <<i>>
    /\ \A i \in Objects : \E k \in 1..Len(emitter.dtors) : emitter.dtors[k] = <<i>>

\* IREmitter has seen to it since it came to the first variable.
NoEarlyRead ==
    (\E i \in 1..Len(program) : program[i].k = "var" /\ WasEmitted(i))
    => ~EarlyRead(emitter.uses)

Running == {"start", "main", "exit", "ended"}

\* One constructor at most has to run, and one destructor.
RunFits ==
    /\ pass \notin Running => run = [live |-> {}, gone |-> {}, touched |-> {}]
    /\ pass \in {"verify", "link"} => at = 1
    /\ pass \in Running =>
           /\ ~errors /\ Len(emitter.ctors) <= 1 /\ Len(emitter.dtors) <= 1
           /\ run \in [live : SUBSET Registered, gone : SUBSET Registered,
                       touched : SUBSET Registered]
    /\ pass = "start" => /\ run.gone = {}
                         /\ \/ at = 1 /\ run.live = {}
                            \/ at = 2 /\ Len(emitter.ctors) = 1 /\ run.live = Registered
    /\ pass = "main" => run.gone = {} /\ run.live = Registered
    /\ pass = "exit" => \/ at = 1 /\ run.gone = {} /\ run.live = Registered
                        \/ at = 2 /\ Len(emitter.dtors) = 1 /\ Objects \subseteq run.gone

LifeInv == SymbolsInv /\ CtorLists /\ DtorLists /\ NoEarlyRead /\ RunFits

\* Nothing is registered before IREmitter comes to the first variable.
LEMMA NoneYet ==
    ASSUME SymbolsInv, pass \in Early \cup {"funcs"}
    PROVE  Registered = {} /\ Objects = {} /\ \A i : ~WasEmitted(i)
<1>1. \A i : ~WasEmitted(i)
    BY DEF WasEmitted
<1>2. \A i \in 1..Len(module) : module[i].role # "var"
    BY <1>1 DEF SymbolsInv, SymbolsFit, OfVariable
<1>3. DOMAIN module = 1..Len(module)
    BY DEF SymbolsInv, PassesInv, Typed
<1> QED
    BY <1>1, <1>2, <1>3 DEF Registered, Objects

\* A visit of anything but a variable registers no variable.
LEMMA NoneMore ==
    ASSUME SymbolsInv, VisitStep, pass = "emit", Visited.k # "var",
           global'.dtors = global.dtors
    PROVE  Registered' = Registered /\ Objects' = Objects
<1>1. /\ Grows(module, module') /\ SymbolsStay
      /\ module \in Seq(Shape) /\ module' \in Seq(Shape)
    BY DEF VisitStep, Resolves, SymbolsInv, PassesInv, Typed, Grows
<1>2. /\ DOMAIN module = 1..Len(module) /\ DOMAIN module' = 1..Len(module')
      /\ Len(module) \in Nat /\ Len(module') \in Nat /\ Len(module) <= Len(module')
    BY <1>1 DEF Grows
<1>3. ASSUME NEW i \in DOMAIN module'
      PROVE  \/ i \in DOMAIN module /\ module'[i].decl = module[i].decl
                /\ module'[i].role = module[i].role /\ module'[i].type = module[i].type
             \/ module'[i].role # "var"
    <2>1. CASE i \in 1..Len(module)
        BY <1>1, <1>2, <2>1 DEF Grows
    <2>2. CASE i \in Len(module) + 1..Len(module')
        BY <2>2 DEF VisitStep, NewSymbolFits, Fits
    <2> QED
        BY <1>2, <2>1, <2>2
<1>4. ASSUME NEW i \in DOMAIN module
      PROVE  /\ i \in DOMAIN module' /\ module'[i].decl = module[i].decl
             /\ module'[i].role = module[i].role /\ module'[i].type = module[i].type
    BY <1>1, <1>2 DEF Grows
<1>5. Registered' = Registered
    BY <1>3, <1>4 DEF Registered
<1>6. Objects' = Objects
    BY <1>3, <1>4 DEF Objects
<1> QED
    BY <1>5, <1>6

\* The visit of a variable registers it, if its initializer is good, and lists its
\* constructor, and its destructor if it holds an object.
VariableListed(valid, hasDtor) ==
    /\ at \notin Registered
    /\ Registered' = IF valid THEN Registered \cup {at} ELSE Registered
    /\ Objects' = IF valid /\ hasDtor THEN Objects \cup {at} ELSE Objects
    /\ emitter'.ctors = Append(emitter.ctors, <<at>>)
    /\ emitter'.dtors = IF valid /\ hasDtor THEN Append(emitter.dtors, <<at>>)
                        ELSE emitter.dtors
    /\ ~EarlyRead(emitter'.uses)

LEMMA VariableIsListed ==
    ASSUME Handled, "EarlyRead" \notin Forms, SymbolsInv, VisitVariable
    PROVE  \E valid \in BOOLEAN, hasDtor \in BOOLEAN : VariableListed(valid, hasDtor)
<1>1. Resolves
    BY VisitVariableResolves DEF SymbolsInv, PassesInv
<1>2. pass = "emit" /\ Visited.k = "var" /\ at \in 1..Len(program) /\ Visited = program[at]
    BY <1>1 DEF VisitVariable, Visit, Resolves, Visited
<1>3. /\ Typed /\ Entered /\ module \in Seq(Shape) /\ global \in Tables /\ Len(module) \in Nat
      /\ DOMAIN module = 1..Len(module)
    BY DEF SymbolsInv, PassesInv, Typed
<1>4. PICK n \in Names : n = Visited.name
    BY <1>2, <1>3, NamesIn
<1>5. PICK pub \in BOOLEAN : pub = IsPublic(Visited.access)
    BY DEF IsPublic
<1>6. PICK valid \in BOOLEAN, hasDtor \in BOOLEAN, type \in Names \cup {IntType},
           ctor \in Seq(Shape), var \in Seq(Shape) :
               VariableMade(n, pub, valid, hasDtor, type, ctor, var)
    BY <1>4, <1>5, VariableIsMade
<1>7. PICK l \in Nat : l = Len(module)
    BY <1>3
<1>8. /\ Len(ctor) = l + 1 /\ \A i \in 1..l : ctor[i] = module[i]
      /\ ctor[l + 1].role = "varctor"
    BY <1>6, <1>7 DEF VariableMade, Created
<1>9. /\ Len(var) = l + 2 /\ \A i \in 1..l + 1 : var[i] = ctor[i]
      /\ var[l + 2].role = "var" /\ var[l + 2].decl = at /\ var[l + 2].type = type
    <2>1. Created(ctor, var, "var", n, pub, 0) /\ var[Len(ctor) + 1].type = type
        BY <1>6 DEF VariableMade
    <2>2. Len(ctor) + 1 = l + 2 /\ 1..Len(ctor) = 1..l + 1
        BY <1>8
    <2> QED
        BY <2>1, <2>2 DEF Created
<1>10. ASSUME valid, hasDtor
       PROVE  /\ module' \in Seq(Shape) /\ Len(module') = l + 3
              /\ \A i \in 1..l + 2 : module'[i] = var[i]
              /\ module'[l + 3].role = "vardtor"
    <2>1. Created(var, module', "vardtor", n, FALSE, 1)
        BY <1>6, <1>10 DEF VariableMade
    <2>2. Len(var) + 1 = l + 3 /\ 1..Len(var) = 1..l + 2
        BY <1>9
    <2> QED
        BY <2>1, <2>2 DEF Created
<1>11. valid /\ ~hasDtor => module' = var
    BY <1>6 DEF VariableMade
<1>12. ~valid => module' = ctor
    BY <1>6 DEF VariableMade
<1>13. module' \in Seq(Shape)
    BY <1>10, <1>11, <1>12
<1>14. /\ DOMAIN module' = 1..Len(module')
       /\ Len(module') = IF ~valid THEN l + 1 ELSE IF hasDtor THEN l + 3 ELSE l + 2
    BY <1>8, <1>9, <1>10, <1>11, <1>12, <1>13
<1>15. \A i \in 1..l : module'[i] = module[i] /\ i \in DOMAIN module'
    <2>1. ASSUME NEW i \in 1..l
          PROVE  i \in 1..l + 1 /\ i \in 1..l + 2 /\ i \in 1..l + 3
        OBVIOUS
    <2> QED
        BY <1>8, <1>9, <1>10, <1>11, <1>12, <1>14, <2>1
<1>16. module'[l + 1].role = "varctor"
    <2>1. l + 1 \in 1..l + 1 /\ l + 1 \in 1..l + 2
        OBVIOUS
    <2> QED
        BY <1>8, <1>9, <1>10, <1>11, <1>12, <2>1
<1>17. valid => /\ l + 2 \in DOMAIN module' /\ module'[l + 2].role = "var"
                /\ module'[l + 2].decl = at /\ module'[l + 2].type = type
    <2>1. l + 2 \in 1..l + 2 /\ l + 2 \in 1..l + 3
        OBVIOUS
    <2> QED
        BY <1>9, <1>10, <1>11, <1>14, <2>1
<1>18. ASSUME NEW i \in DOMAIN module', module'[i].role = "var"
       PROVE  i \in 1..l \/ (valid /\ i = l + 2)
    <2>1. i \in Nat /\ i >= 1 /\ i <= Len(module')
        BY <1>14
    <2>2. i # l + 1
        BY <1>16, <1>18
    <2>3. valid /\ hasDtor => i # l + 3
        BY <1>10, <1>18
    <2> QED
        BY <1>14, <2>1, <2>2, <2>3
<1>19. global'.dtors = global.dtors
    BY <1>3, <1>6 DEF VariableMade, Tables
<1>20. hasDtor <=> type # IntType /\ global.dtors[type] # None
    BY <1>6 DEF VariableMade
<1>21. Registered' = IF valid THEN Registered \cup {at} ELSE Registered
    BY <1>3, <1>7, <1>15, <1>17, <1>18 DEF Registered
<1>22. Objects' = IF valid /\ hasDtor THEN Objects \cup {at} ELSE Objects
    <2>1. ASSUME NEW d \in Objects'
          PROVE  d \in IF valid /\ hasDtor THEN Objects \cup {at} ELSE Objects
        <3>1. PICK i \in DOMAIN module' : /\ module'[i].role = "var" /\ module'[i].type # IntType
                                          /\ global.dtors[module'[i].type] # None
                                          /\ d = module'[i].decl
            BY <1>19 DEF Objects
        <3>2. CASE i \in 1..l
            <4>1. d \in Objects
                BY <1>3, <1>7, <1>15, <3>1, <3>2 DEF Objects
            <4> QED
                BY <4>1
        <3>3. CASE valid /\ i = l + 2
            BY <1>17, <1>20, <3>1, <3>3
        <3> QED
            BY <1>18, <3>1, <3>2, <3>3
    <2>2. ASSUME NEW d \in Objects
          PROVE  d \in Objects'
        <3>1. PICK i \in 1..l : /\ module[i].role = "var" /\ module[i].type # IntType
                                /\ global.dtors[module[i].type] # None
                                /\ d = module[i].decl
            BY <1>3, <1>7 DEF Objects
        <3> QED
            BY <1>15, <1>19, <3>1 DEF Objects
    <2>3. ASSUME valid, hasDtor
          PROVE  at \in Objects'
        <3>1. /\ l + 2 \in DOMAIN module' /\ module'[l + 2].role = "var"
              /\ module'[l + 2].decl = at /\ module'[l + 2].type # IntType
              /\ global'.dtors[module'[l + 2].type] # None
            BY <1>17, <1>19, <1>20, <2>3
        <3> QED
            BY <3>1 DEF Objects
    <2> QED
        BY <2>1, <2>2, <2>3
<1>23. at \notin Registered
    <2>1. \A i \in 1..Len(module) : module[i].decl # at
        BY <1>2, VariableFree
    <2> QED
        BY <1>3, <2>1 DEF Registered
<1>24. VariableListed(valid, hasDtor)
    BY <1>6, <1>21, <1>22, <1>23 DEF VariableMade, VariableListed
<1> QED
    BY <1>24

LEMMA EarlyReadThen ==
    ASSUME UNCHANGED program
    PROVE  EarlyRead(emitter.uses)' <=> EarlyRead(emitter'.uses)
BY DEF EarlyRead, ReadsGlobals

LEMMA WasEmittedThen ==
    ASSUME NEW i
    PROVE  WasEmitted(i)' <=> /\ pass' \notin {"parse", "types1", "types2", "funcs"}
                              /\ pass' = "emit" => i < at'
BY DEF WasEmitted, Early

\* The lists when no variable is visited.
LEMMA ListsStay ==
    ASSUME CtorLists, DtorLists, NoEarlyRead,
           program' = program, Objects' = Objects,
           emitter'.ctors = emitter.ctors, emitter'.dtors = emitter.dtors,
           \A i \in 1..Len(program) : program[i].k = "var" =>
               (WasEmitted(i)' <=> WasEmitted(i)),
           emitter'.uses = emitter.uses \/ ~EarlyRead(emitter'.uses)
    PROVE  CtorLists' /\ DtorLists' /\ NoEarlyRead'
<1>1. DtorLists'
    BY DEF DtorLists
<1>2. \A i \in 1..Len(program) : program[i].k = "var" =>
          (WasEmitted(i) <=> /\ pass' \notin {"parse", "types1", "types2", "funcs"}
                             /\ pass' = "emit" => i < at')
    BY WasEmittedThen
<1>3. CtorLists'
    <2>1. \A k \in 1..Len(emitter.ctors) : \E i \in 1..Len(program) :
              /\ program[i].k = "var" /\ emitter.ctors[k] = <<i>>
              /\ pass' \notin {"parse", "types1", "types2", "funcs"}
              /\ pass' = "emit" => i < at'
        BY <1>2 DEF CtorLists
    <2>2. \A i \in 1..Len(program) :
              /\ program[i].k = "var"
              /\ pass' \notin {"parse", "types1", "types2", "funcs"}
              /\ pass' = "emit" => i < at'
              => \E k \in 1..Len(emitter.ctors) : emitter.ctors[k] = <<i>>
        BY <1>2 DEF CtorLists
    <2> QED
        BY <2>1, <2>2 DEF CtorLists, WasEmitted, Early
<1>4. NoEarlyRead'
    <2>1. SUFFICES ASSUME ~EarlyRead(emitter'.uses) \/
                          \A i \in 1..Len(program) : program[i].k = "var" => ~WasEmitted(i)
                   PROVE  NoEarlyRead'
        <3>1. CASE emitter'.uses = emitter.uses
            BY <2>1, <3>1 DEF NoEarlyRead
        <3> QED
            BY <2>1, <3>1
    <2>2. CASE ~EarlyRead(emitter'.uses)
        BY <2>2, EarlyReadThen DEF NoEarlyRead
    <2>3. CASE \A i \in 1..Len(program) : program[i].k = "var" => ~WasEmitted(i)
        <3>1. \A i \in 1..Len(program) : program[i].k = "var" =>
                  ~(/\ pass' \notin {"parse", "types1", "types2", "funcs"}
                    /\ pass' = "emit" => i < at')
            BY <1>2, <2>3
        <3> QED
            BY <3>1 DEF NoEarlyRead, WasEmitted, Early
    <2> QED
        BY <2>1, <2>2, <2>3
<1> QED
    BY <1>1, <1>3, <1>4

\* Before IREmitter, the lists are empty and nothing is registered.
LEMMA NothingListed ==
    ASSUME SymbolsInv, CtorLists, DtorLists, pass \in Early \cup {"funcs"}
    PROVE  emitter.ctors = <<>> /\ emitter.dtors = <<>>
<1>1. Registered = {} /\ Objects = {} /\ \A i : ~WasEmitted(i)
    BY NoneYet
<1>2. emitter.ctors \in Seq(Seq(Nat)) /\ emitter.dtors \in Seq(Seq(Nat))
    BY DEF SymbolsInv, PassesInv, Typed, Emitter
<1>3. 1..Len(emitter.ctors) = {} /\ 1..Len(emitter.dtors) = {}
    BY <1>1 DEF CtorLists, DtorLists
<1>4. \A s \in Seq(Seq(Nat)) : 1..Len(s) = {} => s = <<>>
    <2>1. SUFFICES ASSUME NEW s \in Seq(Seq(Nat)), 1..Len(s) = {}
                   PROVE  s = <<>>
        OBVIOUS
    <2>2. Len(s) \in Nat /\ ~(1 <= Len(s))
        BY <2>1
    <2> QED
        BY <2>2, EmptySeq
<1> QED
    BY <1>2, <1>3, <1>4

LEMMA NothingListedYet ==
    ASSUME SymbolsInv, emitter.ctors = <<>>, emitter.dtors = <<>>,
           pass \in Early \cup {"funcs"}
    PROVE  CtorLists /\ DtorLists /\ NoEarlyRead
<1>1. Registered = {} /\ Objects = {} /\ \A i : ~WasEmitted(i)
    BY NoneYet
<1>2. 1..Len(emitter.ctors) = {} /\ 1..Len(emitter.dtors) = {}
    OBVIOUS
<1> QED
    BY <1>1, <1>2 DEF CtorLists, DtorLists, NoEarlyRead

LEMMA InitLife == Init => LifeInv
<1> SUFFICES ASSUME Init
             PROVE  LifeInv
    OBVIOUS
<1>1. SymbolsInv
    BY InitSymbols
<1>2. emitter.ctors = <<>> /\ emitter.dtors = <<>> /\ pass \in Early \cup {"funcs"}
    BY DEF Init, Early
<1>3. RunFits
    BY DEF Init, RunFits, Running
<1> QED
    BY <1>1, <1>2, <1>3, NothingListedYet DEF LifeInv

\* Parsing, TypeResolver, FuncResolver.
LEMMA EarlyLife ==
    ASSUME LifeInv, SymbolsInv', pass \in Early \cup {"funcs"}, pass' \in Early \cup {"funcs"},
           UNCHANGED <<emitter, run>>
    PROVE  LifeInv' /\ Registered' = {} /\ Objects' = {}
<1>1. emitter.ctors = <<>> /\ emitter.dtors = <<>>
    BY NothingListed DEF LifeInv
<1>2. emitter'.ctors = <<>> /\ emitter'.dtors = <<>>
    BY <1>1
<1>3. ((/\ SymbolsInv /\ emitter.ctors = <<>> /\ emitter.dtors = <<>>
        /\ pass \in Early \cup {"funcs"})
       => CtorLists /\ DtorLists /\ NoEarlyRead)'
    BY NothingListedYet, PTL
<1>4. (SymbolsInv /\ pass \in Early \cup {"funcs"} => Registered = {} /\ Objects = {})'
    BY NoneYet, PTL
<1>5. RunFits'
    BY DEF LifeInv, RunFits, Running, Early
<1>6. (pass \in Early \cup {"funcs"})'
    BY DEF Early
<1>7. (Registered = {} /\ Objects = {})'
    BY <1>4, <1>6
<1>8. LifeInv'
    BY <1>2, <1>3, <1>5, <1>6 DEF LifeInv
<1> QED
    BY <1>7, <1>8

\* What Lifecycle sees of a step is nothing.
LEMMA Unseen ==
    ASSUME Registered' = Registered, Objects' = Objects, run' = run,
           pass' = pass \/ (pass \notin Running /\ pass' \notin Running)
    PROVE  UNCHANGED Life!vars
BY DEF Life!vars, Objects, Running

\* IREmitter's visit of a function, an external function or a class.
LEMMA EmitLife ==
    ASSUME LifeInv, SymbolsInv', VisitStep, pass = "emit", Visited.k # "var",
           global' = global, run' = run,
           emitter'.ctors = emitter.ctors, emitter'.dtors = emitter.dtors,
           emitter'.uses = emitter.uses \/ ~EarlyRead(emitter'.uses)
    PROVE  LifeInv' /\ UNCHANGED Life!vars
<1>1. /\ program' = program /\ pass' = pass /\ at' = at + 1 /\ at \in 1..Len(program)
      /\ Visited = program[at]
    BY DEF VisitStep, Resolves, Visited
<1>2. Registered' = Registered /\ Objects' = Objects
    BY NoneMore DEF LifeInv
<1>3. ASSUME NEW i \in 1..Len(program), program[i].k = "var"
      PROVE  WasEmitted(i)' <=> WasEmitted(i)
    <2>1. i < at + 1 <=> i < at
        <3>1. i # at
            BY <1>1, <1>3
        <3>2. at \in Nat /\ i \in Nat
            BY <1>1
        <3> QED
            BY <3>1, <3>2
    <2> QED
        BY <1>1, <2>1 DEF WasEmitted, Early
<1>4. CtorLists' /\ DtorLists' /\ NoEarlyRead'
    BY <1>1, <1>2, <1>3, ListsStay DEF LifeInv
<1>5. RunFits'
    BY <1>1 DEF LifeInv, RunFits, Running
<1> QED
    BY <1>1, <1>2, <1>4, <1>5, Unseen DEF LifeInv

\* The visit of a variable is a Declare, if its initializer is good.
LEMMA VariableLife ==
    ASSUME Handled, "EarlyRead" \notin Forms, LifeInv, SymbolsInv', VisitVariable
    PROVE  LifeInv' /\ [Life!Next]_(Life!vars)
<1>1. Resolves
    BY VisitVariableResolves DEF LifeInv, SymbolsInv, PassesInv
<1>2. /\ pass = "emit" /\ Visited.k = "var" /\ at \in 1..Len(program) /\ Visited = program[at]
      /\ program' = program /\ pass' = pass /\ at' = at + 1 /\ run' = run
    BY <1>1 DEF VisitVariable, Visit, Resolves, Visited
<1>3. PICK valid \in BOOLEAN, hasDtor \in BOOLEAN : VariableListed(valid, hasDtor)
    BY VariableIsListed DEF LifeInv
<1>4. emitter.ctors \in Seq(Seq(Nat)) /\ emitter.dtors \in Seq(Seq(Nat))
    BY DEF LifeInv, SymbolsInv, PassesInv, Typed, Emitter
<1>5. PICK one \in Seq(Nat) : one = <<at>>
    <2>1. at \in Nat
        BY <1>2
    <2>2. <<at>> \in Seq(Nat)
        BY <2>1
    <2> QED
        BY <2>2
<1>6. /\ Len(emitter'.ctors) = Len(emitter.ctors) + 1 /\ Len(emitter.ctors) \in Nat
      /\ \A k \in 1..Len(emitter.ctors) : emitter'.ctors[k] = emitter.ctors[k]
      /\ emitter'.ctors[Len(emitter.ctors) + 1] = one
    BY <1>3, <1>4, <1>5, AppendProperties DEF VariableListed
<1>7. ASSUME NEW i \in 1..Len(program)
      PROVE  WasEmitted(i)' <=> WasEmitted(i) \/ i = at
    <2>1. i < at + 1 <=> i < at \/ i = at
        BY <1>2
    <2> QED
        BY <1>2, <2>1 DEF WasEmitted, Early
<1>8. CtorLists'
    <2>1. ASSUME NEW k \in 1..Len(emitter'.ctors)
          PROVE  \E i \in 1..Len(program') : /\ program'[i].k = "var" /\ WasEmitted(i)'
                                             /\ emitter'.ctors[k] = <<i>>
        <3>1. CASE k \in 1..Len(emitter.ctors)
            BY <1>2, <1>6, <1>7, <3>1 DEF LifeInv, CtorLists
        <3>2. CASE k = Len(emitter.ctors) + 1
            BY <1>2, <1>5, <1>6, <1>7, <3>2
        <3> QED
            BY <1>6, <3>1, <3>2
    <2>2. ASSUME NEW i \in 1..Len(program'), program'[i].k = "var", WasEmitted(i)'
          PROVE  \E k \in 1..Len(emitter'.ctors) : emitter'.ctors[k] = <<i>>
        <3>1. CASE i = at
            BY <1>5, <1>6, <3>1
        <3>2. CASE i # at
            <4>1. program[i].k = "var" /\ WasEmitted(i) /\ i \in 1..Len(program)
                BY <1>2, <1>7, <2>2, <3>2
            <4>2. PICK k \in 1..Len(emitter.ctors) : emitter.ctors[k] = <<i>>
                BY <4>1 DEF LifeInv, CtorLists
            <4>3. k \in 1..Len(emitter'.ctors) /\ emitter'.ctors[k] = <<i>>
                BY <1>6, <4>2
            <4> QED
                BY <4>3
        <3> QED
            BY <3>1, <3>2
    <2> QED
        BY <2>1, <2>2 DEF CtorLists
<1>9. DtorLists'
    <2>1. CASE ~(valid /\ hasDtor)
        BY <1>3, <2>1 DEF VariableListed, LifeInv, DtorLists
    <2>2. CASE valid /\ hasDtor
        <3>1. /\ Len(emitter'.dtors) = Len(emitter.dtors) + 1 /\ Len(emitter.dtors) \in Nat
              /\ \A k \in 1..Len(emitter.dtors) : emitter'.dtors[k] = emitter.dtors[k]
              /\ emitter'.dtors[Len(emitter.dtors) + 1] = one
            BY <1>3, <1>4, <1>5, <2>2, AppendProperties DEF VariableListed
        <3>2. Objects' = Objects \cup {at}
            BY <1>3, <2>2 DEF VariableListed
        <3>3. ASSUME NEW k \in 1..Len(emitter'.dtors)
              PROVE  \E i \in Objects' : emitter'.dtors[k] = <<i>>
            <4>1. CASE k \in 1..Len(emitter.dtors)
                BY <3>1, <3>2, <4>1 DEF LifeInv, DtorLists
            <4>2. CASE k = Len(emitter.dtors) + 1
                BY <1>5, <3>1, <3>2, <4>2
            <4> QED
                BY <3>1, <4>1, <4>2
        <3>4. ASSUME NEW i \in Objects'
              PROVE  \E k \in 1..Len(emitter'.dtors) : emitter'.dtors[k] = <<i>>
            <4>1. CASE i = at
                BY <1>5, <3>1, <4>1
            <4>2. CASE i \in Objects
                <5>1. PICK k \in 1..Len(emitter.dtors) : emitter.dtors[k] = <<i>>
                    BY <4>2 DEF LifeInv, DtorLists
                <5>2. k \in 1..Len(emitter'.dtors) /\ emitter'.dtors[k] = <<i>>
                    BY <3>1, <5>1
                <5> QED
                    BY <5>2
            <4> QED
                BY <3>2, <4>1, <4>2
        <3> QED
            BY <3>3, <3>4 DEF DtorLists
    <2> QED
        BY <2>1, <2>2
<1>10. NoEarlyRead'
    BY <1>2, <1>3, EarlyReadThen DEF VariableListed, NoEarlyRead
<1>11. RunFits'
    BY <1>2 DEF LifeInv, RunFits, Running
<1>12. [Life!Next]_(Life!vars)
    <2>1. CASE valid
        <3>1. at \in Index
            <4>1. Len(program) \in Nat /\ Len(program) <= MaxDecls
                BY DEF LifeInv, SymbolsInv, PassesInv, Typed
            <4> QED
                BY <1>2, <4>1, DeclsAssumption DEF Index
        <3>2. Life!Declare(at, hasDtor)
            BY <1>2, <1>3, <2>1 DEF Life!Declare, VariableListed, Objects
        <3> QED
            BY <3>1, <3>2 DEF Life!Next
    <2>2. CASE ~valid
        BY <1>2, <1>3, <2>2, Unseen DEF VariableListed
    <2> QED
        BY <2>1, <2>2
<1> QED
    BY <1>8, <1>9, <1>10, <1>11, <1>12 DEF LifeInv

\* When only the pass goes on, or the program runs.
LEMMA ListsRest ==
    ASSUME LifeInv, UNCHANGED <<program, global, module, emitter>>,
           \A i \in 1..Len(program) : WasEmitted(i)' <=> WasEmitted(i)
    PROVE  /\ CtorLists' /\ DtorLists' /\ NoEarlyRead'
           /\ Registered' = Registered /\ Objects' = Objects
<1>1. Registered' = Registered /\ Objects' = Objects
    BY DEF Registered, Objects
<1> QED
    BY <1>1, ListsStay DEF LifeInv

LEMMA EndPassLife ==
    ASSUME LifeInv, SymbolsInv', EndPass
    PROVE  LifeInv' /\ UNCHANGED Life!vars
<1>1. /\ pass \in {"parse", "types1", "types2", "funcs", "emit"} /\ at' = 1
      /\ pass = "parse" \/ at > Len(program)
      /\ UNCHANGED <<program, global, module, emitter, run>>
      /\ pass = "parse" => pass' = "types1"
      /\ pass = "types1" => pass' = "types2"
      /\ pass = "types2" => pass' = "funcs"
      /\ pass = "funcs" => pass' = "emit"
      /\ pass = "emit" => pass' = "verify"
    BY DEF EndPass, NextOf
<1>2. Len(program) \in Nat /\ at \in Nat
    BY DEF LifeInv, SymbolsInv, PassesInv, Typed
<1>3. ASSUME NEW i \in 1..Len(program)
      PROVE  WasEmitted(i)' <=> WasEmitted(i)
    <2>1. ~(i < 1) /\ (pass # "parse" => i < at)
        BY <1>1, <1>2
    <2> QED
        BY <1>1, <2>1 DEF WasEmitted, Early
<1>4. /\ CtorLists' /\ DtorLists' /\ NoEarlyRead'
      /\ Registered' = Registered /\ Objects' = Objects
    BY <1>1, <1>3, ListsRest
<1>5. RunFits'
    BY <1>1 DEF LifeInv, RunFits, Running
<1>6. UNCHANGED Life!vars
    BY <1>1, <1>4, Unseen DEF Running
<1> QED
    BY <1>4, <1>5, <1>6 DEF LifeInv

\* What is in the lists has been registered, in a module without errors.
LEMMA ListedRegistered ==
    ASSUME LifeInv, pass \notin Early \cup {"funcs", "emit"}, ~errors,
           NEW i \in 1..Len(program), program[i].k = "var"
    PROVE  i \in Registered
<1>1. WasEmitted(i)
    BY DEF WasEmitted
<1>2. /\ Typed /\ Entered /\ module \in Seq(Shape) /\ DOMAIN module = 1..Len(module)
    BY DEF LifeInv, SymbolsInv, PassesInv, Typed
<1>3. PICK n \in Names : n = program[i].name
    BY <1>2, NamesIn
<1>4. global.symtab[n] # None /\ module[global.symtab[n]].decl = i
    BY <1>1, <1>3 DEF LifeInv, SymbolsInv, Registers, IsFound
<1>5. PICK s \in 1..Len(module) : s = global.symtab[n]
    BY <1>2, <1>4, EntryThere
<1>6. module[s].role \in {"func", "ext", "var"}
    BY <1>4, <1>5 DEF LifeInv, SymbolsInv, TablesFit
<1>7. Fits(module[s], program[i])
    BY <1>4, <1>5 DEF LifeInv, SymbolsInv, SymbolsFit
<1>8. module[s].role = "var"
    BY <1>6, <1>7 DEF Fits
<1> QED
    BY <1>2, <1>4, <1>5, <1>8 DEF Registered

LEMMA RegisteredListed ==
    ASSUME LifeInv, NEW d \in Registered
    PROVE  /\ d \in 1..Len(program) /\ program[d].k = "var"
           /\ \E k \in 1..Len(emitter.ctors) : emitter.ctors[k] = <<d>>
<1>1. module \in Seq(Shape) /\ DOMAIN module = 1..Len(module)
    BY DEF LifeInv, SymbolsInv, PassesInv, Typed
<1>2. PICK s \in 1..Len(module) : module[s].role = "var" /\ d = module[s].decl
    BY <1>1 DEF Registered
<1>3. d \in 1..Len(program) /\ Fits(module[s], program[d]) /\ WasEmitted(d)
    BY <1>2 DEF LifeInv, SymbolsInv, SymbolsFit, OfVariable
<1>4. program[d].k = "var"
    BY <1>2, <1>3 DEF Fits
<1> QED
    BY <1>3, <1>4 DEF LifeInv, CtorLists

\* With one constructor at most, there is one global at most.
LEMMA OneCtor ==
    ASSUME LifeInv, pass \in Running
    PROVE  \/ emitter.ctors = <<>> /\ FirstOf(emitter.ctors) = <<>> /\ Registered = {}
           \/ \E i \in 1..Len(program) :
                  /\ program[i].k = "var" /\ emitter.ctors[1] = <<i>>
                  /\ FirstOf(emitter.ctors) = <<i>> /\ Registered = {i}
<1>1. emitter.ctors \in Seq(Seq(Nat)) /\ Len(emitter.ctors) <= 1 /\ ~errors
    BY DEF LifeInv, RunFits, SymbolsInv, PassesInv, Typed, Emitter
<1>2. CASE Len(emitter.ctors) = 0
    <2>1. emitter.ctors = <<>>
        BY <1>1, <1>2, EmptySeq
    <2>2. 1..Len(emitter.ctors) = {}
        BY <1>2
    <2>3. Registered = {}
        BY <2>2, RegisteredListed
    <2> QED
        BY <2>1, <2>3 DEF FirstOf
<1>3. CASE Len(emitter.ctors) = 1
    <2>1. 1 \in 1..Len(emitter.ctors) /\ \A k \in 1..Len(emitter.ctors) : k = 1
        BY <1>3
    <2>2. PICK i \in 1..Len(program) : program[i].k = "var" /\ emitter.ctors[1] = <<i>>
        BY <2>1 DEF LifeInv, CtorLists
    <2>3. i \in Registered
        BY <1>1, <2>2, ListedRegistered DEF Running, Early
    <2>4. ASSUME NEW d \in Registered
          PROVE  d = i
        <3>1. <<d>> = <<i>>
            BY <2>1, <2>2, RegisteredListed
        <3> QED
            BY <3>1
    <2>5. Registered = {i}
        BY <2>3, <2>4
    <2>6. FirstOf(emitter.ctors) = <<i>>
        <3>1. emitter.ctors # <<>>
            BY <1>3
        <3> QED
            BY <2>2, <3>1 DEF FirstOf
    <2> QED
        BY <2>2, <2>5, <2>6
<1>4. Len(emitter.ctors) \in {0, 1}
    <2>1. PICK l \in Nat : l = Len(emitter.ctors)
        BY <1>1
    <2>2. l <= 1
        BY <1>1, <2>1
    <2>3. l = 0 \/ l = 1
        BY <2>2
    <2> QED
        BY <2>1, <2>3
<1> QED
    BY <1>2, <1>3, <1>4

LEMMA OneDtor ==
    ASSUME LifeInv, pass \in Running
    PROVE  \/ emitter.dtors = <<>> /\ FirstOf(emitter.dtors) = <<>> /\ Objects = {}
           \/ \E i \in Objects : /\ emitter.dtors[1] = <<i>>
                                 /\ FirstOf(emitter.dtors) = <<i>> /\ Objects = {i}
<1>1. emitter.dtors \in Seq(Seq(Nat)) /\ Len(emitter.dtors) <= 1
    BY DEF LifeInv, RunFits, SymbolsInv, PassesInv, Typed, Emitter
<1>2. CASE Len(emitter.dtors) = 0
    <2>1. emitter.dtors = <<>>
        BY <1>1, <1>2, EmptySeq
    <2>2. 1..Len(emitter.dtors) = {}
        BY <1>2
    <2>3. Objects = {}
        BY <2>2 DEF LifeInv, DtorLists
    <2> QED
        BY <2>1, <2>3 DEF FirstOf
<1>3. CASE Len(emitter.dtors) = 1
    <2>1. 1 \in 1..Len(emitter.dtors) /\ \A k \in 1..Len(emitter.dtors) : k = 1
        BY <1>3
    <2>2. PICK i \in Objects : emitter.dtors[1] = <<i>>
        BY <2>1 DEF LifeInv, DtorLists
    <2>3. ASSUME NEW d \in Objects
          PROVE  d = i
        <3>1. <<d>> = <<i>>
            BY <2>1, <2>2 DEF LifeInv, DtorLists
        <3> QED
            BY <3>1
    <2>4. Objects = {i}
        BY <2>2, <2>3
    <2>5. FirstOf(emitter.dtors) = <<i>>
        <3>1. emitter.dtors # <<>>
            BY <1>3
        <3> QED
            BY <2>2, <3>1 DEF FirstOf
    <2> QED
        BY <2>2, <2>4, <2>5
<1>4. Len(emitter.dtors) \in {0, 1}
    <2>1. PICK l \in Nat : l = Len(emitter.dtors)
        BY <1>1
    <2>2. l <= 1
        BY <1>1, <2>1
    <2>3. l = 0 \/ l = 1
        BY <2>2
    <2> QED
        BY <2>1, <2>3
<1> QED
    BY <1>2, <1>3, <1>4

LEMMA LinkLife ==
    ASSUME LifeInv, SymbolsInv', Verify \/ Link
    PROVE  LifeInv' /\ [Life!Next]_(Life!vars)
<1>1. /\ pass \in {"verify", "link"} /\ pass' \in {"link", "rejected", "start"}
      /\ UNCHANGED <<program, at, global, module, emitter, run>>
      /\ pass = "verify" => pass' = "link"
      /\ pass = "link" =>
             /\ pass' \in {"rejected", "start"} /\ errors' = errors
             /\ pass' = "start" =>
                    ~errors /\ ~(Len(emitter.ctors) > 1) /\ ~(Len(emitter.dtors) > 1)
    BY DEF Verify, Link
<1>2. \A i \in 1..Len(program) : WasEmitted(i)' <=> WasEmitted(i)
    BY <1>1 DEF WasEmitted, Early
<1>3. /\ CtorLists' /\ DtorLists' /\ NoEarlyRead'
      /\ Registered' = Registered /\ Objects' = Objects
    BY <1>1, <1>2, ListsRest
<1>4. at = 1 /\ run = [live |-> {}, gone |-> {}, touched |-> {}]
    BY <1>1 DEF LifeInv, RunFits, Running
<1>5. RunFits'
    <2>1. CASE pass' # "start"
        BY <1>1, <1>4, <2>1 DEF RunFits, Running
    <2>2. CASE pass' = "start"
        <3>1. PICK lc \in Nat, ld \in Nat : lc = Len(emitter.ctors) /\ ld = Len(emitter.dtors)
            BY DEF LifeInv, SymbolsInv, PassesInv, Typed, Emitter
        <3>2. Len(emitter.ctors) <= 1 /\ Len(emitter.dtors) <= 1 /\ ~errors
            BY <1>1, <2>2, <3>1
        <3> QED
            BY <1>1, <1>4, <2>2, <3>2 DEF RunFits, Running
    <2> QED
        BY <2>1, <2>2
<1>6. [Life!Next]_(Life!vars)
    <2>1. CASE pass' # "start"
        BY <1>1, <1>3, <2>1, Unseen DEF Running
    <2>2. CASE pass' = "start"
        <3>1. Life!Start
            BY <1>1, <1>3, <2>2 DEF Life!Start, Objects
        <3> QED
            BY <3>1 DEF Life!Next
    <2> QED
        BY <2>1, <2>2
<1> QED
    BY <1>3, <1>5, <1>6 DEF LifeInv

\* While the program runs.
LEMMA RunRest ==
    ASSUME LifeInv, pass \in Running, pass' \in Running,
           UNCHANGED <<program, global, module, emitter, errors>>
    PROVE  /\ CtorLists' /\ DtorLists' /\ NoEarlyRead'
           /\ Registered' = Registered /\ Objects' = Objects
<1>1. \A i \in 1..Len(program) : WasEmitted(i)' <=> WasEmitted(i)
    BY DEF WasEmitted, Early, Running
<1> QED
    BY <1>1, ListsRest

Runs == [live : SUBSET Registered, gone : SUBSET Registered, touched : SUBSET Registered]

\* The one constructor reads no other global: that would be one below it in the text.
LEMMA RunCtorLife ==
    ASSUME LifeInv, SymbolsInv', RunCtor
    PROVE  LifeInv' /\ [Life!Next]_(Life!vars)
<1>1. /\ pass = "start" /\ pass' = "start" /\ at' = at + 1
      /\ at <= Len(FirstOf(emitter.ctors))
      /\ UNCHANGED <<program, global, module, emitter, errors>>
    BY DEF RunCtor
<1>2. /\ CtorLists' /\ DtorLists' /\ NoEarlyRead'
      /\ Registered' = Registered /\ Objects' = Objects
    BY <1>1, RunRest DEF Running
<1>3. /\ at \in Nat \ {0} /\ DOMAIN program = 1..Len(program)
      /\ Len(program) \in Nat /\ Len(program) <= MaxDecls
    BY DEF LifeInv, SymbolsInv, PassesInv, Typed
<1>4. pass \in Running /\ ~errors /\ run \in Runs /\ run.gone = {}
      /\ Len(emitter.ctors) <= 1 /\ Len(emitter.dtors) <= 1
    BY <1>1 DEF LifeInv, RunFits, Running, Runs
<1>5. PICK i \in 1..Len(program) : /\ program[i].k = "var" /\ emitter.ctors[1] = <<i>>
                                   /\ FirstOf(emitter.ctors) = <<i>> /\ Registered = {i}
    <2>1. FirstOf(emitter.ctors) # <<>>
        BY <1>1, <1>3
    <2> QED
        BY <1>4, <2>1, OneCtor
<1>6. at = 1 /\ run.live = {}
    <2>1. at <= 1
        BY <1>1, <1>5
    <2>2. at = 1
        BY <1>3, <2>1
    <2> QED
        BY <1>1, <2>2 DEF LifeInv, RunFits
<1>7. ReadsGlobals(emitter.uses, i) = {}
    <2>1. SUFFICES ASSUME NEW j \in ReadsGlobals(emitter.uses, i)
                   PROVE  FALSE
        OBVIOUS
    <2>2. j \in 1..Len(program) /\ program[j].k = "var"
        BY <1>3 DEF ReadsGlobals
    <2>3. j = i
        BY <1>1, <1>4, <1>5, <2>2, ListedRegistered DEF Early
    <2>4. WasEmitted(i)
        BY <1>1 DEF WasEmitted, Early
    <2>5. ~EarlyRead(emitter.uses)
        BY <1>5, <2>4 DEF LifeInv, NoEarlyRead
    <2> QED
        BY <1>3, <1>5, <2>3, <2>5 DEF EarlyRead
<1>8. run' = [run EXCEPT !.live = {i}, !.touched = {}]
    <2>1. emitter.ctors[1][at] = i
        BY <1>5, <1>6
    <2>2. run' = [run EXCEPT !.live = @ \cup {i}, !.touched = ReadsGlobals(emitter.uses, i)]
        BY <2>1 DEF RunCtor
    <2> QED
        BY <1>6, <1>7, <2>2
<1>9. run'.live = {i} /\ run'.gone = {} /\ run'.touched = {} /\ run' \in Runs
    BY <1>4, <1>5, <1>8 DEF Runs
<1>10. Len(emitter.ctors) = 1
    <2>1. emitter.ctors \in Seq(Seq(Nat)) /\ emitter.ctors # <<>>
        <3>1. emitter.ctors # <<>>
            BY <1>5 DEF FirstOf
        <3> QED
            BY <3>1 DEF LifeInv, SymbolsInv, PassesInv, Typed, Emitter
    <2>2. PICK l \in Nat : l = Len(emitter.ctors) /\ l # 0
        BY <2>1, EmptySeq
    <2>3. l <= 1
        BY <1>4, <2>2
    <2>4. l = 0 \/ l = 1
        BY <2>3
    <2> QED
        BY <2>2, <2>4
<1>11. RunFits'
    BY <1>1, <1>2, <1>4, <1>5, <1>6, <1>9, <1>10 DEF RunFits, Running, Runs
<1>12. Life!Construct(i)
    BY <1>1, <1>2, <1>4, <1>5, <1>6, <1>9 DEF Life!Construct, Objects
<1>13. i \in Index
    BY <1>3, DeclsAssumption DEF Index
<1> QED
    BY <1>2, <1>11, <1>12, <1>13 DEF LifeInv, Life!Next

LEMMA RunMainLife ==
    ASSUME LifeInv, SymbolsInv', RunMain
    PROVE  LifeInv' /\ [Life!Next]_(Life!vars)
<1>1. /\ pass = "start" /\ pass' = "main" /\ at > Len(FirstOf(emitter.ctors))
      /\ run' = [run EXCEPT !.touched = Registered]
      /\ UNCHANGED <<program, at, global, module, emitter, errors>>
    BY DEF RunMain
<1>2. /\ CtorLists' /\ DtorLists' /\ NoEarlyRead'
      /\ Registered' = Registered /\ Objects' = Objects
    BY <1>1, RunRest DEF Running
<1>3. pass \in Running /\ ~errors /\ run \in Runs /\ run.gone = {}
      /\ Len(emitter.ctors) <= 1 /\ Len(emitter.dtors) <= 1
    BY <1>1 DEF LifeInv, RunFits, Running, Runs
<1>4. run.live = Registered
    <2>1. CASE at = 1 /\ run.live = {}
        <3>1. \A i : FirstOf(emitter.ctors) # <<i>>
            BY <1>1, <2>1
        <3> QED
            BY <1>3, <2>1, <3>1, OneCtor
    <2> QED
        BY <1>1, <2>1 DEF LifeInv, RunFits
<1>5. /\ run'.live = Registered /\ run'.gone = {} /\ run'.touched = Registered
      /\ run' \in Runs
    BY <1>1, <1>3, <1>4 DEF Runs
<1>6. RunFits'
    BY <1>1, <1>2, <1>3, <1>5 DEF RunFits, Running, Runs
<1>7. Life!Main
    BY <1>1, <1>2, <1>3, <1>4, <1>5 DEF Life!Main, Objects
<1> QED
    BY <1>2, <1>6, <1>7 DEF LifeInv, Life!Next

LEMMA ExitLife ==
    ASSUME LifeInv, SymbolsInv', Exit
    PROVE  LifeInv' /\ [Life!Next]_(Life!vars)
<1>1. /\ pass = "main" /\ pass' = "exit" /\ at' = 1
      /\ UNCHANGED <<program, global, module, emitter, errors, run>>
    BY DEF Exit
<1>2. /\ CtorLists' /\ DtorLists' /\ NoEarlyRead'
      /\ Registered' = Registered /\ Objects' = Objects
    BY <1>1, RunRest DEF Running
<1>3. RunFits'
    BY <1>1, <1>2 DEF LifeInv, RunFits, Running
<1>4. Life!Exit
    BY <1>1, <1>2 DEF Life!Exit, Objects
<1> QED
    BY <1>2, <1>3, <1>4 DEF LifeInv, Life!Next

LEMMA RunDtorLife ==
    ASSUME LifeInv, SymbolsInv', RunDtor
    PROVE  LifeInv' /\ [Life!Next]_(Life!vars)
<1>1. /\ pass = "exit" /\ pass' = "exit" /\ at' = at + 1
      /\ at <= Len(FirstOf(emitter.dtors))
      /\ UNCHANGED <<program, global, module, emitter, errors>>
    BY DEF RunDtor
<1>2. /\ CtorLists' /\ DtorLists' /\ NoEarlyRead'
      /\ Registered' = Registered /\ Objects' = Objects
    BY <1>1, RunRest DEF Running
<1>3. /\ at \in Nat \ {0} /\ Len(program) \in Nat /\ Len(program) <= MaxDecls
    BY DEF LifeInv, SymbolsInv, PassesInv, Typed
<1>4. pass \in Running /\ ~errors /\ run \in Runs
      /\ Len(emitter.ctors) <= 1 /\ Len(emitter.dtors) <= 1
    BY <1>1 DEF LifeInv, RunFits, Running, Runs
<1>5. PICK i \in Objects : /\ emitter.dtors[1] = <<i>> /\ Objects = {i}
                           /\ FirstOf(emitter.dtors) = <<i>>
    <2>1. FirstOf(emitter.dtors) # <<>>
        BY <1>1, <1>3
    <2> QED
        BY <1>4, <2>1, OneDtor
<1>6. at = 1 /\ run.gone = {} /\ run.live = Registered
    <2>1. at <= 1
        BY <1>1, <1>5
    <2>2. at = 1
        BY <1>3, <2>1
    <2> QED
        BY <1>1, <2>2 DEF LifeInv, RunFits
<1>7. run' = [live |-> run.live \ {i}, gone |-> run.gone \cup {i}, touched |-> {i}]
    BY <1>5, <1>6 DEF RunDtor
<1>8. i \in Registered
    BY DEF Objects, Registered
<1>9. /\ run'.live = Registered \ {i} /\ run'.gone = {i} /\ run'.touched = {i}
      /\ run' \in Runs
    BY <1>4, <1>6, <1>7, <1>8 DEF Runs
<1>10. Len(emitter.dtors) = 1
    <2>1. emitter.dtors \in Seq(Seq(Nat)) /\ emitter.dtors # <<>>
        <3>1. emitter.dtors # <<>>
            BY <1>5 DEF FirstOf
        <3> QED
            BY <3>1 DEF LifeInv, SymbolsInv, PassesInv, Typed, Emitter
    <2>2. PICK l \in Nat : l = Len(emitter.dtors) /\ l # 0
        BY <2>1, EmptySeq
    <2>3. l <= 1
        BY <1>4, <2>2
    <2>4. l = 0 \/ l = 1
        BY <2>3
    <2> QED
        BY <2>2, <2>4
<1>11. RunFits'
    BY <1>1, <1>2, <1>4, <1>5, <1>6, <1>9, <1>10 DEF RunFits, Running, Runs
<1>12. Life!Destroy(i)
    BY <1>1, <1>2, <1>5, <1>6, <1>8, <1>9 DEF Life!Destroy, Objects
<1>13. i \in Index
    <2>1. i \in 1..Len(program)
        BY <1>8, RegisteredListed
    <2> QED
        BY <1>3, <2>1, DeclsAssumption DEF Index
<1> QED
    BY <1>2, <1>11, <1>12, <1>13 DEF LifeInv, Life!Next

LEMMA EndLife ==
    ASSUME LifeInv, SymbolsInv', End
    PROVE  LifeInv' /\ [Life!Next]_(Life!vars)
<1>1. /\ pass = "exit" /\ pass' = "ended" /\ at > Len(FirstOf(emitter.dtors))
      /\ UNCHANGED <<program, at, global, module, emitter, errors, run>>
    BY DEF End
<1>2. /\ CtorLists' /\ DtorLists' /\ NoEarlyRead'
      /\ Registered' = Registered /\ Objects' = Objects
    BY <1>1, RunRest DEF Running
<1>3. Objects \subseteq run.gone
    <2>1. CASE at = 1
        <3>1. \A i : FirstOf(emitter.dtors) # <<i>>
            BY <1>1, <2>1
        <3>2. Objects = {}
            BY <1>1, <3>1, OneDtor DEF Running
        <3> QED
            BY <3>2
    <2> QED
        BY <1>1, <2>1 DEF LifeInv, RunFits
<1>4. RunFits'
    BY <1>1, <1>2 DEF LifeInv, RunFits, Running
<1>5. Life!End
    BY <1>1, <1>2, <1>3 DEF Life!End, Objects
<1> QED
    BY <1>2, <1>4, <1>5 DEF LifeInv, Life!Next

LEMMA InitLifecycle == LifeInv /\ Init => Life!Init
<1> SUFFICES ASSUME LifeInv, Init
             PROVE  Life!Init
    OBVIOUS
<1>1. Registered = {} /\ Objects = {}
    BY NoneYet DEF LifeInv, Init, Early
<1>2. pass = "parse" /\ run = [live |-> {}, gone |-> {}, touched |-> {}]
    BY DEF Init
<1> QED
    BY <1>1, <1>2 DEF Life!Init, Objects

\* Visits of IREmitter other than a variable's.
LEMMA EmitsLife ==
    ASSUME Handled, "EarlyRead" \notin Forms, LifeInv, SymbolsInv',
           EmitFunction \/ EmitExtFunc \/ EmitClass
    PROVE  LifeInv' /\ UNCHANGED Life!vars
<1>1. VisitStep
    BY EmitFunctionVisits, EmitExtFuncVisits, EmitClassVisits DEF LifeInv
<1>2. /\ pass = "emit" /\ global' = global /\ run' = run
      /\ Visited.k # "var"
    BY DEF EmitFunction, EmitExtFunc, EmitClass, Visit
<1>3. /\ emitter'.ctors = emitter.ctors /\ emitter'.dtors = emitter.dtors
      /\ emitter'.uses = emitter.uses \/ ~EarlyRead(emitter'.uses)
    <2>1. CASE emitter' = emitter
        BY <2>1
    <2>2. CASE \E d : Uses(d)
        <3>1. PICK d : Uses(d)
            BY <2>2
        <3>2. emitter' = [emitter EXCEPT !.uses[at] = d] /\ ~EarlyRead(emitter'.uses)
            BY <3>1 DEF Uses
        <3>3. emitter \in Emitter
            BY DEF LifeInv, SymbolsInv, PassesInv, Typed
        <3> QED
            BY <3>2, <3>3 DEF Emitter
    <2>3. emitter' = emitter \/ \E d : Uses(d)
        BY DEF EmitFunction, EmitExtFunc, EmitClass
    <2> QED
        BY <2>1, <2>2, <2>3
<1> QED
    BY <1>1, <1>2, <1>3, EmitLife

\* Steps before IREmitter.
LEMMA EarlyStepsLife ==
    ASSUME LifeInv, SymbolsInv',
           \/ \E d \in Decls : Parse(d)
           \/ GatherInfo \/ Resolve \/ ResolveFunction \/ ResolveClass \/ PassOver
    PROVE  LifeInv' /\ UNCHANGED Life!vars
<1>1. /\ pass \in Early \cup {"funcs"} /\ pass' = pass /\ UNCHANGED <<emitter, run>>
    BY DEF Parse, GatherInfo, Resolve, ResolveFunction, ResolveClass, PassOver, Visit, Early
<1>2. LifeInv' /\ Registered' = {} /\ Objects' = {}
    BY <1>1, EarlyLife
<1>3. Registered = {} /\ Objects = {}
    BY <1>1, NoneYet DEF LifeInv
<1> QED
    BY <1>1, <1>2, <1>3, Unseen

LEMMA NextLife ==
    ASSUME Handled, "EarlyRead" \notin Forms, LifeInv, [Next]_vars
    PROVE  LifeInv' /\ [Life!Next]_(Life!vars)
<1>1. SymbolsInv'
    BY NextSymbols DEF LifeInv
<1>2. CASE Stopped \/ UNCHANGED vars
    <2>1. UNCHANGED <<program, pass, at, global, module, emitter, errors, run>>
        BY <1>2 DEF Stopped, vars
    <2>2. \A i \in 1..Len(program) : WasEmitted(i)' <=> WasEmitted(i)
        BY <2>1 DEF WasEmitted, Early
    <2>3. /\ CtorLists' /\ DtorLists' /\ NoEarlyRead'
          /\ Registered' = Registered /\ Objects' = Objects
        BY <2>1, <2>2, ListsRest
    <2>4. RunFits'
        BY <2>1, <2>3 DEF LifeInv, RunFits
    <2> QED
        BY <1>1, <2>1, <2>3, <2>4, Unseen DEF LifeInv
<1>3. CASE \/ \E d \in Decls : Parse(d)
           \/ GatherInfo \/ Resolve \/ ResolveFunction \/ ResolveClass \/ PassOver
    BY <1>1, <1>3, EarlyStepsLife
<1>4. CASE EndPass
    BY <1>1, <1>4, EndPassLife
<1>5. CASE EmitFunction \/ EmitExtFunc \/ EmitClass
    BY <1>1, <1>5, EmitsLife
<1>6. CASE VisitVariable
    BY <1>1, <1>6, VariableLife
<1>7. CASE Verify \/ Link
    BY <1>1, <1>7, LinkLife
<1>8. CASE RunCtor
    BY <1>1, <1>8, RunCtorLife
<1>9. CASE RunMain
    BY <1>1, <1>9, RunMainLife
<1>10. CASE Exit
    BY <1>1, <1>10, ExitLife
<1>11. CASE RunDtor
    BY <1>1, <1>11, RunDtorLife
<1>12. CASE End
    BY <1>1, <1>12, EndLife
<1> QED
    BY <1>2, <1>3, <1>4, <1>5, <1>6, <1>7, <1>8, <1>9, <1>10, <1>11, <1>12 DEF Next

LEMMA AlwaysLife == Handled /\ "EarlyRead" \notin Forms => (Spec => []LifeInv)
<1> SUFFICES ASSUME Handled, "EarlyRead" \notin Forms
             PROVE  Spec => []LifeInv
    OBVIOUS
<1>1. LifeInv /\ [Next]_vars => LifeInv'
    BY NextLife
<1> QED
    BY <1>1, InitLife, PTL DEF Spec

\* Globals implements Lifecycle, for programs of any length without the forms that
\* the passes do not handle: each global of a module that links is set up once,
\* before main, and taken down once if it holds an object, and no code reads a
\* global outside that time. A second variable's list is what keeps such a module
\* from being linked; with one variable, an initializer that read a global could
\* only read its own.
THEOREM ImplementsLifecycle ==
    Handled /\ "EarlyRead" \notin Forms => (Spec => KeepsLifecycle)
<1> SUFFICES ASSUME Handled, "EarlyRead" \notin Forms
             PROVE  Spec => KeepsLifecycle
    OBVIOUS
<1>1. Init => Life!Init
    BY InitLife, InitLifecycle
<1>2. LifeInv /\ [Next]_vars => [Life!Next]_(Life!vars)
    BY NextLife
<1>3. Spec => []LifeInv
    BY AlwaysLife
<1> QED
    BY <1>1, <1>2, <1>3, PTL DEF Spec, KeepsLifecycle, Life!Spec

-----------------------------------------------------------------------------
(* Types *)

\* What Typed and LifeInv leave open: where a pass can be, and what a name in the
\* code refers to.
Bounded ==
    /\ pass = "parse" => at = 1
    /\ pass \in {"types1", "types2", "funcs", "emit"} => at <= Len(program) + 1
    /\ pass = "rejected" => at = 1
    /\ pass \in Running => at <= MaxDecls + 1
    /\ emitter.uses \in [Index -> {None} \cup 1..Len(program)]
    /\ errors \in BOOLEAN /\ crashed \in BOOLEAN

LEMMA InitBounded == Init => Bounded
<1> SUFFICES ASSUME Init
             PROVE  Bounded
    OBVIOUS
<1> QED
    BY DeclsAssumption DEF Init, Bounded, Running

LEMMA FlagsBoolean ==
    ASSUME Bounded, [Next]_vars
    PROVE  errors' \in BOOLEAN /\ crashed' \in BOOLEAN
<1>1. errors \in BOOLEAN /\ crashed \in BOOLEAN
    BY DEF Bounded
<1>2. CASE \/ \E d \in Decls : Parse(d)
           \/ EndPass \/ GatherInfo \/ Resolve \/ ResolveFunction \/ ResolveClass \/ PassOver
    BY <1>1, <1>2
    DEF Parse, EndPass, GatherInfo, Resolve, ResolveFunction, ResolveClass, PassOver
<1>3. CASE EmitFunction
    BY <1>1, <1>3 DEF EmitFunction
<1>4. CASE EmitExtFunc \/ EmitClass
    BY <1>1, <1>4 DEF EmitExtFunc, EmitClass
<1>5. CASE VisitVariable
    BY <1>1, <1>5 DEF VisitVariable
<1>6. CASE Verify \/ Link \/ RunCtor \/ RunMain \/ Exit \/ RunDtor \/ End \/ Stopped
           \/ UNCHANGED vars
    BY <1>1, <1>6 DEF Verify, Link, RunCtor, RunMain, Exit, RunDtor, End, Stopped, vars
<1> QED
    BY <1>2, <1>3, <1>4, <1>5, <1>6 DEF Next

LEMMA UsesBounded ==
    ASSUME LifeInv, Bounded, [Next]_vars
    PROVE  emitter'.uses \in [Index -> {None} \cup 1..Len(program')]
<1>1. /\ Typed /\ Entered /\ Len(program) \in Nat
      /\ emitter.uses \in [Index -> {None} \cup 1..Len(program)]
    BY DEF LifeInv, SymbolsInv, PassesInv, Typed, Bounded
<1>2. CASE Resolves
    <2>1. CASE emitter'.uses = emitter.uses
        BY <1>1, <1>2, <2>1 DEF Resolves
    <2>2. CASE \E d : Above(d) /\ emitter'.uses = [emitter.uses EXCEPT ![at] = d]
        <3>1. PICK d : Above(d) /\ emitter'.uses = [emitter.uses EXCEPT ![at] = d]
            BY <2>2
        <3>2. d \in {None} \cup 1..Len(program)
            BY <3>1 DEF Above, LifeInv, SymbolsInv, SymbolsFit
        <3> QED
            BY <1>1, <1>2, <3>1, <3>2 DEF Resolves
    <2> QED
        BY <1>2, <2>1, <2>2 DEF Resolves
<1>3. CASE \E d \in Decls : Parse(d)
    <2>1. PICK d \in Decls : Parse(d)
        BY <1>3
    <2>2. Len(program') \in Nat /\ Len(program) <= Len(program') /\ emitter' = emitter
        <3>1. CASE program' = Append(program, d)
            BY <1>1, <2>1, <3>1 DEF Parse, Typed
        <3> QED
            BY <1>1, <2>1, <3>1 DEF Parse
    <2>3. 1..Len(program) \subseteq 1..Len(program')
        BY <1>1, <2>2
    <2> QED
        BY <1>1, <2>2, <2>3
<1>4. CASE EndPass \/ GatherInfo \/ Resolve \/ Rests
    BY <1>1, <1>4 DEF EndPass, GatherInfo, Resolve, Visit, Rests
<1> QED
    BY <1>1, <1>2, <1>3, <1>4, NextCases

LEMMA AtBounded ==
    ASSUME LifeInv, LifeInv', Bounded, [Next]_vars
    PROVE  /\ pass' = "parse" => at' = 1
           /\ pass' \in {"types1", "types2", "funcs", "emit"} => at' <= Len(program') + 1
           /\ pass' = "rejected" => at' = 1
           /\ pass' \in Running => at' <= MaxDecls + 1
<1>1. /\ Typed /\ Entered /\ Len(program) \in Nat /\ at \in Nat \ {0}
      /\ Len(program) <= MaxDecls /\ MaxDecls \in Nat
    BY DeclsAssumption DEF LifeInv, SymbolsInv, PassesInv, Typed
<1>2. CASE \E d \in Decls : Parse(d)
    BY <1>2 DEF Parse, Bounded, Running
<1>3. CASE EndPass
    <2>1. at' = 1 /\ pass' \in {"types1", "types2", "funcs", "emit", "verify"}
        BY <1>3 DEF EndPass, NextOf
    <2>2. program' = program
        BY <1>3 DEF EndPass
    <2> QED
        BY <1>1, <2>1, <2>2 DEF Running
<1>4. CASE GatherInfo \/ Resolve \/ Resolves
    <2>1. /\ pass \in {"types1", "types2", "funcs", "emit"} /\ pass' = pass
          /\ at' = at + 1 /\ at <= Len(program) /\ program' = program
        BY <1>1, <1>4 DEF GatherInfo, Resolve, Resolves, Visit
    <2> QED
        BY <1>1, <2>1 DEF Running
<1>5. CASE Verify \/ Link
    <2>1. at = 1 /\ at' = at /\ pass' \in {"link", "rejected", "start"}
        BY <1>5 DEF Verify, Link, LifeInv, RunFits
    <2> QED
        BY <1>1, <2>1
<1>6. CASE RunCtor
    <2>1. /\ pass = "start" /\ pass' = "start" /\ at' = at + 1
          /\ at <= Len(FirstOf(emitter.ctors))
        BY <1>6 DEF RunCtor
    <2>2. PICK i \in 1..Len(program) : FirstOf(emitter.ctors) = <<i>>
        <3>1. FirstOf(emitter.ctors) # <<>>
            BY <1>1, <2>1
        <3> QED
            BY <2>1, <3>1, OneCtor DEF Running
    <2>3. at <= 1 /\ 1 <= MaxDecls
        BY <1>1, <2>1, <2>2
    <2> QED
        BY <1>1, <2>1, <2>3 DEF Running
<1>7. CASE RunDtor
    <2>1. /\ pass = "exit" /\ pass' = "exit" /\ at' = at + 1
          /\ at <= Len(FirstOf(emitter.dtors))
        BY <1>7 DEF RunDtor
    <2>2. PICK i \in Objects : FirstOf(emitter.dtors) = <<i>>
        <3>1. FirstOf(emitter.dtors) # <<>>
            BY <1>1, <2>1
        <3> QED
            BY <2>1, <3>1, OneDtor DEF Running
    <2>3. i \in 1..Len(program)
        <3>1. i \in Registered
            BY DEF Objects, Registered
        <3> QED
            BY <3>1, RegisteredListed
    <2>4. at <= 1 /\ 1 <= MaxDecls
        BY <1>1, <2>1, <2>2, <2>3
    <2> QED
        BY <1>1, <2>1, <2>4 DEF Running
<1>8. CASE RunMain \/ End
    BY <1>8 DEF RunMain, End, Bounded, Running
<1>9. CASE Exit
    BY <1>1, <1>9 DEF Exit, Running
<1>10. CASE Stopped \/ UNCHANGED vars
    BY <1>10 DEF Stopped, vars, Bounded, Running
<1>11. \/ \E d \in Decls : Parse(d)
       \/ EndPass \/ GatherInfo \/ Resolve \/ Resolves
       \/ Verify \/ Link \/ RunCtor \/ RunMain \/ Exit \/ RunDtor \/ End \/ Stopped
       \/ UNCHANGED vars
    BY <1>1, ResolveFunctionResolves, ResolveClassResolves, PassOverResolves,
       EmitFunctionResolves, EmitExtFuncResolves, EmitClassResolves, VisitVariableResolves
    DEF Next
<1> QED
    BY <1>2, <1>3, <1>4, <1>5, <1>6, <1>7, <1>8, <1>9, <1>10, <1>11

LEMMA SymbolTyped ==
    ASSUME LifeInv, NEW i \in 1..Len(module)
    PROVE  module[i] \in SymbolOf /\ module[i].decl \in 1..Len(program)
<1>1. /\ module[i] \in Shape /\ program \in Seq(Decls)
      /\ Len(program) \in Nat /\ Len(program) <= MaxDecls
    BY DEF LifeInv, SymbolsInv, PassesInv, Typed
<1>2. module[i].decl \in 1..Len(program) /\ Fits(module[i], program[module[i].decl])
    BY DEF LifeInv, SymbolsInv, SymbolsFit
<1>3. PICK d \in Decls : d = program[module[i].decl]
    BY <1>1, <1>2
<1>4. d.name \in Names /\ (d.k = "ext" => d.ref \in Names)
    BY DeclsAssumption DEF Decl
<1>5. module[i].name \in Names
    <2>1. module[i].role \in {"func", "ext", "ctor", "method", "dtor", "var", "varctor",
                              "vardtor"}
        BY <1>1 DEF Shape
    <2> QED
        BY <1>2, <1>3, <1>4, <2>1 DEF Fits, SymbolName
<1>6. module[i].decl \in Index
    BY <1>1, <1>2, DeclsAssumption DEF Index
<1> QED
    BY <1>1, <1>2, <1>5, <1>6 DEF Shape, SymbolOf

LEMMA ListsTyped ==
    ASSUME LifeInv
    PROVE  emitter.ctors \in Seq(Seq(Index)) /\ emitter.dtors \in Seq(Seq(Index))
<1>1. /\ emitter.ctors \in Seq(Seq(Nat)) /\ emitter.dtors \in Seq(Seq(Nat))
      /\ Len(program) \in Nat /\ Len(program) <= MaxDecls
    BY DEF LifeInv, SymbolsInv, PassesInv, Typed, Emitter
<1>2. 1..Len(program) \subseteq Index
    BY <1>1, DeclsAssumption DEF Index
<1>3. \A i \in Index : <<i>> \in Seq(Index)
    OBVIOUS
<1>4. \A k \in 1..Len(emitter.ctors) : emitter.ctors[k] \in Seq(Index)
    BY <1>2, <1>3 DEF LifeInv, CtorLists
<1>5. Objects \subseteq 1..Len(program)
    <2>1. Objects \subseteq Registered
        BY DEF Objects, Registered
    <2> QED
        BY <2>1, RegisteredListed
<1>6. \A k \in 1..Len(emitter.dtors) : emitter.dtors[k] \in Seq(Index)
    BY <1>2, <1>3, <1>5 DEF LifeInv, DtorLists
<1>7. \A s \in Seq(Seq(Nat)) :
          (\A k \in 1..Len(s) : s[k] \in Seq(Index)) => s \in Seq(Seq(Index))
    <2>1. SUFFICES ASSUME NEW s \in Seq(Seq(Nat)), \A k \in 1..Len(s) : s[k] \in Seq(Index)
                   PROVE  s \in Seq(Seq(Index))
        OBVIOUS
    <2>2. s \in [1..Len(s) -> Seq(Index)] /\ Len(s) \in Nat
        BY <2>1
    <2>3. PICK T : T = Seq(Index)
        OBVIOUS
    <2>4. PICK n \in Nat : n = Len(s)
        BY <2>2
    <2>5. s \in [1..n -> T]
        BY <2>2, <2>3, <2>4
    <2>6. s \in UNION {[1..m -> T] : m \in Nat}
        BY <2>5
    <2>7. Seq(T) = UNION {[1..m -> T] : m \in Nat}
        BY SeqDef
    <2> QED
        BY <2>3, <2>6, <2>7
<1> QED
    BY <1>1, <1>4, <1>6, <1>7

\* The type invariant, for programs of any length without the forms that the passes
\* do not handle: every entry of a table is a symbol, every symbol belongs to a
\* declaration, and the program touches only globals that are registered.
THEOREM TypesAreRight == Handled /\ "EarlyRead" \notin Forms => (Spec => []TypeOK)
<1> SUFFICES ASSUME Handled, "EarlyRead" \notin Forms
             PROVE  Spec => []TypeOK
    OBVIOUS
<1>1. Spec => [](LifeInv /\ Bounded)
    <2>1. LifeInv /\ Bounded /\ [Next]_vars => LifeInv' /\ Bounded'
        <3> SUFFICES ASSUME LifeInv, Bounded, [Next]_vars
                     PROVE  LifeInv' /\ Bounded'
            OBVIOUS
        <3>1. LifeInv'
            BY NextLife
        <3> QED
            BY <3>1, FlagsBoolean, UsesBounded, AtBounded DEF Bounded, Running
    <2> QED
        BY <2>1, InitLife, InitBounded, PTL DEF Spec
<1>2. LifeInv /\ Bounded => TypeOK
    <2> SUFFICES ASSUME LifeInv, Bounded
                 PROVE  TypeOK
        OBVIOUS
    <2>1. /\ Typed /\ Entered /\ TypesKnown /\ FlaggedReported /\ RunFits
        BY DEF LifeInv, SymbolsInv, PassesInv
    <2>2. /\ program \in Seq(Decls) /\ Len(program) <= MaxDecls /\ pass \in Passes
          /\ types.struct \in [Names -> Names \cup {IntType, "opaque", "placeholder"}]
          /\ DOMAIN program = 1..Len(program) /\ DOMAIN module = 1..Len(module)
          /\ Len(program) \in Nat /\ Len(module) \in Nat /\ at \in Nat \ {0}
        BY <2>1 DEF Typed
    <2>3. at \in 1..MaxDecls + 1
        <3>1. at <= MaxDecls + 1
            <4>1. CASE pass \in {"types1", "types2", "funcs", "emit"}
                BY <2>2, <4>1, DeclsAssumption DEF Bounded
            <4>2. CASE pass \in {"parse", "verify", "link", "rejected"}
                <5>1. at = 1
                    BY <2>1, <4>2 DEF Bounded, RunFits
                <5> QED
                    BY <5>1, DeclsAssumption
            <4>3. CASE pass \in Running
                BY <4>3 DEF Bounded
            <4> QED
                BY <2>2, <4>1, <4>2, <4>3 DEF Passes, NextOf, Running
        <3> QED
            BY <2>2, <3>1, DeclsAssumption
    <2>4. types.classes \subseteq Classes(program)
        BY <2>1, <2>2 DEF TypesKnown, Classes
    <2>5. \A table \in {global.symtab, global.ctors, global.methods, global.dtors} :
              table \in [Names -> Symbols]
        BY <2>1, <2>2 DEF Typed, Entered, Tables, Symbols, None
    <2>6. \A i \in DOMAIN module : module[i] \in SymbolOf /\ module[i].decl \in DOMAIN program
        BY <2>2, SymbolTyped
    <2>7. flagged \subseteq DOMAIN program
        BY <2>1, <2>2 DEF FlaggedReported
    <2>8. run.live \cup run.gone \cup run.touched \subseteq Registered
        <3>1. CASE pass \notin Running
            BY <2>1, <3>1 DEF RunFits
        <3>2. CASE pass \in Running
            BY <2>1, <3>2 DEF RunFits
        <3> QED
            BY <3>1, <3>2
    <2>9. /\ emitter.uses \in [Index -> {None} \cup DOMAIN program]
          /\ errors \in BOOLEAN /\ crashed \in BOOLEAN
        BY <2>2 DEF Bounded
    <2> QED
        BY <2>2, <2>3, <2>4, <2>5, <2>6, <2>7, <2>8, <2>9, ListsTyped DEF TypeOK
<1> QED
    BY <1>1, <1>2, PTL
=============================================================================
