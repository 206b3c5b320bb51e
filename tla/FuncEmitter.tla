---------------------------- MODULE FuncEmitter ----------------------------
(***************************************************************************)
(* IREmitter at compile time: how it lays out the basic blocks of a        *)
(* function and where in them it puts the destructor calls.                *)
(*                                                                         *)
(* The visitors share one builder, one FuncScope and one member `result`   *)
(* that carries the Value of the expression visited last.  Whether the     *)
(* module they leave is valid depends on all of them keeping these in      *)
(* step: a block gets exactly one terminator, every variable of the        *)
(* FuncScope is destroyed once on every path, a phi names the blocks that  *)
(* branch to it, and FuncScope is empty again after each function.         *)
(*                                                                         *)
(* ctl is the recursion of the visitors, one activation for each visitor   *)
(* that waits for a child.  The program is any program: at each visit the  *)
(* node is chosen among those that the grammar and the types allow.  code  *)
(* is the part of the function under construction that later steps can     *)
(* see; `held` is the set of references that the code up to the insertion  *)
(* point has created and not destroyed on any path that reaches it.        *)
(*                                                                         *)
(* Left out: Int variables and Int temporaries (nothing destroys them),    *)
(* names, arguments, sub-expressions of calls and field accesses, and      *)
(* instructions that no property tells apart.  A function's name or a Void *)
(* call where a visitor prints a diagnostic for it (an operand, a          *)
(* condition, an assignment, a returned value) is VisitBadExpr's.          *)
(* Left out too are programs with a parameter or field whose type is Void  *)
(* or a class that is not declared: no pass rejects them, and LLVM has no  *)
(* parameters or fields of such types.                                     *)
(***************************************************************************)
EXTENDS Naturals, Sequences, FiniteSets

CONSTANTS
    Items,     \* names for references: bounds how many exist at once
    Blocks,    \* names for basic blocks: bounds how many matter at once
    MaxDepth,  \* bound: the visitors' recursion
    MaxScopes, \* bound: scopes in FuncScope (an ill-formed if leaves one behind)
    Forms      \* the source forms below that the program may use

\* Source forms that the visitors do not handle; Forms = {} uses none.
UnhandledForms == {
    "StaleResult",  \* `f(); return;` with a destructible f(); `if (f().b) return;`
    "NestedReturn", \* a block in a block that ends in return
    "DeadCode",     \* a statement after an if whose cases both return
    "CondTemp",     \* return inside if (f().b)
    "NestedRhs",    \* && or || whose right side has blocks of its own: a && (b || c)
    "RhsTemp",      \* && or || with a temporary behind its right side: a && f().b
    "BareReturn",   \* return; in a function that returns a value
    "AssignValue",  \* an assignment used as a value: if (b = c) ...
    "SelfValue",    \* self where a value is copied: let y = self; return self;
    "BorrowedValue",\* x.f or self as a statement: destroyed, though never copied
    "FuncValue",    \* a function's name as a value: let x = f; let x = b ? f : g;
    "VoidTernary",  \* b ? g() : g() with a Void g
    "NoInit",       \* var x: Int; without an initializer, which the parser lets pass
    "Errors",       \* an expression or a declaration that is diagnosed
    "Duplicate"     \* a second function of the same name (diagnosed)
    }

ASSUME NamesAssumption == /\ IsFiniteSet(Items) /\ Items \subseteq Nat \ {0} /\ Items # {}
                          /\ IsFiniteSet(Blocks) /\ Blocks \subseteq Nat \ {0}
                          /\ 1 \in Blocks

ASSUME DepthAssumption == MaxDepth \in Nat \ {0, 1} /\ MaxScopes \in Nat \ {0, 1, 2}

ASSUME FormsAssumption == Forms \subseteq UnhandledForms

VARIABLES
    ctl,     \* the visitors' activations, the outermost first
    scopes,  \* FuncScope::vars: the object variables of each scope
    result,  \* IREmitter::result
    code,    \* the function under construction and the builder
    pc,      \* "top": between functions; "visit": the last activation is about
             \*   to visit a child; "done" or "return": it has, a ReturnNode or not
    failed   \* a diagnostic has been printed: the program will be rejected

vars == <<ctl, scopes, result, code, pc, failed>>

-----------------------------------------------------------------------------
(* Values and activations *)

\* null; an Int or Bool; an Int field of a temporary object (item); an object
\* that is a temporary, or a field of one (item); an object in a variable, in a
\* field of an object that something else holds, or self; a FUNC, or a
\* ternary of them; a Void EXPR.
Value == [k : {"null", "int", "intfield", "temp", "var", "field", "self", "func", "void"},
          item : Items \cup {0}]

Val(k, i) == [k |-> k, item |-> i]
NoValue   == Val("null", 0)
IsObj(v)  == v.k \in {"temp", "var", "field", "self"}

\* The type of v, as far as another Value must have the same.
TypeOf(v) == IF IsObj(v) THEN "obj" ELSE IF v.k \in {"func", "void"} THEN v.k ELSE "int"

\* Visitors that wait for a statement, and those that wait for an expression.
StmtKind == {"func", "block", "ifthen", "ifelse"}
ExprKind == {"ifcond", "let", "ret", "asgrhs", "asglhs", "tcond", "tthen", "telse",
             "llhs", "lrhs", "unary", "blhs", "brhs"}

Activation == [k    : StmtKind \cup ExprKind,
               v    : Value,               \* a Value it keeps meanwhile
               p    : Items \cup {0},      \* the variable or phi it will make
               el   : Blocks \cup {0},     \* elseBlock; longCheck
               end  : Blocks \cup {0},     \* endBlock; contBlock
               from : Blocks \cup {0},     \* a block its phi will name
               want : {"int", "obj", "func", "void", "any"},  \* its child's type
               flag : BOOLEAN]             \* func: returns Void; block: returned

Act(k, want) == [k |-> k, v |-> NoValue, p |-> 0, el |-> 0, end |-> 0,
                 from |-> 0, want |-> want, flag |-> FALSE]

Top        == ctl[Len(ctl)]
Outer(s)   == SubSeq(s, 1, Len(s) - 1)
Last(s)    == s[Len(s)]
Push(a)    == Append(ctl, a)
Become(a)  == [ctl EXCEPT ![Len(ctl)] = a]

AllVars == UNION {scopes[i] : i \in DOMAIN scopes}

TypeOK ==
    /\ ctl \in Seq(Activation)
    /\ scopes \in Seq(SUBSET Items)
    /\ result \in Value
    /\ code \in [cur    : Blocks \cup {0},
                 open   : SUBSET Blocks,
                 loose  : SUBSET Blocks,
                 held   : SUBSET Items,
                 edges  : [Blocks -> SUBSET [from : Blocks, held : SUBSET Items]],
                 alloca : BOOLEAN,
                 faults : SUBSET {"late", "twice", "leak", "join", "phi",
                                  "rettype", "null", "assert", "pop"}]
    /\ pc \in {"top", "visit", "done", "return"}
    /\ failed \in BOOLEAN

-----------------------------------------------------------------------------
(* The builder: each operator is what one builder call, or helper, does *)

Fault(c, f) == [c EXCEPT !.faults = @ \cup {f}]

Late(c) == c.cur # 0 /\ c.cur \notin c.open    \* the block has its terminator

\* With no insertion point an instruction goes nowhere.
Emit(c) == IF Late(c) THEN Fault(c, "late") ELSE c

\* Destructor calls on the references in S.
Release(c, S) ==
    IF S = {} \/ c.cur = 0 THEN c
    ELSE IF Late(c) THEN Fault(c, "late")
    ELSE IF S \subseteq c.held THEN [c EXCEPT !.held = @ \ S]
    ELSE Fault(c, "twice")

\* destroyValue: a temporary, or the temporary behind a field; not a variable.
\* It also destroys self and a field of what is no temporary: a reference that
\* something else holds (0), and not the function.
DestroyValue(c, v) == Release(c, IF v.k \in {"field", "self"} THEN {0} ELSE {v.item} \ {0})

\* copyValue, the reference it yields being x from now on (0: passed on): that of
\* an expr is moved, so of self none.
CopyValue(c, v, x) ==
    CASE v.k = "intfield" -> Release(c, {v.item})
      [] v.k \in {"var", "field"} /\ c.cur \in c.open ->
             [c EXCEPT !.held = @ \cup ({x} \ {0})]
      [] v.k = "temp" /\ v.item \in c.held /\ c.cur \in c.open ->
             [c EXCEPT !.held = (@ \ {v.item}) \cup ({x} \ {0})]
      [] OTHER            -> IF v.k \in {"null", "self", "func"} THEN c ELSE Emit(c)

\* The Value that copyValue leaves.
Copied(v, x) == CASE v.k \in {"temp", "var", "field"} -> Val("temp", x)
                  [] v.k = "intfield"                -> Val("int", 0)
                  [] OTHER                           -> v

Edge(c) == [from |-> c.cur, held |-> c.held]

\* branchTo: only from a block that has no terminator yet.
BranchTo(c, t) ==
    IF c.cur \in c.open
    THEN [c EXCEPT !.open = @ \ {c.cur}, !.edges[t] = @ \cup {Edge(c)}]
    ELSE c

CondBr(c, t, e) ==
    IF c.cur = 0 THEN Fault(c, "null")   \* GetInsertBlock()->getParent()
    ELSE IF Late(c) THEN Fault(c, "late")
    ELSE [c EXCEPT !.open = @ \ {c.cur},
                   !.edges = [b \in Blocks |-> IF b \in {t, e}
                                               THEN @[b] \cup {Edge(c)} ELSE @[b]]]

\* ret: whatever is still held is never destroyed.
Ret(c) ==
    IF Late(c) THEN Fault(c, "late")
    ELSE [c EXCEPT !.open = @ \ {c.cur},
                   !.faults = IF c.cur # 0 /\ c.held # {} THEN @ \cup {"leak"} ELSE @]

Unreachable(c) == IF Late(c) THEN Fault(c, "late")
                  ELSE [c EXCEPT !.open = @ \ {c.cur}]

\* BasicBlock::Create, insertInto and SetInsertPoint, delete.
Create(c, bs) == [c EXCEPT !.loose = @ \cup bs]

Preds(c, b) == {e.from : e \in c.edges[b]}

Insert(c, b) ==
    LET arriving == {e.held : e \in c.edges[b]}
    IN  [c EXCEPT !.cur = b, !.loose = @ \ {b}, !.open = @ \cup {b},
                  !.held = UNION arriving, !.edges[b] = {},
                  !.faults = IF Cardinality(arriving) > 1
                             THEN @ \cup {"join"} ELSE @]

Clear(c) == [c EXCEPT !.cur = 0, !.held = {}]

Delete(c, b) == Clear([c EXCEPT !.loose = @ \ {b}])

\* createEntryAlloca looks for the entry block once per function.
EntryAlloca(c) == IF c.cur = 0 /\ ~c.alloca THEN Fault(c, "null")
                  ELSE [c EXCEPT !.alloca = TRUE]

\* Names that nothing refers to.
UsedItems == code.held \cup AllVars \cup {result.item}
             \cup (UNION {{ctl[i].v.item, ctl[i].p} : i \in DOMAIN ctl})
             \cup (UNION {UNION {e.held : e \in code.edges[b]} : b \in Blocks})

UsedBlocks == {code.cur} \cup code.open \cup code.loose
              \cup (UNION {{ctl[i].el, ctl[i].end, ctl[i].from} : i \in DOMAIN ctl})
              \cup (UNION {Preds(code, b) : b \in Blocks})

Least(S) == CHOOSE x \in S : \A y \in S : x <= y

SpareItems  == Items \ UsedItems
SpareBlocks == Blocks \ UsedBlocks
Block1      == Least(SpareBlocks)
Block2      == Least(SpareBlocks \ {Block1})
Block3      == Least(SpareBlocks \ {Block1, Block2})

-----------------------------------------------------------------------------
(* When a node of some kind may be visited *)

Going == code.faults = {}

\* A child has just been visited and the activation k takes over again.
Back(k) == Going /\ pc \in {"done", "return"} /\ ctl # <<>> /\ Top.k = k

\* A statement, or an expression, may come next.
AtStmt == /\ Going /\ pc = "visit" /\ Top.k \in {"block", "ifthen", "ifelse"}
          /\ Top.k = "block" => ~Top.flag
          /\ Top.k = "block" /\ code.cur = 0 => "DeadCode" \in Forms

AtExpr == AtStmt \/ (Going /\ pc = "visit" /\ Top.k \in ExprKind)

Deeper == Len(ctl) < MaxDepth

\* A visitor is entered: its activation waits for its first child.
Enter(a) == /\ Deeper
            /\ ctl' = Push(a)
            /\ pc' = "visit"

\* A visitor returns to the one below it, leaving r in `result`.
Leave(r) == /\ ctl' = Outer(ctl)
            /\ result' = r
            /\ pc' = "done"

-----------------------------------------------------------------------------
(* Expressions *)

\* Which Values the visitor that asked does with, in a program that uses none of
\* the forms and draws no diagnostic.
Usable(v) ==
    LET stmt == Top.k \in StmtKind
    IN  /\ Top.want # "any" => TypeOf(v) = Top.want
        /\ v.k = "self"  => IF stmt THEN "BorrowedValue" \in Forms
                            ELSE Top.k # "asglhs" /\ "SelfValue" \in Forms
        /\ v.k = "field" => ~stmt \/ "BorrowedValue" \in Forms
        /\ v.k = "func"  => \/ stmt
                            \/ /\ "FuncValue" \in Forms /\ Top.k \in {"let", "tthen", "telse"}
                               /\ \A i \in DOMAIN ctl : ctl[i].k \notin {"ret", "asgrhs", "asglhs"}
        /\ v.k = "void"  => stmt \/ (Top.k \in {"tthen", "telse"} /\ "VoidTernary" \in Forms)
        /\ v.k = "intfield" /\ Top.k = "lrhs" => "RhsTemp" \in Forms

\* Literals, identifiers (a function's name among them), self, calls, field
\* accesses: whatever adds no block.  A name alone emits nothing.
VisitLeaf ==
    /\ AtExpr
    /\ \E v \in Value :
         /\ v.k # "null" /\ (v.k \in {"intfield", "temp"} <=> v.item # 0)
         /\ v.item # 0 => /\ SpareItems # {} /\ v.item = Least(SpareItems)
         /\ Usable(v)
         /\ result' = v
         /\ code' = IF v.item # 0 /\ code.cur \in code.open
                    THEN [code EXCEPT !.held = @ \cup {v.item}]
                    ELSE IF v.k \in {"var", "self", "func"} THEN code ELSE Emit(code)
    /\ pc' = "done"
    /\ UNCHANGED <<ctl, scopes, failed>>

\* An error of the program, found by a visitor that prints a diagnostic.
Diagnose == "Errors" \in Forms /\ failed' = TRUE

\* mutant: an unknown identifier is not reported
VisitBadExpr_Silent ==
    /\ AtExpr /\ "Errors" \in Forms
    /\ result' = NoValue /\ pc' = "done"
    /\ UNCHANGED <<ctl, scopes, code, failed>>

\* An expression that is diagnosed leaves no Value, or (a condition of the
\* wrong type) is taken for false.
VisitBadExpr ==
    /\ AtExpr /\ Diagnose
    /\ \/ result' = NoValue
       \/ Top.want = "int" /\ result' = Val("int", 0)
    /\ pc' = "done"
    /\ UNCHANGED <<ctl, scopes, code>>

VisitUnary ==
    /\ AtExpr /\ Top.want \in {"int", "any"}
    /\ Enter(Act("unary", "int"))
    /\ UNCHANGED <<scopes, result, code, failed>>

Unary ==
    /\ Back("unary")
    /\ code' = IF result.k = "null" THEN code ELSE DestroyValue(Emit(code), result)
    /\ \/ /\ Leave(IF result.k = "null" THEN NoValue ELSE Val("int", 0))
          /\ UNCHANGED failed
       \/ Leave(NoValue) /\ Diagnose
    /\ UNCHANGED scopes

\* visitBinary: the left Value is loaded and kept, both are destroyed at the end.
VisitBinary ==
    /\ AtExpr /\ Top.want \in {"int", "any"}
    /\ Enter(Act("blhs", "int"))
    /\ UNCHANGED <<scopes, result, code, failed>>

BinaryLhs ==
    /\ Back("blhs")
    /\ IF result.k = "null"
       THEN Leave(NoValue) /\ UNCHANGED code
       ELSE /\ ctl' = Become([Act("brhs", "int") EXCEPT !.v = result])
            /\ code' = Emit(code)
            /\ pc' = "visit" /\ UNCHANGED result
    /\ UNCHANGED <<scopes, failed>>

BinaryRhs ==
    /\ Back("brhs")
    /\ code' = DestroyValue(DestroyValue(IF result.k = "null" THEN code ELSE Emit(code),
                                         Top.v), result)
    /\ \/ /\ Leave(IF result.k = "null" THEN NoValue ELSE Val("int", 0))
          /\ UNCHANGED failed
       \/ Leave(NoValue) /\ Diagnose
    /\ UNCHANGED scopes

VisitTernary ==
    /\ AtExpr /\ SpareItems # {} /\ Cardinality(SpareBlocks) >= 3
    /\ (\E i \in DOMAIN ctl : ctl[i].k = "lrhs") => "NestedRhs" \in Forms
    /\ Enter([Act("tcond", "int") EXCEPT !.p = Least(SpareItems)])
    /\ UNCHANGED <<scopes, result, code, failed>>

\* What the ternary's own visitor was asked for.
TernaryWant == IF Len(ctl) > 1 THEN ctl[Len(ctl) - 1].want ELSE "any"

TernaryCond ==
    /\ Back("tcond")
    /\ \/ /\ result.k # "null" /\ Cardinality(SpareBlocks) >= 3
          /\ ctl' = Become([Act("tthen", TernaryWant) EXCEPT
                                !.v = result, !.p = Top.p, !.el = Block2, !.end = Block3])
          /\ code' = Insert(CondBr(Create(code, {Block1, Block2, Block3}),
                                   Block1, Block2), Block1)
          /\ pc' = "visit" /\ UNCHANGED <<result, failed>>
       \/ /\ (result.k = "null" /\ UNCHANGED failed) \/ Diagnose  \* not a Bool
          /\ Leave(result) /\ UNCHANGED code
    /\ UNCHANGED scopes

TernaryThen ==
    /\ Back("tthen")
    /\ IF result.k = "null"
       THEN /\ code' = [code EXCEPT !.loose = @ \ {Top.end}]
            /\ Leave(NoValue)
       ELSE LET copied == CopyValue(code, result, Top.p)
            IN  /\ ctl' = Become([Top EXCEPT !.k = "telse", !.el = 0, !.from = code.cur,
                                             !.p = IF IsObj(result) THEN @ ELSE 0,
                                             !.want = TypeOf(result)])
                /\ code' = Insert(BranchTo(copied, Top.end), Top.el)
                /\ pc' = "visit" /\ UNCHANGED result
    /\ UNCHANGED <<scopes, failed>>

\* mutant: the condition's Value is not destroyed after the phi
TernaryElse_KeepCond ==
    /\ Back("telse")
    /\ IF result.k = "null"
       THEN Leave(NoValue) /\ UNCHANGED code
       ELSE /\ code' = Insert(BranchTo(CopyValue(code, result, Top.p), Top.end), Top.end)
            /\ Leave(IF IsObj(result) THEN Val("temp", Top.p) ELSE Val("int", 0))
    /\ UNCHANGED <<scopes, failed>>

\* A phi cannot be made of functions, nor of Void values.
TernaryElse ==
    /\ Back("telse")
    /\ IF result.k = "null"
       THEN Leave(NoValue) /\ UNCHANGED <<code, failed>>
       ELSE LET joined == BranchTo(CopyValue(code, result, Top.p), Top.end)
                phi    == Insert(joined, Top.end)
            IN  \/ /\ code' = DestroyValue(IF /\ Preds(joined, Top.end) = {Top.from, code.cur}
                                              /\ result.k # "void"
                                           THEN phi ELSE Fault(phi, "phi"), Top.v)
                   /\ Leave(IF IsObj(result) THEN Val("temp", Top.p)
                            ELSE IF result.k = "func" THEN result ELSE Val("int", 0))
                   /\ UNCHANGED failed
                \/ code' = phi /\ Leave(NoValue) /\ Diagnose  \* the cases' types differ
    /\ UNCHANGED scopes

\* genShortCircuit, for && and || alike.
VisitLogic ==
    /\ AtExpr /\ Top.want \in {"int", "any"} /\ Cardinality(SpareBlocks) >= 2
    /\ (\E i \in DOMAIN ctl : ctl[i].k = "lrhs") => "NestedRhs" \in Forms
    /\ Enter(Act("llhs", "int"))
    /\ UNCHANGED <<scopes, result, code, failed>>

LogicLhs ==
    /\ Back("llhs")
    /\ \/ /\ result.k # "null" /\ Cardinality(SpareBlocks) >= 2
          /\ ctl' = Become([Act("lrhs", "int") EXCEPT
                              !.v = result, !.from = code.cur, !.el = Block1, !.end = Block2])
          /\ code' = Insert(CondBr(Create(code, {Block1, Block2}), Block1, Block2), Block1)
          /\ pc' = "visit" /\ UNCHANGED <<result, failed>>
       \/ /\ (result.k = "null" /\ UNCHANGED failed) \/ Diagnose  \* not a Bool
          /\ code' = DestroyValue(code, result) /\ Leave(NoValue)
    /\ UNCHANGED scopes

\* The phi names the block of the branch and longCheck.
LogicRhs ==
    /\ Back("lrhs")
    /\ IF result.k = "null"
       THEN /\ code' = DestroyValue(code, Top.v) /\ Leave(NoValue)
            /\ UNCHANGED failed
       ELSE LET joined == BranchTo(Emit(code), Top.end)
                cont   == Insert(joined, Top.end)
                phi    == IF Preds(joined, Top.end) = {Top.from, Top.el}
                          THEN cont ELSE Fault(cont, "phi")
            IN  \/ /\ code' = DestroyValue(DestroyValue(phi, Top.v), result)
                   /\ Leave(Val("int", 0)) /\ UNCHANGED failed
                \/ /\ code' = DestroyValue(DestroyValue(cont, Top.v), result)
                   /\ Leave(NoValue) /\ Diagnose               \* not a Bool
    /\ UNCHANGED scopes

VisitAssign ==
    /\ AtExpr
    /\ Top.k \in ExprKind => "AssignValue" \in Forms
    /\ SpareItems # {}
    /\ Enter([Act("asgrhs", "any") EXCEPT !.p = Least(SpareItems)])
    /\ UNCHANGED <<scopes, result, code, failed>>

\* The right-hand side is copied before the left-hand side is visited.
AssignRhs ==
    /\ Back("asgrhs")
    /\ ctl' = Become([Act("asglhs", IF IsObj(result) THEN "obj" ELSE "int") EXCEPT
                         !.v = Copied(result, Top.p)])
    /\ code' = CopyValue(code, result, Top.p)
    /\ result' = NoValue /\ pc' = "visit"
    /\ UNCHANGED <<scopes, failed>>

\* The copy replaces the object of a local variable, which destroyVar releases
\* first, or goes into a field or a global; storeValue destroys a temporary behind
\* the field.  No Value is left.
AssignLhs ==
    /\ Back("asglhs")
    /\ \/ /\ result.k = "null" \/ Top.v.k = "null"
          /\ UNCHANGED <<code, failed>>
       \/ UNCHANGED code /\ Diagnose    \* not assignable, or of another type
       \/ /\ result.k # "null" /\ Top.v.k # "null"
          /\ code' = Release(CopyValue(code, Top.v, 0), {result.item} \ {0})
          /\ UNCHANGED failed
       \/ \E x \in AllVars :
            /\ result.k = "var" /\ Top.v.k # "null"
            /\ code' = CopyValue(Release(code, {x}), Top.v, x)
            /\ UNCHANGED failed
    /\ Leave(NoValue)
    /\ UNCHANGED scopes

-----------------------------------------------------------------------------
(* Statements *)

VisitEmpty ==
    /\ AtStmt
    /\ result' = NoValue /\ pc' = "done"
    /\ UNCHANGED <<ctl, scopes, code, failed>>

\* mutant: the scope is given a Value without storage
VisitVariable_NoStorage ==
    /\ AtStmt
    /\ Enter(Act("let", "any"))
    /\ UNCHANGED <<scopes, result, code, failed>>

\* The initializer is visited without a look at whether there is one.
VisitVariable ==
    /\ AtStmt /\ SpareItems # {}
    /\ Enter([Act("let", "any") EXCEPT !.p = Least(SpareItems)])
    /\ \E init \in {TRUE, "NoInit" \notin Forms} :
         code' = IF init THEN code ELSE Fault(code, "null")
    /\ UNCHANGED <<scopes, result, failed>>

\* The variable joins the current scope unless its name is taken.  storeValue
\* asserts that what it stores is an EXPR, and LLVM that it has the type of what
\* it is stored in: neither a FUNC nor a ternary of them will do.
DeclareVariable ==
    /\ Back("let")
    /\ LET copied == CopyValue(code, result, Top.p)
       IN  \/ /\ result.k # "null"
              /\ \/ /\ code' = IF result.k = "func" THEN Fault(EntryAlloca(copied), "assert")
                               ELSE EntryAlloca(copied)
                    /\ scopes' = [scopes EXCEPT ![Len(scopes)] =
                                     IF IsObj(result) THEN @ \cup {Top.p} ELSE @]
                    /\ UNCHANGED failed
                 \/ /\ code' = EntryAlloca(copied)
                    /\ Diagnose /\ UNCHANGED scopes        \* the name is taken
           \/ /\ (result.k = "null" /\ UNCHANGED failed) \/ Diagnose
              /\ code' = copied /\ UNCHANGED scopes        \* of another type
    /\ Leave(NoValue)

VisitBlock ==
    /\ AtStmt /\ Len(scopes) < MaxScopes
    /\ Enter(Act("block", "any"))
    /\ scopes' = Append(scopes, {})
    /\ UNCHANGED <<result, code, failed>>

\* After each statement its result is destroyed, and kept.
NextStmt ==
    /\ Back("block")
    /\ ctl' = Become([Top EXCEPT !.flag = (pc = "return")])
    /\ code' = DestroyValue(code, result)
    /\ pc' = "visit"
    /\ UNCHANGED <<scopes, result, failed>>

\* mutant: a block that returned destroys its variables again
LeaveBlock_Always ==
    /\ Going /\ pc = "visit" /\ Top.k = "block"
    /\ code' = Release(code, Last(scopes))
    /\ scopes' = Outer(scopes)
    /\ Leave(NoValue)
    /\ UNCHANGED failed

\* The end of the block, or a return before it: then all that follows is
\* reported as unreachable, and the return has destroyed the variables.
LeaveBlock ==
    /\ Going /\ pc = "visit" /\ Top.k = "block"
    /\ code' = IF Top.flag THEN code ELSE Release(code, Last(scopes))
    /\ scopes' = Outer(scopes)
    /\ Leave(NoValue)
    /\ UNCHANGED failed

VisitIf ==
    /\ AtStmt /\ Cardinality(SpareBlocks) >= 2 /\ Len(scopes) + 2 <= MaxScopes
    /\ Enter(Act("ifcond", "int"))
    /\ scopes' = Append(scopes, {})
    /\ UNCHANGED <<result, code, failed>>

\* Without a condition the visitor returns at once, its scope still entered.
IfCond ==
    /\ Back("ifcond")
    /\ IF result.k = "null"
       THEN Leave(NoValue) /\ UNCHANGED <<scopes, code>>
       ELSE \E hasElse \in BOOLEAN :
              LET el == IF hasElse THEN Block3 ELSE Block2
              IN  /\ Cardinality(SpareBlocks) >= IF hasElse THEN 3 ELSE 2
                  /\ ctl' = Become([Act("ifthen", "any") EXCEPT
                                      !.v = result, !.end = Block2,
                                      !.el = IF hasElse THEN Block3 ELSE 0])
                  /\ code' = Insert(CondBr(Create(code, {Block1, Block2, el}), Block1, el),
                                    Block1)
                  /\ scopes' = Append(scopes, {})
                  /\ pc' = "visit" /\ UNCHANGED result
    /\ UNCHANGED failed

\* mutant: the variables of a case are forgotten
EndCase_NoVars(c) == BranchTo(DestroyValue(c, result), Top.end)

\* The end of a case: its result, its variables, the branch to endBlock.
EndCase(c) ==
    LET d == DestroyValue(c, result)
    IN  BranchTo(IF pc = "return" THEN d ELSE Release(d, Last(scopes)), Top.end)

\* The end of the if: endBlock is inserted if anything branches to it.
EndIf(c) ==
    IF c.edges[Top.end] # {}
    THEN Release(DestroyValue(Insert(c, Top.end), Top.v), Last(Outer(scopes)))
    ELSE Delete(c, Top.end)

IfThen ==
    /\ Back("ifthen")
    /\ IF Top.el # 0
       THEN /\ ctl' = Become([Top EXCEPT !.k = "ifelse", !.el = 0])
            /\ code' = Insert(EndCase(code), Top.el)
            /\ scopes' = Append(Outer(scopes), {})
            /\ pc' = "visit" /\ UNCHANGED result
       ELSE /\ code' = EndIf(EndCase(code))
            /\ scopes' = Outer(Outer(scopes))
            /\ Leave(NoValue)
    /\ UNCHANGED failed

\* mutant: the scope of the if is left entered
IfElse_OneScope ==
    /\ Back("ifelse")
    /\ code' = EndIf(EndCase(code))
    /\ scopes' = Outer(scopes)
    /\ Leave(NoValue)
    /\ UNCHANGED failed

IfElse ==
    /\ Back("ifelse")
    /\ code' = EndIf(EndCase(code))
    /\ scopes' = Outer(Outer(scopes))
    /\ Leave(NoValue)
    /\ UNCHANGED failed

\* Where a return may stand in a program that uses none of the forms.
SafeReturn ==
    /\ Top.k = "block" /\ Len(ctl) > 1 /\ ctl[Len(ctl) - 1].k = "block"
          => "NestedReturn" \in Forms
    /\ (\E i \in DOMAIN ctl : ctl[i].k \in {"ifthen", "ifelse"} /\ ctl[i].v.item # 0)
          => "CondTemp" \in Forms

ReturnsVoid == ctl[1].flag

\* return; leaves `result` as the statement before it did.
ReturnVoid ==
    /\ AtStmt /\ SafeReturn
    /\ ~ReturnsVoid => "BareReturn" \in Forms
    /\ result.item # 0 => "StaleResult" \in Forms
    /\ LET left == Ret(Release(code, AllVars))
       IN  code' = IF ReturnsVoid THEN left ELSE Fault(left, "rettype")
    /\ pc' = "return"
    /\ UNCHANGED <<ctl, scopes, result, failed>>

VisitReturn ==
    /\ AtStmt /\ SafeReturn /\ (ReturnsVoid => "Errors" \in Forms)
    /\ Enter(Act("ret", "any"))
    /\ UNCHANGED <<scopes, result, code, failed>>

ReturnValue ==
    /\ Back("ret")
    /\ LET left == Release(CopyValue(code, result, 0), AllVars)
       IN  \/ result.k # "null" /\ ~ReturnsVoid /\ code' = Ret(left) /\ UNCHANGED failed
           \/ result.k = "null" /\ code' = Unreachable(left) /\ UNCHANGED failed
           \/ result.k # "null" /\ code' = Unreachable(left) /\ Diagnose
    /\ ctl' = Outer(ctl) /\ result' = NoValue /\ pc' = "return"
    /\ UNCHANGED scopes

-----------------------------------------------------------------------------
(* Functions *)

\* setupFuncBody: the parameters are in a scope of their own, under the body's.
BeginFunction ==
    /\ Going /\ pc = "top" /\ scopes = <<>>
    /\ \E params \in {{}, {Least(Items)}}, void \in BOOLEAN :
         /\ scopes' = <<params, {}>>
         /\ ctl' = <<[Act("func", "any") EXCEPT !.flag = void], Act("block", "any")>>
         /\ code' = [code EXCEPT !.cur = 1, !.open = {1}, !.loose = {}, !.held = params,
                                 !.edges = [b \in Blocks |-> {}],
                                 !.alloca = (params # {})]
    /\ pc' = "visit"
    /\ UNCHANGED <<result, failed>>

\* A scope that an earlier function left entered.
BeginFunctionAssert ==
    /\ Going /\ pc = "top" /\ scopes # <<>>
    /\ code' = Fault(code, "assert")
    /\ UNCHANGED <<ctl, scopes, result, pc, failed>>

\* setupFuncBody returns early for a duplicate; its body is visited all the
\* same, with no insertion point or at the end of a finished block: that of a
\* destructor or a global's constructor.
BeginDuplicate ==
    /\ Going /\ pc = "top" /\ "Duplicate" \in Forms
    /\ scopes' = Append(scopes, {})
    /\ \E void \in BOOLEAN, at \in {0, 1} :
         /\ ctl' = <<[Act("func", "any") EXCEPT !.flag = void], Act("block", "any")>>
         /\ code' = [code EXCEPT !.cur = at]
    /\ pc' = "visit" /\ failed' = TRUE
    /\ UNCHANGED result

\* mutant: cleanupFuncBody does not exit the parameters' scope
EndFunction_NoExit ==
    /\ Back("func")
    /\ LET waiting == code.cur \in code.open
           left    == Release(code, AllVars)
           ended   == IF ~waiting THEN code
                      ELSE IF ReturnsVoid THEN Ret(left) ELSE Unreachable(left)
       IN  /\ failed' = (failed \/ (waiting /\ ~ReturnsVoid))
           /\ code' = [Clear(ended) EXCEPT !.alloca = FALSE]
    /\ ctl' = <<>> /\ result' = NoValue /\ pc' = "top"
    /\ UNCHANGED scopes

\* cleanupFuncBody: the last block gets its terminator.
EndFunction ==
    /\ Back("func")
    /\ LET waiting == code.cur \in code.open
           left    == Release(code, AllVars)
           ended   == IF ~waiting THEN code
                      ELSE IF ReturnsVoid THEN Ret(left) ELSE Unreachable(left)
       IN  /\ failed' = (failed \/ (waiting /\ ~ReturnsVoid))
           /\ code' = IF scopes = <<>> THEN Fault(Clear(ended), "pop")
                      ELSE [Clear(ended) EXCEPT !.alloca = FALSE]
    /\ scopes' = IF scopes = <<>> THEN scopes ELSE Outer(scopes)
    /\ ctl' = <<>> /\ result' = NoValue /\ pc' = "top"

\* A crash, or an invalid module: nothing more is emitted.
Halted == ~Going /\ UNCHANGED vars

Init ==
    /\ ctl = <<>> /\ scopes = <<>> /\ result = NoValue
    /\ code = [cur |-> 0, open |-> {}, loose |-> {}, held |-> {},
               edges |-> [b \in Blocks |-> {}], alloca |-> FALSE, faults |-> {}]
    /\ pc = "top" /\ failed = FALSE

Expression == \/ VisitLeaf \/ VisitBadExpr
              \/ VisitUnary \/ Unary \/ VisitBinary \/ BinaryLhs \/ BinaryRhs
              \/ VisitTernary \/ TernaryCond \/ TernaryThen \/ TernaryElse
              \/ VisitLogic \/ LogicLhs \/ LogicRhs
              \/ VisitAssign \/ AssignRhs \/ AssignLhs

Statement == \/ VisitEmpty \/ VisitVariable \/ DeclareVariable
             \/ VisitBlock \/ NextStmt \/ LeaveBlock
             \/ VisitIf \/ IfCond \/ IfThen \/ IfElse
             \/ ReturnVoid \/ VisitReturn \/ ReturnValue

Function == \/ BeginFunction \/ BeginFunctionAssert \/ BeginDuplicate \/ EndFunction

Next == Expression \/ Statement \/ Function \/ Halted

Spec == Init /\ [][Next]_vars

-----------------------------------------------------------------------------
(* Properties; all but TypeOK and FaultsReported are about programs that draw *)
(* no diagnostic, and hold of those that use none of the forms.              *)

\* The module that IRGen::run hands to the verifier is well formed: no
\* instruction follows a terminator, each phi names exactly the blocks that
\* branch to it, and a finished function has no block without a terminator
\* and no branch to a block that was never inserted.
ModuleValid ==
    ~failed => /\ code.faults \cap {"late", "phi", "rettype"} = {}
               /\ Going => code.open \subseteq {code.cur}
               /\ Going /\ pc = "top" => code.open = {} /\ code.loose = {}

\* On every path through the function every reference it creates is destroyed
\* or handed on once: never twice, not left behind by a return, and wherever
\* two paths meet they hold the same ones.
DestroyedOnce == ~failed => code.faults \cap {"twice", "leak", "join"} = {}

\* What the emitter's tables say is alive (the variables in FuncScope, the
\* Values its visitors keep, the Value just produced) is what the emitted code
\* holds at the insertion point.
Pending == {ctl[i].v.item : i \in DOMAIN ctl}
           \cup (IF pc = "done" THEN {result.item} ELSE {})

HeldMatches == ~failed /\ Going /\ code.cur \in code.open
                  => code.held = AllVars \cup (Pending \ {0})

\* FuncScope has one scope for each construct that is open, so destroyVars
\* always works on the scope of its own construct, and a function leaves none.
ScopesOf(k) == CASE k \in {"func", "block", "ifcond"} -> 1
                 [] k \in {"ifthen", "ifelse"}        -> 2
                 [] OTHER                             -> 0

Depth == LET d[n \in 0..Len(ctl)] == IF n = 0 THEN 0 ELSE d[n - 1] + ScopesOf(ctl[n].k)
         IN  d[Len(ctl)]

ScopesMatch == ~failed => Len(scopes) = Depth

\* In programs that use none of the forms the emitter itself does not crash: it
\* follows no null insertion block, its assertions that no function is inside
\* another and that an EXPR is stored hold, and no scope is popped from an empty
\* FuncScope.  Of the forms, DeadCode, AssignValue, FuncValue and NoInit make it
\* crash.
NoCrash == ~failed => code.faults \cap {"null", "assert", "pop"} = {}

\* In programs with errors, and second functions of a name, but none of the other
\* forms, whatever goes wrong in the emitter or in the code it emits comes after a
\* diagnostic.  It is not so for the other forms: none of them draws one.
FaultsReported == ~Going => failed

=============================================================================
