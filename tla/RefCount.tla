------------------------------ MODULE RefCount ------------------------------
(***************************************************************************)
(* The run-time object lifetimes of the code that IREmitter generates.     *)
(*                                                                         *)
(* VSL objects are reference counted.  The counting code is spread over    *)
(* the visitors of irEmitter.cpp: copyValue increments, the generated      *)
(* destructor decrements and frees, and destroyValue, destroyVar,          *)
(* destroyVars and destroyAllVars decide where destructor calls go.  The   *)
(* emitter keeps no table of who owns what: every visitor must pair each   *)
(* reference it creates with exactly one destructor call on every path.    *)
(*                                                                         *)
(* The module is the machine that runs the emitted code.  Its stack holds  *)
(* one cell for each thing the emitter's recursion has open: a frame, a    *)
(* scope, a variable, an operand or argument already evaluated, a pending  *)
(* destructor call.  The program is any program: at each point the next    *)
(* construct is chosen freely among those the grammar and the type checks  *)
(* allow.  One action is what one visitor (or one of its phases between    *)
(* two sub-expressions) emits.                                             *)
(*                                                                         *)
(* Left out: values that hold no object except where a temporary object is *)
(* behind them (the Int field of a temporary), names, arity and access     *)
(* checks (compile errors), the order of destructor calls that come one    *)
(* directly after the other (destructors run no user code, so only their   *)
(* multiset is observable), and the 32-bit wrap of the count.              *)
(***************************************************************************)
EXTENDS Integers, Sequences, FiniteSets

CONSTANTS
    Obj,         \* the objects malloc can hand out
    Class,       \* the classes of the program
    ClassOf,     \* the class each object is allocated as
    FieldClass,  \* the class of a class's object field, None if it has none;
                 \*   every class has an Int field besides
    None,        \* no object; in a field: uninitialised memory
    Forms,       \* the source forms below that the program may use
    MaxStack     \* bound: cells on the stack before memory is exhausted

\* Source forms whose emitted code does not keep the counts (one violation
\* run each shows why); a program with Forms = {} uses none of them.
UnsafeForms == {
    "SelfValue",     \* `self` where a value is copied: let y = self; return self;
    "TempArg",       \* a class-typed temporary as an argument: f(a: X())
    "FieldArg",      \* a field as an argument: f(a: x.f), f(a: X().i)
    "BorrowedValue", \* x.f or self as a statement, or as a receiver: x.f.m()
    "FieldReassign", \* x.f = y when the field already holds an object
    "UninitField",   \* a constructor that leaves its object field unset
    "CondTemp",      \* return inside if (g().b): the condition's temporary
    "GlobalReceiver" \* g.m() on a global g
    }

\* The kinds of Value an expression leaves in IREmitter::result.
ValueKind == {"expr", "self", "ident", "field", "int"}

\* Cells under which a statement may start, and under which an expression may.
StmtPlace == {"frame", "scope", "var"}
ExprPlace == StmtPlace \cup {"call", "arg", "lhs", "cond", "rhs"}

Cell == [kind : ValueKind \cup ExprPlace \cup {"drop", "free"},
         own  : Obj \cup {None},  \* the object this cell holds a reference to
         at   : Obj \cup {None},  \* an object it points at without a reference
         idx  : Nat]              \* ident: the variable's position; frame: 1 for main

ASSUME ObjAssumption == IsFiniteSet(Obj)

ASSUME NoneAssumption == None \notin Obj /\ None \notin Class

ASSUME ClassAssumption ==
    /\ ClassOf \in [Obj -> Class]
    /\ FieldClass \in [Class -> Class \cup {None}]

ASSUME FormsAssumption == Forms \subseteq UnsafeForms

ASSUME MaxStackAssumption == MaxStack \in Nat

VARIABLES
    stack,  \* the cells, oldest first; stack[1] is the program's own frame
    rc,     \* the reference count stored in each object
    state,  \* "free": not allocated; "live"; "dying": in the dead branch of its dtor
    field,  \* the object field of each object
    ret,    \* the object a returning function carries out, or None
    mode    \* "run"; "leave" a scope; "unwind" a function; "done"; "oom"; "fault"

vars == <<stack, rc, state, field, ret, mode>>

\* The shape of the state; the stored counts, which the dtor decrements
\* without looking, never go below zero.
TypeOK ==
    /\ stack \in Seq(Cell)
    /\ rc \in [Obj -> Nat]
    /\ state \in [Obj -> {"free", "live", "dying"}]
    /\ field \in [Obj -> Obj \cup {None}]
    /\ ret \in Obj \cup {None}
    /\ mode \in {"run", "leave", "unwind", "done", "oom", "fault"}

-----------------------------------------------------------------------------
(* Cells and the stack *)

MkCell(k, o, a, i) == [kind |-> k, own |-> o, at |-> a, idx |-> i]

Int_(base)      == MkCell("int", base, None, 0)    \* an Int, maybe a temporary's field
Expr(o)         == IF o = None THEN Int_(None) ELSE MkCell("expr", o, None, 0)
Var(o)          == MkCell("var", o, None, 0)
Scope(o)        == MkCell("scope", o, None, 0)     \* own: behind the if condition
Drop(o)         == MkCell("drop", o, None, 0)      \* a call of o's destructor to come

Push(s, c) == Append(s, c)
Pop(s)     == SubSeq(s, 1, Len(s) - 1)
Top        == stack[Len(stack)]
Under      == stack[Len(stack) - 1]
Pop2       == Pop(Pop(stack))

Live == {o \in Obj : state[o] = "live"}

TopIs(kinds)   == Len(stack) > 0 /\ Top.kind \in kinds
UnderIs(kinds) == Len(stack) > 1 /\ Under.kind \in kinds

\* The innermost running function and the variables its code can name:
\* its own, and the globals, which are the variables of the program's frame.
CurFrame == CHOOSE i \in DOMAIN stack :
                /\ stack[i].kind = "frame"
                /\ \A j \in DOMAIN stack : stack[j].kind = "frame" => j <= i

InProgram == \A i \in DOMAIN stack : stack[i].kind = "frame" => i = 1

IsGlobal(i) == \A j \in 2..i : stack[j].kind # "frame"

Visible(i) == /\ stack[i].kind = "var"
              /\ i > CurFrame \/ IsGlobal(i)

-----------------------------------------------------------------------------
(* Value: copyValue, loadValue, destroyValue *)

\* loadValue: the object a class-typed Value denotes.
Loaded(v) == CASE v.kind = "expr"  -> v.own
               [] v.kind = "self"  -> v.at
               [] v.kind = "ident" -> stack[v.idx].own
               [] v.kind = "field" -> field[v.at]
               [] OTHER            -> None

\* The objects whose memory loadValue, and copyValue, read or write.
LoadTouches(v) == IF v.kind = "field" THEN {v.at} ELSE {}
CopyTouches(v) == LoadTouches(v) \cup
                  (IF v.kind \in {"ident", "field"} THEN {Loaded(v)} ELSE {})

\* mutant: copyValue forgets the count of a field's object
Copied_NoField(v) == IF v.kind = "ident"
                     THEN [rc EXCEPT ![Loaded(v)] = @ + 1]
                     ELSE rc

\* copyValue increments the count of an assignable value's object; an expr,
\* self among them, is moved.
Copied(v) == IF v.kind \in {"ident", "field"}
             THEN [rc EXCEPT ![Loaded(v)] = @ + 1]
             ELSE rc

\* The temporary base that copyValue destroys once the field is loaded.
BaseOf(v) == IF v.kind \in {"field", "int"} THEN v.own ELSE None

\* The object whose destructor destroyValue calls: nothing for a variable,
\* the base instead of the field if the base is a temporary.
Destroyed(v) == CASE v.kind = "self"                      -> v.at
                  [] v.kind = "field" /\ v.own = None     -> field[v.at]
                  [] OTHER                                -> v.own

\* An access to an object that is not live stops the machine.
Touch(objs, Step) ==
    IF objs \subseteq Live
    THEN Step
    ELSE mode' = "fault" /\ UNCHANGED <<stack, rc, state, field, ret>>

-----------------------------------------------------------------------------
(* Which uses of a value a program without a given form never makes *)

SafeCopy(v) == /\ v.kind = "self" => "SelfValue" \in Forms
               /\ v.kind = "field" /\ Loaded(v) = None => "UninitField" \in Forms

SafeArg(v) == /\ SafeCopy(v)
              /\ v.kind = "expr" => "TempArg" \in Forms
              /\ v.kind = "field" => "FieldArg" \in Forms
              /\ v.kind = "int" /\ v.own # None => "FieldArg" \in Forms

\* destroyValue destroys self, and a field without a temporary behind it, although
\* nothing has copied them.
SafeDestroy(v) == /\ v.kind = "self" => "BorrowedValue" \in Forms
                  /\ v.kind = "field" /\ v.own = None => "BorrowedValue" \in Forms

SafeReceiver(v) == /\ SafeDestroy(v)
                   /\ v.kind = "field" /\ Loaded(v) = None => "UninitField" \in Forms
                   /\ v.kind = "ident" /\ IsGlobal(v.idx) => "GlobalReceiver" \in Forms

\* A constructor's object field must be set when its body ends.
SafeReturn == LET self == stack[CurFrame].own IN
    /\ self # None /\ FieldClass[ClassOf[self]] # None /\ field[self] = None
          => "UninitField" \in Forms
    /\ (\E i \in DOMAIN stack : /\ i > CurFrame
                                /\ stack[i].kind = "scope"
                                /\ stack[i].own # None)
          => "CondTemp" \in Forms

-----------------------------------------------------------------------------
(* Expressions *)

\* An expression may start: the emitter is about to visit an ExprNode.
CanEval == mode = "run" /\ TopIs(ExprPlace) /\ Len(stack) < MaxStack

\* An expression has just left its Value and some construct is to use it.
HasValue == mode = "run" /\ TopIs(ValueKind) /\ ~UnderIs(ValueKind)

Eval(c) == /\ CanEval
           /\ stack' = Push(stack, c)
           /\ UNCHANGED <<rc, state, field, ret, mode>>

VisitLiteral == Eval(Int_(None))

VisitIdent ==
    \E i \in DOMAIN stack :
        /\ Visible(i) /\ stack[i].own # None
        /\ Eval(MkCell("ident", None, None, i))

VisitSelf == /\ CanEval /\ stack[CurFrame].at # None
             /\ Eval(MkCell("self", None, stack[CurFrame].at, 0))

\* x.f computes the field's address only; a temporary base stays pending.  A
\* field that is not set yet is named only to be assigned.
VisitFieldAccess ==
    /\ HasValue /\ Top.kind # "int"
    /\ Loaded(Top) \in Obj
    /\ LET o == Loaded(Top)
           c == FieldClass[ClassOf[o]]
       IN  /\ c # None
           /\ field[o] = None =>
                 \/ "UninitField" \in Forms
                 \/ UnderIs({"rhs"}) /\ Under.own # None /\ ClassOf[Under.own] = c
    /\ Touch(LoadTouches(Top),
             /\ stack' = Push(Pop(stack), MkCell("field", Top.own, Loaded(Top), 0))
             /\ UNCHANGED <<rc, state, field, ret, mode>>)

\* x.i, and the load its consumer does at once.
VisitIntField ==
    /\ HasValue /\ Top.kind # "int"
    /\ Loaded(Top) \in Obj
    /\ Touch(LoadTouches(Top) \cup {Loaded(Top)},
             /\ stack' = Push(Pop(stack), Int_(Top.own))
             /\ UNCHANGED <<rc, state, field, ret, mode>>)

\* -e and !e destroy what is behind their operand once it is loaded.
Unary ==
    /\ HasValue /\ Top.kind = "int"
    /\ stack' = Push(Push(Pop(stack), Int_(None)), Drop(Top.own))
    /\ UNCHANGED <<rc, state, field, ret, mode>>

\* The left operand of a binary operator, or a ternary's condition, is loaded
\* and kept while the next sub-expression is generated.
HoldOperand(k) ==
    /\ HasValue /\ Top.kind = "int" /\ Len(stack) < MaxStack
    /\ stack' = Push(Pop(stack), MkCell(k, Top.own, None, 0))
    /\ UNCHANGED <<rc, state, field, ret, mode>>

BinaryLhs   == HoldOperand("lhs")
TernaryCond == HoldOperand("cond")

Binary ==
    /\ HasValue /\ Top.kind = "int" /\ UnderIs({"lhs"})
    /\ stack' = Push(Push(Push(Pop2, Int_(None)), Drop(Top.own)), Drop(Under.own))
    /\ UNCHANGED <<rc, state, field, ret, mode>>

\* A ternary's chosen case is copied into the phi, then the condition destroyed.
Ternary ==
    /\ HasValue /\ UnderIs({"cond"}) /\ SafeCopy(Top)
    /\ Touch(CopyTouches(Top),
             /\ stack' = Push(Push(Push(Pop2, Expr(Loaded(Top))), Drop(Under.own)),
                              Drop(BaseOf(Top)))
             /\ rc' = Copied(Top)
             /\ UNCHANGED <<state, field, ret, mode>>)

-----------------------------------------------------------------------------
(* Calls *)

BeginCall == Eval(MkCell("call", None, None, 0))

\* mutant: the count starts at 0
BeginCtor_Zero ==
    \E o \in Obj :
        /\ CanEval /\ state[o] = "free"
        /\ stack' = Push(stack, MkCell("call", o, o, 0))
        /\ rc' = [rc EXCEPT ![o] = 0]
        /\ state' = [state EXCEPT ![o] = "live"]
        /\ field' = [field EXCEPT ![o] = None]
        /\ UNCHANGED <<ret, mode>>

\* A constructor call: the caller allocates the object with a count of 1.
BeginCtor ==
    \E o \in Obj :
        /\ CanEval /\ state[o] = "free"
        /\ stack' = Push(stack, MkCell("call", o, o, 0))
        /\ rc' = [rc EXCEPT ![o] = 1]
        /\ state' = [state EXCEPT ![o] = "live"]
        /\ field' = [field EXCEPT ![o] = None]
        /\ UNCHANGED <<ret, mode>>

\* mutant: the receiver is destroyed before the call instead of after it
BeginMethod_Early ==
    /\ HasValue /\ Top.kind # "int" /\ SafeReceiver(Top) /\ Len(stack) < MaxStack
    /\ Touch(LoadTouches(Top),
             /\ stack' = Push(Push(Pop(stack), MkCell("call", None, Loaded(Top), 0)),
                              Drop(Destroyed(Top)))
             /\ UNCHANGED <<rc, state, field, ret, mode>>)

\* A method call: the receiver is loaded, not copied, and its Value is kept
\* to be destroyed after the call.
BeginMethod ==
    /\ HasValue /\ Top.kind # "int" /\ SafeReceiver(Top) /\ Len(stack) < MaxStack
    /\ Touch(LoadTouches(Top),
             /\ stack' = Push(stack, MkCell("call", None, Loaded(Top), 0))
             /\ UNCHANGED <<rc, state, field, ret, mode>>)

\* An Int argument with nothing behind it.
PassInt ==
    /\ HasValue /\ UnderIs({"call", "arg"}) /\ Top.kind = "int" /\ Top.own = None
    /\ stack' = Pop(stack)
    /\ UNCHANGED <<rc, state, field, ret, mode>>

\* mutant: the argument is passed without copyValue
PassArg_Loaded ==
    /\ HasValue /\ UnderIs({"call", "arg"}) /\ SafeArg(Top)
    /\ Destroyed(Top) # None \/ Top.kind = "ident"
    /\ Touch(LoadTouches(Top),
             /\ stack' = Push(Pop(stack), MkCell("arg", Loaded(Top), Destroyed(Top), 0))
             /\ UNCHANGED <<rc, state, field, ret, mode>>)

\* One argument: its copy goes to the callee (own), its Value is destroyed by
\* the caller after the call (at, unless it is a variable).
PassArg ==
    /\ HasValue /\ UnderIs({"call", "arg"}) /\ SafeArg(Top)
    /\ Destroyed(Top) # None \/ Top.kind = "ident"
    /\ Touch(CopyTouches(Top),
             /\ stack' = Push(Push(Pop(stack),
                                   MkCell("arg", Loaded(Top), Destroyed(Top), 0)),
                              Drop(BaseOf(Top)))
             /\ rc' = Copied(Top)
             /\ UNCHANGED <<state, field, ret, mode>>)

\* The call instruction: setupFuncBody makes the arguments the callee's variables.
EnterCall ==
    /\ mode = "run" /\ TopIs({"call", "arg"})
    /\ \E c \in DOMAIN stack :
         /\ stack[c].kind = "call"
         /\ \A i \in DOMAIN stack : i > c => stack[i].kind = "arg"
         /\ stack' = [i \in DOMAIN stack |->
                        IF i < c THEN stack[i]
                        ELSE [stack[i] EXCEPT !.kind = IF i = c THEN "frame" ELSE "var"]]
    /\ UNCHANGED <<rc, state, field, ret, mode>>

\* The callee has returned: a constructor call's result is the allocated object.
EndCall ==
    /\ mode = "unwind" /\ TopIs({"frame"}) /\ Len(stack) > 1 /\ Top.idx = 0
    /\ stack' = Push(Pop(stack), Expr(IF Top.own # None THEN Top.own ELSE ret))
    /\ ret' = None
    /\ mode' = "run"
    /\ UNCHANGED <<rc, state, field>>

\* visitMethodCall's teardown: the receiver's Value lies under the result.
EndMethod ==
    /\ mode = "run" /\ TopIs(ValueKind) /\ UnderIs(ValueKind)
    /\ Touch(IF Under.own = None THEN LoadTouches(Under) ELSE {},
             /\ stack' = Push(Push(Pop2, Top), Drop(Destroyed(Under)))
             /\ UNCHANGED <<rc, state, field, ret, mode>>)

-----------------------------------------------------------------------------
(* Statements *)

StmtValue == HasValue /\ UnderIs(StmtPlace)

\* mutant: visitBlock discards the statement's result without destroying it
ExprStmt_Forget ==
    /\ StmtValue /\ SafeDestroy(Top)
    /\ InProgram => Top.kind = "int"
    /\ stack' = Pop(stack)
    /\ UNCHANGED <<rc, state, field, ret, mode>>

\* An expression statement; also an if whose condition is false, and (an Int
\* being worth no cell) the declaration of an Int variable.
ExprStmt ==
    /\ StmtValue /\ SafeDestroy(Top)
    /\ InProgram => Top.kind = "int"
    /\ Touch(IF Top.own = None THEN LoadTouches(Top) ELSE {},
             /\ stack' = Push(Pop(stack), Drop(Destroyed(Top)))
             /\ UNCHANGED <<rc, state, field, ret, mode>>)

\* let x = e, a local variable or (in the program's frame) a global.
VisitVariable ==
    /\ StmtValue /\ Top.kind # "int" /\ SafeCopy(Top)
    /\ Touch(CopyTouches(Top),
             /\ stack' = Push(Push(Pop(stack), Var(Loaded(Top))), Drop(BaseOf(Top)))
             /\ rc' = Copied(Top)
             /\ UNCHANGED <<state, field, ret, mode>>)

\* genAssign evaluates and copies the right-hand side first.
AssignRhs ==
    /\ StmtValue /\ ~InProgram /\ SafeCopy(Top) /\ Len(stack) < MaxStack
    /\ Touch(CopyTouches(Top),
             /\ stack' = Push(Push(Pop(stack), MkCell("rhs", Loaded(Top), None, 0)),
                              Drop(BaseOf(Top)))
             /\ rc' = Copied(Top)
             /\ UNCHANGED <<state, field, ret, mode>>)

\* mutant: the variable's old object is overwritten without destroyVar
AssignVar_NoDestroy ==
    /\ HasValue /\ Top.kind = "ident" /\ UnderIs({"rhs"}) /\ Under.own # None
    /\ ClassOf[Under.own] = ClassOf[Loaded(Top)]
    /\ stack' = [Pop2 EXCEPT ![Top.idx].own = Under.own]
    /\ UNCHANGED <<rc, state, field, ret, mode>>

\* ... then the left-hand side; destroyVar releases a variable's old object.
AssignVar ==
    /\ HasValue /\ Top.kind = "ident" /\ UnderIs({"rhs"}) /\ Under.own # None
    /\ ClassOf[Under.own] = ClassOf[Loaded(Top)]
    /\ stack' = Push([Pop2 EXCEPT ![Top.idx].own = Under.own], Drop(Loaded(Top)))
    /\ UNCHANGED <<rc, state, field, ret, mode>>

\* ... and leaves a field's old object alone.
AssignField ==
    /\ HasValue /\ Top.kind = "field" /\ UnderIs({"rhs"}) /\ Under.own # None
    /\ ClassOf[Under.own] = FieldClass[ClassOf[Top.at]]
    /\ field[Top.at] # None => "FieldReassign" \in Forms
    /\ Touch({Top.at},
             /\ field' = [field EXCEPT ![Top.at] = Under.own]
             /\ stack' = Push(Pop2, Drop(Top.own))
             /\ UNCHANGED <<rc, state, ret, mode>>)

AssignInt ==
    /\ HasValue /\ Top.kind = "int" /\ UnderIs({"rhs"}) /\ Under.own = None
    /\ stack' = Push(Pop2, Drop(Top.own))
    /\ UNCHANGED <<rc, state, field, ret, mode>>

\* if (e) ...: the condition's Value is destroyed at the end of the if.
EnterIf ==
    /\ StmtValue /\ ~InProgram /\ Top.kind = "int"
    /\ stack' = Push(Pop(stack), Scope(Top.own))
    /\ UNCHANGED <<rc, state, field, ret, mode>>

EnterBlock ==
    /\ CanEval /\ TopIs(StmtPlace) /\ ~InProgram
    /\ stack' = Push(stack, Scope(None))
    /\ UNCHANGED <<rc, state, field, ret, mode>>

\* The end of a scope: destroyVars, then (PopScope) the if's condition.
LeaveScope ==
    /\ mode = "run" /\ TopIs(StmtPlace)
    /\ \E i \in DOMAIN stack : i > CurFrame /\ stack[i].kind = "scope"
    /\ mode' = "leave"
    /\ UNCHANGED <<stack, rc, state, field, ret>>

\* return; or the end of a body whose function returns nothing.
ReturnVoid ==
    /\ mode = "run" /\ TopIs(StmtPlace) /\ ~InProgram /\ SafeReturn
    /\ mode' = "unwind"
    /\ UNCHANGED <<stack, rc, state, field, ret>>

\* return e: the value is copied, then every variable destroyed.
ReturnValue ==
    /\ StmtValue /\ ~InProgram /\ SafeCopy(Top) /\ SafeReturn
    /\ stack[CurFrame].own = None               \* constructors return void
    /\ stack[CurFrame].idx = 1 => Top.kind = "int"
    /\ Touch(CopyTouches(Top),
             /\ stack' = Push(Pop(stack), Drop(BaseOf(Top)))
             /\ rc' = Copied(Top)
             /\ ret' = Loaded(Top)
             /\ mode' = "unwind"
             /\ UNCHANGED <<state, field>>)

-----------------------------------------------------------------------------
(* Destruction *)

\* destroyVars and destroyAllVars: the newest variable first.  A parameter's
\* argument Value is destroyed once more by the caller (at).
PopVar ==
    /\ mode \in {"leave", "unwind"} /\ TopIs({"var"})
    /\ stack' = Push(Push(Pop(stack), Drop(Top.at)), Drop(Top.own))
    /\ UNCHANGED <<rc, state, field, ret, mode>>

\* mutant: the end of an inner scope is taken for the end of every scope
PopScope_All ==
    /\ mode \in {"leave", "unwind"} /\ TopIs({"scope"})
    /\ stack' = IF mode = "leave" THEN Push(Pop(stack), Drop(Top.own)) ELSE Pop(stack)
    /\ UNCHANGED <<rc, state, field, ret, mode>>

\* The end of a scope destroys the condition; a return does not.
PopScope ==
    /\ mode \in {"leave", "unwind"} /\ TopIs({"scope"})
    /\ stack' = IF mode = "leave" THEN Push(Pop(stack), Drop(Top.own)) ELSE Pop(stack)
    /\ mode' = IF mode = "leave" THEN "run" ELSE mode
    /\ UNCHANGED <<rc, state, field, ret>>

Running == mode \in {"run", "leave", "unwind"}

\* mutant: the dtor tests the count against 1 after the decrement
Dtor_OffByOne ==
    /\ Running /\ TopIs({"drop"}) /\ Top.own # None
    /\ Touch({Top.own},
         LET o == Top.own IN
         IF rc[o] - 1 > 1
         THEN /\ rc' = [rc EXCEPT ![o] = @ - 1]
              /\ stack' = Pop(stack)
              /\ UNCHANGED <<state, field, ret, mode>>
         ELSE /\ state' = [state EXCEPT ![o] = "dying"]
              /\ stack' = Push(Push(Pop(stack), MkCell("free", None, o, 0)),
                               Drop(field[o]))
              /\ mode' = IF FieldClass[ClassOf[o]] # None /\ field[o] = None
                         THEN "fault" ELSE mode
              /\ UNCHANGED <<rc, field, ret>>)

\* The generated destructor: decrement, or destroy the field and free.
Dtor ==
    /\ Running /\ TopIs({"drop"}) /\ Top.own # None
    /\ Touch({Top.own},
         LET o == Top.own IN
         IF rc[o] - 1 # 0
         THEN /\ rc' = [rc EXCEPT ![o] = @ - 1]
              /\ stack' = Pop(stack)
              /\ UNCHANGED <<state, field, ret, mode>>
         ELSE /\ state' = [state EXCEPT ![o] = "dying"]
              /\ stack' = Push(Push(Pop(stack), MkCell("free", None, o, 0)),
                               Drop(field[o]))
              /\ mode' = IF FieldClass[ClassOf[o]] # None /\ field[o] = None
                         THEN "fault" ELSE mode
              /\ UNCHANGED <<rc, field, ret>>)

\* destroyValueImpl on a value with no destructor emits nothing.
DropNothing ==
    /\ Running /\ TopIs({"drop"}) /\ Top.own = None
    /\ stack' = Pop(stack)
    /\ UNCHANGED <<rc, state, field, ret, mode>>

Free ==
    /\ Running /\ TopIs({"free"})
    /\ state' = [state EXCEPT ![Top.at] = "free"]
    /\ stack' = Pop(stack)
    /\ UNCHANGED <<rc, field, ret, mode>>

-----------------------------------------------------------------------------
(* The program *)

\* The C runtime calls main once the globals are initialised.
CallMain ==
    /\ mode = "run" /\ InProgram /\ TopIs({"frame", "var"})
    /\ stack' = Push(stack, MkCell("frame", None, None, 1))
    /\ UNCHANGED <<rc, state, field, ret, mode>>

\* main has returned: the globals are destroyed next.
EndMain ==
    /\ mode = "unwind" /\ TopIs({"frame"}) /\ Top.idx = 1
    /\ stack' = Pop(stack)
    /\ UNCHANGED <<rc, state, field, ret, mode>>

Exit ==
    /\ mode = "unwind" /\ TopIs({"frame"}) /\ Len(stack) = 1
    /\ stack' = <<>>
    /\ mode' = "done"
    /\ UNCHANGED <<rc, state, field, ret>>

\* malloc returns null, or the stack overflows: the process is killed.
OutOfMemory ==
    /\ mode = "run" /\ TopIs(ExprPlace \cup ValueKind)
    /\ Len(stack) >= MaxStack \/ \A o \in Obj : state[o] # "free"
    /\ mode' = "oom"
    /\ UNCHANGED <<stack, rc, state, field, ret>>

Stopped == mode \in {"done", "oom", "fault"} /\ UNCHANGED vars

Init ==
    /\ stack = <<MkCell("frame", None, None, 0)>>
    /\ rc = [o \in Obj |-> 0]
    /\ state = [o \in Obj |-> "free"]
    /\ field = [o \in Obj |-> None]
    /\ ret = None
    /\ mode = "run"

Expression == \/ VisitLiteral \/ VisitIdent \/ VisitSelf
              \/ VisitFieldAccess \/ VisitIntField
              \/ Unary \/ BinaryLhs \/ Binary \/ TernaryCond \/ Ternary

Call == \/ BeginCall \/ BeginCtor \/ BeginMethod \/ PassArg \/ PassInt
        \/ EnterCall \/ EndCall \/ EndMethod

Statement == \/ ExprStmt \/ VisitVariable \/ EnterIf \/ EnterBlock
             \/ AssignRhs \/ AssignVar \/ AssignField \/ AssignInt
             \/ LeaveScope \/ ReturnVoid \/ ReturnValue

Destruction == PopVar \/ PopScope \/ Dtor \/ DropNothing \/ Free

Program == CallMain \/ EndMain \/ Exit \/ OutOfMemory

Next == Expression \/ Call \/ Statement \/ Destruction \/ Program \/ Stopped

Spec == Init /\ [][Next]_vars

\* The machine always executes its next instruction.
FairSpec == Spec /\ WF_vars(Next)

-----------------------------------------------------------------------------
(* Properties *)

\* The places that hold a reference to o: cells, fields of live objects, and
\* the value a returning function carries.
CellsOf(o)  == {i \in DOMAIN stack : stack[i].own = o}
FieldsOf(o) == {p \in Live : field[p] = o}
Owners(o)   == Cardinality(CellsOf(o)) + Cardinality(FieldsOf(o))
               + (IF ret = o THEN 1 ELSE 0)

\* The count stored in a live object is the number of places that still owe
\* it a destructor call, and nothing owes one to an object that is gone: the
\* increments of copyValue and the destructor calls of every path agree.
CountExact == \A o \in Obj : Owners(o) = IF o \in Live THEN rc[o] ELSE 0

\* No emitted load, store, increment or destructor call touches an object that
\* was destroyed or a field that was never set.
NoUseAfterFree == mode # "fault"

\* When the process exits, every object has been freed.
NoLeak == mode = "done" => \A o \in Obj : state[o] = "free"

\* The receiver of every method on the stack, borrowed without an increment,
\* outlives the method; so does the object under construction.
SelfAlive == \A i \in DOMAIN stack :
    stack[i].kind = "frame" /\ stack[i].at # None => stack[i].at \in Live

\* An object is destroyed only by the release of its last reference.
LastOwnerDestroys == [][\A o \in Live \ Live' : Owners(o) = 1 /\ Top.own = o]_vars

\* Every cascade of destructors that a scope's or a function's end starts
\* comes to an end.
CleanupEnds == mode \in {"leave", "unwind"} ~> mode \notin {"leave", "unwind"}

\* The machine implements the promise of reference counting.
Promise == INSTANCE Ownership WITH owners <- [o \in Obj |-> Owners(o)], alive <- Live
KeepsPromise == Promise!Spec

=============================================================================
