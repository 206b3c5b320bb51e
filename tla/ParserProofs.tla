---------------------------- MODULE ParserProofs ----------------------------
(***************************************************************************)
(* Proofs about Parser for any set of tokens and any depth of recursion.   *)
(***************************************************************************)
EXTENDS Parser, TLAPS, SequenceTheorems, WellFoundedInduction

-----------------------------------------------------------------------------
(* No method fails silently.                                               *)

\* The kinds of result that are not null.
LEMMA NotNull ==
    /\ Null.kind = "null" /\ Node.kind # "null"
    /\ \A level, sound : Tree(level, sound).kind # "null"
    /\ \A level, sound, type, init :
          /\ Result("type", level, sound, type, init).kind # "null"
          /\ Result("varData", level, sound, type, init).kind # "null"
          /\ Result("variable", level, sound, type, init).kind # "null"
  BY DEF Null, Node, Tree, Result

\* An error that has been printed stays printed.
LEMMA ErrorsStay == ASSUME [Next]_vars PROVE errored => errored'
  BY DEF vars, Next, Expected, ExpectMet, ExpectFailed, MethodStep, Declaration, Statement,
         Expression, OutOfStack, Returned, Parse, ParseAccess, ParseDecl, ExternalOrBody,
         List, More, ParseType, ParamNode, VarType, VarInit, VarData, VariableNode,
         FieldNode, ClassType, Members, Member, AddField, Statements, ParseStatement,
         ParseElse, ReturnValue, ParseUnaryOp, ExprEnds, ParseBinaryOp, MethodArgs,
         NoText, Consume, Leave, ErrorExpected, ErrorAfter, ErrorConsumed, ErrorOnly, Failed

\* A step that returns null either prints an error or passes on a null.
LEMMA NullHasReason ==
    ASSUME [Next]_vars, res'.kind = "null"
    PROVE  res.kind = "null" \/ errored'
<1> USE DEF Return, GoOn, Become, Activate, Operator, NoText
<1>1. CASE ExpectMet
  BY <1>1 DEF ExpectMet
<1>2. CASE ExpectFailed
  BY <1>2 DEF ExpectFailed, ErrorExpected, ErrorAfter, ErrorConsumed, Failed
<1>3. CASE MethodStep
  BY <1>3, NotNull DEF MethodStep
<1>4. CASE Declaration
  <2>1. CASE ParamNode \/ FieldNode \/ ClassType \/ AddField
    BY <2>1, NotNull DEF ParamNode, FieldNode, ClassType, AddField, ErrorOnly, Failed
  <2>2. CASE ParseDecl \/ Member \/ VarInit
    BY <2>2, NotNull DEF ParseDecl, Member, VarInit, ErrorConsumed, Failed
  <2>3. CASE ParseType \/ VarData \/ VariableNode
    BY <2>3, NotNull DEF ParseType, VarData, VariableNode
  <2>4. CASE Parse \/ ParseAccess \/ ExternalOrBody \/ List \/ More \/ VarType \/ Members
    BY <2>4 DEF Parse, ParseAccess, ExternalOrBody, List, More, VarType, Members
  <2> QED
    BY <1>4, <2>1, <2>2, <2>3, <2>4 DEF Declaration
<1>5. CASE Statement
  BY <1>5, NotNull DEF Statement, Statements, ParseStatement, ParseElse, ReturnValue,
                       ErrorConsumed, Failed
<1>6. CASE Expression
  BY <1>6, NotNull DEF Expression, ParseUnaryOp, ExprEnds, ParseBinaryOp, MethodArgs,
                       ErrorAfter, Failed
<1>7. CASE OutOfStack \/ Returned \/ UNCHANGED vars
  BY <1>7 DEF OutOfStack, Returned, vars
<1> QED
  BY <1>1, <1>2, <1>3, <1>4, <1>5, <1>6, <1>7 DEF Next, Expected

\* For every text and every depth of recursion, a method that returns null has
\* had an error printed: VSLParser drops no declaration, member, statement or
\* argument silently.
THEOREM NothingFailsSilently == Spec => []NullReported
<1>1. Init => NullReported
  BY NotNull DEF Init, NullReported
<1>2. NullReported /\ [Next]_vars => NullReported'
  BY ErrorsStay, NullHasReason DEF NullReported
<1> QED
  BY <1>1, <1>2, PTL DEF Spec

-----------------------------------------------------------------------------
(* The steps that a method still has to take are ones of the module, so that *)
(* no step takes END for the token it asks for.                              *)

TypeInv == /\ ctl \in Seq(Frames) /\ res \in Results
           /\ errored \in BOOLEAN /\ text \in {"more", "end", "over"}

LEMMA StepTypes ==
    /\ \A t \in TokenKinds : /\ Need(t) \in Steps /\ Want(t) \in Steps /\ Skip(t) \in Steps
                             /\ Typo(t) \in Steps /\ Late(t) \in Steps
    /\ \A fn \in Methods : Call(fn) \in Steps /\ <<"list", fn>> \in Steps /\ <<"more", fn>> \in Steps
    /\ \A min \in 0..8 : Expr(min) \in Steps /\ <<"operators", min>> \in Steps
    /\ \A op \in DOMAIN Level : MakeExpr(op) \in Steps
    /\ NonNull \in Steps /\ Child \in Steps /\ Make \in Steps /\ Pass \in Steps
  BY DEF Steps, Need, Want, Skip, Typo, Late, Call, Expr, MakeExpr, NonNull, Child, Make, Pass

LEMMA DoTypes ==
    \A name \in {"parens", "decls", "access", "decl", "externalOrBody", "type", "param",
                 "varType", "variable", "field", "classType", "members", "member", "addField",
                 "statements", "statement", "else", "value", "unary", "methodArgs"} :
        Do(name) \in Steps
  BY DEF Steps, Do

LEMMA VarTypes ==
    \A a, b \in BOOLEAN : <<"varInit", a>> \in Steps /\ <<"varData", a, b>> \in Steps
  BY DEF Steps

\* What the argument of a step is.
LEMMA ArgumentTypes ==
    ASSUME NEW s \in Steps
    PROVE  /\ s[1] \in {"need", "want", "skip", "typo", "late"} => s[2] \in TokenKinds
           /\ s[1] \in {"call", "list", "more"} => s[2] \in Methods
           /\ s[1] \in {"expr", "operators"} => s[2] \in 0..8
           /\ s[1] = "makeExpr" => s[2] \in DOMAIN Level
           /\ s[1] \in {"varInit", "varData"} => s[2] \in BOOLEAN
  BY DEF Steps

LEMMA MethodNames == Methods =
    {"parseDecl", "parseFunction", "parseFuncData", "parseParams", "parseParam",
     "parseVariable", "parseVarData", "parseClass", "parseField", "parseCtor", "parseMethod",
     "parseStatement", "parseBlock", "parseIf", "parseReturn", "parseExprStmt",
     "parseCallArgs", "parseCallArg"}
  BY DEF Methods, Body

LEMMA OperatorNames ==
    DOMAIN Level = {"assign", "question", "and", "equal", "less", "plus", "minus", "star", "neg", "call", "dot"}
  BY DEF Level

LEMMA PrecTypes == \A t : getPrec(t) \in 0..8
  BY DEF getPrec

LEMMA PrecValues == /\ getPrec("lparen") = 8 /\ getPrec("question") = 2 /\ getPrec("assign") = 1
                    /\ getPrec("END") = 0
  BY DEF getPrec

\* The steps that occur in the programs.
LEMMA TokenSteps ==
    /\ Need("func") \in Steps /\ Need("ident") \in Steps /\ Need("arrow") \in Steps
    /\ Need("var") \in Steps /\ Need("class") \in Steps /\ Need("lbrace") \in Steps
    /\ Need("rbrace") \in Steps /\ Need("init") \in Steps /\ Need("if") \in Steps
    /\ Need("lparen") \in Steps /\ Need("rparen") \in Steps /\ Need("return") \in Steps
    /\ Need("question") \in Steps /\ Need("colon") \in Steps /\ Need("dot") \in Steps
    /\ Need("semicolon") \in Steps /\ Want("lparen") \in Steps /\ Want("rparen") \in Steps
    /\ Want("rbrace") \in Steps /\ Want("semicolon") \in Steps /\ Skip("ident") \in Steps
    /\ Skip("rparen") \in Steps /\ Typo("colon") \in Steps /\ Late("colon") \in Steps
  BY StepTypes DEF TokenKinds

LEMMA CallSteps ==
    /\ Call("parseDecl") \in Steps /\ Call("parseFuncData") \in Steps
    /\ Call("parseParams") \in Steps /\ Call("parseVarData") \in Steps
    /\ Call("parseBlock") \in Steps /\ Call("parseStatement") \in Steps
    /\ Call("parseCallArgs") \in Steps /\ Call("parseField") \in Steps
    /\ Call("parseCtor") \in Steps /\ Call("parseMethod") \in Steps
    /\ <<"list", "parseParam">> \in Steps /\ <<"list", "parseCallArg">> \in Steps
    /\ NonNull \in Steps /\ Child \in Steps /\ Make \in Steps /\ Pass \in Steps
    /\ Expr(0) \in Steps
  BY StepTypes, MethodNames

LEMMA DoSteps ==
    /\ Do("parens") \in Steps /\ Do("decls") \in Steps /\ Do("access") \in Steps
    /\ Do("decl") \in Steps /\ Do("externalOrBody") \in Steps /\ Do("type") \in Steps
    /\ Do("param") \in Steps /\ Do("varType") \in Steps /\ Do("variable") \in Steps
    /\ Do("field") \in Steps /\ Do("classType") \in Steps /\ Do("members") \in Steps
    /\ Do("member") \in Steps /\ Do("addField") \in Steps /\ Do("statements") \in Steps
    /\ Do("statement") \in Steps /\ Do("else") \in Steps /\ Do("value") \in Steps
    /\ Do("unary") \in Steps /\ Do("methodArgs") \in Steps
  BY DoTypes

\* The programs of the methods.
LEMMA BodyTypes == \A fn \in Methods : Body[fn] \in Seq(Steps)
<1>1. /\ ParseFunction \in Seq(Steps) /\ ParseFuncData \in Seq(Steps)
      /\ ParseParams \in Seq(Steps) /\ ParseParam \in Seq(Steps)
  BY TokenSteps, CallSteps, DoSteps DEF ParseFunction, ParseFuncData, ParseParams, ParseParam
<1>2. /\ ParseVariable \in Seq(Steps) /\ ParseVarData \in Seq(Steps)
      /\ ParseClass \in Seq(Steps) /\ ParseField \in Seq(Steps)
  BY TokenSteps, CallSteps, DoSteps DEF ParseVariable, ParseVarData, ParseClass, ParseField
<1>3. /\ ParseCtor \in Seq(Steps) /\ ParseMethod \in Seq(Steps)
      /\ ParseBlock \in Seq(Steps) /\ ParseIf \in Seq(Steps)
  BY TokenSteps, CallSteps, DoSteps DEF ParseCtor, ParseMethod, ParseBlock, ParseIf
<1>4. /\ ParseReturn \in Seq(Steps) /\ ParseExprStmt \in Seq(Steps)
      /\ ParseCallArgs \in Seq(Steps) /\ ParseCallArg \in Seq(Steps)
  BY TokenSteps, CallSteps, DoSteps DEF ParseReturn, ParseExprStmt, ParseCallArgs, ParseCallArg
<1>5. <<Do("access"), Do("decl")>> \in Seq(Steps) /\ <<Do("statement")>> \in Seq(Steps)
  BY DoSteps
<1> DEFINE Programs == {ParseFunction, ParseFuncData, ParseParams, ParseParam, ParseVariable,
                        ParseVarData, ParseClass, ParseField, ParseCtor, ParseMethod,
                        ParseBlock, ParseIf, ParseReturn, ParseExprStmt, ParseCallArgs,
                        ParseCallArg, <<Do("access"), Do("decl")>>, <<Do("statement")>>}
<1>6. \A fn \in Methods : Body[fn] \in Programs
  BY MethodNames DEF Body
<1> QED
  BY <1>1, <1>2, <1>3, <1>4, <1>5, <1>6

\* The programs of the operators.
LEMMA OperatorTypes ==
    /\ ParseUnaryExpr \in Seq(Steps) /\ ParseParens \in Seq(Steps)
    /\ ParseTernary \in Seq(Steps) /\ ParseCall \in Seq(Steps)
    /\ ParseMemberAccess \in Seq(Steps) /\ ExternalRest \in Seq(Steps)
    /\ \A op : getPrec(op) > 0 /\ op \notin {"question", "lparen", "dot"} => ParseBinaryExpr(op) \in Seq(Steps)
<1>1. Expr(getPrec("lparen") - 1) \in Steps /\ Expr(getPrec("question") - 1) \in Steps
  BY StepTypes, PrecValues
<1>2. /\ MakeExpr("neg") \in Steps /\ MakeExpr("question") \in Steps
      /\ MakeExpr("call") \in Steps /\ MakeExpr("dot") \in Steps
  BY StepTypes, OperatorNames
<1>3. /\ ParseUnaryExpr \in Seq(Steps) /\ ParseParens \in Seq(Steps)
      /\ ParseTernary \in Seq(Steps)
  BY <1>1, <1>2, TokenSteps, CallSteps, DoSteps DEF ParseUnaryExpr, ParseParens, ParseTernary
<1>4. /\ ParseCall \in Seq(Steps) /\ ParseMemberAccess \in Seq(Steps)
      /\ ExternalRest \in Seq(Steps)
  BY <1>2, TokenSteps, CallSteps, DoSteps DEF ParseCall, ParseMemberAccess, ExternalRest
<1>5. ASSUME NEW op, getPrec(op) > 0, op \notin {"question", "lparen", "dot"}
      PROVE  ParseBinaryExpr(op) \in Seq(Steps)
  <2>1. op \in DOMAIN Level
    BY <1>5, OperatorNames DEF getPrec
  <2>2. getPrec(op) \in 0..8 /\ getPrec(op) - 1 \in 0..8
    BY <1>5, PrecTypes
  <2>3. Expr(IF op = "assign" THEN getPrec(op) - 1 ELSE getPrec(op)) \in Steps
    BY <2>2, StepTypes
  <2>4. MakeExpr(op) \in Steps /\ Child \in Steps
    BY <2>1, StepTypes
  <2> QED
    BY <2>3, <2>4 DEF ParseBinaryExpr
<1> QED
  BY <1>3, <1>4, <1>5

-----------------------------------------------------------------------------
(* The recursion keeps its type.                                           *)

LEMMA TopType ==
    ASSUME TypeInv, ctl # <<>>
    PROVE  /\ Top \in Frames /\ Front(ctl) \in Seq(Frames)
           /\ Top.todo # <<>> => Head(Top.todo) \in Steps /\ Tail(Top.todo) \in Seq(Steps)
<1>1. Len(ctl) \in Nat \ {0}
  BY EmptySeq, LenProperties DEF TypeInv
<1>2. Top \in Frames
  BY <1>1, ElementOfSeq DEF Top, Last, TypeInv
<1>3. \A i \in 1..(Len(ctl) - 1) : ctl[i] \in Frames
  BY <1>1, ElementOfSeq DEF TypeInv
<1>4. Front(ctl) \in Seq(Frames)
  BY <1>1, <1>3, SubSeqProperties DEF Front, TypeInv
<1>5. Top.todo \in Seq(Steps)
  BY <1>2 DEF Frames
<1> QED
  BY <1>2, <1>4, <1>5, HeadTailProperties

\* The moves of the recursion, each from a state in which it is enabled.
LEMMA ActivationType ==
    ASSUME NEW fn, fn \in Methods \cup {"parse", "parseExpr", "parseUnaryOp", "parseTernary",
                            "parseCall", "parseMemberAccess", "parseBinaryExpr"},
           NEW todo \in Seq(Steps), NEW kids \in Seq(Results)
    PROVE  Activation(fn, todo, kids) \in Frames
  BY DEF Activation, Frames

LEMMA BeforeType ==
    ASSUME TypeInv, NEW name, At(name), NEW steps \in Seq(Steps)
    PROVE  Before(steps) \in Frames /\ Front(ctl) \in Seq(Frames)
<1>1. Top \in Frames /\ Tail(Top.todo) \in Seq(Steps) /\ Front(ctl) \in Seq(Frames)
  BY TopType DEF At
<1>2. steps \o Tail(Top.todo) \in Seq(Steps)
  BY <1>1, ConcatProperties
<1> QED
  BY <1>1, <1>2 DEF Before, Frames

LEMMA GoOnType ==
    ASSUME TypeInv, NEW name, At(name), NEW steps \in Seq(Steps), GoOn(steps)
    PROVE  ctl' \in Seq(Frames) /\ res' \in Results
<1>1. Before(steps) \in Frames /\ Front(ctl) \in Seq(Frames)
  BY BeforeType
<1> QED
  BY <1>1, AppendProperties DEF GoOn, TypeInv

LEMMA NoSteps == <<>> \in Seq(Steps) /\ <<>> \in Seq(Results)
  BY EmptySeq

LEMMA InPlaceType ==
    ASSUME TypeInv, NEW name, At(name), ctl' = Append(Front(ctl), Before(<<>>))
    PROVE  ctl' \in Seq(Frames)
<1>1. Before(<<>>) \in Frames /\ Front(ctl) \in Seq(Frames)
  BY BeforeType, NoSteps
<1> QED
  BY <1>1, AppendProperties

LEMMA BecomeType ==
    ASSUME TypeInv, NEW name, At(name), NEW fn \in Methods, Become(fn)
    PROVE  ctl' \in Seq(Frames) /\ res' \in Results
<1>1. Activation(fn, Body[fn], <<>>) \in Frames
  BY ActivationType, BodyTypes, NoSteps
<1>2. Front(ctl) \in Seq(Frames)
  BY TopType DEF At
<1> QED
  BY <1>1, <1>2, AppendProperties DEF Become, TypeInv

LEMMA ActivateType ==
    ASSUME TypeInv, NEW name, At(name),
           NEW fn, fn \in Methods \cup {"parseExpr", "parseUnaryOp"},
           NEW todo \in Seq(Steps), Activate(fn, todo, <<>>)
    PROVE  ctl' \in Seq(Frames) /\ res' \in Results
<1>1. Activation(fn, todo, <<>>) \in Frames
  BY ActivationType, NoSteps
<1>2. Before(<<>>) \in Frames /\ Front(ctl) \in Seq(Frames)
  BY BeforeType, NoSteps
<1>3. Append(Front(ctl), Before(<<>>)) \in Seq(Frames)
  BY <1>2, AppendProperties
<1> QED
  BY <1>1, <1>3, AppendProperties DEF Activate, TypeInv

LEMMA OperatorType ==
    ASSUME TypeInv, NEW todo \in Seq(Steps),
           NEW fn \in {"parseTernary", "parseCall", "parseMemberAccess", "parseBinaryExpr"},
           Operator(fn, todo)
    PROVE  ctl' \in Seq(Frames) /\ res' \in Results
<1>1. Activation(fn, todo, <<res>>) \in Frames
  <2>1. <<res>> \in Seq(Results)
    BY DEF TypeInv
  <2> QED
    BY <2>1, ActivationType
<1> QED
  BY <1>1, AppendProperties DEF Operator, TypeInv

LEMMA ReturnType ==
    ASSUME TypeInv, NEW name, At(name), NEW value \in Results, Return(value)
    PROVE  ctl' \in Seq(Frames) /\ res' \in Results
  BY TopType DEF Return, At

LEMMA ResultTypes ==
    /\ Null \in Results /\ Node \in Results
    /\ \A level \in 0..10, sound \in BOOLEAN : Tree(level, sound) \in Results
    /\ \A a, b \in BOOLEAN : /\ Result("type", 0, TRUE, a, b) \in Results
                             /\ Result("varData", 0, TRUE, a, b) \in Results
                             /\ Result("variable", 0, TRUE, a, b) \in Results
  BY DEF Null, Node, Tree, Result, Results

\* Whatever happens to the cache, the variables of the lexer keep their type.
LEMMA TextTypes ==
    ASSUME TypeInv, NEW t
    PROVE  /\ Consume(t) \/ Leave(t) \/ NoText =>
                 errored' \in BOOLEAN /\ text' \in {"more", "end", "over"}
           /\ ErrorExpected(t) \/ ErrorAfter(t) \/ ErrorConsumed(t) \/ ErrorOnly =>
                 errored' \in BOOLEAN /\ text' \in {"more", "end", "over"}
  BY DEF TypeInv, Consume, Leave, NoText, ErrorExpected, ErrorAfter, ErrorConsumed,
         ErrorOnly, Failed, TextAfter, Ask

LEMMA ArgumentOf ==
    ASSUME TypeInv, NEW name, At(name)
    PROVE  /\ name \in {"need", "want", "skip", "typo", "late"} => Argument \in TokenKinds
           /\ name \in {"call", "list", "more"} => Argument \in Methods
           /\ name \in {"expr", "operators"} => Argument \in 0..8
           /\ name = "makeExpr" => Argument \in DOMAIN Level
           /\ name \in {"varInit", "varData"} => Argument \in BOOLEAN
  BY TopType, ArgumentTypes DEF At, Argument

LEMMA ExpectedType == ASSUME TypeInv, Expected PROVE TypeInv'
<1>1. CASE ExpectMet
  <2>1. PICK mode : At(mode)
    BY <1>1 DEF ExpectMet
  <2>2. ctl' \in Seq(Frames) /\ res' \in Results
    BY <1>1, <2>1, GoOnType, NoSteps DEF ExpectMet
  <2>3. errored' \in BOOLEAN /\ text' \in {"more", "end", "over"}
    BY <1>1, TextTypes DEF ExpectMet
  <2> QED
    BY <2>2, <2>3 DEF TypeInv
<1>2. CASE ExpectFailed
  <2>1. PICK mode, t : /\ At(mode)
                       /\ Return(Null) \/ GoOn(<<>>)
                       /\ ErrorExpected(t) \/ ErrorConsumed(t) \/ ErrorAfter(t)
    BY <1>2 DEF ExpectFailed
  <2>2. ctl' \in Seq(Frames) /\ res' \in Results
    BY <2>1, GoOnType, ReturnType, ResultTypes, NoSteps
  <2>3. errored' \in BOOLEAN /\ text' \in {"more", "end", "over"}
    BY <2>1, TextTypes
  <2> QED
    BY <2>2, <2>3 DEF TypeInv
<1> QED
  BY <1>1, <1>2 DEF Expected

LEMMA MethodStepType == ASSUME TypeInv, MethodStep PROVE TypeInv'
<1>1. errored' \in BOOLEAN /\ text' \in {"more", "end", "over"}
  BY TextTypes DEF MethodStep
<1>2. CASE At("call") /\ Activate(Argument, Body[Argument], <<>>)
  BY <1>1, <1>2, ArgumentOf, BodyTypes, ActivateType DEF TypeInv
<1>3. CASE At("expr") /\ Activate("parseExpr", <<Do("unary"), <<"operators", Argument>>>>, <<>>)
  <2>1. Do("unary") \in Steps /\ <<"operators", Argument>> \in Steps
    BY <1>3, ArgumentOf, StepTypes, DoSteps
  <2>2. <<Do("unary"), <<"operators", Argument>>>> \in Seq(Steps)
    BY <2>1
  <2> QED
    BY <1>1, <1>3, <2>2, ActivateType DEF TypeInv
<1>4. CASE At("nonNull") /\ IF res = Null THEN Return(Null) ELSE GoOn(<<>>)
  BY <1>1, <1>4, ReturnType, GoOnType, ResultTypes, NoSteps DEF TypeInv
<1>5. CASE At("child") /\ res = Null /\ Return(Null)
  BY <1>1, <1>5, ReturnType, ResultTypes DEF TypeInv
<1>6. CASE /\ At("child") /\ UNCHANGED res
           /\ ctl' = Append(Front(ctl), [Before(<<>>) EXCEPT !.kids = Append(@, res)])
  <2>1. Before(<<>>) \in Frames /\ Front(ctl) \in Seq(Frames)
    BY <1>6, BeforeType, NoSteps
  <2>2. Append(Before(<<>>).kids, res) \in Seq(Results)
    BY <2>1, AppendProperties DEF Frames, TypeInv
  <2>3. [Before(<<>>) EXCEPT !.kids = Append(@, res)] \in Frames
    BY <2>1, <2>2 DEF Frames
  <2> QED
    BY <1>1, <1>6, <2>1, <2>3, AppendProperties DEF TypeInv
<1>7. CASE At("make") /\ Return(Node)
  BY <1>1, <1>7, ReturnType, ResultTypes DEF TypeInv
<1>8. CASE At("makeExpr") /\ Return(Tree(Level[Argument], InGrammar(Argument, Top.kids)))
  <2>1. Level[Argument] \in 0..10
    BY <1>8, ArgumentOf, OperatorNames DEF Level
  <2>2. InGrammar(Argument, Top.kids) \in BOOLEAN
    BY DEF InGrammar
  <2> QED
    BY <1>1, <1>8, <2>1, <2>2, ReturnType, ResultTypes DEF TypeInv
<1>9. CASE At("pass") /\ Return(res)
  BY <1>1, <1>9, ReturnType DEF TypeInv
<1>10. CASE At("parens") /\ Return(IF res = Null THEN Null ELSE Tree(10, res.sound))
  <2>1. res.sound \in BOOLEAN
    BY DEF TypeInv, Results
  <2> QED
    BY <1>1, <1>10, <2>1, ReturnType, ResultTypes DEF TypeInv
<1> QED
  BY <1>2, <1>3, <1>4, <1>5, <1>6, <1>7, <1>8, <1>9, <1>10 DEF MethodStep

\* What an action adds before the steps that are left.
LEMMA AddedSteps ==
    /\ <<Call("parseDecl"), Do("decls")>> \in Seq(Steps)
    /\ <<Call("parseBlock"), NonNull, Make>> \in Seq(Steps)
    /\ \A fn \in Methods : <<Call(fn), <<"more", fn>>>> \in Seq(Steps)
    /\ <<Do("type"), <<"varInit", TRUE>>>> \in Seq(Steps)
    /\ <<<<"varInit", FALSE>>>> \in Seq(Steps)
    /\ \A a, b \in BOOLEAN : /\ <<Expr(0), Want("semicolon"), <<"varData", a, b>>>> \in Seq(Steps)
                             /\ <<Want("semicolon"), <<"varData", a, b>>>> \in Seq(Steps)
<1>1. /\ <<Call("parseDecl"), Do("decls")>> \in Seq(Steps)
      /\ <<Call("parseBlock"), NonNull, Make>> \in Seq(Steps)
  BY CallSteps, DoSteps
<1>2. ASSUME NEW fn \in Methods
      PROVE  <<Call(fn), <<"more", fn>>>> \in Seq(Steps)
  <2>1. Call(fn) \in Steps /\ <<"more", fn>> \in Steps
    BY StepTypes
  <2> QED
    BY <2>1
<1>3. /\ <<Do("type"), <<"varInit", TRUE>>>> \in Seq(Steps)
      /\ <<<<"varInit", FALSE>>>> \in Seq(Steps)
  <2>1. Do("type") \in Steps /\ <<"varInit", TRUE>> \in Steps /\ <<"varInit", FALSE>> \in Steps
    BY DoSteps, VarTypes
  <2> QED
    BY <2>1
<1>4. ASSUME NEW a \in BOOLEAN, NEW b \in BOOLEAN
      PROVE  /\ <<Expr(0), Want("semicolon"), <<"varData", a, b>>>> \in Seq(Steps)
             /\ <<Want("semicolon"), <<"varData", a, b>>>> \in Seq(Steps)
  <2>1. Expr(0) \in Steps /\ Want("semicolon") \in Steps /\ <<"varData", a, b>> \in Steps
    BY TokenSteps, CallSteps, VarTypes
  <2> QED
    BY <2>1
<1> QED
  BY <1>1, <1>2, <1>3, <1>4

LEMMA AddedMembers ==
    /\ <<Do("access"), Do("member")>> \in Seq(Steps)
    /\ <<Call("parseField"), Do("addField"), Do("members")>> \in Seq(Steps)
    /\ <<Call("parseCtor"), Do("members")>> \in Seq(Steps)
    /\ <<Call("parseMethod"), Do("members")>> \in Seq(Steps)
    /\ <<Do("members")>> \in Seq(Steps)
    /\ <<Call("parseStatement"), Do("statements")>> \in Seq(Steps)
    /\ <<Call("parseStatement")>> \in Seq(Steps)
    /\ <<Expr(0), Need("semicolon")>> \in Seq(Steps)
    /\ <<Call("parseCallArgs")>> \in Seq(Steps)
  BY TokenSteps, CallSteps, DoSteps

LEMMA DeclarationType == ASSUME TypeInv, Declaration PROVE TypeInv'
<1>1. errored' \in BOOLEAN /\ text' \in {"more", "end", "over"}
  BY TextTypes DEF Declaration, Parse, ParseAccess, ParseDecl, ExternalOrBody, List, More,
                   ParseType, ParamNode, VarType, VarInit, VarData, VariableNode, FieldNode,
                   ClassType, Members, Member, AddField
<1>2. CASE Parse
  BY <1>1, <1>2, ReturnType, GoOnType, AddedSteps DEF Parse, TypeInv
<1>3. CASE ParseAccess
  BY <1>1, <1>3, GoOnType, NoSteps DEF ParseAccess, TypeInv
<1>4. CASE ParseDecl
  BY <1>1, <1>4, BecomeType, MethodNames, ReturnType, ResultTypes DEF ParseDecl, TypeInv
<1>5. CASE ExternalOrBody
  BY <1>1, <1>5, GoOnType, AddedSteps, OperatorTypes DEF ExternalOrBody, TypeInv
<1>6. CASE List
  BY <1>1, <1>6, GoOnType, ArgumentOf, AddedSteps, NoSteps DEF List, TypeInv
<1>7. CASE More
  BY <1>1, <1>7, GoOnType, ArgumentOf, AddedSteps, NoSteps DEF More, TypeInv
<1>8. CASE ParseType
  <2>1. PICK t : /\ At("type") /\ ctl' = Append(Front(ctl), Before(<<>>))
                 /\ res' = Result("type", 0, TRUE, t \in {"type", "ident"}, FALSE)
    BY <1>8 DEF ParseType
  <2>2. ctl' \in Seq(Frames)
    BY <2>1, InPlaceType
  <2>3. res' \in Results
    BY <2>1 DEF Result, Results
  <2> QED
    BY <1>1, <2>2, <2>3 DEF TypeInv
<1>9. CASE ParamNode
  BY <1>1, <1>9, ReturnType, ResultTypes DEF ParamNode, TypeInv
<1>10. CASE VarType
  BY <1>1, <1>10, GoOnType, AddedSteps DEF VarType, TypeInv
<1>11. CASE VarInit
  BY <1>1, <1>11, GoOnType, ArgumentOf, AddedSteps, ReturnType, ResultTypes DEF VarInit, TypeInv
<1>12. CASE VarData
  <2>1. Argument \in BOOLEAN /\ (Head(Top.todo)[3] /\ res # Null) \in BOOLEAN
    BY <1>12, ArgumentOf DEF VarData
  <2> QED
    BY <1>1, <1>12, <2>1, ReturnType, ResultTypes DEF VarData, TypeInv
<1>13. CASE VariableNode
  <2>1. res.type \in BOOLEAN /\ res.init \in BOOLEAN
    BY DEF TypeInv, Results
  <2> QED
    BY <1>1, <1>13, <2>1, ReturnType, ResultTypes DEF VariableNode, TypeInv
<1>14. CASE FieldNode
  BY <1>1, <1>14, ReturnType, ResultTypes DEF FieldNode, TypeInv
<1>15. CASE ClassType
  BY <1>1, <1>15, GoOnType, NoSteps, ReturnType, ResultTypes DEF ClassType, TypeInv
<1>16. CASE Members
  BY <1>1, <1>16, GoOnType, NoSteps, AddedMembers DEF Members, TypeInv
<1>17. CASE Member
  BY <1>1, <1>17, GoOnType, AddedMembers DEF Member, TypeInv
<1>18. CASE AddField
  BY <1>1, <1>18, GoOnType, NoSteps DEF AddField, TypeInv
<1> QED
  BY <1>2, <1>3, <1>4, <1>5, <1>6, <1>7, <1>8, <1>9, <1>10, <1>11, <1>12, <1>13, <1>14,
     <1>15, <1>16, <1>17, <1>18 DEF Declaration

LEMMA StatementType == ASSUME TypeInv, Statement PROVE TypeInv'
<1>1. errored' \in BOOLEAN /\ text' \in {"more", "end", "over"}
  BY TextTypes DEF Statement, Statements, ParseStatement, ParseElse, ReturnValue
<1>2. CASE Statements
  BY <1>1, <1>2, GoOnType, NoSteps, AddedMembers DEF Statements, TypeInv
<1>3. CASE ParseStatement
  BY <1>1, <1>3, BecomeType, MethodNames, ReturnType, ResultTypes DEF ParseStatement, TypeInv
<1>4. CASE ParseElse
  BY <1>1, <1>4, GoOnType, NoSteps, AddedMembers DEF ParseElse, TypeInv
<1>5. CASE ReturnValue
  BY <1>1, <1>5, GoOnType, NoSteps, AddedMembers DEF ReturnValue, TypeInv
<1> QED
  BY <1>2, <1>3, <1>4, <1>5 DEF Statement

LEMMA ExpressionType == ASSUME TypeInv, Expression PROVE TypeInv'
<1>1. errored' \in BOOLEAN /\ text' \in {"more", "end", "over"}
  BY TextTypes DEF Expression, ParseUnaryOp, ExprEnds, ParseBinaryOp, MethodArgs
<1>2. CASE ParseUnaryOp
  <2>1. CASE /\ At("unary") /\ ctl' = Append(Front(ctl), Before(<<>>))
             /\ res' = Tree(10, TRUE) \/ res' = Null
    <3>1. ctl' \in Seq(Frames)
      BY <2>1, InPlaceType
    <3>2. res' \in Results
      <4>1. Tree(10, TRUE) \in Results /\ Null \in Results
        BY DEF Tree, Null, Result, Results
      <4> QED
        BY <2>1, <4>1
    <3> QED
      BY <1>1, <3>1, <3>2 DEF TypeInv
  <2>2. CASE /\ At("unary")
             /\ \/ Activate("parseUnaryOp", ParseUnaryExpr, <<>>)
                \/ Activate("parseUnaryOp", ParseParens, <<>>)
    BY <1>1, <2>2, ActivateType, OperatorTypes DEF TypeInv
  <2> QED
    BY <1>2, <2>1, <2>2 DEF ParseUnaryOp
<1>3. CASE ExprEnds
  BY <1>1, <1>3, ReturnType DEF ExprEnds, TypeInv
<1>4. CASE ParseBinaryOp
  <2>1. PICK t : /\ At("operators") /\ Argument < getPrec(t)
                 /\ \/ Operator("parseTernary", ParseTernary)
                    \/ Operator("parseCall", ParseCall)
                    \/ Operator("parseMemberAccess", ParseMemberAccess)
                    \/ /\ t \notin {"question", "lparen", "dot"}
                       /\ Operator("parseBinaryExpr", ParseBinaryExpr(t))
    BY <1>4 DEF ParseBinaryOp
  <2>2. Argument \in 0..8
    BY <2>1, ArgumentOf
  <2>3. getPrec(t) > 0
    BY <2>1, <2>2, PrecTypes
  <2> QED
    BY <1>1, <2>1, <2>3, OperatorType, OperatorTypes DEF TypeInv
<1>5. CASE MethodArgs
  BY <1>1, <1>5, GoOnType, NoSteps, AddedMembers DEF MethodArgs, TypeInv
<1> QED
  BY <1>2, <1>3, <1>4, <1>5 DEF Expression

LEMMA StepKeepsType == ASSUME TypeInv, [Next]_vars PROVE TypeInv'
<1>1. CASE OutOfStack
  <2>1. <<>> \in Seq(Frames)
    BY EmptySeq
  <2> QED
    BY <1>1, <2>1 DEF OutOfStack, TypeInv
<1>2. CASE Returned \/ UNCHANGED vars
  BY <1>2 DEF Returned, vars, TypeInv
<1> QED
  BY <1>1, <1>2, ExpectedType, MethodStepType, DeclarationType, StatementType,
     ExpressionType DEF Next

-----------------------------------------------------------------------------
(* The end of the text.                                                    *)

\* As long as no error has been printed, END is not consumed: once the lexer
\* has answered it, it stays in the cache.
EndInv == /\ text = "over" => errored
          /\ text = "end" /\ ~errored => cache = <<"END">>
          /\ cache = <<>> \/ \E t : cache = <<t>>

\* Every way to treat the cache keeps this, except to consume END.
LEMMA CacheKeepsEnd ==
    ASSUME TypeInv, EndInv,
           \/ NoText \/ ErrorOnly
           \/ \E t \in Current : \/ t # "END" /\ Consume(t)
                                 \/ Leave(t) \/ ErrorExpected(t)
                                 \/ ErrorAfter(t) \/ ErrorConsumed(t)
    PROVE  EndInv'
<1>1. CASE NoText
  BY <1>1 DEF NoText, EndInv
<1>2. CASE ErrorOnly
  BY <1>2 DEF ErrorOnly, Failed, EndInv
<1>3. ASSUME NEW t \in Current, t # "END", Consume(t)
      PROVE  EndInv'
  <2>1. cache' = <<>> /\ text' = TextAfter(t) /\ errored' = errored
    BY <1>3 DEF Consume
  <2>2. CASE cache = <<>>
    <3>1. text' = Ask(text, t)
      BY <2>1, <2>2 DEF TextAfter
    <3>2. text = "end" => errored
      BY <2>2 DEF EndInv
    <3>3. text' # "end" /\ (text' = "over" => text # "more")
      BY <1>3, <3>1 DEF Ask
    <3> QED
      BY <2>1, <3>2, <3>3 DEF EndInv, TypeInv
  <2>3. CASE cache # <<>>
    <3>1. text' = text
      BY <2>1, <2>3 DEF TextAfter
    <3>2. cache = <<t>>
      BY <1>3, <2>3 DEF Current, EndInv
    <3>3. text = "end" => errored
      BY <1>3, <3>2 DEF EndInv
    <3> QED
      BY <2>1, <3>1, <3>3 DEF EndInv
  <2> QED
    BY <2>2, <2>3
<1>4. ASSUME NEW t \in Current, Leave(t)
      PROVE  EndInv'
  <2>1. cache' = <<t>> /\ text' = TextAfter(t) /\ errored' = errored
    BY <1>4 DEF Leave
  <2>2. CASE cache = <<>>
    <3>1. text' = Ask(text, t)
      BY <2>1, <2>2 DEF TextAfter
    <3>2. text = "end" => errored
      BY <2>2 DEF EndInv
    <3>3. /\ text' = "over" => text # "more"
          /\ text' = "end" => t = "END"
      BY <3>1 DEF Ask
    <3> QED
      BY <2>1, <3>2, <3>3 DEF EndInv, TypeInv
  <2>3. CASE cache # <<>>
    <3>1. text' = text
      BY <2>1, <2>3 DEF TextAfter
    <3>2. cache' = cache
      BY <1>4, <2>1, <2>3 DEF Current, EndInv
    <3> QED
      BY <2>1, <3>1, <3>2 DEF EndInv
  <2> QED
    BY <2>2, <2>3
<1>5. ASSUME NEW t \in Current, ErrorExpected(t) \/ ErrorAfter(t) \/ ErrorConsumed(t)
      PROVE  EndInv'
  BY <1>5 DEF ErrorExpected, ErrorAfter, ErrorConsumed, Failed, EndInv
<1> QED
  BY <1>1, <1>2, <1>3, <1>4, <1>5

LEMMA StepKeepsEnd == ASSUME TypeInv, EndInv, [Next]_vars PROVE EndInv'
<1>1. CASE ExpectMet
  <2>1. Argument \in TokenKinds
    BY <1>1, ArgumentOf DEF ExpectMet
  <2>2. Argument # "END"
    BY <2>1 DEF TokenKinds
  <2> QED
    BY <1>1, <2>2, CacheKeepsEnd DEF ExpectMet
<1>2. CASE ExpectFailed
  BY <1>2, CacheKeepsEnd DEF ExpectFailed
<1>3. CASE MethodStep
  BY <1>3, CacheKeepsEnd DEF MethodStep
<1>4. CASE Declaration
  <2>1. CASE Parse \/ ParseAccess \/ ParseDecl \/ ExternalOrBody \/ List \/ More
    BY <2>1, CacheKeepsEnd DEF Parse, ParseAccess, ParseDecl, ExternalOrBody, List, More
  <2>2. CASE ParseType \/ ParamNode \/ VarType \/ VarInit \/ VarData \/ VariableNode
    BY <2>2, CacheKeepsEnd DEF ParseType, ParamNode, VarType, VarInit, VarData, VariableNode
  <2>3. CASE FieldNode \/ ClassType \/ Members \/ Member \/ AddField
    BY <2>3, CacheKeepsEnd DEF FieldNode, ClassType, Members, Member, AddField
  <2> QED
    BY <1>4, <2>1, <2>2, <2>3 DEF Declaration
<1>5. CASE Statement
  BY <1>5, CacheKeepsEnd DEF Statement, Statements, ParseStatement, ParseElse, ReturnValue
<1>6. CASE Expression
  <2>1. CASE ParseUnaryOp
    BY <2>1, CacheKeepsEnd DEF ParseUnaryOp
  <2>2. CASE ExprEnds \/ MethodArgs
    BY <2>2, CacheKeepsEnd DEF ExprEnds, MethodArgs
  <2>3. CASE ParseBinaryOp
    <3>1. PICK t \in Current : At("operators") /\ Argument < getPrec(t) /\ (Leave(t) \/ Consume(t))
      BY <2>3 DEF ParseBinaryOp
    <3>2. Argument \in 0..8
      BY <3>1, ArgumentOf
    <3>3. t # "END"
      BY <3>1, <3>2, PrecValues
    <3> QED
      BY <3>1, <3>3, CacheKeepsEnd
  <2> QED
    BY <1>6, <2>1, <2>2, <2>3 DEF Expression
<1>7. CASE OutOfStack \/ Returned \/ UNCHANGED vars
  BY <1>7 DEF OutOfStack, Returned, vars, EndInv
<1> QED
  BY <1>1, <1>2, <1>3, <1>4, <1>5, <1>6, <1>7 DEF Next, Expected

\* For every text and every depth of recursion, a text in which no error is
\* found is never read past its end: VSLParser never consumes END without an
\* error, so it never asks the lexer for what comes after.
THEOREM EndIsTheEnd == Spec => []OverrunReported
<1>1. Init => TypeInv /\ EndInv
  <2> SUFFICES ASSUME Init PROVE TypeInv /\ EndInv
    OBVIOUS
  <2>1. <<Do("decls")>> \in Seq(Steps)
    BY DoSteps
  <2>2. Activation("parse", <<Do("decls")>>, <<>>) \in Frames
    BY <2>1, NoSteps, ActivationType
  <2>3. ctl \in Seq(Frames)
    BY <2>2 DEF Init
  <2> QED
    BY <2>3, ResultTypes DEF Init, TypeInv, EndInv
<1>2. TypeInv /\ EndInv /\ [Next]_vars => (TypeInv /\ EndInv)'
  BY StepKeepsType, StepKeepsEnd
<1>3. EndInv => OverrunReported
  BY DEF EndInv, OverrunReported
<1> QED
  BY <1>1, <1>2, <1>3, PTL DEF Spec

-----------------------------------------------------------------------------
(* Flattening a sequence of sequences.  FlattenSeq is a recursive function; it *)
(* exists, and is what it should be at the end of a longer sequence, by         *)
(* induction on the length.                                                     *)

LEMMA LeastNat ==
    ASSUME NEW S, S \subseteq Nat, S # {}
    PROVE  \E x \in S : \A y \in S : x <= y
<1>1. PICK R : IsWellFoundedOn(R, Nat) /\ R = {ss \in Nat \X Nat : ss[1] < ss[2]}
  BY NatLessThanWellFounded DEF OpToRel
<1>2. PICK x \in S : \A y \in S : ~ (<<y, x>> \in R)
  BY <1>1, WFMin
<1>3. ASSUME NEW y \in S, y < x
      PROVE  FALSE
  <2>1. <<y, x>> \in Nat \X Nat /\ <<y, x>>[1] < <<y, x>>[2]
    BY <1>3
  <2> QED
    BY <1>1, <1>2, <2>1
<1>4. \A y \in S : x <= y
  BY <1>3
<1> QED
  BY <1>4

Flattens(f, ss, n) == f = [i \in 1..n |-> IF i = 1 THEN ss[i] ELSE f[i-1] \o ss[i]]

LEMMA FlattensExists ==
    ASSUME NEW ss, NEW n \in Nat
    PROVE  \E f : Flattens(f, ss, n)
<1> DEFINE Bad == {m \in Nat : ~ \E f : Flattens(f, ss, m)}
<1> SUFFICES ASSUME Bad # {} PROVE FALSE
  OBVIOUS
<1>1. PICK m \in Bad : \A k \in Bad : m <= k
  <2>1. Bad \subseteq Nat
    OBVIOUS
  <2> HIDE DEF Bad
  <2> QED
    BY <2>1, LeastNat
<1>2. CASE m = 0
  <2> DEFINE f == [i \in 1..0 |-> ss]
  <2>1. f = [i \in 1..0 |-> IF i = 1 THEN ss[i] ELSE f[i-1] \o ss[i]]
    OBVIOUS
  <2> HIDE DEF f
  <2> QED
    BY <1>1, <1>2, <2>1 DEF Flattens
<1>3. CASE m # 0
  <2>1. m - 1 \in Nat /\ m - 1 \notin Bad
    BY <1>1, <1>3
  <2>2. PICK g : Flattens(g, ss, m - 1)
    BY <2>1
  <2> DEFINE f == [i \in 1..m |-> IF i < m THEN g[i] ELSE IF i = 1 THEN ss[i] ELSE g[i-1] \o ss[i]]
  <2>3. ASSUME NEW i \in 1..m
        PROVE  f[i] = IF i = 1 THEN ss[i] ELSE f[i-1] \o ss[i]
    <3>1. CASE i < m
      <4>1. f[i] = g[i] /\ i \in 1..m - 1
        BY <1>1, <3>1
      <4>2. i # 1 => i - 1 \in 1..m /\ f[i-1] = g[i-1]
        BY <1>1, <3>1
      <4>3. g[i] = IF i = 1 THEN ss[i] ELSE g[i-1] \o ss[i]
        BY <2>2, <4>1 DEF Flattens
      <4> QED
        BY <4>1, <4>2, <4>3
    <3>2. CASE i = m
      <4>1. i # 1 => i - 1 \in 1..m /\ f[i-1] = g[i-1]
        BY <1>1, <1>3, <3>2
      <4>2. f[i] = IF i = 1 THEN ss[i] ELSE g[i-1] \o ss[i]
        BY <3>2
      <4> QED
        BY <4>1, <4>2
    <3> QED
      BY <1>1, <3>1, <3>2
  <2>4. f = [i \in 1..m |-> IF i = 1 THEN ss[i] ELSE f[i-1] \o ss[i]]
    <3>1. f = [i \in 1..m |-> f[i]]
      OBVIOUS
    <3> HIDE DEF f
    <3> QED
      BY <2>3, <3>1
  <2> HIDE DEF f
  <2> QED
    BY <1>1, <2>4 DEF Flattens
<1> QED
  BY <1>2, <1>3

LEMMA FlattenIs ==
    ASSUME NEW S, NEW ss \in Seq(S), ss # <<>>
    PROVE  \E f : Flattens(f, ss, Len(ss)) /\ FlattenSeq(ss) = f[Len(ss)]
<1> DEFINE f == CHOOSE g : g = [i \in 1..Len(ss) |-> IF i = 1 THEN ss[i] ELSE g[i-1] \o ss[i]]
<1>1. Len(ss) \in Nat \ {0}
  BY EmptySeq
<1>2. FlattenSeq(ss) = IF Len(ss) = 0 THEN ss ELSE f[Len(ss)]
  BY Zenon DEF FlattenSeq
<1>3. \E g : g = [i \in 1..Len(ss) |-> IF i = 1 THEN ss[i] ELSE g[i-1] \o ss[i]]
  BY <1>1, FlattensExists DEF Flattens
<1>4. f = [i \in 1..Len(ss) |-> IF i = 1 THEN ss[i] ELSE f[i-1] \o ss[i]]
  BY <1>3
<1> HIDE DEF f
<1> QED
  BY <1>1, <1>2, <1>4 DEF Flattens

LEMMA FlattenAppend ==
    ASSUME NEW S, NEW ss \in Seq(Seq(S)), NEW s \in Seq(S)
    PROVE  FlattenSeq(Append(ss, s)) = FlattenSeq(ss) \o s
<1>1. PICK t, n : t = Append(ss, s) /\ n = Len(ss) /\ n \in Nat
  BY LenProperties
<1>2. /\ t \in Seq(Seq(S)) /\ t # <<>> /\ Len(t) = n + 1 /\ t[n + 1] = s
      /\ \A i \in 1..n : t[i] = ss[i]
  BY <1>1
<1>3. PICK f : Flattens(f, t, n + 1) /\ FlattenSeq(t) = f[n + 1]
  BY <1>2, FlattenIs
<1>4. \A i \in 1..n + 1 : f[i] = IF i = 1 THEN t[i] ELSE f[i-1] \o t[i]
  BY <1>3 DEF Flattens
<1>5. CASE n = 0
  <2>1. ss = <<>> /\ FlattenSeq(ss) = ss
    BY <1>1, <1>5, EmptySeq DEF FlattenSeq
  <2>2. f[1] = t[1]
    BY <1>4, <1>5
  <2> QED
    BY <1>1, <1>2, <1>3, <1>5, <2>1, <2>2, ConcatEmptySeq
<1>6. CASE n # 0
  <2>1. PICK g : Flattens(g, ss, n) /\ FlattenSeq(ss) = g[n]
    <3>1. ss # <<>>
      BY <1>1, <1>6, EmptySeq
    <3> QED
      BY <1>1, <3>1, FlattenIs
  <2>2. \A i \in 1..n : g[i] = IF i = 1 THEN ss[i] ELSE g[i-1] \o ss[i]
    BY <2>1 DEF Flattens
  <2> DEFINE Bad == {i \in 1..n : f[i] # g[i]}
  <2>3. Bad = {}
    <3> SUFFICES ASSUME Bad # {} PROVE FALSE
      OBVIOUS
    <3>1. PICK m \in Bad : \A k \in Bad : m <= k
      <4>1. Bad \subseteq Nat
        OBVIOUS
      <4> HIDE DEF Bad
      <4> QED
        BY <4>1, LeastNat
    <3>2. m \in 1..n /\ m \in 1..n + 1
      BY <1>1, <3>1
    <3>3. m # 1 => m - 1 \in 1..n /\ m - 1 \notin Bad
      BY <1>1, <3>1, <3>2
    <3>4. m # 1 => f[m - 1] = g[m - 1]
      BY <3>3
    <3> QED
      BY <1>2, <1>4, <2>2, <3>1, <3>2, <3>4
  <2>4. f[n] = g[n]
    BY <1>1, <1>6, <2>3
  <2>5. PICK m \in 1..n + 1 : m = n + 1 /\ m # 1 /\ m - 1 = n
    BY <1>1, <1>6
  <2>6. f[m] = f[m-1] \o t[m]
    BY <1>4, <2>5
  <2> QED
    BY <1>1, <1>2, <1>3, <2>1, <2>4, <2>5, <2>6
<1> QED
  BY <1>5, <1>6

LEMMA FlattenType ==
    ASSUME NEW S, NEW ss \in Seq(Seq(S))
    PROVE  FlattenSeq(ss) \in Seq(S)
<1>1. CASE ss = <<>>
  BY <1>1, EmptySeq DEF FlattenSeq
<1>2. CASE ss # <<>>
  <2>1. PICK n \in Nat \ {0} : n = Len(ss)
    BY <1>2, EmptySeq
  <2>2. PICK f : Flattens(f, ss, n) /\ FlattenSeq(ss) = f[n]
    BY <1>2, <2>1, FlattenIs
  <2>3. \A i \in 1..n : f[i] = IF i = 1 THEN ss[i] ELSE f[i-1] \o ss[i]
    BY <2>2 DEF Flattens
  <2> DEFINE Bad == {i \in 1..n : f[i] \notin Seq(S)}
  <2>4. Bad = {}
    <3> SUFFICES ASSUME Bad # {} PROVE FALSE
      OBVIOUS
    <3>1. PICK m \in Bad : \A k \in Bad : m <= k
      <4>1. Bad \subseteq Nat
        OBVIOUS
      <4> HIDE DEF Bad
      <4> QED
        BY <4>1, LeastNat
    <3>2. m \in 1..n /\ f[m] \notin Seq(S) /\ ss[m] \in Seq(S)
      BY <2>1, <3>1
    <3>3. m # 1 => m - 1 \in 1..n /\ m - 1 \notin Bad
      BY <2>1, <3>1, <3>2
    <3>4. m # 1 => f[m - 1] \in Seq(S)
      BY <3>3
    <3>5. m # 1 => f[m - 1] \o ss[m] \in Seq(S)
      BY <3>2, <3>4, ConcatProperties
    <3> QED
      BY <2>3, <3>2, <3>5
  <2> QED
    BY <2>1, <2>2, <2>4
<1> QED
  BY <1>1, <1>2

-----------------------------------------------------------------------------
(* The steps that a method has left.                                       *)

\* The steps that a method ends with, or whose action says how it goes on.
Finals == {"make", "makeExpr", "pass", "parens", "param", "varData", "variable", "field",
           "operators", "decls", "decl", "statement", "externalOrBody", "varType", "varInit"}

Opening == {"lparen", "lbrace"}
Closing == {"rparen", "rbrace"}
IsBracket(s) == s[1] \in {"need", "want", "skip"} /\ s[2] \in Opening \cup Closing

\* The last step is a final one and no other is.
Ended(todo) == todo # <<>> /\ \A i \in DOMAIN todo : todo[i][1] \in Finals <=> i = Len(todo)

\* There is at most one bracket to close; if one is to be opened, it is that one.
NestedAt(todo, i) ==
    /\ todo[i][1] \in {"typo", "late"} => todo[i][2] = "colon"
    /\ IsBracket(todo[i]) /\ todo[i][2] \in Closing =>
           \A j \in DOMAIN todo : i < j => ~IsBracket(todo[j])
    /\ IsBracket(todo[i]) /\ todo[i][2] \in Opening =>
           \E j \in DOMAIN todo :
               /\ i < j /\ IsBracket(todo[j]) /\ todo[j][2] \in Closing
               /\ Opener[todo[j][2]] = todo[i][2]
               /\ \A k \in DOMAIN todo : i < k /\ IsBracket(todo[k]) => k = j
Nested(todo) == \A i \in DOMAIN todo : NestedAt(todo, i)

\* A step that takes what the last call returned comes behind that call.
Preceded(todo) ==
    \A i \in DOMAIN todo : i > 1 =>
        /\ todo[i][1] = "param" => todo[i-1][1] = "type"
        /\ todo[i][1] \in {"variable", "field"} =>
               /\ todo[i-1][1] = "nonNull"
               /\ i > 2 => todo[i-2][1] = "call" /\ todo[i-2][2] = "parseVarData"

Shaped(todo) == Ended(todo) /\ Nested(todo) /\ Preceded(todo)

\* Steps that can be put before others.
Inner(steps) == \A i \in DOMAIN steps :
    steps[i][1] \notin Finals \cup {"nonNull", "typo", "late"} /\ ~IsBracket(steps[i])

\* How the steps that are added and those that were left are numbered.
LEMMA Spliced ==
    ASSUME NEW todo \in Seq(Steps), todo # <<>>, NEW steps \in Seq(Steps),
           NEW q, q = steps \o Tail(todo), NEW n, n = Len(todo), NEW k, k = Len(steps)
    PROVE  /\ q \in Seq(Steps) /\ n \in Nat \ {0} /\ k \in Nat /\ DOMAIN q = 1..k + n - 1
           /\ DOMAIN todo = 1..n /\ DOMAIN steps = 1..k /\ Len(q) = k + n - 1
           /\ \A i \in 1..k : q[i] = steps[i]
           /\ \A i \in k + 1..k + n - 1 : i - k + 1 \in 2..n /\ q[i] = todo[i - k + 1]
<1>1. n \in Nat \ {0} /\ k \in Nat /\ DOMAIN todo = 1..n /\ DOMAIN steps = 1..k
  BY EmptySeq, LenProperties
<1>2. PICK t : t = Tail(todo)
  OBVIOUS
<1>3. t \in Seq(Steps) /\ Len(t) = n - 1 /\ \A i \in 1..n - 1 : t[i] = todo[i + 1]
  BY <1>2, HeadTailProperties
<1>4. q \in Seq(Steps) /\ Len(q) = k + (n - 1)
      /\ \A i \in 1..k + (n - 1) : q[i] = IF i <= k THEN steps[i] ELSE t[i - k]
  BY <1>2, <1>3, ConcatProperties
<1>5. ASSUME NEW i \in k + 1..k + n - 1
      PROVE  i - k + 1 \in 2..n /\ q[i] = todo[i - k + 1]
  <2>1. i - k \in 1..n - 1 /\ (i - k) + 1 = i - k + 1 /\ i \in 1..k + (n - 1) /\ ~(i <= k)
    BY <1>1
  <2> QED
    BY <1>1, <1>3, <1>4, <2>1
<1>6. \A i \in 1..k : q[i] = steps[i]
  BY <1>1, <1>4
<1>7. Len(q) = k + n - 1
  BY <1>1, <1>4
<1> QED
  BY <1>1, <1>4, <1>5, <1>6, <1>7, LenProperties

LEMMA SplicedShape ==
    ASSUME NEW todo \in Seq(Steps), Shaped(todo), todo[1][1] \notin Finals,
           NEW steps \in Seq(Steps), Inner(steps),
           steps = <<>> \/ todo[1][1] \notin {"type", "nonNull", "call"},
           NEW q, q = steps \o Tail(todo)
    PROVE  q \in Seq(Steps) /\ Shaped(q) /\ Last(q) = Last(todo)
<1>1. PICK n, k : n = Len(todo) /\ k = Len(steps)
  OBVIOUS
<1>2. todo # <<>>
  BY DEF Shaped, Ended
<1>3. /\ q \in Seq(Steps) /\ n \in Nat \ {0} /\ k \in Nat /\ DOMAIN q = 1..k + n - 1
      /\ DOMAIN todo = 1..n /\ DOMAIN steps = 1..k /\ Len(q) = k + n - 1
      /\ \A i \in 1..k : q[i] = steps[i]
      /\ \A i \in k + 1..k + n - 1 : i - k + 1 \in 2..n /\ q[i] = todo[i - k + 1]
  BY <1>1, <1>2, Spliced
<1>4. \A i \in 1..n : todo[i][1] \in Finals <=> i = n
  BY <1>1, <1>3 DEF Shaped, Ended
<1>5. n \in Nat /\ k \in Nat /\ n > 1
  <2>1. n \in Nat \ {0} /\ k \in Nat
    BY <1>3
  <2>2. 1 \in 1..n
    BY <2>1
  <2>3. n # 1
    BY <1>4, <2>2
  <2> QED
    BY <2>1, <2>3
<1>6. PICK r : r = k + n - 1
  OBVIOUS
<1>7. r \in Nat /\ r = k + n - 1 /\ DOMAIN q = 1..r /\ Len(q) = r /\ r > 0
  BY <1>3, <1>5, <1>6
<1>8. \A i \in 1..k : q[i] = steps[i] /\ i \in DOMAIN steps
  BY <1>3
<1>9. \A i \in 1..r : i > k => \E m \in 2..n : i = m + k - 1 /\ q[i] = todo[m]
  <2>1. ASSUME NEW i \in 1..r, i > k
        PROVE  \E m \in 2..n : i = m + k - 1 /\ q[i] = todo[m]
    <3>1. i \in k + 1..k + n - 1
      BY <1>5, <1>7, <2>1
    <3>2. PICK m : m = i - k + 1
      OBVIOUS
    <3>3. m \in 2..n /\ q[i] = todo[m]
      BY <1>3, <3>1, <3>2
    <3>4. i = m + k - 1
      BY <1>5, <3>2
    <3> QED
      BY <3>3, <3>4
  <2> QED
    BY <2>1
<1>10. \A m \in 2..n : \E i \in 1..r : i = m + k - 1 /\ q[i] = todo[m]
  <2>1. ASSUME NEW m \in 2..n PROVE \E i \in 1..r : i = m + k - 1 /\ q[i] = todo[m]
    <3>1. PICK i : i = m + k - 1
      OBVIOUS
    <3>2. i \in 1..r /\ i > k
      BY <1>5, <1>7, <3>1
    <3>3. PICK l \in 2..n : i = l + k - 1 /\ q[i] = todo[l]
      BY <1>9, <3>2
    <3>4. l = m
      BY <1>5, <3>1, <3>3
    <3> QED
      BY <3>1, <3>2, <3>3, <3>4
  <2> QED
    BY <2>1
<1> HIDE DEF Finals, IsBracket, Opening, Closing
<1>11. Last(q) = Last(todo)
  <2>1. n \in 2..n
    BY <1>5
  <2>2. PICK i \in 1..r : i = n + k - 1 /\ q[i] = todo[n]
    BY <1>10, <2>1
  <2>3. i = r
    BY <1>5, <1>7, <2>2
  <2> QED
    BY <1>1, <1>7, <2>2, <2>3 DEF Last
<1>12. \A i \in 1..k : q[i][1] \notin Finals \cup {"nonNull", "typo", "late"} /\ ~IsBracket(q[i])
  BY <1>8 DEF Inner
<1>13. Ended(q)
  <2>1. q # <<>>
    BY <1>7
  <2>2. ASSUME NEW i \in 1..r, i > k PROVE q[i][1] \in Finals <=> i = r
    <3>1. PICK m \in 2..n : i = m + k - 1 /\ q[i] = todo[m]
      BY <1>9, <2>2
    <3>2. (i = r <=> m = n) /\ m \in 1..n
      BY <1>5, <1>7, <3>1
    <3> QED
      BY <1>4, <3>1, <3>2
  <2>3. ASSUME NEW i \in 1..r, i \in 1..k PROVE q[i][1] \notin Finals /\ i # r
    BY <1>5, <1>7, <1>12, <2>3
  <2>4. \A i \in 1..r : i > k \/ i \in 1..k
    BY <1>5, <1>7
  <2> QED
    BY <1>7, <2>1, <2>2, <2>3, <2>4 DEF Ended
<1>14. Nested(q)
  <2>0. DOMAIN q = 1..r
    BY <1>7
  <2>1. ASSUME NEW i \in 1..r, i > k PROVE NestedAt(q, i)
    <3>1. PICK m \in 2..n : i = m + k - 1 /\ q[i] = todo[m]
      BY <1>9, <2>1
    <3>2. m \in 1..n
      BY <1>5
    <3>3. /\ todo[m][1] \in {"typo", "late"} => todo[m][2] = "colon"
          /\ IsBracket(todo[m]) /\ todo[m][2] \in Closing =>
                 \A j \in 1..n : m < j => ~IsBracket(todo[j])
          /\ IsBracket(todo[m]) /\ todo[m][2] \in Opening =>
                 \E j \in 1..n :
                     /\ m < j /\ IsBracket(todo[j]) /\ todo[j][2] \in Closing
                     /\ Opener[todo[j][2]] = todo[m][2]
                     /\ \A l \in 1..n : m < l /\ IsBracket(todo[l]) => l = j
      BY <1>3, <3>2 DEF Shaped, Nested, NestedAt
    <3>4. \A j \in 1..r : i < j => \E l \in 2..n : j = l + k - 1 /\ m < l /\ q[j] = todo[l]
      <4>1. ASSUME NEW j \in 1..r, i < j
            PROVE  \E l \in 2..n : j = l + k - 1 /\ m < l /\ q[j] = todo[l]
        <5>0. j > k
          BY <1>5, <1>7, <2>1, <4>1
        <5>1. PICK l \in 2..n : j = l + k - 1 /\ q[j] = todo[l]
          BY <1>9, <5>0
        <5>2. m < l
          BY <1>5, <3>1, <4>1, <5>1
        <5> QED
          BY <5>1, <5>2
      <4> QED
        BY <4>1
    <3>5. \A l \in 2..n : l \in 1..n
      BY <1>5
    <3>6. IsBracket(q[i]) /\ q[i][2] \in Closing => \A j \in DOMAIN q : i < j => ~IsBracket(q[j])
      BY <2>0, <3>1, <3>3, <3>4, <3>5
    <3>7. ASSUME IsBracket(q[i]), q[i][2] \in Opening
          PROVE  \E j \in DOMAIN q :
                    /\ i < j /\ IsBracket(q[j]) /\ q[j][2] \in Closing
                    /\ Opener[q[j][2]] = q[i][2]
                    /\ \A l \in DOMAIN q : i < l /\ IsBracket(q[l]) => l = j
      <4>1. PICK x \in 1..n : /\ m < x /\ IsBracket(todo[x]) /\ todo[x][2] \in Closing
                              /\ Opener[todo[x][2]] = todo[m][2]
                              /\ \A y \in 1..n : m < y /\ IsBracket(todo[y]) => y = x
        BY <3>1, <3>3, <3>7
      <4>2. x \in 2..n
        BY <1>5, <4>1
      <4>3. PICK j \in 1..r : j = x + k - 1 /\ q[j] = todo[x]
        BY <1>10, <4>2
      <4>4. i < j
        BY <1>5, <3>1, <4>1, <4>3
      <4>5. ASSUME NEW l \in DOMAIN q, i < l, IsBracket(q[l]) PROVE l = j
        <5>0. l \in 1..r
          BY <2>0
        <5>1. PICK y \in 2..n : l = y + k - 1 /\ m < y /\ q[l] = todo[y]
          BY <3>4, <4>5, <5>0
        <5>2. y = x
          BY <3>5, <4>1, <4>5, <5>1
        <5> QED
          BY <4>3, <5>1, <5>2
      <4> QED
        BY <2>0, <3>1, <4>1, <4>3, <4>4, <4>5
    <3> QED
      BY <3>1, <3>3, <3>6, <3>7 DEF NestedAt
  <2>2. \A i \in 1..r : i > k \/ i \in 1..k
    BY <1>5, <1>7
  <2>3. ASSUME NEW i \in 1..r, i \in 1..k PROVE NestedAt(q, i)
    BY <1>12, <2>3 DEF NestedAt
  <2> QED
    BY <2>0, <2>1, <2>2, <2>3 DEF Nested
<1>15. Preceded(q)
  <2>1. ASSUME NEW i \in 1..r, i > 1
        PROVE  /\ q[i][1] = "param" => q[i-1][1] = "type"
               /\ q[i][1] \in {"variable", "field"} =>
                      /\ q[i-1][1] = "nonNull"
                      /\ i > 2 => q[i-2][1] = "call" /\ q[i-2][2] = "parseVarData"
    <3>1. CASE i \in 1..k
      <4>1. q[i][1] \notin Finals
        BY <1>12, <3>1
      <4> QED
        BY <4>1 DEF Finals
    <3>2. CASE i > k
      <4>1. PICK m \in 2..n : i = m + k - 1 /\ q[i] = todo[m]
        BY <1>9, <3>2
      <4>2. m \in 1..n /\ m > 1
        BY <1>5
      <4>3. /\ todo[m][1] = "param" => todo[m-1][1] = "type"
            /\ todo[m][1] \in {"variable", "field"} =>
                   /\ todo[m-1][1] = "nonNull"
                   /\ m > 2 => todo[m-2][1] = "call" /\ todo[m-2][2] = "parseVarData"
        BY <1>3, <4>2 DEF Shaped, Preceded
      <4>4. k = 0 \/ todo[1][1] \notin {"type", "nonNull", "call"}
        BY <1>1
      <4>5. CASE m = 2
        <5>1. k # 0
          BY <1>5, <2>1, <4>1, <4>5
        <5>2. todo[m - 1] = todo[1]
          BY <4>5
        <5> QED
          BY <4>1, <4>3, <4>4, <5>1, <5>2
      <4>6. CASE m > 2
        <5>1. PICK a, b : a = i - 1 /\ b = m - 1
          OBVIOUS
        <5>2. a \in 1..r /\ a > k /\ b \in 2..n
          <6>1. k \in Nat /\ n \in Nat /\ r \in Nat
            BY <1>5, <1>7
          <6>2. m \in 2..n /\ i = m + k - 1 /\ i <= r
            BY <2>1, <4>1, <6>1
          <6> QED
            BY <4>6, <5>1, <6>1, <6>2
        <5>3. PICK l \in 2..n : a = l + k - 1 /\ q[a] = todo[l]
          BY <1>9, <5>2
        <5>4. l = b
          <6>1. k \in Nat /\ n \in Nat
            BY <1>5
          <6>2. m \in 2..n /\ i = m + k - 1 /\ l \in 2..n /\ a = l + k - 1
            BY <4>1, <5>3
          <6> QED
            BY <5>1, <6>1, <6>2
        <5>5. q[i-1] = todo[m-1]
          BY <5>1, <5>3, <5>4
        <5>6. CASE m = 3
          <6>1. i > 2 => k # 0
            BY <1>5, <4>1, <5>6
          <6>2. m > 2 /\ todo[m - 2] = todo[1]
            BY <5>6
          <6> QED
            BY <4>1, <4>3, <4>4, <5>5, <6>1, <6>2
        <5>7. CASE m > 3
          <6>1. PICK c, d : c = i - 2 /\ d = m - 2
            OBVIOUS
          <6>2. c \in 1..r /\ c > k /\ d \in 2..n
            <7>1. k \in Nat /\ n \in Nat /\ r \in Nat
              BY <1>5, <1>7
            <7>2. m \in 2..n /\ i = m + k - 1 /\ i <= r
              BY <2>1, <4>1, <7>1
            <7> QED
              BY <5>7, <6>1, <7>1, <7>2
          <6>3. PICK o \in 2..n : c = o + k - 1 /\ q[c] = todo[o]
            BY <1>9, <6>2
          <6>4. o = d
            <7>1. k \in Nat /\ n \in Nat
              BY <1>5
            <7>2. m \in 2..n /\ i = m + k - 1 /\ o \in 2..n /\ c = o + k - 1
              BY <4>1, <6>3
            <7> QED
              BY <6>1, <7>1, <7>2
          <6>5. q[i-2] = todo[m-2]
            BY <6>1, <6>3, <6>4
          <6>6. m > 2
            BY <1>5, <5>7
          <6> QED
            BY <4>1, <4>3, <5>5, <6>5, <6>6
        <5>8. m = 3 \/ m > 3
          BY <1>5, <4>6
        <5> QED
          BY <5>6, <5>7, <5>8
      <4>7. m = 2 \/ m > 2
        BY <1>5
      <4> QED
        BY <4>5, <4>6, <4>7
    <3>3. i \in 1..k \/ i > k
      BY <1>5, <1>7
    <3> QED
      BY <3>1, <3>2, <3>3
  <2> QED
    BY <1>7, <2>1 DEF Preceded
<1> QED
  BY <1>3, <1>11, <1>13, <1>14, <1>15 DEF Shaped

-----------------------------------------------------------------------------
(* The brackets that a method waits for.                                   *)

\* The brackets that the steps name.
Brackets(todo) == {todo[i][2] : i \in {j \in DOMAIN todo : IsBracket(todo[j])}}

LEMMA AwaitedIs ==
    ASSUME NEW todo, {"rparen", "rbrace"} \cap Brackets(todo) # {"rparen", "rbrace"}
    PROVE  Awaited(todo) = IF "rparen" \in Brackets(todo) /\ "lparen" \notin Brackets(todo)
                           THEN <<"lparen">>
                           ELSE IF "rbrace" \in Brackets(todo) /\ "lbrace" \notin Brackets(todo)
                           THEN <<"lbrace">> ELSE <<>>
<1>1. ASSUME NEW t \in Opening \cup Closing PROVE Mentions(todo, t) <=> t \in Brackets(todo)
  BY <1>1 DEF Mentions, Brackets, IsBracket
<1>2. /\ Mentions(todo, "rparen") <=> "rparen" \in Brackets(todo)
      /\ Mentions(todo, "lparen") <=> "lparen" \in Brackets(todo)
      /\ Mentions(todo, "rbrace") <=> "rbrace" \in Brackets(todo)
      /\ Mentions(todo, "lbrace") <=> "lbrace" \in Brackets(todo)
  BY <1>1 DEF Opening, Closing
<1>3. ~(Mentions(todo, "rparen") /\ Mentions(todo, "rbrace"))
  BY <1>2
<1>4. CASE Mentions(todo, "rparen") /\ ~Mentions(todo, "lparen")
  BY <1>2, <1>3, <1>4 DEF Awaited
<1>5. CASE Mentions(todo, "rbrace") /\ ~Mentions(todo, "lbrace")
  BY <1>2, <1>3, <1>5 DEF Awaited
<1>6. CASE /\ ~(Mentions(todo, "rparen") /\ ~Mentions(todo, "lparen"))
           /\ ~(Mentions(todo, "rbrace") /\ ~Mentions(todo, "lbrace"))
  BY <1>2, <1>6 DEF Awaited
<1> QED
  BY <1>4, <1>5, <1>6

LEMMA OneAwaited ==
    ASSUME NEW todo \in Seq(Steps), Nested(todo)
    PROVE  {"rparen", "rbrace"} \cap Brackets(todo) # {"rparen", "rbrace"}
<1> SUFFICES ASSUME "rparen" \in Brackets(todo), "rbrace" \in Brackets(todo) PROVE FALSE
  OBVIOUS
<1>1. PICK i \in DOMAIN todo : IsBracket(todo[i]) /\ todo[i][2] = "rparen"
  BY DEF Brackets
<1>2. PICK j \in DOMAIN todo : IsBracket(todo[j]) /\ todo[j][2] = "rbrace"
  BY DEF Brackets
<1>3. i < j \/ j < i
  <2>1. i # j
    BY <1>1, <1>2
  <2> QED
    BY <2>1, LenProperties
<1>4. NestedAt(todo, i) /\ NestedAt(todo, j)
  BY DEF Nested
<1> QED
  BY <1>1, <1>2, <1>3, <1>4 DEF NestedAt, Closing

LEMMA AwaitedType ==
    ASSUME NEW todo \in Seq(Steps), Nested(todo) PROVE Awaited(todo) \in Seq(Opening)
<1>1. <<"lparen">> \in Seq(Opening) /\ <<"lbrace">> \in Seq(Opening) /\ <<>> \in Seq(Opening)
  BY DEF Opening
<1> QED
  BY <1>1, AwaitedIs, OneAwaited

\* The brackets of the first step and of the others, and of steps put together.
LEMMA BracketsTail ==
    ASSUME NEW todo \in Seq(Steps), todo # <<>>
    PROVE  Brackets(todo) = (IF IsBracket(todo[1]) THEN {todo[1][2]} ELSE {})
                            \cup Brackets(Tail(todo))
<1>1. PICK t, n : t = Tail(todo) /\ n = Len(todo)
  OBVIOUS
<1>2. t \in Seq(Steps) /\ Len(t) = n - 1 /\ \A i \in 1..n - 1 : t[i] = todo[i + 1]
  BY <1>1, HeadTailProperties
<1>3. n \in Nat /\ n > 0 /\ DOMAIN todo = 1..n
  BY <1>1, EmptySeq, LenProperties
<1>4. DOMAIN t = 1..n - 1
  BY <1>2, LenProperties
<1>5. ASSUME NEW i \in 1..n, i # 1 PROVE \E j \in 1..n - 1 : t[j] = todo[i]
  <2>1. PICK j : j = i - 1
    OBVIOUS
  <2>2. j \in 1..n - 1 /\ j + 1 = i
    BY <1>3, <1>5, <2>1
  <2> QED
    BY <1>2, <2>2
<1>6. \A j \in 1..n - 1 : j + 1 \in 1..n
  BY <1>3
<1>7. ASSUME NEW b \in Brackets(todo)
      PROVE  b \in (IF IsBracket(todo[1]) THEN {todo[1][2]} ELSE {}) \cup Brackets(t)
  <2>1. PICK i \in 1..n : IsBracket(todo[i]) /\ b = todo[i][2]
    BY <1>3, <1>7 DEF Brackets
  <2>2. CASE i = 1
    BY <2>1, <2>2
  <2>3. CASE i # 1
    BY <1>4, <1>5, <2>1, <2>3 DEF Brackets
  <2> QED
    BY <2>2, <2>3
<1>8. ASSUME NEW b \in Brackets(t) PROVE b \in Brackets(todo)
  <2>1. PICK j \in 1..n - 1 : IsBracket(t[j]) /\ b = t[j][2]
    BY <1>4, <1>8 DEF Brackets
  <2>2. t[j] = todo[j + 1] /\ j + 1 \in DOMAIN todo
    BY <1>2, <1>3, <1>6
  <2> QED
    BY <2>1, <2>2 DEF Brackets
<1>9. IsBracket(todo[1]) => todo[1][2] \in Brackets(todo)
  <2>1. 1 \in DOMAIN todo
    BY <1>3
  <2> QED
    BY <2>1 DEF Brackets
<1> QED
  BY <1>1, <1>7, <1>8, <1>9

LEMMA BracketsConcat ==
    ASSUME NEW s \in Seq(Steps), NEW t \in Seq(Steps),
           \A i \in DOMAIN s : ~IsBracket(s[i])
    PROVE  Brackets(s \o t) = Brackets(t)
<1>1. PICK q, k, n : q = s \o t /\ k = Len(s) /\ n = Len(t)
  OBVIOUS
<1>2. k \in Nat /\ n \in Nat /\ DOMAIN s = 1..k /\ DOMAIN t = 1..n
  BY <1>1, LenProperties
<1>3. q \in Seq(Steps) /\ Len(q) = k + n
      /\ \A i \in 1..k + n : q[i] = IF i <= k THEN s[i] ELSE t[i - k]
  BY <1>1, ConcatProperties
<1>4. DOMAIN q = 1..k + n
  BY <1>3, LenProperties
<1>5. ASSUME NEW b \in Brackets(q) PROVE b \in Brackets(t)
  <2>1. PICK i \in 1..k + n : IsBracket(q[i]) /\ b = q[i][2]
    BY <1>4, <1>5 DEF Brackets
  <2>2. ~(i <= k)
    <3>1. i <= k => i \in DOMAIN s /\ q[i] = s[i]
      BY <1>2, <1>3
    <3> QED
      BY <2>1, <3>1
  <2>3. i - k \in 1..n /\ q[i] = t[i - k]
    BY <1>2, <1>3, <2>2
  <2>4. PICK j \in 1..n : q[i] = t[j]
    BY <2>3
  <2> QED
    BY <1>2, <2>1, <2>4 DEF Brackets
<1>6. ASSUME NEW b \in Brackets(t) PROVE b \in Brackets(q)
  <2>1. PICK j \in 1..n : IsBracket(t[j]) /\ b = t[j][2]
    BY <1>2, <1>6 DEF Brackets
  <2>2. PICK i : i = j + k
    OBVIOUS
  <2>3. i \in 1..k + n /\ ~(i <= k) /\ i - k = j
    BY <1>2, <2>2
  <2>4. q[i] = t[j] /\ i \in DOMAIN q
    BY <1>3, <1>4, <2>3
  <2> QED
    BY <2>1, <2>4 DEF Brackets
<1> QED
  BY <1>1, <1>5, <1>6

\* Steps without a bracket, in the place of a first step that is none.
LEMMA AwaitedSpliced ==
    ASSUME NEW todo \in Seq(Steps), todo # <<>>, Nested(todo), ~IsBracket(todo[1]),
           NEW steps \in Seq(Steps), \A i \in DOMAIN steps : ~IsBracket(steps[i])
    PROVE  Awaited(steps \o Tail(todo)) = Awaited(todo)
<1>1. Tail(todo) \in Seq(Steps)
  BY HeadTailProperties
<1>2. Brackets(steps \o Tail(todo)) = Brackets(Tail(todo))
  BY <1>1, BracketsConcat
<1>3. Brackets(todo) = Brackets(Tail(todo))
  BY BracketsTail
<1> QED
  BY <1>2, <1>3, AwaitedIs, OneAwaited

\* A bracket is opened, and then waited for.
LEMMA AwaitedOpened ==
    ASSUME NEW todo \in Seq(Steps), Shaped(todo), IsBracket(todo[1]), todo[1][2] \in Opening
    PROVE  Awaited(todo) = <<>> /\ Awaited(Tail(todo)) = <<todo[1][2]>>
<1>1. todo # <<>> /\ 1 \in DOMAIN todo
  BY EmptySeq, LenProperties DEF Shaped, Ended
<1>2. PICK j \in DOMAIN todo :
          /\ 1 < j /\ IsBracket(todo[j]) /\ todo[j][2] \in Closing
          /\ Opener[todo[j][2]] = todo[1][2]
          /\ \A k \in DOMAIN todo : 1 < k /\ IsBracket(todo[k]) => k = j
  BY <1>1 DEF Shaped, Nested, NestedAt
<1>3. PICK b : b = todo[j][2]
  OBVIOUS
<1>4. b \in {"rparen", "rbrace"} /\ todo[1][2] = IF b = "rparen" THEN "lparen" ELSE "lbrace"
  BY <1>2, <1>3 DEF Closing, Opener
<1>5. Brackets(todo) = {todo[1][2], b}
  <2>1. \A i \in DOMAIN todo : i = 1 \/ 1 < i
    BY LenProperties
  <2>2. \A i \in DOMAIN todo : IsBracket(todo[i]) => i = 1 \/ i = j
    BY <1>2, <2>1
  <2> QED
    BY <1>1, <1>2, <1>3, <2>2 DEF Brackets
<1>6. b \in Brackets(Tail(todo)) /\ Brackets(Tail(todo)) \subseteq Brackets(todo)
  BY <1>1, <1>4, <1>5, BracketsTail
<1>7. todo[1][2] \notin Brackets(Tail(todo))
  <2>1. PICK t, n : t = Tail(todo) /\ n = Len(todo)
    OBVIOUS
  <2>2. t \in Seq(Steps) /\ Len(t) = n - 1 /\ \A i \in 1..n - 1 : t[i] = todo[i + 1]
    BY <1>1, <2>1, HeadTailProperties
  <2>3. n \in Nat /\ DOMAIN todo = 1..n /\ DOMAIN t = 1..n - 1
    BY <2>1, <2>2, LenProperties
  <2>4. ASSUME NEW i \in 1..n - 1, IsBracket(t[i]) PROVE t[i][2] = b
    <3>1. i + 1 \in 1..n /\ 1 < i + 1 /\ t[i] = todo[i + 1]
      BY <2>2, <2>3
    <3> QED
      BY <1>2, <1>3, <2>3, <2>4, <3>1
  <2> QED
    BY <1>4, <2>1, <2>3, <2>4 DEF Brackets
<1>8. Brackets(Tail(todo)) = {b}
  BY <1>5, <1>6, <1>7
<1>9. Awaited(todo) = <<>>
  <2>1. {"rparen", "rbrace"} \cap Brackets(todo) # {"rparen", "rbrace"}
    BY OneAwaited DEF Shaped
  <2>2. "rparen" \in Brackets(todo) <=> "lparen" \in Brackets(todo)
    BY <1>4, <1>5
  <2>3. "rbrace" \in Brackets(todo) <=> "lbrace" \in Brackets(todo)
    BY <1>4, <1>5
  <2> QED
    BY <2>1, <2>2, <2>3, AwaitedIs
<1>10. Awaited(Tail(todo)) = <<todo[1][2]>>
  <2>1. PICK t : t = Tail(todo)
    OBVIOUS
  <2>2. "lparen" \notin Brackets(t) /\ "lbrace" \notin Brackets(t)
    BY <1>4, <1>8, <2>1
  <2>3. {"rparen", "rbrace"} \cap Brackets(t) # {"rparen", "rbrace"}
    <3>1. "rparen" \notin Brackets(t) \/ "rbrace" \notin Brackets(t)
      BY <1>8, <2>1
    <3> QED
      BY <3>1
  <2>4. CASE b = "rparen"
    BY <1>4, <1>8, <2>1, <2>2, <2>3, <2>4, AwaitedIs
  <2>5. CASE b = "rbrace"
    <3>1. "rbrace" \in Brackets(t) /\ "rparen" \notin Brackets(t) /\ todo[1][2] = "lbrace"
      BY <1>4, <1>8, <2>1, <2>5
    <3> QED
      BY <2>1, <2>2, <2>3, <3>1, AwaitedIs
  <2> QED
    BY <1>4, <2>4, <2>5
<1> QED
  BY <1>9, <1>10

\* A bracket that is waited for is closed.
LEMMA AwaitedClosed ==
    ASSUME NEW todo \in Seq(Steps), Shaped(todo), IsBracket(todo[1]), todo[1][2] \in Closing
    PROVE  Awaited(todo) = <<Opener[todo[1][2]]>> /\ Awaited(Tail(todo)) = <<>>
<1>1. todo # <<>> /\ 1 \in DOMAIN todo
  BY EmptySeq, LenProperties DEF Shaped, Ended
<1>2. \A j \in DOMAIN todo : 1 < j => ~IsBracket(todo[j])
  BY <1>1 DEF Shaped, Nested, NestedAt
<1>3. Brackets(Tail(todo)) = {}
  <2>1. PICK t, n : t = Tail(todo) /\ n = Len(todo)
    OBVIOUS
  <2>2. t \in Seq(Steps) /\ Len(t) = n - 1 /\ \A i \in 1..n - 1 : t[i] = todo[i + 1]
    BY <1>1, <2>1, HeadTailProperties
  <2>3. n \in Nat /\ DOMAIN todo = 1..n /\ DOMAIN t = 1..n - 1
    BY <2>1, <2>2, LenProperties
  <2>4. ASSUME NEW i \in 1..n - 1 PROVE ~IsBracket(t[i])
    <3>1. i + 1 \in 1..n /\ 1 < i + 1 /\ t[i] = todo[i + 1]
      BY <2>2, <2>3
    <3> QED
      BY <1>2, <2>3, <3>1
  <2> QED
    BY <2>1, <2>3, <2>4 DEF Brackets
<1>4. Brackets(todo) = {todo[1][2]}
  BY <1>1, <1>3, BracketsTail
<1> QED
  BY <1>3, <1>4, AwaitedIs DEF Closing, Opener

LEMMA NoneAwaited ==
    ASSUME NEW todo, \A i \in DOMAIN todo : ~IsBracket(todo[i])
    PROVE  Awaited(todo) = <<>>
<1>1. Brackets(todo) = {}
  BY DEF Brackets
<1> QED
  BY <1>1, AwaitedIs

-----------------------------------------------------------------------------
(* The recursion: what each activation has left, what an activation that waits *)
(* expects of the one it has called, and what the last result is for.      *)

\* The steps that the initializer of a variable ends with.
Data == {"varType", "varInit", "varData"}

Framed(a) == Shaped(a.todo) /\ (a.fn = "parseVarData" => Last(a.todo)[1] \in Data)

\* The next step takes the VarData that a call has returned.
TakesData(todo) == Len(todo) > 1 /\ todo[1][1] = "nonNull" /\ todo[2][1] \in {"variable", "field"}

Linked(a, b) == /\ a.todo[1][1] \notin {"param", "variable", "field"}
                /\ TakesData(a.todo) => b.fn = "parseVarData"

Stacked(c) == /\ \A i \in DOMAIN c : Framed(c[i])
              /\ \A i \in DOMAIN c : i # 1 => Linked(c[i-1], c[i])

Answered(todo, r) == /\ todo[1][1] = "param" => r.kind = "type"
                     /\ todo[1][1] \in {"variable", "field"} => r.kind = "varData"
                     /\ TakesData(todo) => r = Null \/ r.kind = "varData"

\* The brackets that the activations wait for, the outermost first.
Waiting(c) == FlattenSeq([i \in DOMAIN c |-> Awaited(c[i].todo)])

LEMMA StackAppend ==
    ASSUME NEW f \in Seq(Frames), NEW a \in Frames
    PROVE  Stacked(Append(f, a)) <=>
              Stacked(f) /\ Framed(a) /\ (f # <<>> => Linked(Last(f), a))
<1>1. PICK c, n : c = Append(f, a) /\ n = Len(f)
  OBVIOUS
<1>2. /\ n \in Nat /\ DOMAIN f = 1..n /\ DOMAIN c = 1..n + 1 /\ c[n + 1] = a
      /\ \A i \in 1..n : c[i] = f[i]
  BY <1>1, AppendProperties, LenProperties
<1>3. f # <<>> <=> n # 0
  BY <1>1, EmptySeq
<1>4. n # 0 => Last(f) = c[n] /\ n \in 1..n + 1
  BY <1>1, <1>2 DEF Last
<1>5. ASSUME Stacked(c) PROVE Stacked(f) /\ Framed(a) /\ (n # 0 => Linked(Last(f), a))
  <2>1. \A i \in 1..n : i \in 1..n + 1 /\ c[i] = f[i] /\ (i # 1 => i - 1 \in 1..n)
    BY <1>2
  <2>2. \A i \in 1..n : i # 1 => c[i-1] = f[i-1]
    BY <2>1
  <2>3. \A i \in 1..n : Framed(f[i])
    BY <1>2, <1>5, <2>1 DEF Stacked
  <2>4. \A i \in 1..n : i # 1 => Linked(f[i-1], f[i])
    BY <1>2, <1>5, <2>1, <2>2 DEF Stacked
  <2>5. n + 1 \in 1..n + 1 /\ (n + 1) - 1 = n /\ (n # 0 => n + 1 # 1)
    BY <1>2
  <2>6. Framed(a)
    BY <1>2, <1>5, <2>5 DEF Stacked
  <2>7. n # 0 => Linked(c[n], a)
    BY <1>2, <1>5, <2>5 DEF Stacked
  <2> QED
    BY <1>2, <1>4, <2>3, <2>4, <2>6, <2>7 DEF Stacked
<1>6. ASSUME Stacked(f), Framed(a), n # 0 => Linked(Last(f), a) PROVE Stacked(c)
  <2>1. ASSUME NEW i \in 1..n + 1 PROVE Framed(c[i]) /\ (i # 1 => Linked(c[i-1], c[i]))
    <3>1. CASE i = n + 1
      <4>1. i - 1 = n /\ (i # 1 => n # 0)
        BY <1>2, <3>1
      <4> QED
        BY <1>2, <1>4, <1>6, <3>1, <4>1
    <3>2. CASE i # n + 1
      <4>1. i \in 1..n /\ (i # 1 => i - 1 \in 1..n)
        BY <1>2, <3>2
      <4>2. c[i] = f[i] /\ (i # 1 => c[i-1] = f[i-1])
        BY <1>2, <4>1
      <4> QED
        BY <1>2, <1>6, <4>1, <4>2 DEF Stacked
    <3> QED
      BY <3>1, <3>2
  <2> QED
    BY <1>2, <2>1 DEF Stacked
<1> QED
  BY <1>1, <1>3, <1>5, <1>6

LEMMA WaitingAppend ==
    ASSUME NEW f \in Seq(Frames), NEW a \in Frames, Stacked(Append(f, a))
    PROVE  /\ Waiting(Append(f, a)) = Waiting(f) \o Awaited(a.todo)
           /\ Waiting(f) \in Seq(Opening) /\ Awaited(a.todo) \in Seq(Opening)
<1>1. PICK c, n : c = Append(f, a) /\ n = Len(f)
  OBVIOUS
<1>2. /\ n \in Nat /\ DOMAIN f = 1..n /\ DOMAIN c = 1..n + 1 /\ c[n + 1] = a
      /\ \A i \in 1..n : c[i] = f[i]
  BY <1>1, AppendProperties, LenProperties
<1>3. Framed(a) /\ \A i \in 1..n : Framed(f[i])
  BY <1>2, StackAppend DEF Stacked
<1>4. a.todo \in Seq(Steps) /\ \A i \in 1..n : f[i].todo \in Seq(Steps)
  <2>1. \A i \in 1..n : f[i] \in Frames
    BY <1>2, ElementOfSeq
  <2> QED
    BY <2>1 DEF Frames
<1>5. Awaited(a.todo) \in Seq(Opening)
  BY <1>3, <1>4, AwaitedType DEF Framed, Shaped
<1>6. PICK w, v : /\ w = [i \in DOMAIN f |-> Awaited(f[i].todo)]
                  /\ v = [i \in DOMAIN c |-> Awaited(c[i].todo)]
  OBVIOUS
<1>7. \A i \in 1..n : Awaited(f[i].todo) \in Seq(Opening)
  BY <1>3, <1>4, AwaitedType DEF Framed, Shaped
<1>8. w \in Seq(Seq(Opening)) /\ Len(w) = n
  BY <1>2, <1>6, <1>7
<1>9. v = Append(w, Awaited(a.todo))
  <2>1. PICK u : u = Append(w, Awaited(a.todo))
    OBVIOUS
  <2>2. /\ u \in Seq(Seq(Opening)) /\ Len(u) = n + 1 /\ u[n + 1] = Awaited(a.todo)
        /\ \A i \in 1..n : u[i] = w[i]
    BY <1>5, <1>8, <2>1, AppendProperties
  <2>3. v \in Seq(Seq(Opening)) /\ Len(v) = n + 1
    BY <1>2, <1>5, <1>6, <1>7
  <2>4. ASSUME NEW i \in 1..n + 1 PROVE v[i] = u[i]
    <3>1. CASE i = n + 1
      BY <1>2, <1>6, <2>2, <3>1
    <3>2. CASE i # n + 1
      <4>1. i \in 1..n
        BY <1>2, <3>2
      <4> QED
        BY <1>2, <1>6, <2>2, <4>1
    <3> QED
      BY <3>1, <3>2
  <2> QED
    BY <2>1, <2>2, <2>3, <2>4, SeqEqual
<1>10. FlattenSeq(v) = FlattenSeq(w) \o Awaited(a.todo)
  BY <1>5, <1>8, <1>9, FlattenAppend
<1>11. FlattenSeq(w) \in Seq(Opening)
  BY <1>8, FlattenType
<1> QED
  BY <1>1, <1>5, <1>6, <1>10, <1>11 DEF Waiting

LEMMA WaitingEmpty == Waiting(<<>>) = <<>>
<1>1. PICK w : w = [i \in DOMAIN <<>> |-> Awaited(<<>>[i].todo)]
  OBVIOUS
<1>2. w = <<>>
  BY <1>1
<1> QED
  BY <1>1, <1>2 DEF Waiting, FlattenSeq

-----------------------------------------------------------------------------
(* The programs.                                                           *)

\* What an activation starts with, or goes on with after a final step: the first
\* step takes no result of an earlier call.  Most wait for no bracket.
Program(todo) == Shaped(todo) /\ todo[1][1] \notin {"param", "variable", "field", "nonNull"}
Balanced(todo) == Program(todo) /\ Awaited(todo) = <<>>

LEMMA BodyBalanced ==
    \A fn \in Methods : /\ Balanced(Body[fn])
                        /\ fn = "parseVarData" => Last(Body[fn])[1] \in Data
<1> USE DEF Balanced, Program, Shaped, Ended, Nested, NestedAt, Preceded, Awaited, Mentions,
            Finals, IsBracket, Opening, Closing, Opener
<1>1. Balanced(ParseFunction)
  BY DEF ParseFunction, Call, NonNull, Do
<1>2. Balanced(ParseFuncData)
  BY DEF ParseFuncData, Need, Call, Make, Do
<1>3. Balanced(ParseParams)
  BY DEF ParseParams, Want, Make
<1>4. Balanced(ParseParam)
  BY DEF ParseParam, Skip, Typo, Do
<1>5. Balanced(ParseVariable)
  BY DEF ParseVariable, Call, NonNull, Do
<1>6. Balanced(ParseVarData)
  BY DEF ParseVarData, Need, Do
<1>7. Balanced(ParseClass)
  BY DEF ParseClass, Need, Want, Make, Do
<1>8. Balanced(ParseField)
  <2>1. Nested(ParseField) /\ Awaited(ParseField) = <<>>
    BY DEF ParseField, Call, NonNull, Do
  <2>2. Ended(ParseField) /\ Preceded(ParseField) /\ ParseField[1][1] = "call"
    BY DEF ParseField, Call, NonNull, Do
  <2> HIDE DEF Ended, Nested, Preceded, Awaited
  <2> QED
    BY <2>1, <2>2
<1>9. Balanced(ParseCtor)
  BY DEF ParseCtor, Need, Call, NonNull, Make
<1>10. Balanced(ParseMethod)
  BY DEF ParseMethod, Call, NonNull, Make
<1>11. Balanced(ParseBlock)
  BY DEF ParseBlock, Need, Make, Do
<1>12. Balanced(ParseIf)
  BY DEF ParseIf, Need, Call, Expr, NonNull, Make, Do
<1>13. Balanced(ParseReturn)
  BY DEF ParseReturn, Need, Make, Do
<1>14. Balanced(ParseExprStmt)
  BY DEF ParseExprStmt, Want, Expr, Pass
<1>15. Balanced(ParseCallArgs)
  BY DEF ParseCallArgs, Need, Want, Make
<1>16. Balanced(ParseCallArg)
  BY DEF ParseCallArg, Need, Late, Expr, NonNull, Make
<1>17. Balanced(<<Do("access"), Do("decl")>>) /\ Balanced(<<Do("statement")>>)
  BY DEF Do
<1>18. Last(ParseVarData)[1] \in Data
  BY DEF Last, ParseVarData, Need, Do, Data
<1> HIDE DEF Balanced
<1> QED
  BY <1>1, <1>2, <1>3, <1>4, <1>5, <1>6, <1>7, <1>8, <1>9, <1>10, <1>11, <1>12, <1>13, <1>14, <1>15, <1>16, <1>17, <1>18, MethodNames DEF Body

LEMMA OperatorsBalanced ==
    /\ Balanced(ParseUnaryExpr) /\ Balanced(ParseTernary) /\ Balanced(ParseCall)
    /\ Balanced(ParseMemberAccess) /\ \A op : Balanced(ParseBinaryExpr(op))
    /\ Program(ParseParens) /\ Awaited(ParseParens) = <<"lparen">>
    /\ \A min : Balanced(<<Do("unary"), <<"operators", min>>>>)
<1> USE DEF Balanced, Program, Shaped, Ended, Nested, NestedAt, Preceded, Awaited, Mentions,
            Finals, IsBracket, Opening, Closing, Opener
<1>1. Balanced(ParseUnaryExpr)
  BY DEF ParseUnaryExpr, Expr, Child, MakeExpr
<1>2. Balanced(ParseTernary)
  BY DEF ParseTernary, Need, Expr, Child, MakeExpr
<1>3. Balanced(ParseCall)
  BY DEF ParseCall, Call, MakeExpr
<1>4. Balanced(ParseMemberAccess)
  BY DEF ParseMemberAccess, Need, Do, MakeExpr
<1>5. \A op : Balanced(ParseBinaryExpr(op))
  BY DEF ParseBinaryExpr, Expr, Child, MakeExpr
<1>6. Program(ParseParens)
  BY DEF ParseParens, Expr, Skip, Do
<1>7. Awaited(ParseParens) = <<"lparen">>
  BY DEF ParseParens, Expr, Skip, Do
<1>8. \A min : Balanced(<<Do("unary"), <<"operators", min>>>>)
  BY DEF Do
<1> HIDE DEF Balanced, Program, Awaited
<1> QED
  BY <1>1, <1>2, <1>3, <1>4, <1>5, <1>6, <1>7, <1>8

\* What a final step is followed by.
LEMMA RestartsBalanced ==
    /\ Balanced(<<Do("decls")>>) /\ Balanced(<<Call("parseDecl"), Do("decls")>>)
    /\ Balanced(ExternalRest) /\ Balanced(<<Call("parseBlock"), NonNull, Make>>)
    /\ Balanced(<<Do("type"), <<"varInit", TRUE>>>>) /\ Balanced(<<<<"varInit", FALSE>>>>)
    /\ \A a, b : /\ Balanced(<<Expr(0), Want("semicolon"), <<"varData", a, b>>>>)
                 /\ Balanced(<<Want("semicolon"), <<"varData", a, b>>>>)
<1> USE DEF Balanced, Program, Shaped, Ended, Nested, NestedAt, Preceded, Awaited, Mentions,
            Finals, IsBracket, Opening, Closing, Opener
<1>1. Balanced(<<Do("decls")>>) /\ Balanced(<<Call("parseDecl"), Do("decls")>>)
  BY DEF Do, Call
<1>2. Balanced(ExternalRest)
  BY DEF ExternalRest, Need, Make
<1>3. Balanced(<<Call("parseBlock"), NonNull, Make>>)
  BY DEF Call, NonNull, Make
<1>4. Balanced(<<Do("type"), <<"varInit", TRUE>>>>) /\ Balanced(<<<<"varInit", FALSE>>>>)
  BY DEF Do
<1>5. \A a, b : Balanced(<<Expr(0), Want("semicolon"), <<"varData", a, b>>>>)
  BY DEF Expr, Want
<1>6. \A a, b : Balanced(<<Want("semicolon"), <<"varData", a, b>>>>)
  BY DEF Want
<1> HIDE DEF Balanced
<1> QED
  BY <1>1, <1>2, <1>3, <1>4, <1>5, <1>6

LEMMA RestartsLast ==
    /\ Last(<<Do("type"), <<"varInit", TRUE>>>>)[1] \in Data
    /\ Last(<<<<"varInit", FALSE>>>>)[1] \in Data
    /\ \A a, b : /\ Last(<<Expr(0), Want("semicolon"), <<"varData", a, b>>>>)[1] \in Data
                 /\ Last(<<Want("semicolon"), <<"varData", a, b>>>>)[1] \in Data
  BY DEF Last, Data

\* Steps that are put before others.
LEMMA AddedInner ==
    /\ \A fn : Inner(<<Call(fn), <<"more", fn>>>>) /\ Inner(<<Call(fn)>>)
    /\ Inner(<<>>) /\ Inner(<<Do("access"), Do("member")>>)
    /\ Inner(<<Call("parseField"), Do("addField"), Do("members")>>)
    /\ Inner(<<Call("parseCtor"), Do("members")>>) /\ Inner(<<Call("parseMethod"), Do("members")>>)
    /\ Inner(<<Do("members")>>) /\ Inner(<<Call("parseStatement"), Do("statements")>>)
    /\ Inner(<<Expr(0), Need("semicolon")>>)
  BY DEF Inner, Finals, IsBracket, Opening, Closing, Call, Do, Expr, Need

-----------------------------------------------------------------------------
(* The moves of the recursion.                                             *)

\* A final step is the only one, and names no bracket.
LEMMA FinalAlone ==
    ASSUME NEW todo \in Seq(Steps), Shaped(todo), todo[1][1] \in Finals
    PROVE  Len(todo) = 1 /\ Last(todo) = todo[1] /\ Tail(todo) = <<>> /\ Awaited(todo) = <<>>
<1>1. todo # <<>> /\ 1 \in DOMAIN todo /\ DOMAIN todo = 1..Len(todo)
  BY EmptySeq, LenProperties DEF Shaped, Ended
<1>2. Len(todo) = 1
  BY <1>1 DEF Shaped, Ended
<1>3. Tail(todo) = <<>>
  <2>1. Tail(todo) \in Seq(Steps) /\ Len(Tail(todo)) = 0
    BY <1>1, <1>2, HeadTailProperties
  <2> QED
    BY <2>1, EmptySeq
<1>4. \A i \in DOMAIN todo : ~IsBracket(todo[i])
  BY <1>1, <1>2 DEF IsBracket, Finals
<1> QED
  BY <1>2, <1>3, <1>4, NoneAwaited DEF Last

\* What the steps that are left start with.
LEMMA HeadAfter ==
    ASSUME NEW todo \in Seq(Steps), Shaped(todo), todo[1][1] \notin Finals,
           NEW q, q = Tail(todo)
    PROVE  /\ q[1][1] = "param" => todo[1][1] = "type"
           /\ q[1][1] \in {"variable", "field"} => TakesData(todo)
           /\ TakesData(q) => todo[1][1] = "call" /\ todo[1][2] = "parseVarData"
<1>1. PICK n : n = Len(todo)
  OBVIOUS
<1>2. n \in Nat /\ DOMAIN todo = 1..n /\ todo # <<>> /\ n # 0
  BY <1>1, EmptySeq, LenProperties DEF Shaped, Ended
<1>3. n > 1
  <2>1. 1 \in 1..n
    BY <1>2
  <2>2. n # 1
    BY <1>1, <1>2, <2>1 DEF Shaped, Ended
  <2> QED
    BY <1>2, <2>2
<1>4. Len(q) = n - 1 /\ \A i \in 1..n - 1 : q[i] = todo[i + 1]
  BY <1>1, <1>2, HeadTailProperties
<1>5. q[1] = todo[2] /\ 2 \in DOMAIN todo
  <2>1. 1 \in 1..n - 1 /\ 1 + 1 = 2 /\ 2 \in 1..n
    BY <1>2, <1>3
  <2> QED
    BY <1>2, <1>4, <2>1
<1>6. /\ todo[2][1] = "param" => todo[1][1] = "type"
      /\ todo[2][1] \in {"variable", "field"} => todo[1][1] = "nonNull"
  <2>1. 2 > 1 /\ 2 - 1 = 1
    OBVIOUS
  <2> QED
    BY <1>5, <2>1 DEF Shaped, Preceded
<1>7. ASSUME TakesData(q) PROVE todo[1][1] = "call" /\ todo[1][2] = "parseVarData"
  <2>1. n - 1 > 1
    BY <1>4, <1>7 DEF TakesData
  <2>2. 2 \in 1..n - 1 /\ 2 + 1 = 3 /\ 3 \in DOMAIN todo
    BY <1>2, <2>1
  <2>3. todo[3][1] \in {"variable", "field"}
    BY <1>4, <1>7, <2>2 DEF TakesData
  <2>4. 3 > 1 /\ 3 > 2 /\ 3 - 2 = 1
    OBVIOUS
  <2> QED
    BY <2>2, <2>3, <2>4 DEF Shaped, Preceded
<1> QED
  BY <1>1, <1>3, <1>5, <1>6, <1>7 DEF TakesData

LEMMA HeadAdded ==
    ASSUME NEW todo \in Seq(Steps), NEW steps \in Seq(Steps), steps # <<>>, Inner(steps),
           todo # <<>>, NEW q, q = steps \o Tail(todo)
    PROVE  /\ q[1][1] \notin {"param", "variable", "field", "nonNull"}
           /\ \A r : Answered(q, r)
<1>1. PICK k, n : k = Len(steps) /\ n = Len(todo)
  OBVIOUS
<1>2. k \in Nat /\ DOMAIN steps = 1..k /\ k # 0
  BY <1>1, EmptySeq, LenProperties
<1>3. \A i \in 1..k : q[i] = steps[i]
  BY <1>1, Spliced
<1>4. 1 \in 1..k
  BY <1>2
<1>5. q[1][1] \notin Finals \cup {"nonNull"}
  BY <1>2, <1>3, <1>4 DEF Inner
<1>6. q[1][1] \notin {"param", "variable", "field", "nonNull"}
  BY <1>5 DEF Finals
<1> QED
  BY <1>6 DEF Answered, TakesData

LEMMA ProgramAnswered ==
    ASSUME NEW todo, Program(todo) PROVE \A r : Answered(todo, r)
BY DEF Program, Answered, TakesData

-----------------------------------------------------------------------------

StackInv == Stacked(ctl) /\ (ctl # <<>> => Answered(Top.todo, res))

LEMMA FrontAndLast ==
    ASSUME NEW S, NEW c \in Seq(S), c # <<>> PROVE c = Append(Front(c), Last(c))
<1>1. PICK n, f : n = Len(c) /\ f = Front(c)
  OBVIOUS
<1>2. n \in Nat /\ n # 0 /\ DOMAIN c = 1..n
  BY <1>1, EmptySeq, LenProperties
<1>3. f \in Seq(S) /\ Len(f) = n - 1 /\ \A i \in 1..n - 1 : f[i] = c[i]
  <2>1. \A i \in 1..n - 1 : c[i] \in S
    BY <1>1, <1>2, ElementOfSeq
  <2>2. f = SubSeq(c, 1, n - 1)
    BY <1>1 DEF Front
  <2>3. n - 1 \in 0..n
    BY <1>2
  <2> QED
    BY <1>1, <1>2, <2>1, <2>2, <2>3, SubSeqProperties
<1>4. PICK d : d = Append(f, c[n])
  OBVIOUS
<1>5. c[n] \in S
  BY <1>1, <1>2, ElementOfSeq
<1>6. d \in Seq(S) /\ Len(d) = n /\ \A i \in 1..n : d[i] = c[i]
  <2>1. /\ d \in Seq(S) /\ Len(d) = (n - 1) + 1 /\ d[(n - 1) + 1] = c[n]
        /\ \A i \in 1..n - 1 : d[i] = f[i]
    BY <1>3, <1>4, <1>5, AppendProperties
  <2>2. (n - 1) + 1 = n /\ \A i \in 1..n : i = n \/ i \in 1..n - 1
    BY <1>2
  <2> QED
    BY <1>3, <2>1, <2>2
<1>7. c = d
  BY <1>1, <1>6, SeqEqual
<1> QED
  BY <1>1, <1>4, <1>7 DEF Last

LEMMA LastOfAppend ==
    ASSUME NEW f \in Seq(Frames), NEW a \in Frames, NEW c, c = Append(f, a)
    PROVE  c \in Seq(Frames) /\ c # <<>> /\ Last(c) = a
BY AppendProperties DEF Last

\* The activations below the running one, and that one.
LEMMA TopParts ==
    ASSUME TypeInv, ctl # <<>>, Stacked(ctl)
    PROVE  /\ ctl = Append(Front(ctl), Top) /\ Front(ctl) \in Seq(Frames) /\ Top \in Frames
           /\ Top.todo \in Seq(Steps) /\ Top.todo # <<>> /\ Head(Top.todo) = Top.todo[1]
           /\ Stacked(Front(ctl)) /\ Framed(Top)
           /\ Front(ctl) # <<>> => Linked(Last(Front(ctl)), Top)
           /\ Waiting(ctl) = Waiting(Front(ctl)) \o Awaited(Top.todo)
           /\ Waiting(Front(ctl)) \in Seq(Opening)
<1>1. Top \in Frames /\ Front(ctl) \in Seq(Frames)
  BY TopType
<1>2. ctl = Append(Front(ctl), Top)
  BY FrontAndLast DEF TypeInv, Top
<1>3. Top.todo \in Seq(Steps)
  BY <1>1 DEF Frames
<1>4. /\ Stacked(Front(ctl)) /\ Framed(Top)
      /\ Front(ctl) # <<>> => Linked(Last(Front(ctl)), Top)
  BY <1>1, <1>2, StackAppend
<1>5. Top.todo # <<>>
  BY <1>4 DEF Framed, Shaped, Ended
<1>6. /\ Waiting(ctl) = Waiting(Front(ctl)) \o Awaited(Top.todo)
      /\ Waiting(Front(ctl)) \in Seq(Opening)
  BY <1>1, <1>2, WaitingAppend
<1> QED
  BY <1>1, <1>2, <1>3, <1>4, <1>5, <1>6

LEMMA WaitingType ==
    ASSUME TypeInv, StackInv, NEW name, At(name)
    PROVE  Waiting(ctl) \in Seq(Opening) /\ Waiting(ctl) \o <<>> = Waiting(ctl)
<1>1. /\ ctl = Append(Front(ctl), Top) /\ Front(ctl) \in Seq(Frames) /\ Top \in Frames
      /\ Waiting(ctl) = Waiting(Front(ctl)) \o Awaited(Top.todo)
  BY TopParts DEF At, StackInv
<1>2. PICK w, v : w = Waiting(Front(ctl)) /\ v = Awaited(Top.todo)
  OBVIOUS
<1>3. w \in Seq(Opening) /\ v \in Seq(Opening)
  BY <1>1, <1>2, WaitingAppend DEF StackInv
<1>4. w \o v \in Seq(Opening)
  BY <1>3, ConcatProperties
<1> QED
  BY <1>1, <1>2, <1>4, ConcatEmptySeq

\* The activation goes on, with steps added or not.
LEMMA Going ==
    ASSUME TypeInv, StackInv, ctl # <<>>, NEW h, h = Top.todo[1], h[1] \notin Finals,
           NEW steps \in Seq(Steps), Inner(steps),
           steps = <<>> \/ h[1] \notin {"type", "nonNull", "call"},
           NEW a \in Frames, a.fn = Top.fn, a.todo = steps \o Tail(Top.todo),
           ctl' = Append(Front(ctl), a),
           h[1] # "call", h[1] = "type" => res'.kind = "type",
           h[1] = "nonNull" => res' = res /\ res # Null
    PROVE  /\ StackInv' /\ Waiting(ctl') = Waiting(Front(ctl)) \o Awaited(a.todo)
           /\ Waiting(ctl) = Waiting(Front(ctl)) \o Awaited(Top.todo)
           /\ Waiting(Front(ctl)) \in Seq(Opening)
           /\ ~IsBracket(h) => Waiting(ctl') = Waiting(ctl)
<1>1. /\ Front(ctl) \in Seq(Frames) /\ Top.todo \in Seq(Steps) /\ Top.todo # <<>>
      /\ Stacked(Front(ctl)) /\ Framed(Top)
      /\ Front(ctl) # <<>> => Linked(Last(Front(ctl)), Top)
      /\ Waiting(ctl) = Waiting(Front(ctl)) \o Awaited(Top.todo)
      /\ Waiting(Front(ctl)) \in Seq(Opening)
  BY TopParts DEF StackInv
<1>2. PICK todo, q, f, c : todo = Top.todo /\ q = a.todo /\ f = Front(ctl) /\ c = ctl'
  OBVIOUS
<1>3. Shaped(todo) /\ todo \in Seq(Steps) /\ todo[1] = h
  BY <1>1, <1>2 DEF Framed
<1>4. q \in Seq(Steps) /\ Shaped(q) /\ Last(q) = Last(todo)
  BY <1>2, <1>3, SplicedShape
<1>5. Framed(a)
  BY <1>1, <1>2, <1>4 DEF Framed
<1>6. f # <<>> => Linked(Last(f), a)
  BY <1>1, <1>2 DEF Linked
<1>7. Stacked(c)
  BY <1>1, <1>2, <1>5, <1>6, StackAppend
<1>8. c \in Seq(Frames) /\ c # <<>> /\ Last(c) = a
  <2>1. f \in Seq(Frames) /\ c = Append(f, a)
    BY <1>1, <1>2
  <2> QED
    BY <2>1, LastOfAppend
<1>9. Answered(q, res')
  <2>1. CASE steps # <<>>
    BY <1>1, <1>2, <1>3, <2>1, HeadAdded
  <2>2. CASE steps = <<>>
    <3>1. q = Tail(todo)
      <4>1. Tail(todo) \in Seq(Steps)
        BY <1>1, <1>2, HeadTailProperties
      <4> QED
        BY <1>2, <2>2, <4>1, ConcatEmptySeq
    <3>2. /\ q[1][1] = "param" => h[1] = "type"
          /\ q[1][1] \in {"variable", "field"} => TakesData(todo)
          /\ ~TakesData(q)
      BY <1>3, <3>1, HeadAfter
    <3>3. TakesData(todo) => res' = res /\ res # Null /\ res.kind = "varData"
      BY <1>2, <1>3 DEF StackInv, Answered, TakesData
    <3> QED
      BY <3>2, <3>3 DEF Answered
  <2> QED
    BY <2>1, <2>2
<1>10. StackInv'
  BY <1>2, <1>7, <1>8, <1>9 DEF StackInv, Top
<1>11. Waiting(ctl') = Waiting(Front(ctl)) \o Awaited(a.todo)
  BY <1>1, <1>2, <1>7, WaitingAppend
<1>12. ~IsBracket(h) => Awaited(q) = Awaited(todo)
  <2>1. \A i \in DOMAIN steps : ~IsBracket(steps[i])
    BY DEF Inner
  <2> QED
    BY <1>1, <1>2, <1>3, <2>1, AwaitedSpliced DEF Shaped
<1> QED
  BY <1>1, <1>2, <1>10, <1>11, <1>12

\* The activation waits for another.
LEMMA Calling ==
    ASSUME TypeInv, StackInv, ctl # <<>>, NEW h, h = Top.todo[1],
           h[1] \in {"call", "expr", "unary"},
           NEW a \in Frames, a.fn = Top.fn, a.todo = Tail(Top.todo),
           NEW b \in Frames, Program(b.todo),
           b.fn = "parseVarData" => Last(b.todo)[1] \in Data,
           h[1] = "call" => b.fn = h[2],
           ctl' = Append(Append(Front(ctl), a), b)
    PROVE  StackInv' /\ Waiting(ctl') = Waiting(ctl) \o Awaited(b.todo)
<1>1. /\ Front(ctl) \in Seq(Frames) /\ Top.todo \in Seq(Steps) /\ Top.todo # <<>>
      /\ Stacked(Front(ctl)) /\ Framed(Top)
      /\ Front(ctl) # <<>> => Linked(Last(Front(ctl)), Top)
      /\ Waiting(ctl) = Waiting(Front(ctl)) \o Awaited(Top.todo)
      /\ Waiting(Front(ctl)) \in Seq(Opening)
  BY TopParts DEF StackInv
<1>2. PICK todo, q, f, c, d :
          /\ todo = Top.todo /\ q = a.todo /\ f = Front(ctl) /\ c = ctl' /\ d = Append(f, a)
  OBVIOUS
<1>3. Shaped(todo) /\ todo \in Seq(Steps) /\ todo[1] = h /\ h[1] \notin Finals
  BY <1>1, <1>2 DEF Framed, Finals
<1>4. <<>> \in Seq(Steps) /\ Inner(<<>>) /\ q = <<>> \o Tail(todo)
  <2>1. Tail(todo) \in Seq(Steps)
    BY <1>1, <1>2, HeadTailProperties
  <2> QED
    BY <1>2, <2>1, ConcatEmptySeq, EmptySeq, AddedInner
<1>5. q \in Seq(Steps) /\ Shaped(q) /\ Last(q) = Last(todo)
  BY <1>3, <1>4, SplicedShape
<1>6. Framed(a)
  BY <1>1, <1>2, <1>5 DEF Framed
<1>7. f # <<>> => Linked(Last(f), a)
  BY <1>1, <1>2 DEF Linked
<1>8. Stacked(d) /\ d \in Seq(Frames) /\ d # <<>> /\ Last(d) = a
  BY <1>1, <1>2, <1>6, <1>7, StackAppend, AppendProperties DEF Last
<1>9. Framed(b)
  BY DEF Framed, Program
<1>10. Linked(a, b)
  <2>1. /\ q[1][1] = "param" => h[1] = "type"
        /\ q[1][1] \in {"variable", "field"} => TakesData(todo)
        /\ TakesData(q) => h[1] = "call" /\ h[2] = "parseVarData"
    BY <1>2, <1>3, HeadAfter
  <2> QED
    BY <1>2, <1>3, <2>1 DEF Linked, TakesData
<1>11. Stacked(c)
  BY <1>2, <1>8, <1>9, <1>10, StackAppend
<1>12. c \in Seq(Frames) /\ c # <<>> /\ Last(c) = b
  BY <1>2, <1>8, AppendProperties DEF Last
<1>13. StackInv'
  BY <1>2, <1>11, <1>12, ProgramAnswered DEF StackInv, Top
<1>14. Waiting(c) = Waiting(d) \o Awaited(b.todo)
  BY <1>2, <1>8, <1>11, WaitingAppend
<1>15. Waiting(d) = Waiting(f) \o Awaited(q)
  BY <1>1, <1>2, <1>8, WaitingAppend
<1>16. Awaited(q) = Awaited(todo)
  <2>1. ~IsBracket(todo[1])
    BY <1>3 DEF IsBracket
  <2>2. \A i \in DOMAIN <<>> : ~IsBracket(<<>>[i])
    OBVIOUS
  <2> QED
    BY <1>1, <1>2, <1>3, <1>4, <2>1, <2>2, AwaitedSpliced DEF Shaped
<1> QED
  BY <1>1, <1>2, <1>13, <1>14, <1>15, <1>16

\* The operators of an expression are parsed by activations of their own.
LEMMA Operating ==
    ASSUME TypeInv, StackInv, ctl # <<>>, Top.todo[1][1] = "operators",
           NEW b \in Frames, Balanced(b.todo), b.fn # "parseVarData", ctl' = Append(ctl, b)
    PROVE  StackInv' /\ Waiting(ctl') = Waiting(ctl)
<1>1. Framed(b) /\ Linked(Top, b)
  BY DEF Framed, Balanced, Program, Linked, TakesData
<1>2. PICK c : c = ctl'
  OBVIOUS
<1>3. ctl \in Seq(Frames) /\ Stacked(ctl) /\ Last(ctl) = Top
  BY DEF TypeInv, StackInv, Top
<1>4. Stacked(c) /\ c \in Seq(Frames) /\ c # <<>> /\ Last(c) = b
  BY <1>1, <1>2, <1>3, StackAppend, AppendProperties DEF Last
<1>5. StackInv'
  BY <1>2, <1>4, ProgramAnswered DEF StackInv, Top, Balanced
<1>6. Waiting(c) = Waiting(ctl) \o <<>> /\ Waiting(ctl) \in Seq(Opening)
  BY <1>2, <1>3, <1>4, WaitingAppend DEF Balanced
<1> QED
  BY <1>2, <1>5, <1>6, ConcatEmptySeq

\* The activation has taken its last step, and starts again as another or with
\* steps of its own.
LEMMA Restarting ==
    ASSUME TypeInv, StackInv, ctl # <<>>, Top.todo[1][1] \in Finals,
           NEW b \in Frames, Balanced(b.todo), ctl' = Append(Front(ctl), b),
           \/ Top.todo[1][1] \notin Data /\ (b.fn = "parseVarData" => Last(b.todo)[1] \in Data)
           \/ b.fn = Top.fn /\ Last(b.todo)[1] \in Data
    PROVE  StackInv' /\ Waiting(ctl') = Waiting(ctl)
<1>1. /\ Front(ctl) \in Seq(Frames) /\ Top.todo \in Seq(Steps) /\ Top.todo # <<>>
      /\ Stacked(Front(ctl)) /\ Framed(Top)
      /\ Front(ctl) # <<>> => Linked(Last(Front(ctl)), Top)
      /\ Waiting(ctl) = Waiting(Front(ctl)) \o Awaited(Top.todo)
      /\ Waiting(Front(ctl)) \in Seq(Opening)
  BY TopParts DEF StackInv
<1>2. PICK todo, f, c : todo = Top.todo /\ f = Front(ctl) /\ c = ctl'
  OBVIOUS
<1>3. Last(todo) = todo[1] /\ Awaited(todo) = <<>>
  BY <1>1, <1>2, FinalAlone DEF Framed
<1>4. Framed(b)
  BY DEF Framed, Balanced, Program
<1>5. f # <<>> => Linked(Last(f), b)
  BY <1>1, <1>2, <1>3 DEF Linked, Framed
<1>6. Stacked(c) /\ c \in Seq(Frames) /\ c # <<>> /\ Last(c) = b
  BY <1>1, <1>2, <1>4, <1>5, StackAppend, AppendProperties DEF Last
<1>7. StackInv'
  BY <1>2, <1>6, ProgramAnswered DEF StackInv, Top, Balanced
<1>8. Waiting(c) = Waiting(f) \o <<>>
  BY <1>1, <1>2, <1>6, WaitingAppend DEF Balanced
<1> QED
  BY <1>1, <1>2, <1>3, <1>7, <1>8

\* The activation returns.
LEMMA Returning ==
    ASSUME TypeInv, StackInv, ctl # <<>>, NEW v, Return(v),
           v = Null \/ v.kind = "varData" \/ Top.todo[1][1] \in Finals \ Data
    PROVE  StackInv' /\ (Top.todo[1][1] \in Finals => Waiting(ctl') = Waiting(ctl))
<1>1. /\ Front(ctl) \in Seq(Frames) /\ Top.todo \in Seq(Steps) /\ Top.todo # <<>>
      /\ Stacked(Front(ctl)) /\ Framed(Top)
      /\ Front(ctl) # <<>> => Linked(Last(Front(ctl)), Top)
      /\ Waiting(ctl) = Waiting(Front(ctl)) \o Awaited(Top.todo)
      /\ Waiting(Front(ctl)) \in Seq(Opening)
  BY TopParts DEF StackInv
<1>2. ctl' = Front(ctl) /\ res' = v
  BY DEF Return
<1>3. Top.todo[1][1] \in Finals => Last(Top.todo) = Top.todo[1] /\ Awaited(Top.todo) = <<>>
  BY <1>1, FinalAlone DEF Framed
<1>4. Front(ctl) # <<>> => Answered(Last(Front(ctl)).todo, v)
  <2> SUFFICES ASSUME Front(ctl) # <<>> PROVE Answered(Last(Front(ctl)).todo, v)
    OBVIOUS
  <2>1. PICK p : p = Last(Front(ctl)) /\ Linked(p, Top)
    BY <1>1
  <2>2. TakesData(p.todo) => Last(Top.todo)[1] \in Data
    BY <1>1, <2>1 DEF Linked, Framed
  <2>3. TakesData(p.todo) => v = Null \/ v.kind = "varData"
    BY <1>3, <2>2
  <2> QED
    BY <2>1, <2>3 DEF Answered, Linked
<1>5. StackInv'
  BY <1>1, <1>2, <1>4 DEF StackInv, Top
<1> QED
  BY <1>1, <1>2, <1>3, <1>5, ConcatEmptySeq

-----------------------------------------------------------------------------
(* The same moves as the actions write them.                               *)

LEMMA AtTop ==
    ASSUME TypeInv, NEW name, At(name)
    PROVE  ctl # <<>> /\ Top.todo # <<>> /\ Head(Top.todo) = Top.todo[1] /\ Top.todo[1][1] = name
<1>1. ctl # <<>> /\ Top.todo # <<>> /\ Head(Top.todo)[1] = name
  BY DEF At
<1>2. Top.todo \in Seq(Steps)
  BY <1>1, TopType DEF Frames
<1> QED
  BY <1>1, <1>2

LEMMA BeforeIs ==
    ASSUME TypeInv, NEW name, At(name), NEW steps \in Seq(Steps)
    PROVE  /\ Before(steps) \in Frames /\ Before(steps).fn = Top.fn
           /\ Before(steps).todo = steps \o Tail(Top.todo)
<1>1. Top \in Frames /\ Before(steps) \in Frames
  BY BeforeType, TopType DEF At
<1> QED
  BY <1>1 DEF Before, Frames

LEMMA GoesOn ==
    ASSUME TypeInv, StackInv, NEW name, At(name), name \notin Finals \cup {"call", "type", "nonNull"},
           NEW steps \in Seq(Steps), Inner(steps), GoOn(steps)
    PROVE  StackInv' /\ (name \notin {"need", "want", "skip"} => Waiting(ctl') = Waiting(ctl))
<1>1. PICK h : h = Top.todo[1]
  OBVIOUS
<1>2. ctl # <<>> /\ h[1] = name
  BY <1>1, AtTop
<1>3. PICK a : a = Before(steps)
  OBVIOUS
<1>4. a \in Frames /\ a.fn = Top.fn /\ a.todo = steps \o Tail(Top.todo)
  BY <1>3, BeforeIs
<1>5. ctl' = Append(Front(ctl), a)
  BY <1>3 DEF GoOn
<1>6. name \notin {"need", "want", "skip"} => ~IsBracket(h)
  BY <1>2 DEF IsBracket
<1>7. h[1] \notin Finals /\ h[1] \notin {"type", "nonNull", "call"}
  BY <1>2
<1>8. StackInv' /\ (~IsBracket(h) => Waiting(ctl') = Waiting(ctl))
  BY <1>1, <1>2, <1>4, <1>5, <1>7, Going
<1> QED
  BY <1>6, <1>8

LEMMA Restarts ==
    ASSUME TypeInv, StackInv, NEW name, At(name), name \in Finals,
           NEW steps \in Seq(Steps), Balanced(steps), GoOn(steps),
           name \in Data => Last(steps)[1] \in Data
    PROVE  StackInv' /\ Waiting(ctl') = Waiting(ctl)
<1>1. ctl # <<>> /\ Top.todo[1][1] = name
  BY AtTop
<1>2. PICK b : b = Before(steps)
  OBVIOUS
<1>3. b \in Frames /\ b.fn = Top.fn /\ b.todo = steps \o Tail(Top.todo)
  BY <1>2, BeforeIs
<1>4. Top.todo \in Seq(Steps) /\ Framed(Top)
  BY <1>1, TopParts DEF StackInv
<1>5. Tail(Top.todo) = <<>> /\ Last(Top.todo) = Top.todo[1]
  BY <1>1, <1>4, FinalAlone DEF Framed
<1>6. b.todo = steps
  BY <1>3, <1>5, ConcatEmptySeq
<1>7. b.fn = "parseVarData" => name \in Data
  BY <1>1, <1>3, <1>4, <1>5 DEF Framed
<1>8. ctl' = Append(Front(ctl), b)
  BY <1>2 DEF GoOn
<1> QED
  BY <1>1, <1>3, <1>6, <1>7, <1>8, Restarting

LEMMA Becomes ==
    ASSUME TypeInv, StackInv, NEW name, At(name), name \in Finals \ Data,
           NEW fn \in Methods, Become(fn)
    PROVE  StackInv' /\ Waiting(ctl') = Waiting(ctl)
<1>1. ctl # <<>> /\ Top.todo[1][1] = name
  BY AtTop
<1>2. PICK b : b = Activation(fn, Body[fn], <<>>)
  OBVIOUS
<1>3. b \in Frames
  BY <1>2, ActivationType, BodyTypes, NoSteps
<1>4. b.fn = fn /\ b.todo = Body[fn]
  BY <1>2 DEF Activation
<1>5. Balanced(b.todo) /\ (b.fn = "parseVarData" => Last(b.todo)[1] \in Data)
  BY <1>4, BodyBalanced
<1>6. ctl' = Append(Front(ctl), b)
  BY <1>2 DEF Become
<1> QED
  BY <1>1, <1>3, <1>5, <1>6, Restarting

LEMMA Returns ==
    ASSUME TypeInv, StackInv, NEW name, At(name), NEW v, Return(v),
           v = Null \/ v.kind = "varData" \/ name \in Finals \ Data
    PROVE  StackInv' /\ (name \in Finals => Waiting(ctl') = Waiting(ctl))
<1>1. ctl # <<>> /\ Top.todo[1][1] = name
  BY AtTop
<1> QED
  BY <1>1, Returning

LEMMA Calls ==
    ASSUME TypeInv, StackInv, NEW name, At(name), name \in {"call", "expr", "unary"},
           NEW fn \in Methods \cup {"parseExpr", "parseUnaryOp"},
           NEW todo \in Seq(Steps), Program(todo), Activate(fn, todo, <<>>),
           fn = "parseVarData" => Last(todo)[1] \in Data,
           name = "call" => fn = Argument
    PROVE  StackInv' /\ Waiting(ctl') = Waiting(ctl) \o Awaited(todo)
<1>1. ctl # <<>> /\ Top.todo # <<>> /\ Head(Top.todo) = Top.todo[1] /\ Top.todo[1][1] = name
  BY AtTop
<1>2. PICK a, b : a = Before(<<>>) /\ b = Activation(fn, todo, <<>>)
  OBVIOUS
<1>3. a \in Frames /\ a.fn = Top.fn /\ a.todo = <<>> \o Tail(Top.todo)
  BY <1>2, BeforeIs, NoSteps
<1>4. a.todo = Tail(Top.todo)
  <2>1. Tail(Top.todo) \in Seq(Steps)
    BY <1>1, TopType
  <2> QED
    BY <1>3, <2>1, ConcatEmptySeq
<1>5. b \in Frames
  BY <1>2, ActivationType, NoSteps
<1>6. b.fn = fn /\ b.todo = todo
  BY <1>2 DEF Activation
<1>7. ctl' = Append(Append(Front(ctl), a), b)
  BY <1>2 DEF Activate
<1>8. PICK h : h = Top.todo[1] /\ h[1] = name /\ (name = "call" => fn = h[2])
  BY <1>1 DEF Argument
<1> QED
  BY <1>1, <1>3, <1>4, <1>5, <1>6, <1>7, <1>8, Calling

LEMMA Operates ==
    ASSUME TypeInv, StackInv, At("operators"), NEW todo \in Seq(Steps), Balanced(todo),
           NEW fn \in {"parseTernary", "parseCall", "parseMemberAccess", "parseBinaryExpr"},
           Operator(fn, todo)
    PROVE  StackInv' /\ Waiting(ctl') = Waiting(ctl)
<1>1. ctl # <<>> /\ Top.todo[1][1] = "operators"
  BY AtTop
<1>2. PICK b : b = Activation(fn, todo, <<res>>)
  OBVIOUS
<1>3. b \in Frames
  <2>1. <<res>> \in Seq(Results)
    BY DEF TypeInv
  <2> QED
    BY <1>2, <2>1, ActivationType
<1>4. b.fn = fn /\ b.todo = todo
  BY <1>2 DEF Activation
<1>5. ctl' = Append(ctl, b)
  BY <1>2 DEF Operator
<1> QED
  BY <1>1, <1>3, <1>4, <1>5, Operating

\* A step that an action takes by itself.
LEMMA InPlace ==
    ASSUME TypeInv, StackInv, NEW name, At(name), name \notin Finals \cup {"call"},
           ctl' = Append(Front(ctl), Before(<<>>)),
           name = "type" => res'.kind = "type",
           name = "nonNull" => res' = res /\ res # Null
    PROVE  StackInv' /\ (name \notin {"need", "want", "skip"} => Waiting(ctl') = Waiting(ctl))
<1>1. PICK h, a : h = Top.todo[1] /\ a = Before(<<>>)
  OBVIOUS
<1>2. ctl # <<>> /\ h[1] = name
  BY <1>1, AtTop
<1>3. a \in Frames /\ a.fn = Top.fn /\ a.todo = <<>> \o Tail(Top.todo)
  BY <1>1, BeforeIs, NoSteps
<1>4. name \notin {"need", "want", "skip"} => ~IsBracket(h)
  BY <1>2 DEF IsBracket
<1>5. PICK steps \in Seq(Steps) : steps = <<>> /\ Inner(steps)
  BY NoSteps, AddedInner
<1>6. a.todo = steps \o Tail(Top.todo) /\ ctl' = Append(Front(ctl), a)
  BY <1>1, <1>3, <1>5
<1>7. h[1] \notin Finals /\ h[1] # "call"
  BY <1>2
<1>8. StackInv' /\ (~IsBracket(h) => Waiting(ctl') = Waiting(ctl))
  BY <1>1, <1>2, <1>3, <1>5, <1>6, <1>7, Going
<1> QED
  BY <1>4, <1>8

LEMMA ChildAdded ==
    ASSUME TypeInv, StackInv, At("child"),
           ctl' = Append(Front(ctl), [Before(<<>>) EXCEPT !.kids = Append(@, res)])
    PROVE  StackInv' /\ Waiting(ctl') = Waiting(ctl)
<1>1. PICK h, a : h = Top.todo[1] /\ a = [Before(<<>>) EXCEPT !.kids = Append(@, res)]
  OBVIOUS
<1>2. ctl # <<>> /\ h[1] = "child"
  BY <1>1, AtTop
<1>3. a \in Frames /\ a.fn = Top.fn /\ a.todo = <<>> \o Tail(Top.todo)
  <2>1. /\ Before(<<>>) \in Frames /\ Before(<<>>).fn = Top.fn
        /\ Before(<<>>).todo = <<>> \o Tail(Top.todo)
    BY BeforeIs, NoSteps
  <2>2. Append(Before(<<>>).kids, res) \in Seq(Results)
    BY <2>1, AppendProperties DEF Frames, TypeInv
  <2> QED
    BY <1>1, <2>1, <2>2 DEF Frames
<1>4. PICK steps \in Seq(Steps) : steps = <<>> /\ Inner(steps)
  BY NoSteps, AddedInner
<1>5. a.todo = steps \o Tail(Top.todo) /\ ctl' = Append(Front(ctl), a)
  BY <1>1, <1>3, <1>4
<1>6. h[1] \notin Finals /\ h[1] \notin {"type", "nonNull", "call"} /\ ~IsBracket(h)
  BY <1>2 DEF Finals, IsBracket
<1> QED
  BY <1>1, <1>2, <1>3, <1>4, <1>5, <1>6, Going

-----------------------------------------------------------------------------
(* The brackets of the text.                                               *)

\* Neither an error is forgotten nor a bracket taken.
Quiet == errored' \/ (errored' = errored /\ open' = open)

Steady == StackInv' /\ Quiet /\ (errored' \/ Waiting(ctl') = Waiting(ctl))

LEMMA QuietText ==
    ASSUME NEW t
    PROVE  /\ NoText \/ Leave(t) => Quiet
           /\ ErrorExpected(t) \/ ErrorAfter(t) \/ ErrorConsumed(t) \/ ErrorOnly => errored'
           /\ Consume(t) /\ t \notin Opening \cup Closing => Quiet
<1>1. NoText \/ Leave(t) => Quiet
  BY DEF NoText, Leave, Quiet
<1>2. ErrorExpected(t) \/ ErrorAfter(t) \/ ErrorConsumed(t) \/ ErrorOnly => errored'
  BY DEF ErrorExpected, ErrorAfter, ErrorConsumed, ErrorOnly, Failed
<1>3. ASSUME Consume(t), t \notin Opening \cup Closing PROVE Quiet
  <2>1. Nest(t) = open
    BY <1>3 DEF Nest, Opening, Closing
  <2> QED
    BY <1>3, <2>1 DEF Consume, Quiet
<1> QED
  BY <1>1, <1>2, <1>3

LEMMA SteadyMatches == ASSUME BracketsMatch, Steady PROVE StackInv' /\ BracketsMatch'
<1>1. ~errored => open = Waiting(ctl)
  BY DEF BracketsMatch, Waiting
<1>2. ~errored' => open' = Waiting(ctl')
  BY <1>1 DEF Steady, Quiet
<1> QED
  BY <1>2 DEF Steady, BracketsMatch, Waiting

\* A bracket that is asked for is there.
LEMMA BracketTaken ==
    ASSUME TypeInv, StackInv, BracketsMatch, NEW mode \in {"need", "want", "skip"}, At(mode),
           Argument \in Opening \cup Closing, Consume(Argument), GoOn(<<>>)
    PROVE  StackInv' /\ BracketsMatch'
<1>1. PICK h, a, todo, w :
          h = Top.todo[1] /\ a = Before(<<>>) /\ todo = Top.todo /\ w = Waiting(Front(ctl))
  OBVIOUS
<1>2. ctl # <<>> /\ todo # <<>> /\ h[1] = mode /\ Argument = h[2]
  BY <1>1, AtTop DEF Argument
<1>3. a \in Frames /\ a.fn = Top.fn /\ a.todo = <<>> \o Tail(todo)
  BY <1>1, BeforeIs, NoSteps
<1>4. PICK steps \in Seq(Steps) : steps = <<>> /\ Inner(steps)
  BY NoSteps, AddedInner
<1>5. a.todo = steps \o Tail(Top.todo) /\ ctl' = Append(Front(ctl), a)
  BY <1>1, <1>3, <1>4 DEF GoOn
<1>6. h[1] \notin Finals /\ h[1] \notin {"type", "nonNull", "call"} /\ IsBracket(h)
  BY <1>2 DEF Finals, IsBracket
<1>7. /\ StackInv' /\ Waiting(ctl') = w \o Awaited(a.todo) /\ Waiting(ctl) = w \o Awaited(todo)
      /\ w \in Seq(Opening)
  BY <1>1, <1>2, <1>3, <1>4, <1>5, <1>6, Going
<1>8. todo \in Seq(Steps) /\ Shaped(todo)
  BY <1>1, <1>2, TopParts DEF StackInv, Framed
<1>9. a.todo = Tail(todo)
  <2>1. Tail(todo) \in Seq(Steps)
    BY <1>2, <1>8, HeadTailProperties
  <2> QED
    BY <1>3, <2>1, ConcatEmptySeq
<1>10. errored' = errored /\ open' = (IF errored THEN <<>> ELSE Nest(h[2]))
  BY <1>2 DEF Consume
<1>11. ASSUME ~errored PROVE open' = Waiting(ctl')
  <2>1. open = w \o Awaited(todo)
    BY <1>7, <1>11 DEF BracketsMatch, Waiting
  <2>2. CASE h[2] \in Opening
    <3>1. Awaited(todo) = <<>> /\ Awaited(a.todo) = <<h[2]>>
      BY <1>1, <1>6, <1>8, <1>9, <2>2, AwaitedOpened
    <3>2. open = w
      BY <1>7, <2>1, <3>1, ConcatEmptySeq
    <3>3. Nest(h[2]) = Append(open, h[2])
      BY <2>2 DEF Nest, Opening
    <3>4. Append(w, h[2]) = w \o <<h[2]>>
      BY <1>7, <2>2, AppendIsConcat
    <3> QED
      BY <1>7, <1>10, <1>11, <3>1, <3>2, <3>3, <3>4
  <2>3. CASE h[2] \in Closing
    <3>1. PICK b \in Opening : b = Opener[h[2]]
      BY <2>3 DEF Closing, Opening, Opener
    <3>2. Awaited(todo) = <<b>> /\ Awaited(a.todo) = <<>>
      BY <1>1, <1>6, <1>8, <1>9, <2>3, <3>1, AwaitedClosed
    <3>3. open = Append(w, b)
      BY <1>7, <2>1, <3>2, AppendIsConcat
    <3>4. open \in Seq(Opening) /\ open # <<>>
      BY <1>7, <3>3, AppendProperties
    <3>5. open = Append(Front(open), Last(open))
      BY <3>4, FrontAndLast
    <3>6. Last(open) = b /\ Front(open) = w
      <4>1. PICK f, l : f = Front(open) /\ l = Last(open)
        OBVIOUS
      <4>2. f \in Seq(Opening)
        <5>1. Len(open) \in Nat /\ DOMAIN open = 1..Len(open)
          BY <3>4, LenProperties
        <5>2. \A i \in 1..Len(open) - 1 : open[i] \in Opening
          BY <3>4, <5>1, ElementOfSeq
        <5> QED
          BY <4>1, <5>1, <5>2, SubSeqProperties DEF Front
      <4>3. Append(f, l) = Append(w, b)
        BY <3>3, <3>5, <4>1
      <4>4. l \in Opening
        BY <3>4, <4>1, ElementOfSeq DEF Last
      <4>5. f = w /\ l = b
        BY <1>7, <4>2, <4>3, <4>4, AppendInjective
      <4> QED
        BY <4>1, <4>5
    <3>7. Nest(h[2]) = Front(open)
      BY <2>3, <3>1, <3>4, <3>6 DEF Nest, Closing
    <3> QED
      BY <1>7, <1>10, <1>11, <3>2, <3>6, <3>7, ConcatEmptySeq
  <2> QED
    BY <1>2, <2>2, <2>3
<1> QED
  BY <1>7, <1>10, <1>11 DEF BracketsMatch, Waiting

-----------------------------------------------------------------------------
(* The actions keep the stack and the brackets.                            *)

LEMMA ExpectedKeeps ==
    ASSUME TypeInv, StackInv, BracketsMatch, Expected
    PROVE  StackInv' /\ BracketsMatch'
<1>1. CASE ExpectMet
  <2>1. PICK mode \in {"need", "want", "skip", "typo", "late"} :
            At(mode) /\ Consume(Argument) /\ GoOn(<<>>)
    BY <1>1 DEF ExpectMet
  <2>2. CASE mode \in {"need", "want", "skip"} /\ Argument \in Opening \cup Closing
    BY <2>1, <2>2, BracketTaken
  <2>3. CASE ~(mode \in {"need", "want", "skip"} /\ Argument \in Opening \cup Closing)
    <3>1. PICK h : h = Top.todo[1] /\ h[1] = mode /\ h[2] = Argument
      BY <2>1, AtTop DEF Argument
    <3>2. ctl # <<>> /\ Top.todo \in Seq(Steps) /\ Shaped(Top.todo) /\ 1 \in DOMAIN Top.todo
      BY <2>1, AtTop, TopParts, EmptySeq, LenProperties DEF StackInv, Framed
    <3>3. mode \in {"typo", "late"} => Argument = "colon"
      BY <3>1, <3>2 DEF Shaped, Nested, NestedAt
    <3>4. Argument \notin Opening \cup Closing
      BY <2>1, <2>3, <3>3 DEF Opening, Closing
    <3>5. ~IsBracket(h)
      BY <3>1, <3>4 DEF IsBracket
    <3>6. Quiet
      BY <2>1, <3>4, QuietText
    <3>7. PICK a : a = Before(<<>>)
      OBVIOUS
    <3>8. a \in Frames /\ a.fn = Top.fn /\ a.todo = <<>> \o Tail(Top.todo)
      BY <2>1, <3>7, BeforeIs, NoSteps
    <3>9. PICK steps \in Seq(Steps) : steps = <<>> /\ Inner(steps)
      BY NoSteps, AddedInner
    <3>10. a.todo = steps \o Tail(Top.todo) /\ ctl' = Append(Front(ctl), a)
      BY <2>1, <3>7, <3>8, <3>9 DEF GoOn
    <3>11. h[1] \notin Finals /\ h[1] \notin {"type", "nonNull", "call"}
      BY <2>1, <3>1 DEF Finals
    <3>12. StackInv' /\ Waiting(ctl') = Waiting(ctl)
      BY <3>1, <3>2, <3>5, <3>8, <3>9, <3>10, <3>11, Going
    <3> QED
      BY <3>6, <3>12, SteadyMatches DEF Steady
  <2> QED
    BY <2>2, <2>3
<1>2. CASE ExpectFailed
  <2>1. PICK mode \in {"need", "want", "skip", "typo", "late"}, t \in Current :
            /\ At(mode)
            /\ ErrorExpected(t) \/ ErrorAfter(t) \/ ErrorConsumed(t)
            /\ Return(Null) \/ GoOn(<<>>)
    BY <1>2 DEF ExpectFailed
  <2>2. errored'
    BY <2>1, QuietText
  <2>3. mode \notin Finals \cup {"call", "type", "nonNull"}
    BY <2>1 DEF Finals
  <2>4. StackInv'
    BY <2>1, <2>3, Returns, GoesOn, NoSteps, AddedInner
  <2> QED
    BY <2>2, <2>4, SteadyMatches DEF Steady, Quiet
<1> QED
  BY <1>1, <1>2 DEF Expected

LEMMA NotFinal ==
    /\ \A name \in {"call", "expr", "unary", "nonNull", "child", "access", "list", "more", "type",
                    "classType", "members", "member", "addField", "statements", "else", "value",
                    "methodArgs"} : name \notin Finals
    /\ \A name \in {"make", "makeExpr", "pass", "parens", "param", "variable", "field",
                    "operators", "decls", "decl", "statement", "externalOrBody"} :
          name \in Finals /\ name \notin Data
    /\ \A name \in Data : name \in Finals
  BY DEF Finals, Data

LEMMA MethodStepKeeps ==
    ASSUME TypeInv, StackInv, NullReported, MethodStep
    PROVE  Steady
<1>1. Quiet /\ errored' = errored
  BY QuietText DEF MethodStep, NoText
<1>2. CASE At("call") /\ Activate(Argument, Body[Argument], <<>>)
  <2>1. Argument \in Methods
    BY <1>2, ArgumentOf
  <2>2. PICK todo : todo = Body[Argument]
    OBVIOUS
  <2>3. /\ todo \in Seq(Steps) /\ Program(todo) /\ Awaited(todo) = <<>>
        /\ Argument = "parseVarData" => Last(todo)[1] \in Data
    BY <2>1, <2>2, BodyTypes, BodyBalanced DEF Balanced
  <2>4. StackInv' /\ Waiting(ctl') = Waiting(ctl) \o <<>>
    BY <1>2, <2>1, <2>2, <2>3, Calls
  <2>5. Waiting(ctl) \o <<>> = Waiting(ctl)
    BY <1>2, WaitingType
  <2> QED
    BY <1>1, <2>4, <2>5 DEF Steady
<1>3. CASE At("expr") /\ Activate("parseExpr", <<Do("unary"), <<"operators", Argument>>>>, <<>>)
  <2>1. PICK todo : todo = <<Do("unary"), <<"operators", Argument>>>>
    OBVIOUS
  <2>2. todo \in Seq(Steps)
    <3>1. Do("unary") \in Steps /\ <<"operators", Argument>> \in Steps
      BY <1>3, ArgumentOf, StepTypes, DoSteps
    <3> QED
      BY <2>1, <3>1
  <2>3. Program(todo) /\ Awaited(todo) = <<>>
    BY <2>1, OperatorsBalanced DEF Balanced
  <2>4. StackInv' /\ Waiting(ctl') = Waiting(ctl) \o <<>>
    <3>1. PICK fn, name : fn = "parseExpr" /\ name = "expr"
      OBVIOUS
    <3>2. fn \in Methods \cup {"parseExpr", "parseUnaryOp"} /\ fn # "parseVarData"
      BY <3>1
    <3>3. At(name) /\ name \in {"call", "expr", "unary"} /\ name # "call"
      BY <1>3, <3>1
    <3>4. Activate(fn, todo, <<>>)
      BY <1>3, <2>1, <3>1
    <3> QED
      BY <2>2, <2>3, <3>2, <3>3, <3>4, Calls
  <2>5. Waiting(ctl) \o <<>> = Waiting(ctl)
    BY <1>3, WaitingType
  <2> QED
    BY <1>1, <2>4, <2>5 DEF Steady
<1>4. CASE (At("nonNull") \/ At("child")) /\ res = Null /\ Return(Null)
  <2>1. errored
    BY <1>4, NotNull DEF NullReported
  <2>2. StackInv'
    BY <1>4, Returns
  <2> QED
    BY <1>1, <2>1, <2>2 DEF Steady
<1>5. CASE At("nonNull") /\ res # Null /\ GoOn(<<>>)
  <2>1. StackInv' /\ Waiting(ctl') = Waiting(ctl)
    BY <1>5, InPlace, NotFinal DEF GoOn
  <2> QED
    BY <1>1, <2>1 DEF Steady
<1>6. CASE /\ At("child") /\ ctl' = Append(Front(ctl), [Before(<<>>) EXCEPT !.kids = Append(@, res)])
  BY <1>1, <1>6, ChildAdded DEF Steady
<1>7. ASSUME NEW v, NEW name \in {"make", "makeExpr", "pass", "parens"}, At(name), Return(v)
      PROVE  Steady
  <2>1. name \in Finals \ Data /\ name \in Finals
    BY NotFinal
  <2>2. StackInv' /\ Waiting(ctl') = Waiting(ctl)
    BY <1>7, <2>1, Returns
  <2> QED
    BY <1>1, <2>2 DEF Steady
<1> QED
  BY <1>2, <1>3, <1>4, <1>5, <1>6, <1>7 DEF MethodStep

\* What a step that is not an expression's does to the recursion.
LEMMA ReturnSteady ==
    ASSUME TypeInv, StackInv, NEW name, At(name), NEW v, Return(v), Quiet,
           \/ errored' /\ v = Null
           \/ name \in Finals /\ (v = Null \/ v.kind = "varData" \/ name \notin Data)
    PROVE  Steady
<1>1. StackInv' /\ (name \in Finals => Waiting(ctl') = Waiting(ctl))
  BY Returns
<1> QED
  BY <1>1 DEF Steady

LEMMA GoOnSteady ==
    ASSUME TypeInv, StackInv, NEW name, At(name), NEW steps \in Seq(Steps), GoOn(steps), Quiet,
           Inner(steps), name \notin Finals,
           name \notin {"call", "type", "nonNull", "need", "want", "skip"}
    PROVE  Steady
BY GoesOn DEF Steady

LEMMA RestartSteady ==
    ASSUME TypeInv, StackInv, NEW name, At(name), NEW steps \in Seq(Steps), GoOn(steps), Quiet,
           Balanced(steps), name \in Finals, name \in Data => Last(steps)[1] \in Data
    PROVE  Steady
BY Restarts DEF Steady

LEMMA BecomeSteady ==
    ASSUME TypeInv, StackInv, NEW name \in {"decl", "statement"}, At(name),
           NEW fn \in Methods, Become(fn), Quiet
    PROVE  Steady
<1>1. name \in Finals \ Data
  BY NotFinal
<1> QED
  BY <1>1, Becomes DEF Steady

LEMMA DeclarationKeeps ==
    ASSUME TypeInv, StackInv, NullReported, Declaration
    PROVE  Steady
<1>1. CASE Parse
  <2>1. PICK t \in Current : /\ At("decls") /\ Leave(t)
                             /\ Return(res) \/ GoOn(<<Call("parseDecl"), Do("decls")>>)
    BY <1>1 DEF Parse
  <2>2. Quiet /\ "decls" \in Finals /\ "decls" \notin Data
    BY <2>1, QuietText, NotFinal
  <2>3. CASE Return(res)
    BY <2>1, <2>2, <2>3, ReturnSteady
  <2>4. CASE GoOn(<<Call("parseDecl"), Do("decls")>>)
    BY <2>1, <2>2, <2>4, RestartSteady, RestartsBalanced, AddedSteps
  <2> QED
    BY <2>1, <2>3, <2>4
<1>2. CASE ParseAccess
  <2>1. PICK t \in Current : /\ At("access") /\ GoOn(<<>>)
                             /\ (t = "access" /\ Consume(t)) \/ ErrorExpected(t)
    BY <1>2 DEF ParseAccess
  <2>2. Quiet
    BY <2>1, QuietText DEF Opening, Closing, Quiet
  <2> QED
    BY <2>1, <2>2, GoOnSteady, NoSteps, AddedInner, NotFinal
<1>3. CASE ParseDecl
  <2>1. PICK t \in Current :
            /\ At("decl")
            /\ \/ Leave(t) /\ Become("parseFunction")
               \/ Leave(t) /\ Become("parseVariable")
               \/ Leave(t) /\ Become("parseClass")
               \/ ErrorConsumed(t) /\ Return(Null)
    BY <1>3 DEF ParseDecl
  <2>2. CASE \E fn \in {"parseFunction", "parseVariable", "parseClass"} : Leave(t) /\ Become(fn)
    BY <2>1, <2>2, QuietText, BecomeSteady, MethodNames
  <2>3. CASE ErrorConsumed(t) /\ Return(Null)
    BY <2>1, <2>3, QuietText, ReturnSteady DEF Quiet
  <2> QED
    BY <2>1, <2>2, <2>3
<1>4. CASE ExternalOrBody
  <2>1. PICK t \in Current :
            /\ At("externalOrBody")
            /\ \/ t = "external" /\ Consume(t) /\ GoOn(ExternalRest)
               \/ Leave(t) /\ GoOn(<<Call("parseBlock"), NonNull, Make>>)
    BY <1>4 DEF ExternalOrBody
  <2>2. Quiet /\ "externalOrBody" \in Finals /\ "externalOrBody" \notin Data
    BY <2>1, QuietText, NotFinal DEF Opening, Closing
  <2>3. CASE GoOn(ExternalRest)
    BY <2>1, <2>2, <2>3, RestartSteady, RestartsBalanced, OperatorTypes
  <2>4. CASE GoOn(<<Call("parseBlock"), NonNull, Make>>)
    BY <2>1, <2>2, <2>4, RestartSteady, RestartsBalanced, AddedSteps
  <2> QED
    BY <2>1, <2>3, <2>4
<1>5. CASE List \/ More
  <2>1. PICK t, name, steps :
            /\ t \in Current /\ name \in {"list", "more"}
            /\ At(name) /\ GoOn(steps)
            /\ Leave(t) \/ (t = "comma" /\ Consume(t))
            /\ steps \in {<<>>, <<Call(Argument), <<"more", Argument>>>>}
    BY <1>5 DEF List, More
  <2>2. Quiet
    BY <2>1, QuietText DEF Opening, Closing
  <2>3. steps \in Seq(Steps) /\ Inner(steps)
    BY <2>1, NoSteps, ArgumentOf, AddedSteps, AddedInner
  <2>4. name \notin Finals /\ name \notin {"call", "type", "nonNull", "need", "want", "skip"}
    BY <2>1, NotFinal
  <2> QED
    BY <2>1, <2>2, <2>3, <2>4, GoOnSteady
<1>6. CASE ParseType
  <2>1. PICK t \in Current :
            /\ At("type") /\ ctl' = Append(Front(ctl), Before(<<>>))
            /\ res' = Result("type", 0, TRUE, t \in {"type", "ident"}, FALSE)
            /\ (t \in {"type", "void", "ident"} /\ Consume(t)) \/ ErrorExpected(t)
    BY <1>6 DEF ParseType
  <2>2. Quiet
    BY <2>1, QuietText DEF Opening, Closing, Quiet
  <2>3. res'.kind = "type"
    BY <2>1 DEF Result
  <2>4. StackInv' /\ Waiting(ctl') = Waiting(ctl)
    BY <2>1, <2>3, InPlace, NotFinal
  <2> QED
    BY <2>2, <2>4 DEF Steady
<1>7. CASE ParamNode \/ VariableNode \/ FieldNode
  <2>0. PICK name \in {"param", "variable", "field"} :
            \E v : At(name) /\ Return(v) /\ (NoText \/ ErrorOnly)
    BY <1>7 DEF ParamNode, VariableNode, FieldNode
  <2>1. PICK v : At(name) /\ Return(v) /\ (NoText \/ ErrorOnly)
    BY <2>0
  <2>2. Quiet
    BY <2>1, QuietText DEF Quiet
  <2>3. name \in Finals /\ name \notin Data
    BY NotFinal
  <2> QED
    BY <2>1, <2>2, <2>3, ReturnSteady
<1>8. CASE VarType
  <2>1. PICK t, steps :
            /\ t \in Current
            /\ At("varType") /\ GoOn(steps)
            /\ Leave(t) \/ (t = "colon" /\ Consume(t))
            /\ steps \in {<<Do("type"), <<"varInit", TRUE>>>>, <<<<"varInit", FALSE>>>>}
    BY <1>8 DEF VarType
  <2>2. Quiet
    BY <2>1, QuietText DEF Opening, Closing
  <2>3. steps \in Seq(Steps) /\ Balanced(steps) /\ Last(steps)[1] \in Data
    BY <2>1, AddedSteps, RestartsBalanced, RestartsLast
  <2>4. "varType" \in Finals
    BY DEF Finals
  <2> QED
    BY <2>1, <2>2, <2>3, <2>4, RestartSteady
<1>9. CASE VarInit
  <2>1. CASE \E t \in Current : At("varInit") /\ ErrorConsumed(t) /\ Return(Null)
    BY <2>1, QuietText, ReturnSteady DEF Quiet
  <2>2. CASE \E t, b, steps :
                /\ t \in Current /\ b \in BOOLEAN
                /\ At("varInit") /\ GoOn(steps)
                /\ Leave(t) \/ (t = "assign" /\ Consume(t))
                /\ \/ steps = <<Expr(0), Want("semicolon"), <<"varData", Argument, b>>>>
                   \/ steps = <<Want("semicolon"), <<"varData", Argument, b>>>>
    <3>1. PICK t, b, steps :
                /\ t \in Current /\ b \in BOOLEAN
                /\ At("varInit") /\ GoOn(steps)
                /\ Leave(t) \/ (t = "assign" /\ Consume(t))
                /\ \/ steps = <<Expr(0), Want("semicolon"), <<"varData", Argument, b>>>>
                   \/ steps = <<Want("semicolon"), <<"varData", Argument, b>>>>
      BY <2>2
    <3>2. Quiet
      BY <3>1, QuietText DEF Opening, Closing
    <3>3. steps \in Seq(Steps)
      BY <3>1, ArgumentOf, AddedSteps
    <3>4. Balanced(steps)
      BY <3>1, RestartsBalanced
    <3>5. Last(steps)[1] \in Data
      BY <3>1, RestartsLast
    <3>6. "varInit" \in Finals
      BY DEF Finals
    <3> QED
      BY <3>1, <3>2, <3>3, <3>4, <3>5, <3>6, RestartSteady
  <2> QED
    BY <1>9, <2>1, <2>2 DEF VarInit
<1>10. CASE VarData
  <2>1. PICK v : At("varData") /\ Return(v) /\ NoText /\ v.kind = "varData"
    BY <1>10 DEF VarData, Result
  <2>2. "varData" \in Finals
    BY DEF Finals
  <2> QED
    BY <2>1, <2>2, QuietText, ReturnSteady
<1>11. CASE ClassType
  <2>1. CASE At("classType") /\ GoOn(<<>>) /\ NoText
    BY <2>1, QuietText, GoOnSteady, NoSteps, AddedInner, NotFinal
  <2>2. CASE At("classType") /\ Return(Null) /\ ErrorOnly
    BY <2>2, QuietText, ReturnSteady DEF Quiet
  <2> QED
    BY <1>11, <2>1, <2>2 DEF ClassType
<1>12. CASE Members \/ Member
  <2>1. PICK t, name, steps :
            /\ t \in Current /\ name \in {"members", "member"}
            /\ At(name) /\ GoOn(steps)
            /\ Leave(t) \/ ErrorConsumed(t)
            /\ steps \in {<<>>, <<Do("access"), Do("member")>>,
                          <<Call("parseField"), Do("addField"), Do("members")>>,
                          <<Call("parseCtor"), Do("members")>>,
                          <<Call("parseMethod"), Do("members")>>, <<Do("members")>>}
    BY <1>12 DEF Members, Member
  <2>2. Quiet
    BY <2>1, QuietText DEF Quiet
  <2>3. steps \in Seq(Steps) /\ Inner(steps)
    BY <2>1, NoSteps, AddedMembers, AddedInner
  <2>4. name \notin Finals /\ name \notin {"call", "type", "nonNull", "need", "want", "skip"}
    BY <2>1, NotFinal
  <2> QED
    BY <2>1, <2>2, <2>3, <2>4, GoOnSteady
<1>13. CASE AddField
  <2>1. At("addField") /\ GoOn(<<>>) /\ (NoText \/ ErrorOnly)
    BY <1>13 DEF AddField
  <2>2. Quiet
    BY <2>1, QuietText DEF Quiet
  <2> QED
    BY <2>1, <2>2, GoOnSteady, NoSteps, AddedInner, NotFinal
<1> QED
  BY <1>1, <1>2, <1>3, <1>4, <1>5, <1>6, <1>7, <1>8, <1>9, <1>10, <1>11, <1>12, <1>13
     DEF Declaration

LEMMA StatementKeeps ==
    ASSUME TypeInv, StackInv, Statement
    PROVE  Steady
<1>1. CASE Statements \/ ParseElse \/ ReturnValue
  <2>1. PICK t, name, steps :
            /\ t \in Current /\ name \in {"statements", "else", "value"}
            /\ At(name) /\ GoOn(steps)
            /\ Leave(t) \/ (t \in {"else", "semicolon"} /\ Consume(t))
            /\ steps \in {<<>>, <<Call("parseStatement"), Do("statements")>>,
                          <<Call("parseStatement")>>, <<Expr(0), Need("semicolon")>>}
    BY <1>1 DEF Statements, ParseElse, ReturnValue
  <2>2. Quiet
    BY <2>1, QuietText DEF Opening, Closing
  <2>3. steps \in Seq(Steps) /\ Inner(steps)
    BY <2>1, NoSteps, AddedMembers, AddedInner
  <2>4. name \notin Finals /\ name \notin {"call", "type", "nonNull", "need", "want", "skip"}
    BY <2>1, NotFinal
  <2> QED
    BY <2>1, <2>2, <2>3, <2>4, GoOnSteady
<1>2. CASE ParseStatement
  <2>1. PICK t \in Current :
            /\ At("statement")
            /\ \/ \E fn \in {"parseVariable", "parseReturn", "parseIf", "parseExprStmt",
                             "parseBlock"} : Leave(t) /\ Become(fn)
               \/ t = "semicolon" /\ Consume(t) /\ Return(Node)
               \/ ErrorConsumed(t) /\ Return(Null)
    BY <1>2 DEF ParseStatement
  <2>2. CASE \E fn \in {"parseVariable", "parseReturn", "parseIf", "parseExprStmt",
                        "parseBlock"} : Leave(t) /\ Become(fn)
    BY <2>1, <2>2, QuietText, BecomeSteady, MethodNames
  <2>3. CASE t = "semicolon" /\ Consume(t) /\ Return(Node)
    <3>1. Quiet
      BY <2>3, QuietText DEF Opening, Closing
    <3> QED
      BY <2>1, <2>3, <3>1, ReturnSteady, NotFinal
  <2>4. CASE ErrorConsumed(t) /\ Return(Null)
    BY <2>1, <2>4, QuietText, ReturnSteady DEF Quiet
  <2> QED
    BY <2>1, <2>2, <2>3, <2>4
<1> QED
  BY <1>1, <1>2 DEF Statement

\* The parenthesis that an expression opens is waited for from then on.
LEMMA ParensOpened ==
    ASSUME TypeInv, StackInv, BracketsMatch, At("unary"), Consume("lparen"),
           Activate("parseUnaryOp", ParseParens, <<>>)
    PROVE  StackInv' /\ BracketsMatch'
<1>1. PICK fn, name, todo : fn = "parseUnaryOp" /\ name = "unary" /\ todo = ParseParens
  OBVIOUS
<1>2. todo \in Seq(Steps) /\ Program(todo) /\ Awaited(todo) = <<"lparen">>
  BY <1>1, OperatorTypes, OperatorsBalanced
<1>3. /\ fn \in Methods \cup {"parseExpr", "parseUnaryOp"} /\ fn # "parseVarData"
      /\ At(name) /\ name \in {"call", "expr", "unary"} /\ name # "call"
      /\ Activate(fn, todo, <<>>)
  BY <1>1
<1>4. StackInv' /\ Waiting(ctl') = Waiting(ctl) \o <<"lparen">>
  BY <1>2, <1>3, Calls
<1>5. Waiting(ctl) \in Seq(Opening) /\ "lparen" \in Opening
  BY WaitingType DEF Opening
<1>6. PICK w, e : w = Waiting(ctl) /\ e = "lparen"
  OBVIOUS
<1>7. Append(w, e) = w \o <<e>>
  BY <1>5, <1>6, AppendIsConcat
<1>8. errored' = errored /\ (~errored => open' = Append(open, "lparen"))
  BY DEF Consume, Nest
<1>9. ~errored => open = w
  BY <1>6 DEF BracketsMatch, Waiting
<1>10. ~errored' => open' = Waiting(ctl')
  BY <1>4, <1>6, <1>7, <1>8, <1>9
<1> QED
  BY <1>4, <1>10 DEF BracketsMatch, Waiting

LEMMA ExpressionKeeps ==
    ASSUME TypeInv, StackInv, BracketsMatch, Expression
    PROVE  StackInv' /\ BracketsMatch'
<1>1. CASE ParseUnaryOp
  <2>1. CASE \E t \in Current :
                /\ At("unary") /\ ctl' = Append(Front(ctl), Before(<<>>))
                /\ \/ t \in {"ident", "literal"} /\ Consume(t)
                   \/ ErrorConsumed(t) \/ ErrorAfter(t)
    <3>1. PICK t \in Current :
                /\ At("unary") /\ ctl' = Append(Front(ctl), Before(<<>>))
                /\ \/ t \in {"ident", "literal"} /\ Consume(t)
                   \/ ErrorConsumed(t) \/ ErrorAfter(t)
      BY <2>1
    <3>2. Quiet
      BY <3>1, QuietText DEF Opening, Closing, Quiet
    <3>3. StackInv' /\ Waiting(ctl') = Waiting(ctl)
      BY <3>1, InPlace, NotFinal
    <3> QED
      BY <3>2, <3>3, SteadyMatches DEF Steady
  <2>2. CASE \E t \in {"minus", "not"} :
                At("unary") /\ Consume(t) /\ Activate("parseUnaryOp", ParseUnaryExpr, <<>>)
    <3>1. Quiet
      BY <2>2, QuietText DEF Opening, Closing
    <3>2. PICK fn, name, todo : fn = "parseUnaryOp" /\ name = "unary" /\ todo = ParseUnaryExpr
      OBVIOUS
    <3>3. todo \in Seq(Steps) /\ Program(todo) /\ Awaited(todo) = <<>>
      BY <3>2, OperatorTypes, OperatorsBalanced DEF Balanced
    <3>4. /\ fn \in Methods \cup {"parseExpr", "parseUnaryOp"} /\ fn # "parseVarData"
          /\ At(name) /\ name \in {"call", "expr", "unary"} /\ name # "call"
          /\ Activate(fn, todo, <<>>)
      BY <2>2, <3>2
    <3>5. StackInv' /\ Waiting(ctl') = Waiting(ctl) \o <<>>
      BY <3>3, <3>4, Calls
    <3>6. Waiting(ctl) \o <<>> = Waiting(ctl)
      BY <2>2, WaitingType
    <3> QED
      BY <3>1, <3>5, <3>6, SteadyMatches DEF Steady
  <2>3. CASE At("unary") /\ Consume("lparen") /\ Activate("parseUnaryOp", ParseParens, <<>>)
    BY <2>3, ParensOpened
  <2> QED
    BY <1>1, <2>1, <2>2, <2>3 DEF ParseUnaryOp
<1>2. CASE ExprEnds
  <2>1. At("operators") /\ Return(res) /\ (NoText \/ \E t \in Current : Leave(t))
    BY <1>2 DEF ExprEnds
  <2>2. Quiet
    BY <2>1, QuietText
  <2>3. Steady
    BY <2>1, <2>2, ReturnSteady, NotFinal
  <2> QED
    BY <2>3, SteadyMatches
<1>3. CASE ParseBinaryOp
  <2>0. PICK t \in Current,
             fn \in {"parseTernary", "parseCall", "parseMemberAccess", "parseBinaryExpr"} :
          \E todo :
            /\ At("operators") /\ Argument < getPrec(t) /\ Operator(fn, todo)
            /\ Leave(t) \/ (t \notin {"question", "lparen", "dot"} /\ Consume(t))
            /\ \/ todo \in {ParseTernary, ParseCall, ParseMemberAccess}
               \/ t \notin {"question", "lparen", "dot"} /\ todo = ParseBinaryExpr(t)
    BY <1>3 DEF ParseBinaryOp
  <2>1. PICK todo :
            /\ At("operators") /\ Argument < getPrec(t) /\ Operator(fn, todo)
            /\ Leave(t) \/ (t \notin {"question", "lparen", "dot"} /\ Consume(t))
            /\ \/ todo \in {ParseTernary, ParseCall, ParseMemberAccess}
               \/ t \notin {"question", "lparen", "dot"} /\ todo = ParseBinaryExpr(t)
    BY <2>0
  <2>2. getPrec(t) > 0
    <3>1. Argument \in 0..8 /\ getPrec(t) \in 0..8
      BY <2>1, ArgumentOf, PrecTypes
    <3> QED
      BY <2>1, <3>1
  <2>3. t \notin Opening \cup Closing \/ t = "lparen"
    BY <2>2 DEF getPrec, Opening, Closing
  <2>4. Quiet
    BY <2>1, <2>3, QuietText
  <2>5. todo \in Seq(Steps)
    BY <2>1, <2>2, OperatorTypes
  <2>6. Balanced(todo)
    BY <2>1, OperatorsBalanced
  <2>7. StackInv' /\ Waiting(ctl') = Waiting(ctl)
    BY <2>1, <2>5, <2>6, Operates
  <2> QED
    BY <2>4, <2>7, SteadyMatches DEF Steady
<1>4. CASE MethodArgs
  <2>1. PICK t, steps :
            /\ t \in Current
            /\ At("methodArgs") /\ Leave(t) /\ GoOn(steps)
            /\ steps \in {<<>>, <<Call("parseCallArgs")>>}
    BY <1>4 DEF MethodArgs
  <2>2. steps \in Seq(Steps) /\ Inner(steps)
    BY <2>1, NoSteps, AddedMembers, AddedInner
  <2>3. Quiet
    BY <2>1, QuietText
  <2>4. Steady
    BY <2>1, <2>2, <2>3, GoOnSteady, NotFinal
  <2> QED
    BY <2>4, SteadyMatches
<1> QED
  BY <1>1, <1>2, <1>3, <1>4 DEF Expression

LEMMA StepKeepsBrackets ==
    ASSUME TypeInv, StackInv, NullReported, BracketsMatch, [Next]_vars
    PROVE  StackInv' /\ BracketsMatch'
<1>1. CASE OutOfStack
  <2>1. ctl' = <<>> /\ open' = <<>>
    BY <1>1 DEF OutOfStack
  <2>2. Stacked(<<>>)
    BY DEF Stacked
  <2>3. open' = Waiting(ctl')
    BY <2>1, WaitingEmpty
  <2> QED
    BY <2>1, <2>2, <2>3 DEF StackInv, BracketsMatch, Waiting
<1>2. CASE Returned \/ UNCHANGED vars
  BY <1>2 DEF Returned, vars, StackInv, BracketsMatch, Top
<1> QED
  BY <1>1, <1>2, ExpectedKeeps, MethodStepKeeps, DeclarationKeeps, StatementKeeps,
     ExpressionKeeps, SteadyMatches DEF Next

LEMMA BracketsInit == Init => TypeInv /\ StackInv /\ BracketsMatch
<1> SUFFICES ASSUME Init PROVE TypeInv /\ StackInv /\ BracketsMatch
  OBVIOUS
<1>1. PICK a, f : a = Activation("parse", <<Do("decls")>>, <<>>) /\ f = <<>>
  OBVIOUS
<1>2. a \in Frames /\ a.todo = <<Do("decls")>> /\ a.fn = "parse"
  <2>1. <<Do("decls")>> \in Seq(Steps)
    BY DoSteps
  <2> QED
    BY <1>1, <2>1, NoSteps, ActivationType DEF Activation
<1>3. f \in Seq(Frames) /\ Stacked(f) /\ Waiting(f) = <<>>
  BY <1>1, EmptySeq, WaitingEmpty DEF Stacked
<1>4. Balanced(a.todo)
  BY <1>2, RestartsBalanced
<1>5. ctl = Append(f, a)
  BY <1>1 DEF Init
<1>6. Framed(a)
  BY <1>2, <1>4 DEF Framed, Balanced, Program
<1>7. Stacked(ctl) /\ ctl \in Seq(Frames) /\ Last(ctl) = a
  <2>1. Stacked(ctl)
    BY <1>1, <1>2, <1>3, <1>5, <1>6, StackAppend
  <2> QED
    BY <1>2, <1>3, <1>5, <2>1, LastOfAppend
<1>8. StackInv
  BY <1>4, <1>7, ProgramAnswered DEF StackInv, Top, Balanced
<1>9. Waiting(ctl) = <<>>
  <2>1. Waiting(ctl) = <<>> \o <<>>
    BY <1>2, <1>3, <1>4, <1>5, <1>7, WaitingAppend DEF Balanced
  <2> QED
    BY <2>1
<1>10. TypeInv
  BY <1>7, ResultTypes DEF Init, TypeInv
<1> QED
  BY <1>8, <1>9, <1>10 DEF Init, BracketsMatch, Waiting

\* As long as no error has been printed, the brackets that are open in the text
\* are the ones that the methods on the stack still have to close, in that order:
\* expect and the steps that ask for ')' or '}' neither lose a bracket nor take
\* one that belongs to another method.
THEOREM BracketsAreMatched == Spec => []BracketsMatch
<1>1. Init => TypeInv /\ NullReported /\ StackInv /\ BracketsMatch
  BY BracketsInit, NotNull DEF Init, NullReported
<1>2. TypeInv /\ NullReported /\ StackInv /\ BracketsMatch /\ [Next]_vars =>
         (TypeInv /\ NullReported /\ StackInv /\ BracketsMatch)'
  <2>1. ASSUME NullReported, [Next]_vars PROVE NullReported'
    BY <2>1, ErrorsStay, NullHasReason DEF NullReported
  <2> QED
    BY <2>1, StepKeepsType, StepKeepsBrackets
<1> QED
  BY <1>1, <1>2, PTL DEF Spec

-----------------------------------------------------------------------------
(* The type of the rest of the state.                                      *)

\* The recursion, the token looked at, and the brackets of the text.
CacheOK == cache = <<>> \/ \E t \in Lexed : cache = <<t>>
OpenOK == open \in Seq({"lparen", "lbrace", "rparen", "rbrace"})
RestInv == Len(ctl) <= MaxDepth /\ CacheOK /\ OpenOK /\ declared \in BOOLEAN

Moves == /\ ctl # <<>>
         /\ \/ \E a : ctl' = Append(Front(ctl), a)
            \/ ctl' = Front(ctl)
            \/ Len(ctl) < MaxDepth /\ \E a, b : ctl' = Append(Append(Front(ctl), a), b)
            \/ Len(ctl) < MaxDepth /\ \E b : ctl' = Append(ctl, b)

Reads == \/ NoText \/ ErrorOnly
         \/ \E t \in Current : \/ Consume(t) \/ Leave(t)
                               \/ ErrorExpected(t) \/ ErrorAfter(t) \/ ErrorConsumed(t)

LEMMA MovesDepth == ASSUME TypeInv, Len(ctl) <= MaxDepth, Moves PROVE Len(ctl') <= MaxDepth
<1>1. PICK f, n : f = Front(ctl) /\ n = Len(ctl)
  OBVIOUS
<1>2. f \in Seq(Frames) /\ n \in Nat /\ n # 0 /\ Len(f) = n - 1 /\ ctl \in Seq(Frames)
  <2>1. ctl # <<>> /\ ctl \in Seq(Frames)
    BY DEF Moves, TypeInv
  <2>2. n \in Nat /\ n # 0 /\ f \in Seq(Frames)
    BY <1>1, <2>1, EmptySeq, LenProperties, TopType
  <2>3. PICK a \in Frames : ctl = Append(f, a)
    BY <1>1, <2>1, FrontAndLast, TopType DEF Top
  <2>4. n = Len(f) + 1
    BY <1>1, <2>2, <2>3, AppendProperties
  <2>5. Len(f) \in Nat
    BY <2>2, LenProperties
  <2> QED
    BY <2>1, <2>2, <2>4, <2>5
<1>3. MaxDepth \in Nat
  BY DepthAssumption
<1>4. ASSUME NEW s \in Seq(Frames), NEW a PROVE Len(Append(s, a)) = Len(s) + 1
  BY AppendProperties
<1>5. ASSUME NEW a, ctl' = Append(f, a) PROVE Len(ctl') <= MaxDepth
  BY <1>1, <1>2, <1>3, <1>4, <1>5
<1>6. ASSUME NEW b, ctl' = Append(ctl, b), n < MaxDepth PROVE Len(ctl') <= MaxDepth
  BY <1>1, <1>2, <1>3, <1>4, <1>6
<1>7. ASSUME NEW a, NEW b, ctl' = Append(Append(f, a), b), n < MaxDepth
      PROVE  Len(ctl') <= MaxDepth
  BY <1>1, <1>2, <1>3, <1>4, <1>7
<1>8. CASE ctl' = f
  BY <1>1, <1>2, <1>3, <1>8
<1> QED
  BY <1>1, <1>5, <1>6, <1>7, <1>8 DEF Moves

LEMMA ReadsType == ASSUME CacheOK, OpenOK, errored \in BOOLEAN, Reads PROVE CacheOK' /\ OpenOK'
<1>1. Current \subseteq Lexed
  BY DEF Current, CacheOK
<1>2. <<>> \in Seq({"lparen", "lbrace", "rparen", "rbrace"})
  OBVIOUS
<1>3. CASE NoText \/ ErrorOnly
  BY <1>2, <1>3 DEF NoText, ErrorOnly, Failed, CacheOK, OpenOK
<1>4. ASSUME NEW t \in Current, Consume(t) PROVE CacheOK' /\ OpenOK'
  <2>1. Nest(t) \in Seq({"lparen", "lbrace", "rparen", "rbrace"})
    <3>1. CASE t \in {"lparen", "lbrace", "rparen", "rbrace"}
      <4>1. Append(open, t) \in Seq({"lparen", "lbrace", "rparen", "rbrace"})
        BY <3>1, AppendProperties DEF OpenOK
      <4>2. open # <<>> => Front(open) \in Seq({"lparen", "lbrace", "rparen", "rbrace"})
        <5>1. Len(open) \in Nat /\ DOMAIN open = 1..Len(open)
          BY LenProperties DEF OpenOK
        <5>2. \A i \in 1..Len(open) - 1 : open[i] \in {"lparen", "lbrace", "rparen", "rbrace"}
          BY <5>1, ElementOfSeq DEF OpenOK
        <5> QED
          BY <5>1, <5>2, SubSeqProperties DEF Front
      <4> QED
        BY <3>1, <4>1, <4>2 DEF Nest
    <3>2. CASE t \notin {"lparen", "lbrace", "rparen", "rbrace"}
      BY <3>2 DEF Nest, OpenOK
    <3> QED
      BY <3>1, <3>2
  <2> QED
    BY <1>2, <1>4, <2>1 DEF Consume, CacheOK, OpenOK
<1>5. ASSUME NEW t \in Current, Leave(t) PROVE CacheOK' /\ OpenOK'
  BY <1>1, <1>5 DEF Leave, CacheOK, OpenOK
<1>6. ASSUME NEW t \in Current, ErrorExpected(t) \/ ErrorAfter(t) \/ ErrorConsumed(t)
      PROVE  CacheOK' /\ OpenOK'
  BY <1>1, <1>2, <1>6 DEF ErrorExpected, ErrorAfter, ErrorConsumed, Failed, CacheOK, OpenOK
<1> QED
  BY <1>3, <1>4, <1>5, <1>6 DEF Reads

LEMMA ActionMoves ==
    ASSUME Expected \/ MethodStep \/ Declaration \/ Statement \/ Expression
    PROVE  Moves /\ Reads /\ declared' \in {declared, TRUE}
<1> USE DEF Moves, Reads, At, GoOn, Become, Activate, Operator, Return
<1>1. CASE Expected
  BY <1>1 DEF Expected, ExpectMet, ExpectFailed
<1>2. CASE MethodStep
  BY <1>2 DEF MethodStep
<1>3. CASE Parse \/ ParseAccess \/ ParseDecl \/ ExternalOrBody
  BY <1>3 DEF Parse, ParseAccess, ParseDecl, ExternalOrBody
<1>4. CASE List \/ More \/ ParseType \/ ParamNode
  BY <1>4 DEF List, More, ParseType, ParamNode
<1>5. CASE VarType \/ VarInit \/ VarData \/ VariableNode \/ FieldNode
  BY <1>5 DEF VarType, VarInit, VarData, VariableNode, FieldNode
<1>6. CASE ClassType \/ Members \/ Member \/ AddField
  BY <1>6 DEF ClassType, Members, Member, AddField
<1>7. CASE Statement
  BY <1>7 DEF Statement, Statements, ParseStatement, ParseElse, ReturnValue
<1>8. CASE ParseUnaryOp \/ ExprEnds
  BY <1>8 DEF ParseUnaryOp, ExprEnds
<1>9. CASE ParseBinaryOp \/ MethodArgs
  BY <1>9 DEF ParseBinaryOp, MethodArgs
<1> QED
  BY <1>1, <1>2, <1>3, <1>4, <1>5, <1>6, <1>7, <1>8, <1>9 DEF Declaration, Expression

LEMMA StepKeepsRest == ASSUME TypeInv, RestInv, [Next]_vars PROVE RestInv'
<1>1. CASE Expected \/ MethodStep \/ Declaration \/ Statement \/ Expression
  <2>1. Moves /\ Reads /\ declared' \in {declared, TRUE}
    BY <1>1, ActionMoves
  <2>2. Len(ctl') <= MaxDepth
    BY <2>1, MovesDepth DEF RestInv
  <2>3. CacheOK' /\ OpenOK'
    BY <2>1, ReadsType DEF RestInv, TypeInv
  <2> QED
    BY <2>1, <2>2, <2>3 DEF RestInv
<1>2. CASE OutOfStack
  <2>1. ctl' = <<>> /\ open' = <<>> /\ cache' = cache /\ declared' = declared
    BY <1>2 DEF OutOfStack
  <2>2. Len(ctl') <= MaxDepth
    BY <2>1, EmptySeq, DepthAssumption
  <2>3. CacheOK'
    BY <2>1 DEF RestInv, CacheOK
  <2>4. OpenOK'
    BY <2>1 DEF OpenOK
  <2> QED
    BY <2>1, <2>2, <2>3, <2>4 DEF RestInv
<1>3. CASE Returned \/ UNCHANGED vars
  BY <1>3 DEF Returned, vars, RestInv, CacheOK, OpenOK
<1> QED
  BY <1>1, <1>2, <1>3 DEF Next

\* The state has its type, and the methods are handed what they take for granted:
\* every activation has a step left that its actions understand, a parameter is
\* made of the type that parseType has returned, and a variable or a field of the
\* VarData that parseVarData has returned, of no other node and not of null.
THEOREM TypesAreRight == Spec => []TypeOK
<1>1. Init => TypeInv /\ NullReported /\ StackInv /\ BracketsMatch /\ RestInv
  <2> SUFFICES ASSUME Init PROVE TypeInv /\ NullReported /\ StackInv /\ BracketsMatch /\ RestInv
    OBVIOUS
  <2>1. TypeInv /\ NullReported /\ StackInv /\ BracketsMatch
    BY BracketsInit, NotNull DEF Init, NullReported
  <2>2. Len(ctl) = 1
    BY DEF Init
  <2>3. Len(ctl) <= MaxDepth
    BY <2>2, DepthAssumption
  <2>4. CacheOK /\ OpenOK /\ declared \in BOOLEAN
    <3>1. <<>> \in Seq({"lparen", "lbrace", "rparen", "rbrace"})
      OBVIOUS
    <3> QED
      BY <3>1 DEF Init, CacheOK, OpenOK
  <2> QED
    BY <2>1, <2>3, <2>4 DEF RestInv
<1>2. TypeInv /\ NullReported /\ StackInv /\ BracketsMatch /\ RestInv /\ [Next]_vars =>
         (TypeInv /\ NullReported /\ StackInv /\ BracketsMatch /\ RestInv)'
  <2>1. ASSUME NullReported, [Next]_vars PROVE NullReported'
    BY <2>1, ErrorsStay, NullHasReason DEF NullReported
  <2> QED
    BY <2>1, StepKeepsType, StepKeepsBrackets, StepKeepsRest
<1>3. TypeInv /\ StackInv /\ RestInv => TypeOK
  <2> SUFFICES ASSUME TypeInv, StackInv, RestInv PROVE TypeOK
    OBVIOUS
  <2>1. \A i \in DOMAIN ctl : ctl[i].todo # <<>>
    BY DEF StackInv, Stacked, Framed, Shaped, Ended
  <2>2. At("param") => res.kind = "type"
    BY AtTop DEF StackInv, Answered
  <2>3. At("variable") \/ At("field") => res.kind = "varData"
    BY AtTop DEF StackInv, Answered
  <2> QED
    BY <2>1, <2>2, <2>3 DEF TypeOK, TypeInv, RestInv, CacheOK, OpenOK
<1> QED
  BY <1>1, <1>2, <1>3, PTL DEF Spec

-----------------------------------------------------------------------------
(* Precedence.                                                             *)

\* A parseExpr that a last operand starts asks for operators above this one.
Least(op) == CASE op = "assign" -> 0 [] op = "question" -> 1 [] op = "neg" -> 7
               [] OTHER -> Level[op]

\* What the operator that starts with t asks of its first operand.
LeftLevel(t) == CASE t \in {"dot", "lparen"} -> 9 [] t = "question" -> 3
                  [] t = "assign" -> 2 [] OTHER -> getPrec(t)

\* The activations of an expression: parseExpr; an operator, with the operands it
\* has; a parenthesis.  All others have no step that one of these has, and call
\* parseExpr for a whole expression.
Climbing(a) == \E m \in 0..7 :
    a.todo = <<Do("unary"), <<"operators", m>>>> \/ a.todo = <<<<"operators", m>>>>

Fitting(kids, op) ==
    /\ Len(kids) <= Len(OperandLevels(op))
    /\ \A i \in DOMAIN kids : kids[i].sound /\ kids[i].level >= OperandLevels(op)[i]

Making(a, op) == a.todo = <<MakeExpr(op)>> /\ Len(a.kids) = Len(OperandLevels(op))

LastOperand(a, op) ==
    /\ op \notin {"call", "dot"} /\ Len(a.kids) + 1 = Len(OperandLevels(op))
    /\ \/ a.todo = <<Expr(Least(op)), Child, MakeExpr(op)>>
       \/ a.todo = <<Child, MakeExpr(op)>>

Selecting(a) ==
    \/ /\ Len(a.kids) = 1
       /\ \/ a.todo = ParseTernary \/ a.todo = Tail(ParseTernary)
          \/ a.todo = Tail(Tail(ParseTernary))
    \/ Len(a.kids) = 2 /\ a.todo = Tail(Tail(Tail(ParseTernary)))

Following(a, op) ==
    /\ Len(a.kids) = 1
    /\ \/ op \in {"call", "dot"} /\ a.todo = <<Call("parseCallArgs"), MakeExpr(op)>>
       \/ /\ op = "dot"
          /\ \/ a.todo = ParseMemberAccess \/ a.todo = Tail(ParseMemberAccess)
             \/ a.todo = Tail(Tail(ParseMemberAccess))

Combining(a, op) ==
    /\ Fitting(a.kids, op)
    /\ Making(a, op) \/ LastOperand(a, op) \/ Following(a, op) \/ (op = "question" /\ Selecting(a))

Enclosing(a) == a.todo = ParseParens \/ a.todo = Tail(ParseParens) \/ a.todo = <<Do("parens")>>

Plain(todo) == \A i \in DOMAIN todo :
    /\ todo[i][1] \notin {"unary", "operators", "child", "makeExpr", "methodArgs", "parens"}
    /\ todo[i][1] = "expr" => todo[i][2] = 0

Sorted(a) == \/ Climbing(a) \/ Enclosing(a) \/ Plain(a.todo)
             \/ \E op \in DOMAIN Level : Combining(a, op)

\* Neighbours on the stack: who waits for an operand called parseExpr for one, and a
\* parseExpr waits for an operator above its own minimum, or for a parenthesis.
Over(a, b) ==
    /\ a.todo[1][1] = "child" => Last(b.todo) = <<"operators", Least(Last(a.todo)[2])>>
    /\ a.todo[1][1] = "operators" =>
           \/ Last(b.todo) = Do("parens")
           \/ \E op \in DOMAIN Level : Last(b.todo) = MakeExpr(op) /\ Level[op] > a.todo[1][2]
    /\ a.todo[1][1] = "makeExpr" => a.todo[1][2] \in {"call", "dot"}

Climbed(c) == /\ \A i \in DOMAIN c : Sorted(c[i])
              /\ \A i \in DOMAIN c : i # 1 => Over(c[i-1], c[i])

\* The token looked at is no operator above n; it is none that the tree r is too
\* loose an operand of.
Stopped(k, n) == \E t : k = <<t>> /\ getPrec(t) <= n
Tight(r, k) == r.level >= 9 \/ \E t : k = <<t>> /\ (getPrec(t) > 0 => LeftLevel(t) <= r.level)

\* What the running activation knows of the last result r and the token k.
Ready(todo, r, k) ==
    /\ todo[1][1] = "child" => \/ r = Null
                               \/ /\ r.level > Least(Last(todo)[2])
                                  /\ Stopped(k, Least(Last(todo)[2]))
    /\ todo[1][1] = "makeExpr" => todo[1][2] \in {"call", "dot"} \/ Stopped(k, Least(todo[1][2]))
    /\ todo[1][1] = "operators" => r = Null \/ (r.level > todo[1][2] /\ Tight(r, k))

ClimbInv == Climbed(ctl) /\ (ctl # <<>> => Ready(Top.todo, res, cache)) /\ res.sound

-----------------------------------------------------------------------------

LEMMA ClimbedAppend ==
    ASSUME NEW f \in Seq(Frames), NEW a \in Frames
    PROVE  Climbed(Append(f, a)) <=>
              Climbed(f) /\ Sorted(a) /\ (f # <<>> => Over(Last(f), a))
<1>1. PICK c, n : c = Append(f, a) /\ n = Len(f)
  OBVIOUS
<1>2. /\ n \in Nat /\ DOMAIN f = 1..n /\ DOMAIN c = 1..n + 1 /\ c[n + 1] = a
      /\ \A i \in 1..n : c[i] = f[i]
  BY <1>1, AppendProperties, LenProperties
<1>3. f # <<>> <=> n # 0
  BY <1>1, EmptySeq
<1>4. n # 0 => Last(f) = c[n] /\ n \in 1..n + 1
  BY <1>1, <1>2 DEF Last
<1>5. ASSUME Climbed(c) PROVE Climbed(f) /\ Sorted(a) /\ (n # 0 => Over(Last(f), a))
  <2>1. \A i \in 1..n : i \in 1..n + 1 /\ c[i] = f[i] /\ (i # 1 => i - 1 \in 1..n)
    BY <1>2
  <2>2. \A i \in 1..n : i # 1 => c[i-1] = f[i-1]
    BY <2>1
  <2>3. \A i \in 1..n : Sorted(f[i])
    BY <1>2, <1>5, <2>1 DEF Climbed
  <2>4. \A i \in 1..n : i # 1 => Over(f[i-1], f[i])
    BY <1>2, <1>5, <2>1, <2>2 DEF Climbed
  <2>5. n + 1 \in 1..n + 1 /\ (n + 1) - 1 = n /\ (n # 0 => n + 1 # 1)
    BY <1>2
  <2>6. Sorted(a)
    BY <1>2, <1>5, <2>5 DEF Climbed
  <2>7. n # 0 => Over(c[n], a)
    BY <1>2, <1>5, <2>5 DEF Climbed
  <2> QED
    BY <1>2, <1>4, <2>3, <2>4, <2>6, <2>7 DEF Climbed
<1>6. ASSUME Climbed(f), Sorted(a), n # 0 => Over(Last(f), a) PROVE Climbed(c)
  <2>1. ASSUME NEW i \in 1..n + 1 PROVE Sorted(c[i]) /\ (i # 1 => Over(c[i-1], c[i]))
    <3>1. CASE i = n + 1
      <4>1. i - 1 = n /\ (i # 1 => n # 0)
        BY <1>2, <3>1
      <4> QED
        BY <1>2, <1>4, <1>6, <3>1, <4>1
    <3>2. CASE i # n + 1
      <4>1. i \in 1..n /\ (i # 1 => i - 1 \in 1..n)
        BY <1>2, <3>2
      <4>2. c[i] = f[i] /\ (i # 1 => c[i-1] = f[i-1])
        BY <1>2, <4>1
      <4> QED
        BY <1>2, <1>6, <4>1, <4>2 DEF Climbed
    <3> QED
      BY <3>1, <3>2
  <2> QED
    BY <1>2, <2>1 DEF Climbed
<1> QED
  BY <1>1, <1>3, <1>5, <1>6

\* The grammar's numbers.
LEMMA LeastTypes ==
    ASSUME NEW op \in DOMAIN Level
    PROVE  /\ Least(op) \in 0..7 \/ op \in {"call", "dot"}
           /\ Level[op] \in 1..9 /\ Least(op) \in 0..9
           /\ op \notin {"call", "dot"} => Level[op] <= 8 /\ Least(op) < 8
           /\ op \in {"call", "dot"} => Level[op] = 9
  BY DEF Least, Level

\* Two operators are after each other what the grammar says: a tree of op before a
\* token that binds no tighter is an operand that the token may have.
LEMMA TightEnough ==
    ASSUME NEW op \in DOMAIN Level, op \notin {"call", "dot"}, NEW t, getPrec(t) <= Least(op), getPrec(t) > 0
    PROVE  LeftLevel(t) <= Level[op]
  BY OperatorNames DEF Least, Level, getPrec, LeftLevel

LEMMA TreeTight ==
    ASSUME NEW op \in DOMAIN Level, NEW sound, NEW k,
           op \in {"call", "dot"} \/ Stopped(k, Least(op))
    PROVE  Tight(Tree(Level[op], sound), k)
<1>1. Tree(Level[op], sound).level = Level[op]
  BY DEF Tree, Result
<1>2. CASE op \in {"call", "dot"}
  <2>1. Level[op] >= 9
    BY <1>2 DEF Level
  <2> QED
    BY <1>1, <2>1 DEF Tight
<1>3. CASE op \notin {"call", "dot"}
  <2>1. PICK t : k = <<t>> /\ getPrec(t) <= Least(op)
    BY <1>3 DEF Stopped
  <2>2. getPrec(t) > 0 => LeftLevel(t) <= Level[op]
    BY <1>3, <2>1, TightEnough
  <2> QED
    BY <1>1, <2>1, <2>2 DEF Tight
<1> QED
  BY <1>2, <1>3

\* What each operator asks of its last operand, and how many it has.
LEMMA Arity ==
    ASSUME NEW op \in DOMAIN Level
    PROVE  /\ Len(OperandLevels(op)) \in 1..3
           /\ DOMAIN OperandLevels(op) = 1..Len(OperandLevels(op))
           /\ \A i \in DOMAIN OperandLevels(op) : OperandLevels(op)[i] \in 1..9
           /\ op \notin {"call", "dot"} =>
                  OperandLevels(op)[Len(OperandLevels(op))] = Least(op) + 1
           /\ op \in {"call", "dot"} => Len(OperandLevels(op)) = 1 /\ OperandLevels(op)[1] = 9
           /\ op = "question" => Len(OperandLevels(op)) = 3 /\ OperandLevels(op)[2] = 2
<1>1. CASE op \in {"assign", "question", "neg", "call", "dot"}
  <2>1. /\ op = "assign" => OperandLevels(op) = <<2, 1>> /\ Least(op) = 0
        /\ op = "question" => OperandLevels(op) = <<3, 2, 2>> /\ Least(op) = 1
        /\ op = "neg" => OperandLevels(op) = <<8>> /\ Least(op) = 7
        /\ op \in {"call", "dot"} => OperandLevels(op) = <<9>>
    BY DEF OperandLevels, Least
  <2>2. PICK q, n : q = OperandLevels(op) /\ n = Len(q)
    OBVIOUS
  <2>3. /\ n \in 1..3 /\ DOMAIN q = 1..n /\ \A i \in DOMAIN q : q[i] \in 1..9
        /\ op \notin {"call", "dot"} => q[n] = Least(op) + 1
        /\ op \in {"call", "dot"} => n = 1 /\ q[1] = 9
        /\ op = "question" => n = 3 /\ q[2] = 2
    <3>1. CASE op = "assign"
      <4>1. q = <<2, 1>> /\ n = 2 /\ Least(op) = 0
        BY <2>1, <2>2, <3>1
      <4> QED
        BY <3>1, <4>1
    <3>2. CASE op = "question"
      <4>1. q = <<3, 2, 2>> /\ n = 3 /\ Least(op) = 1
        BY <2>1, <2>2, <3>2
      <4> QED
        BY <3>2, <4>1
    <3>3. CASE op = "neg"
      <4>1. q = <<8>> /\ n = 1 /\ Least(op) = 7
        BY <2>1, <2>2, <3>3
      <4> QED
        BY <3>3, <4>1
    <3>4. CASE op \in {"call", "dot"}
      <4>1. q = <<9>> /\ n = 1
        BY <2>1, <2>2, <3>4
      <4> QED
        BY <3>4, <4>1
    <3> QED
      BY <1>1, <3>1, <3>2, <3>3, <3>4
  <2> QED
    BY <2>2, <2>3
<1>2. CASE op \notin {"assign", "question", "neg", "call", "dot"}
  <2>1. OperandLevels(op) = <<Level[op], Level[op] + 1>> /\ Least(op) = Level[op]
    BY <1>2 DEF OperandLevels, Least
  <2>2. Level[op] \in 1..8
    BY <1>2, OperatorNames DEF Level
  <2> QED
    BY <1>2, <2>1, <2>2
<1> QED
  BY <1>1, <1>2

-----------------------------------------------------------------------------
(* The activations of an operator.                                         *)

LEMMA TernarySteps ==
    /\ ParseTernary = <<Need("question"), Expr(1), Child, Need("colon"), Expr(1), Child, MakeExpr("question")>>
    /\ Tail(ParseTernary) = <<Expr(1), Child, Need("colon"), Expr(1), Child, MakeExpr("question")>>
    /\ Tail(Tail(ParseTernary)) = <<Child, Need("colon"), Expr(1), Child, MakeExpr("question")>>
    /\ Tail(Tail(Tail(ParseTernary))) = <<Need("colon"), Expr(1), Child, MakeExpr("question")>>
    /\ Tail(Tail(Tail(Tail(ParseTernary)))) = <<Expr(1), Child, MakeExpr("question")>>
<1>1. getPrec("question") - 1 = 1
  BY PrecValues
<1>2. ParseTernary = <<Need("question"), Expr(1), Child, Need("colon"), Expr(1), Child, MakeExpr("question")>>
  BY <1>1 DEF ParseTernary
<1> QED
  BY <1>2

LEMMA AccessSteps ==
    /\ ParseMemberAccess = <<Need("dot"), Need("ident"), Do("methodArgs"), MakeExpr("dot")>>
    /\ Tail(ParseMemberAccess) = <<Need("ident"), Do("methodArgs"), MakeExpr("dot")>>
    /\ Tail(Tail(ParseMemberAccess)) = <<Do("methodArgs"), MakeExpr("dot")>>
    /\ Tail(Tail(Tail(ParseMemberAccess))) = <<MakeExpr("dot")>>
  BY DEF ParseMemberAccess

LEMMA ParensSteps ==
    /\ ParseParens = <<Expr(0), Skip("rparen"), Do("parens")>>
    /\ Tail(ParseParens) = <<Skip("rparen"), Do("parens")>>
    /\ Tail(Tail(ParseParens)) = <<Do("parens")>>
  BY DEF ParseParens

\* The step that an operator takes next, and what it leaves.
LEMMA CombiningSteps ==
    ASSUME NEW a \in Frames, NEW op \in DOMAIN Level, Combining(a, op)
    PROVE  /\ Last(a.todo) = MakeExpr(op)
           /\ \/ a.todo[1][1] = "makeExpr" /\ Making(a, op)
              \/ /\ a.todo[1][1] = "expr" /\ a.todo[1][2] = Least(op) /\ Least(op) <= 7
                 /\ Tail(a.todo)[1][1] = "child" /\ Last(Tail(a.todo)) = MakeExpr(op)
              \/ /\ a.todo[1][1] = "child" /\ op \notin {"call", "dot"}
                 /\ \/ LastOperand(a, op) /\ Tail(a.todo) = <<MakeExpr(op)>>
                    \/ /\ op = "question" /\ Len(a.kids) = 1
                       /\ Tail(a.todo) = Tail(Tail(Tail(ParseTernary)))
              \/ /\ a.todo[1][1] = "need" 
                 /\ Tail(a.todo)[1][1] \in {"need", "expr", "methodArgs"}
              \/ /\ a.todo[1][1] = "call" /\ op \in {"call", "dot"}
                 /\ Tail(a.todo) = <<MakeExpr(op)>>
              \/ a.todo[1][1] = "methodArgs" /\ op = "dot" /\ Len(a.kids) = 1
                 /\ Tail(a.todo) = <<MakeExpr(op)>>
<1> USE DEF Need, Call, Expr, Child, MakeExpr, Do
<1>1. CASE Making(a, op)
  BY <1>1 DEF Making, Last
<1>2. CASE LastOperand(a, op)
  <2>1. Least(op) <= 7
    BY <1>2, LeastTypes DEF LastOperand
  <2>2. CASE a.todo = <<Expr(Least(op)), Child, MakeExpr(op)>>
    BY <2>1, <2>2 DEF Last
  <2>3. CASE a.todo = <<Child, MakeExpr(op)>>
    BY <1>2, <2>3 DEF Last, LastOperand
  <2> QED
    BY <1>2, <2>2, <2>3 DEF LastOperand
<1>3. CASE Following(a, op)
  <2>1. CASE op \in {"call", "dot"} /\ a.todo = <<Call("parseCallArgs"), MakeExpr(op)>>
    BY <2>1 DEF Last
  <2>2. CASE op = "dot" /\ (a.todo = ParseMemberAccess \/ a.todo = Tail(ParseMemberAccess))
    <3>1. CASE a.todo = <<Need("dot"), Need("ident"), Do("methodArgs"), MakeExpr("dot")>>
      BY <2>2, <3>1 DEF Last
    <3>2. CASE a.todo = <<Need("ident"), Do("methodArgs"), MakeExpr("dot")>>
      BY <2>2, <3>2 DEF Last
    <3> QED
      BY <2>2, <3>1, <3>2, AccessSteps
  <2>3. CASE op = "dot" /\ a.todo = Tail(Tail(ParseMemberAccess))
    BY <1>3, <2>3, AccessSteps DEF Last, Following
  <2> QED
    BY <1>3, <2>1, <2>2, <2>3 DEF Following
<1>4. CASE op = "question" /\ Selecting(a)
  <2>0. Least(op) = 1
    BY <1>4 DEF Least
  <2>1. CASE a.todo = ParseTernary \/ a.todo = Tail(Tail(Tail(ParseTernary)))
    <3>1. CASE a.todo = <<Need("question"), Expr(1), Child, Need("colon"), Expr(1), Child, MakeExpr("question")>>
      BY <1>4, <3>1 DEF Last
    <3>2. CASE a.todo = <<Need("colon"), Expr(1), Child, MakeExpr("question")>>
      BY <1>4, <3>2 DEF Last
    <3> QED
      BY <2>1, <3>1, <3>2, TernarySteps
  <2>2. CASE a.todo = Tail(ParseTernary)
    BY <1>4, <2>0, <2>2, TernarySteps DEF Last
  <2>3. CASE Len(a.kids) = 1 /\ a.todo = Tail(Tail(ParseTernary))
    BY <1>4, <2>3, TernarySteps DEF Last
  <2> QED
    BY <1>4, <2>1, <2>2, <2>3 DEF Selecting
<1> QED
  BY <1>1, <1>2, <1>3, <1>4 DEF Combining

\* The same operator, one step later.
LEMMA CombiningTail ==
    ASSUME NEW a \in Frames, NEW op \in DOMAIN Level, Combining(a, op),
           a.todo[1][1] \in {"need", "expr", "call", "methodArgs"},
           NEW b, b.kids = a.kids, b.todo = Tail(a.todo)
    PROVE  Combining(b, op)
<1> USE DEF Need, Call, Expr, Child, MakeExpr, Do
<1>0. Fitting(b.kids, op)
  BY DEF Combining
<1>1. CASE Making(a, op)
  BY <1>1 DEF Making
<1>2. CASE LastOperand(a, op)
  <2>1. a.todo = <<Expr(Least(op)), Child, MakeExpr(op)>>
    BY <1>2 DEF LastOperand
  <2>2. b.todo = <<Child, MakeExpr(op)>>
    BY <2>1
  <2> QED
    BY <1>0, <1>2, <2>2 DEF LastOperand, Combining
<1>3. CASE Following(a, op)
  <2>1. op \in {"call", "dot"} /\ Len(OperandLevels(op)) = 1
    BY <1>3, Arity DEF Following
  <2>2. CASE b.todo = <<MakeExpr(op)>>
    BY <1>0, <1>3, <2>1, <2>2 DEF Following, Making, Combining
  <2>3. CASE op = "dot" /\ (b.todo = Tail(ParseMemberAccess) \/ b.todo = Tail(Tail(ParseMemberAccess)))
    BY <1>0, <1>3, <2>3 DEF Following, Combining
  <2>4. \/ b.todo = <<MakeExpr(op)>>
        \/ op = "dot" /\ (b.todo = Tail(ParseMemberAccess) \/ b.todo = Tail(Tail(ParseMemberAccess)))
    <3>1. CASE a.todo = <<Call("parseCallArgs"), MakeExpr(op)>>
      BY <3>1
    <3>2. CASE op = "dot" /\ (a.todo = ParseMemberAccess \/ a.todo = Tail(ParseMemberAccess))
      BY <3>2
    <3>3. CASE op = "dot" /\ a.todo = Tail(Tail(ParseMemberAccess))
      BY <3>3, AccessSteps
    <3> QED
      BY <1>3, <3>1, <3>2, <3>3 DEF Following
  <2> QED
    BY <2>2, <2>3, <2>4
<1>4. CASE op = "question" /\ Selecting(a)
  <2>1. CASE Len(a.kids) = 1 /\ (a.todo = ParseTernary \/ a.todo = Tail(ParseTernary))
    BY <1>0, <1>4, <2>1 DEF Selecting, Combining
  <2>2. CASE a.todo = Tail(Tail(ParseTernary))
    BY <2>2, TernarySteps
  <2>3. CASE Len(a.kids) = 2 /\ a.todo = Tail(Tail(Tail(ParseTernary)))
    <3>1. b.todo = <<Expr(1), Child, MakeExpr(op)>> /\ Least(op) = 1
      BY <1>4, <2>3, TernarySteps DEF Least
    <3>2. Len(OperandLevels(op)) = 3
      BY <1>4, Arity
    <3>3. LastOperand(b, op)
      <4>1. Len(b.kids) + 1 = Len(OperandLevels(op))
        BY <2>3, <3>2
      <4>2. op \notin {"call", "dot"}
        BY <1>4
      <4> QED
        BY <3>1, <4>1, <4>2 DEF LastOperand
    <3> QED
      BY <1>0, <3>3 DEF Combining
  <2> QED
    BY <1>4, <2>1, <2>2, <2>3 DEF Selecting
<1> QED
  BY <1>1, <1>2, <1>3, <1>4 DEF Combining

\* One operand more.
LEMMA FittingAppend ==
    ASSUME NEW kids \in Seq(Results), NEW op \in DOMAIN Level, Fitting(kids, op),
           NEW r \in Results, r.sound, NEW n, n = Len(kids) + 1, n <= Len(OperandLevels(op)),
           r.level >= OperandLevels(op)[n]
    PROVE  Fitting(Append(kids, r), op) /\ Len(Append(kids, r)) = n
<1>1. PICK q : q = Append(kids, r)
  OBVIOUS
<1>2. /\ n - 1 \in Nat /\ DOMAIN kids = 1..n - 1 /\ Len(q) = n /\ DOMAIN q = 1..n /\ q[n] = r
      /\ \A i \in 1..n - 1 : q[i] = kids[i]
  <2>1. /\ Len(kids) \in Nat /\ DOMAIN kids = 1..Len(kids) /\ q \in Seq(Results)
        /\ Len(q) = Len(kids) + 1 /\ q[Len(kids) + 1] = r
        /\ \A i \in 1..Len(kids) : q[i] = kids[i]
    BY <1>1, AppendProperties, LenProperties
  <2>2. Len(kids) = n - 1
    BY <2>1
  <2>3. DOMAIN q = 1..Len(q)
    BY <2>1, LenProperties
  <2> QED
    BY <2>1, <2>2, <2>3
<1>3. ASSUME NEW i \in 1..n PROVE q[i].sound /\ q[i].level >= OperandLevels(op)[i]
  <2>1. CASE i = n
    BY <1>2, <2>1
  <2>2. CASE i # n
    <3>1. i \in 1..n - 1
      BY <1>2, <2>2
    <3> QED
      BY <1>2, <3>1 DEF Fitting
  <2> QED
    BY <2>1, <2>2
<1> QED
  BY <1>1, <1>2, <1>3 DEF Fitting

LEMMA CombiningChild ==
    ASSUME NEW a \in Frames, NEW op \in DOMAIN Level, Combining(a, op), a.todo[1][1] = "child",
           NEW r \in Results, r.sound, r.level > Least(op),
           NEW b, b.kids = Append(a.kids, r), b.todo = Tail(a.todo)
    PROVE  Combining(b, op)
<1>1. a.kids \in Seq(Results) /\ Fitting(a.kids, op) /\ Len(a.kids) \in Nat
  BY LenProperties DEF Frames, Combining
<1>2. /\ r.level \in Nat /\ Least(op) \in 0..9
      /\ \A i \in DOMAIN OperandLevels(op) : OperandLevels(op)[i] \in 1..9
  BY LeastTypes, Arity DEF Results
<1>3. r.level >= Least(op) + 1
  BY <1>2
<1>4. \/ LastOperand(a, op) /\ Tail(a.todo) = <<MakeExpr(op)>>
      \/ op = "question" /\ Len(a.kids) = 1 /\ Tail(a.todo) = Tail(Tail(Tail(ParseTernary)))
  BY CombiningSteps
<1>5. CASE LastOperand(a, op) /\ Tail(a.todo) = <<MakeExpr(op)>>
  <2>1. PICK n : n = Len(a.kids) + 1 /\ n = Len(OperandLevels(op)) /\ op \notin {"call", "dot"}
    BY <1>5 DEF LastOperand
  <2>2. OperandLevels(op)[n] = Least(op) + 1 /\ n \in 1..3
    BY <2>1, Arity
  <2>3. Fitting(b.kids, op) /\ Len(b.kids) = n
    BY <1>1, <1>3, <2>1, <2>2, FittingAppend
  <2> QED
    BY <1>5, <2>1, <2>3 DEF Combining, Making
<1>6. CASE op = "question" /\ Len(a.kids) = 1 /\ Tail(a.todo) = Tail(Tail(Tail(ParseTernary)))
  <2>1. OperandLevels(op)[2] = 2 /\ Len(OperandLevels(op)) = 3 /\ Least(op) = 1
    BY <1>6, Arity DEF Least
  <2>2. PICK n : n = Len(a.kids) + 1 /\ n = 2
    BY <1>6
  <2>3. n <= Len(OperandLevels(op)) /\ r.level >= OperandLevels(op)[n]
    BY <1>3, <2>1, <2>2
  <2>4. Fitting(b.kids, op) /\ Len(b.kids) = n
    BY <1>1, <2>2, <2>3, FittingAppend
  <2> QED
    BY <1>6, <2>2, <2>4 DEF Combining, Selecting
<1> QED
  BY <1>4, <1>5, <1>6

LEMMA TwoSteps == ASSUME NEW x, NEW y PROVE <<x>> \o <<y>> = <<x, y>>
<1>1. PICK S, s, t, u : S = {x, y} /\ s = <<x>> /\ t = <<y>> /\ u = <<x, y>>
  OBVIOUS
<1>2. s \in Seq(S) /\ t \in Seq(S) /\ u \in Seq(S) /\ Len(s) = 1 /\ Len(t) = 1 /\ Len(u) = 2
  BY <1>1
<1>3. PICK v : v = s \o t
  OBVIOUS
<1>4. v \in Seq(S) /\ Len(v) = 2 /\ v[1] = s[1] /\ v[2] = t[1]
  BY <1>2, <1>3, ConcatProperties
<1>5. \A i \in 1..2 : v[i] = u[i]
  BY <1>1, <1>4
<1>6. v = u
  BY <1>2, <1>4, <1>5, SeqEqual
<1> QED
  BY <1>1, <1>3, <1>6

LEMMA CombiningArgs ==
    ASSUME NEW a \in Frames, NEW op \in DOMAIN Level, Combining(a, op), a.todo[1][1] = "methodArgs",
           NEW b, b.kids = a.kids, b.todo = <<Call("parseCallArgs")>> \o Tail(a.todo)
    PROVE  Combining(b, op) /\ b.todo[1][1] = "call" /\ Last(b.todo) = Last(a.todo)
<1>1. op = "dot" /\ Len(a.kids) = 1 /\ Tail(a.todo) = <<MakeExpr(op)>>
  BY CombiningSteps
<1>2. Last(a.todo) = MakeExpr(op) /\ Fitting(b.kids, op)
  BY CombiningSteps DEF Combining
<1>3. PICK s, m : s = <<Call("parseCallArgs")>> /\ m = MakeExpr(op)
  OBVIOUS
<1>4. b.todo = <<Call("parseCallArgs"), MakeExpr(op)>>
  <2>1. Tail(a.todo) = <<m>>
    BY <1>1, <1>3
  <2>2. <<Call("parseCallArgs")>> \o <<m>> = <<Call("parseCallArgs"), m>>
    BY TwoSteps
  <2> QED
    BY <1>3, <2>1, <2>2, Zenon
<1>5. Following(b, op)
  BY <1>1, <1>4 DEF Following
<1>6. b.todo[1][1] = "call" /\ Last(b.todo) = MakeExpr(op)
  BY <1>4 DEF Call, Last
<1> QED
  BY <1>2, <1>5, <1>6 DEF Combining

\* A new operator.
LEMMA FirstOperand ==
    ASSUME NEW r \in Results, r.sound, NEW op \in DOMAIN Level, r.level >= OperandLevels(op)[1]
    PROVE  Fitting(<<r>>, op)
<1>1. Len(OperandLevels(op)) \in 1..3
  BY Arity
<1>2. Len(<<r>>) = 1 /\ DOMAIN <<r>> = 1..1 /\ <<r>>[1] = r
  OBVIOUS
<1> QED
  BY <1>1, <1>2 DEF Fitting

LEMMA TernaryStarts ==
    ASSUME NEW a, a.todo = ParseTernary, a.kids = <<a.kids[1]>>, Fitting(a.kids, "question")
    PROVE  Combining(a, "question")
<1>1. Len(a.kids) = 1
  OBVIOUS
<1> QED
  BY <1>1 DEF Combining, Selecting

LEMMA CallStarts ==
    ASSUME NEW a, a.todo = ParseCall, a.kids = <<a.kids[1]>>, Fitting(a.kids, "call")
    PROVE  Combining(a, "call")
<1>1. Len(a.kids) = 1
  OBVIOUS
<1> QED
  BY <1>1 DEF Combining, Following, ParseCall

LEMMA AccessStarts ==
    ASSUME NEW a, a.todo = ParseMemberAccess, a.kids = <<a.kids[1]>>, Fitting(a.kids, "dot")
    PROVE  Combining(a, "dot")
<1>1. Len(a.kids) = 1
  OBVIOUS
<1> QED
  BY <1>1 DEF Combining, Following

LEMMA BinaryStarts ==
    ASSUME NEW a, NEW t, getPrec(t) > 0, t \notin {"question", "lparen", "dot"},
           a.todo = ParseBinaryExpr(t), a.kids = <<a.kids[1]>>, Fitting(a.kids, t)
    PROVE  Combining(a, t)
<1>1. t \in {"star", "plus", "minus", "less", "equal", "and", "assign"}
  BY DEF getPrec
<1>2. Least(t) = IF t = "assign" THEN getPrec(t) - 1 ELSE getPrec(t)
  BY <1>1, OperatorNames DEF Least, Level, getPrec
<1>3. a.todo = <<Expr(Least(t)), Child, MakeExpr(t)>>
  BY <1>2 DEF ParseBinaryExpr
<1>4. Len(OperandLevels(t)) = 2 /\ Len(a.kids) = 1
  BY <1>1 DEF OperandLevels
<1> QED
  BY <1>1, <1>3, <1>4 DEF Combining, LastOperand

LEMMA UnaryStarts ==
    ASSUME NEW a, a.todo = ParseUnaryExpr, a.kids = <<>>
    PROVE  Combining(a, "neg")
<1>1. a.todo = <<Expr(Least("neg")), Child, MakeExpr("neg")>>
  BY PrecValues DEF Least, ParseUnaryExpr
<1>2. Len(a.kids) = 0 /\ DOMAIN a.kids = {} /\ Len(OperandLevels("neg")) = 1
  BY DEF OperandLevels
<1> QED
  BY <1>1, <1>2 DEF Combining, LastOperand, Fitting

\* The programs of all other methods.
LEMMA PlainBodies == \A fn \in Methods : Plain(Body[fn])
<1> USE DEF Plain, Need, Want, Skip, Typo, Late, Call, Expr, NonNull, Make, Pass, Do
<1>1. /\ Plain(ParseFunction) /\ Plain(ParseFuncData) /\ Plain(ParseParams) /\ Plain(ParseParam)
      /\ Plain(ParseVariable) /\ Plain(ParseVarData) /\ Plain(ParseClass)
  BY DEF ParseFunction, ParseFuncData, ParseParams, ParseParam, ParseVariable, ParseVarData, ParseClass
<1>2. /\ Plain(ParseField) /\ Plain(ParseCtor) /\ Plain(ParseMethod) /\ Plain(ParseBlock)
      /\ Plain(ParseIf) /\ Plain(ParseReturn)
  BY DEF ParseField, ParseCtor, ParseMethod, ParseBlock, ParseIf, ParseReturn
<1>3. /\ Plain(ParseExprStmt) /\ Plain(ParseCallArgs) /\ Plain(ParseCallArg)
      /\ Plain(<<Do("access"), Do("decl")>>) /\ Plain(<<Do("statement")>>)
  BY DEF ParseExprStmt, ParseCallArgs, ParseCallArg
<1> HIDE DEF Plain
<1> QED
  BY <1>1, <1>2, <1>3, MethodNames DEF Body

LEMMA PlainAdded ==
    /\ Plain(<<>>) /\ Plain(<<Do("decls")>>) /\ Plain(<<Call("parseDecl"), Do("decls")>>)
    /\ Plain(ExternalRest) /\ Plain(<<Call("parseBlock"), NonNull, Make>>)
    /\ \A fn : Plain(<<Call(fn), <<"more", fn>>>>) /\ Plain(<<Call(fn)>>)
    /\ Plain(<<Do("type"), <<"varInit", TRUE>>>>) /\ Plain(<<<<"varInit", FALSE>>>>)
    /\ \A a, b : /\ Plain(<<Expr(0), Want("semicolon"), <<"varData", a, b>>>>)
                 /\ Plain(<<Want("semicolon"), <<"varData", a, b>>>>)
    /\ Plain(<<Do("access"), Do("member")>>) /\ Plain(<<Do("members")>>)
    /\ Plain(<<Call("parseField"), Do("addField"), Do("members")>>)
    /\ Plain(<<Call("parseCtor"), Do("members")>>) /\ Plain(<<Call("parseMethod"), Do("members")>>)
    /\ Plain(<<Call("parseStatement"), Do("statements")>>)
    /\ Plain(<<Expr(0), Need("semicolon")>>)
  BY DEF Plain, Need, Want, Call, Expr, NonNull, Make, Do, ExternalRest

LEMMA PlainTail ==
    ASSUME NEW todo \in Seq(Steps), todo # <<>>, Plain(todo) PROVE Plain(Tail(todo))
<1>1. PICK n, q : n = Len(todo) /\ q = Tail(todo)
  OBVIOUS
<1>2. n \in Nat \ {0} /\ DOMAIN todo = 1..n
  BY <1>1, EmptySeq, LenProperties
<1>3. q \in Seq(Steps) /\ Len(q) = n - 1 /\ \A i \in 1..n - 1 : q[i] = todo[i + 1]
  BY <1>1, HeadTailProperties
<1>4. DOMAIN q = 1..n - 1
  BY <1>3, LenProperties
<1>5. \A i \in DOMAIN q : i + 1 \in DOMAIN todo /\ q[i] = todo[i + 1]
  BY <1>2, <1>3, <1>4
<1> QED
  BY <1>1, <1>5 DEF Plain

LEMMA PlainSpliced ==
    ASSUME NEW todo \in Seq(Steps), todo # <<>>, Plain(todo), NEW steps \in Seq(Steps), Plain(steps),
           NEW q, q = steps \o Tail(todo)
    PROVE  Plain(q)
<1>1. PICK n, k : n = Len(todo) /\ k = Len(steps)
  OBVIOUS
<1>2. /\ n \in Nat \ {0} /\ k \in Nat /\ DOMAIN q = 1..k + n - 1
      /\ DOMAIN todo = 1..n /\ DOMAIN steps = 1..k
  BY <1>1, Spliced
<1>3. /\ \A i \in 1..k : q[i] = steps[i]
      /\ \A i \in k + 1..k + n - 1 : i - k + 1 \in 2..n /\ q[i] = todo[i - k + 1]
  BY <1>1, Spliced
<1>4. ASSUME NEW i \in DOMAIN q
      PROVE  \/ i \in DOMAIN steps /\ q[i] = steps[i]
             \/ \E j \in DOMAIN todo : q[i] = todo[j]
  <2>1. i \in 1..k \/ i \in k + 1..k + n - 1
    BY <1>2
  <2>2. CASE i \in 1..k
    BY <1>2, <1>3, <2>2
  <2>3. CASE i \in k + 1..k + n - 1
    <3>1. PICK j : j = i - k + 1 /\ j \in 2..n /\ q[i] = todo[j]
      BY <1>3, <2>3
    <3>2. j \in 1..n
      BY <1>2, <3>1
    <3> QED
      BY <1>2, <3>1, <3>2
  <2> QED
    BY <2>1, <2>2, <2>3
<1> QED
  BY <1>4 DEF Plain

-----------------------------------------------------------------------------
(* What the moves of the recursion do to expressions.                      *)

LEMMA ClimbParts ==
    ASSUME TypeInv, StackInv, ClimbInv, ctl # <<>>
    PROVE  /\ Climbed(Front(ctl)) /\ Sorted(Top) /\ Ready(Top.todo, res, cache) /\ res.sound
           /\ Front(ctl) # <<>> => Over(Last(Front(ctl)), Top)
<1>1. ctl = Append(Front(ctl), Top) /\ Front(ctl) \in Seq(Frames) /\ Top \in Frames
  BY TopParts DEF StackInv
<1>2. Climbed(ctl) /\ Ready(Top.todo, res, cache) /\ res.sound
  BY DEF ClimbInv
<1> QED
  BY <1>1, <1>2, ClimbedAppend

LEMMA PlainLast ==
    ASSUME NEW todo \in Seq(Steps), todo # <<>>, Plain(todo)
    PROVE  Last(todo)[1] \notin {"unary", "operators", "child", "makeExpr", "methodArgs", "parens"}
<1>1. Len(todo) \in DOMAIN todo
  BY EmptySeq, LenProperties
<1> QED
  BY <1>1 DEF Plain, Last

\* Nobody waits for an operand, or to go on with one, over a plain activation.
LEMMA PlainUnder ==
    ASSUME NEW p, NEW b, b.todo \in Seq(Steps), b.todo # <<>>, Plain(b.todo), Over(p, b)
    PROVE  p.todo[1][1] \notin {"child", "operators"}
<1>1. PICK l : l = Last(b.todo) /\ l[1] \notin {"operators", "makeExpr", "parens"}
  BY PlainLast
<1>2. \A m : l # <<"operators", m>>
  BY <1>1
<1>3. l # Do("parens") /\ \A op : l # MakeExpr(op)
  BY <1>1 DEF Do, MakeExpr
<1> QED
  BY <1>1, <1>2, <1>3 DEF Over

LEMMA OverKept ==
    ASSUME NEW p, NEW a, a.todo \in Seq(Steps), a.todo # <<>>, Over(p, a),
           NEW b, Plain(a.todo) \/ Last(b.todo) = Last(a.todo)
    PROVE  Over(p, b)
<1>1. CASE Plain(a.todo)
  BY <1>1, PlainUnder DEF Over
<1>2. CASE Last(b.todo) = Last(a.todo)
  BY <1>2 DEF Over
<1> QED
  BY <1>1, <1>2

LEMMA Calm ==
    \A todo, r, k : todo[1][1] \notin {"child", "makeExpr", "operators"} => Ready(todo, r, k)
  BY DEF Ready

LEMMA ClimbsTo ==
    ASSUME NEW c \in Seq(Frames), NEW b \in Frames, Climbed(c), Sorted(b),
           c # <<>> => Over(Last(c), b),
           ctl' = Append(c, b), Ready(b.todo, res', cache'), res'.sound
    PROVE  ClimbInv'
<1>1. Climbed(ctl')
  BY ClimbedAppend
<1>2. Last(ctl') = b
  BY LastOfAppend
<1> QED
  BY <1>1, <1>2 DEF ClimbInv, Top

LEMMA ClimbReplaces ==
    ASSUME TypeInv, StackInv, ClimbInv, ctl # <<>>, NEW a \in Frames, Sorted(a),
           Plain(Top.todo) \/ Last(a.todo) = Last(Top.todo),
           ctl' = Append(Front(ctl), a), Ready(a.todo, res', cache'), res'.sound
    PROVE  ClimbInv'
<1>1. /\ Front(ctl) \in Seq(Frames) /\ Top.todo \in Seq(Steps) /\ Top.todo # <<>>
      /\ Climbed(Front(ctl)) /\ (Front(ctl) # <<>> => Over(Last(Front(ctl)), Top))
  BY ClimbParts, TopParts DEF StackInv
<1>2. Front(ctl) # <<>> => Over(Last(Front(ctl)), a)
  BY <1>1, OverKept
<1> QED
  BY <1>1, <1>2, ClimbsTo

LEMMA ClimbCalls ==
    ASSUME TypeInv, StackInv, ClimbInv, ctl # <<>>, NEW a \in Frames, Sorted(a),
           Plain(Top.todo) \/ Last(a.todo) = Last(Top.todo),
           NEW b \in Frames, Sorted(b), Over(a, b), ctl' = Append(Append(Front(ctl), a), b),
           Ready(b.todo, res', cache'), res'.sound
    PROVE  ClimbInv'
<1>1. /\ Front(ctl) \in Seq(Frames) /\ Top.todo \in Seq(Steps) /\ Top.todo # <<>>
      /\ Climbed(Front(ctl)) /\ (Front(ctl) # <<>> => Over(Last(Front(ctl)), Top))
  BY ClimbParts, TopParts DEF StackInv
<1>2. Front(ctl) # <<>> => Over(Last(Front(ctl)), a)
  BY <1>1, OverKept
<1>3. PICK c : c = Append(Front(ctl), a)
  OBVIOUS
<1>4. c \in Seq(Frames) /\ Last(c) = a /\ Climbed(c)
  BY <1>1, <1>2, <1>3, LastOfAppend, ClimbedAppend
<1> QED
  BY <1>3, <1>4, ClimbsTo

LEMMA ClimbOperates ==
    ASSUME TypeInv, StackInv, ClimbInv, ctl # <<>>, NEW b \in Frames, Sorted(b), Over(Top, b),
           ctl' = Append(ctl, b), Ready(b.todo, res', cache'), res'.sound
    PROVE  ClimbInv'
  BY ClimbsTo DEF TypeInv, ClimbInv, Top

LEMMA LastFramed ==
    ASSUME NEW c \in Seq(Frames), c # <<>>, Stacked(c)
    PROVE  Last(c) \in Frames /\ Framed(Last(c))
<1>1. Len(c) \in DOMAIN c /\ DOMAIN c = 1..Len(c)
  BY EmptySeq, LenProperties
<1> QED
  BY <1>1, ElementOfSeq DEF Last, Stacked

LEMMA ClimbReturns ==
    ASSUME TypeInv, StackInv, ClimbInv, ctl # <<>>, NEW v, Return(v), v.sound,
           \A p \in Frames : Framed(p) /\ Over(p, Top) => Ready(p.todo, v, cache')
    PROVE  ClimbInv'
<1>1. ctl' = Front(ctl) /\ res' = v
  BY DEF Return
<1>2. Climbed(Front(ctl)) /\ (Front(ctl) # <<>> => Over(Last(Front(ctl)), Top))
  BY ClimbParts
<1>3. Front(ctl) \in Seq(Frames) /\ Stacked(Front(ctl))
  BY TopParts DEF StackInv
<1>4. Front(ctl) # <<>> => Last(Front(ctl)) \in Frames /\ Framed(Last(Front(ctl)))
  BY <1>3, LastFramed
<1> QED
  BY <1>1, <1>2, <1>4 DEF ClimbInv, Top

\* Null is an answer for everyone; who called a plain method takes any answer.
LEMMA ClimbReturnsNull ==
    ASSUME TypeInv, StackInv, ClimbInv, ctl # <<>>, Return(Null)
    PROVE  ClimbInv'
<1>1. Null.sound
  BY DEF Null, Result
<1>2. \A p : Over(p, Top) => Ready(p.todo, Null, cache')
  BY DEF Over, Ready
<1> QED
  BY <1>1, <1>2, ClimbReturns

LEMMA PlainReturns ==
    ASSUME TypeInv, StackInv, ClimbInv, ctl # <<>>, Plain(Top.todo), NEW v, Return(v), v.sound
    PROVE  ClimbInv'
<1>1. Top.todo \in Seq(Steps) /\ Top.todo # <<>>
  BY TopParts DEF StackInv
<1>2. ASSUME NEW p, Over(p, Top) PROVE Ready(p.todo, v, cache')
  <2>1. p.todo[1][1] \notin {"child", "operators"}
    BY <1>1, <1>2, PlainUnder
  <2> QED
    BY <1>2, <2>1 DEF Over, Ready
<1> QED
  BY <1>2, ClimbReturns

-----------------------------------------------------------------------------
(* The actions of all methods but those of expressions.                    *)

\* The steps that belong to one kind of activation.
LEMMA PlainHead ==
    ASSUME NEW todo \in Seq(Steps), todo # <<>>, Plain(todo)
    PROVE  /\ todo[1][1] \notin {"unary", "operators", "child", "makeExpr", "methodArgs", "parens"}
           /\ todo[1][1] = "expr" => todo[1][2] = 0
<1>1. 1 \in DOMAIN todo
  BY EmptySeq, LenProperties
<1> QED
  BY <1>1 DEF Plain

LEMMA ClimbingHead ==
    ASSUME NEW a, Climbing(a)
    PROVE  /\ a.todo[1][1] \in {"unary", "operators"}
           /\ a.todo[1][1] = "operators" =>
                 \E m \in 0..7 : a.todo = <<<<"operators", m>>>> /\ a.todo[1] = <<"operators", m>>
           /\ a.todo[1][1] = "unary" =>
                 \E m \in 0..7 : /\ a.todo = <<Do("unary"), <<"operators", m>>>>
                                 /\ Tail(a.todo) = <<<<"operators", m>>>>
<1>1. PICK m \in 0..7 : \/ a.todo = <<Do("unary"), <<"operators", m>>>>
                         \/ a.todo = <<<<"operators", m>>>>
  BY DEF Climbing
<1>2. CASE a.todo = <<Do("unary"), <<"operators", m>>>>
  <2>1. a.todo[1][1] = "unary" /\ Tail(a.todo) = <<<<"operators", m>>>>
    BY <1>2 DEF Do
  <2> QED
    BY <1>2, <2>1
<1>3. CASE a.todo = <<<<"operators", m>>>>
  <2>1. a.todo[1][1] = "operators" /\ a.todo[1] = <<"operators", m>>
    BY <1>3
  <2> QED
    BY <1>3, <2>1
<1> QED
  BY <1>1, <1>2, <1>3

LEMMA EnclosingHead ==
    ASSUME NEW a, Enclosing(a)
    PROVE  /\ Last(a.todo) = Do("parens")
           /\ \/ a.todo[1] = Expr(0) /\ Tail(a.todo) = Tail(ParseParens)
              \/ a.todo[1] = Skip("rparen") /\ Tail(a.todo) = <<Do("parens")>>
              \/ a.todo[1] = Do("parens") /\ a.todo = <<Do("parens")>>
<1>1. CASE a.todo = ParseParens
  BY <1>1, ParensSteps DEF Last
<1>2. CASE a.todo = Tail(ParseParens)
  BY <1>2, ParensSteps DEF Last
<1>3. CASE a.todo = <<Do("parens")>>
  BY <1>3 DEF Last
<1> QED
  BY <1>1, <1>2, <1>3 DEF Enclosing

LEMMA WhoIsAt ==
    ASSUME TypeInv, StackInv, ClimbInv, NEW name, At(name)
    PROVE  /\ ctl # <<>> /\ Top \in Frames /\ Top.todo \in Seq(Steps) /\ Top.todo # <<>>
           /\ Top.todo[1][1] = name /\ Argument = Top.todo[1][2] /\ Sorted(Top)
           /\ Climbing(Top) => name \in {"unary", "operators"}
           /\ Enclosing(Top) => name \in {"expr", "skip", "parens"}
           /\ \A op \in DOMAIN Level : Combining(Top, op) =>
                  name \in {"makeExpr", "expr", "child", "need", "call", "methodArgs"}
           /\ Plain(Top.todo) =>
                  name \notin {"unary", "operators", "child", "makeExpr", "methodArgs", "parens"}
<1>1. ctl # <<>> /\ Top.todo # <<>> /\ Head(Top.todo) = Top.todo[1] /\ Top.todo[1][1] = name
  BY AtTop
<1>2. Top \in Frames /\ Top.todo \in Seq(Steps) /\ Sorted(Top)
  BY <1>1, TopParts, ClimbParts DEF StackInv
<1>3. Argument = Top.todo[1][2]
  BY <1>1 DEF Argument
<1>4. Climbing(Top) => name \in {"unary", "operators"}
  BY <1>1, ClimbingHead
<1>5. Enclosing(Top) => name \in {"expr", "skip", "parens"}
  BY <1>1, EnclosingHead DEF Expr, Skip, Do
<1>6. ASSUME NEW op \in DOMAIN Level, Combining(Top, op)
      PROVE  name \in {"makeExpr", "expr", "child", "need", "call", "methodArgs"}
  BY <1>1, <1>2, <1>6, CombiningSteps
<1>7. Plain(Top.todo) =>
          name \notin {"unary", "operators", "child", "makeExpr", "methodArgs", "parens"}
  BY <1>1, <1>2, PlainHead
<1> QED
  BY <1>1, <1>2, <1>3, <1>4, <1>5, <1>6, <1>7

LEMMA PlainStarts ==
    ASSUME NEW a \in Frames, Framed(a), Plain(a.todo)
    PROVE  Sorted(a) /\ (\A r, k : Ready(a.todo, r, k)) /\ (\A b : Over(a, b))
<1>1. a.todo \in Seq(Steps) /\ a.todo # <<>>
  BY DEF Frames, Framed, Shaped, Ended
<1>2. a.todo[1][1] \notin {"child", "makeExpr", "operators"}
  BY <1>1, PlainHead
<1> QED
  BY <1>2, Calm DEF Sorted, Over

LEMMA PlainReplaces ==
    ASSUME TypeInv, StackInv, ClimbInv, StackInv', ctl # <<>>, Plain(Top.todo),
           NEW a \in Frames, Plain(a.todo), ctl' = Append(Front(ctl), a), res'.sound
    PROVE  ClimbInv'
<1>1. Front(ctl) \in Seq(Frames)
  BY TopParts DEF StackInv
<1>2. Framed(a)
  BY <1>1, StackAppend DEF StackInv
<1>3. Sorted(a) /\ \A r, k : Ready(a.todo, r, k)
  BY <1>2, PlainStarts
<1> QED
  BY <1>3, ClimbReplaces

LEMMA PlainInPlace ==
    ASSUME TypeInv, StackInv, ClimbInv, StackInv', NEW name, At(name), Plain(Top.todo),
           NEW steps \in Seq(Steps), Plain(steps), ctl' = Append(Front(ctl), Before(steps)),
           res'.sound
    PROVE  ClimbInv'
<1>1. ctl # <<>> /\ Top.todo \in Seq(Steps) /\ Top.todo # <<>>
  BY WhoIsAt
<1>2. PICK a : a = Before(steps)
  OBVIOUS
<1>3. a \in Frames /\ a.todo = steps \o Tail(Top.todo)
  BY <1>2, BeforeIs
<1>4. Plain(a.todo)
  BY <1>1, <1>3, PlainSpliced
<1> QED
  BY <1>1, <1>2, <1>3, <1>4, PlainReplaces

\* The moves of a method that is none of an expression's.
PlainMove(name) ==
    /\ At(name)
    /\ \/ \E steps \in Seq(Steps) : Plain(steps) /\ GoOn(steps)
       \/ \E v : v.sound /\ Return(v)
       \/ \E fn \in Methods : Become(fn)
       \/ ctl' = Append(Front(ctl), Before(<<>>)) /\ res'.sound

LEMMA PlainMoves ==
    ASSUME TypeInv, StackInv, ClimbInv, StackInv', NEW name, PlainMove(name), Plain(Top.todo)
    PROVE  ClimbInv'
<1>1. ctl # <<>> /\ At(name) /\ res.sound
  BY WhoIsAt DEF PlainMove, ClimbInv
<1>2. ASSUME NEW steps \in Seq(Steps), Plain(steps), GoOn(steps) PROVE ClimbInv'
  BY <1>1, <1>2, PlainInPlace DEF GoOn
<1>3. ASSUME NEW v, v.sound, Return(v) PROVE ClimbInv'
  BY <1>1, <1>3, PlainReturns
<1>4. ASSUME NEW fn \in Methods, Become(fn) PROVE ClimbInv'
  <2>1. PICK b : b = Activation(fn, Body[fn], <<>>)
    OBVIOUS
  <2>2. b \in Frames /\ b.todo = Body[fn]
    BY <2>1, ActivationType, BodyTypes, NoSteps DEF Activation
  <2>3. Plain(b.todo) /\ ctl' = Append(Front(ctl), b) /\ res'.sound
    BY <1>1, <1>4, <2>1, <2>2, PlainBodies DEF Become
  <2> QED
    BY <1>1, <2>2, <2>3, PlainReplaces
<1>5. ASSUME ctl' = Append(Front(ctl), Before(<<>>)), res'.sound PROVE ClimbInv'
  BY <1>1, <1>5, NoSteps, PlainAdded, PlainInPlace
<1> QED
  BY <1>2, <1>3, <1>4, <1>5 DEF PlainMove

LEMMA OnlyPlain ==
    ASSUME TypeInv, StackInv, ClimbInv, NEW name, At(name),
           name \notin {"unary", "operators", "child", "makeExpr", "methodArgs", "parens",
                        "expr", "skip", "need", "call"}
    PROVE  Plain(Top.todo)
  BY WhoIsAt DEF Sorted

LEMMA ResultSound ==
    /\ Null.sound /\ Node.sound
    /\ \A level, sound : Tree(level, sound).sound = sound /\ Tree(level, sound).level = level
    /\ \A kind, level, type, init : Result(kind, level, TRUE, type, init).sound
  BY DEF Null, Node, Tree, Result

LEMMA ClimbDeclaration ==
    ASSUME TypeInv, StackInv, ClimbInv, StackInv', Declaration PROVE ClimbInv'
<1> SUFFICES \E name : /\ PlainMove(name)
                       /\ name \notin {"unary", "operators", "child", "makeExpr", "methodArgs",
                                       "parens", "expr", "skip", "need", "call"}
  BY OnlyPlain, PlainMoves DEF PlainMove
<1>0. res.sound
  BY DEF ClimbInv
<1>1. CASE Parse
  <2>1. PICK t \in Current :
            /\ At("decls")
            /\ Return(res) \/ GoOn(<<Call("parseDecl"), Do("decls")>>)
    BY <1>1 DEF Parse
  <2>2. PlainMove("decls")
    BY <1>0, <2>1, AddedSteps, PlainAdded DEF PlainMove
  <2> QED
    BY <2>2
<1>2. CASE ParseAccess
  <2>1. At("access") /\ GoOn(<<>>)
    BY <1>2 DEF ParseAccess
  <2>2. PlainMove("access")
    BY <2>1, NoSteps, PlainAdded DEF PlainMove
  <2> QED
    BY <2>2
<1>3. CASE ParseDecl
  <2>1. /\ At("decl")
        /\ (\E fn \in Methods : Become(fn)) \/ Return(Null)
    BY <1>3, MethodNames DEF ParseDecl
  <2>2. PlainMove("decl")
    BY <2>1, ResultSound DEF PlainMove
  <2> QED
    BY <2>2
<1>4. CASE ExternalOrBody
  <2>1. /\ At("externalOrBody")
        /\ GoOn(ExternalRest) \/ GoOn(<<Call("parseBlock"), NonNull, Make>>)
    BY <1>4 DEF ExternalOrBody
  <2>2. PlainMove("externalOrBody")
    BY <2>1, OperatorTypes, AddedSteps, PlainAdded DEF PlainMove
  <2> QED
    BY <2>2
<1>5. CASE List \/ More
  <2>1. PICK name \in {"list", "more"} :
            /\ At(name)
            /\ GoOn(<<>>) \/ GoOn(<<Call(Argument), <<"more", Argument>>>>)
    BY <1>5 DEF List, More
  <2>2. Argument \in Methods
    BY <2>1, ArgumentOf
  <2>3. PlainMove(name)
    BY <2>1, <2>2, NoSteps, AddedSteps, PlainAdded DEF PlainMove
  <2> QED
    BY <2>3
<1>6. CASE ParseType
  <2>1. At("type") /\ ctl' = Append(Front(ctl), Before(<<>>)) /\ res'.sound
    BY <1>6 DEF ParseType, Result
  <2>2. PlainMove("type")
    BY <2>1 DEF PlainMove
  <2> QED
    BY <2>2
<1>7. CASE ParamNode \/ VariableNode \/ FieldNode \/ VarData
  <2>1. PICK name \in {"param", "variable", "field", "varData"} :
            \E v : At(name) /\ v.sound /\ Return(v)
    BY <1>7, ResultSound DEF ParamNode, VariableNode, FieldNode, VarData
  <2>2. PlainMove(name)
    BY <2>1 DEF PlainMove
  <2> QED
    BY <2>2
<1>8. CASE VarType
  <2>1. /\ At("varType")
        /\ GoOn(<<Do("type"), <<"varInit", TRUE>>>>) \/ GoOn(<<<<"varInit", FALSE>>>>)
    BY <1>8 DEF VarType
  <2>2. PlainMove("varType")
    BY <2>1, AddedSteps, PlainAdded DEF PlainMove
  <2> QED
    BY <2>2
<1>9. CASE VarInit
  <2>1. /\ At("varInit")
        /\ \/ GoOn(<<Expr(0), Want("semicolon"), <<"varData", Argument, TRUE>>>>)
           \/ GoOn(<<Want("semicolon"), <<"varData", Argument, FALSE>>>>)
           \/ Return(Null)
    BY <1>9 DEF VarInit
  <2>2. Argument \in BOOLEAN
    BY <2>1, ArgumentOf
  <2>3. PlainMove("varInit")
    BY <2>1, <2>2, AddedSteps, PlainAdded, ResultSound DEF PlainMove
  <2> QED
    BY <2>3
<1>10. CASE ClassType
  <2>1. At("classType") /\ (GoOn(<<>>) \/ Return(Null))
    BY <1>10 DEF ClassType
  <2>2. PlainMove("classType")
    BY <2>1, NoSteps, PlainAdded, ResultSound DEF PlainMove
  <2> QED
    BY <2>2
<1>11. CASE Members
  <2>1. At("members") /\ (GoOn(<<>>) \/ GoOn(<<Do("access"), Do("member")>>))
    BY <1>11 DEF Members
  <2>2. PlainMove("members")
    BY <2>1, NoSteps, AddedMembers, PlainAdded DEF PlainMove
  <2> QED
    BY <2>2
<1>12. CASE Member
  <2>1. /\ At("member")
        /\ \/ GoOn(<<Call("parseField"), Do("addField"), Do("members")>>)
           \/ GoOn(<<Call("parseCtor"), Do("members")>>)
           \/ GoOn(<<Call("parseMethod"), Do("members")>>)
           \/ GoOn(<<Do("members")>>)
    BY <1>12 DEF Member
  <2>2. PlainMove("member")
    BY <2>1, AddedMembers, PlainAdded DEF PlainMove
  <2> QED
    BY <2>2
<1>13. CASE AddField
  <2>1. At("addField") /\ GoOn(<<>>)
    BY <1>13 DEF AddField
  <2>2. PlainMove("addField")
    BY <2>1, NoSteps, PlainAdded DEF PlainMove
  <2> QED
    BY <2>2
<1> QED
  BY <1>1, <1>2, <1>3, <1>4, <1>5, <1>6, <1>7, <1>8, <1>9, <1>10, <1>11, <1>12, <1>13
     DEF Declaration

LEMMA ClimbStatement ==
    ASSUME TypeInv, StackInv, ClimbInv, StackInv', Statement PROVE ClimbInv'
<1> SUFFICES \E name : /\ PlainMove(name)
                       /\ name \notin {"unary", "operators", "child", "makeExpr", "methodArgs",
                                       "parens", "expr", "skip", "need", "call"}
  BY OnlyPlain, PlainMoves DEF PlainMove
<1>1. CASE Statements
  <2>1. At("statements") /\ (GoOn(<<>>) \/ GoOn(<<Call("parseStatement"), Do("statements")>>))
    BY <1>1 DEF Statements
  <2>2. PlainMove("statements")
    BY <2>1, NoSteps, AddedMembers, PlainAdded DEF PlainMove
  <2> QED
    BY <2>2
<1>2. CASE ParseStatement
  <2>1. /\ At("statement")
        /\ (\E fn \in Methods : Become(fn)) \/ Return(Null) \/ Return(Node)
    BY <1>2, MethodNames DEF ParseStatement
  <2>2. PlainMove("statement")
    BY <2>1, ResultSound DEF PlainMove
  <2> QED
    BY <2>2
<1>3. CASE ParseElse
  <2>1. At("else") /\ (GoOn(<<>>) \/ GoOn(<<Call("parseStatement")>>))
    BY <1>3 DEF ParseElse
  <2>2. PlainMove("else")
    BY <2>1, NoSteps, AddedMembers, PlainAdded DEF PlainMove
  <2> QED
    BY <2>2
<1>4. CASE ReturnValue
  <2>1. At("value") /\ (GoOn(<<>>) \/ GoOn(<<Expr(0), Need("semicolon")>>))
    BY <1>4 DEF ReturnValue
  <2>2. PlainMove("value")
    BY <2>1, NoSteps, AddedMembers, PlainAdded DEF PlainMove
  <2> QED
    BY <2>2
<1> QED
  BY <1>1, <1>2, <1>3, <1>4 DEF Statement

-----------------------------------------------------------------------------
(* The actions that an expression's activations take too.                  *)

LEMMA BeforeTail ==
    ASSUME TypeInv, NEW name, At(name)
    PROVE  /\ Before(<<>>) \in Frames /\ Before(<<>>).todo = Tail(Top.todo)
           /\ Before(<<>>).kids = Top.kids
<1>1. Top \in Frames /\ Tail(Top.todo) \in Seq(Steps) /\ Before(<<>>) \in Frames
  BY TopType, BeforeIs, NoSteps DEF At
<1>2. Before(<<>>).todo = <<>> \o Tail(Top.todo)
  BY BeforeIs, NoSteps
<1>3. Before(<<>>).kids = Top.kids
  BY <1>1 DEF Before, Frames
<1> QED
  BY <1>1, <1>2, <1>3, ConcatEmptySeq

\* A step of an operator or of a parenthesis that is done.
LEMMA ClimbSkips ==
    ASSUME TypeInv, StackInv, ClimbInv, StackInv', NEW name, At(name),
           name \notin {"unary", "operators", "child", "makeExpr", "methodArgs", "parens",
                        "expr", "call"},
           GoOn(<<>>)
    PROVE  ClimbInv'
<1>1. /\ ctl # <<>> /\ Top \in Frames /\ Top.todo \in Seq(Steps) /\ Top.todo # <<>>
      /\ Top.todo[1][1] = name /\ Sorted(Top) /\ ~Climbing(Top) /\ res.sound
  BY WhoIsAt DEF ClimbInv
<1>2. PICK a : a = Before(<<>>)
  OBVIOUS
<1>3. a \in Frames /\ a.todo = Tail(Top.todo) /\ a.kids = Top.kids
  BY <1>1, <1>2, BeforeTail
<1>4. ctl' = Append(Front(ctl), a) /\ res'.sound
  BY <1>1, <1>2 DEF GoOn
<1>5. CASE Plain(Top.todo)
  BY <1>4, <1>2, <1>5, NoSteps, PlainAdded, PlainInPlace
<1>6. CASE Enclosing(Top)
  <2>1. Last(Top.todo) = Do("parens") /\ a.todo = <<Do("parens")>>
    BY <1>1, <1>3, <1>6, EnclosingHead DEF Expr, Do
  <2>2. Enclosing(a) /\ Last(a.todo) = Last(Top.todo) /\ a.todo[1][1] = "parens"
    BY <2>1 DEF Enclosing, Do, Last
  <2> QED
    BY <1>1, <1>3, <1>4, <2>2, Calm, ClimbReplaces DEF Sorted
<1>7. ASSUME NEW op \in DOMAIN Level, Combining(Top, op) PROVE ClimbInv'
  <2>1. Last(Top.todo) = MakeExpr(op) /\ Top.todo[1][1] = "need"
    BY <1>1, <1>7, CombiningSteps
  <2>2. a.todo[1][1] \in {"need", "expr", "methodArgs"}
    BY <1>1, <1>3, <1>7, <2>1, CombiningSteps
  <2>3. Combining(a, op)
    BY <1>1, <1>3, <1>7, <2>1, CombiningTail
  <2>4. Last(a.todo) = MakeExpr(op)
    BY <1>3, <2>3, CombiningSteps
  <2> QED
    BY <1>1, <1>3, <1>4, <2>1, <2>2, <2>3, <2>4, Calm, ClimbReplaces DEF Sorted
<1> QED
  BY <1>1, <1>5, <1>6, <1>7 DEF Sorted

LEMMA ClimbExpected ==
    ASSUME TypeInv, StackInv, ClimbInv, StackInv', Expected PROVE ClimbInv'
<1>1. PICK name \in {"need", "want", "skip", "typo", "late"} :
          At(name) /\ (GoOn(<<>>) \/ Return(Null))
  BY DEF Expected, ExpectMet, ExpectFailed
<1>2. ctl # <<>>
  BY <1>1 DEF At
<1> QED
  BY <1>1, <1>2, ClimbSkips, ClimbReturnsNull

LEMMA ClimbCall ==
    ASSUME TypeInv, StackInv, ClimbInv, StackInv', At("call"),
           Activate(Argument, Body[Argument], <<>>)
    PROVE  ClimbInv'
<1>1. /\ ctl # <<>> /\ Top \in Frames /\ Top.todo \in Seq(Steps) /\ Top.todo # <<>>
      /\ Top.todo[1][1] = "call" /\ Sorted(Top) /\ ~Climbing(Top) /\ ~Enclosing(Top) /\ res.sound
  BY WhoIsAt DEF ClimbInv
<1>2. PICK a, b : a = Before(<<>>) /\ b = Activation(Argument, Body[Argument], <<>>)
  OBVIOUS
<1>3. a \in Frames /\ a.todo = Tail(Top.todo) /\ a.kids = Top.kids
  BY <1>1, <1>2, BeforeTail
<1>4. b \in Frames /\ Plain(b.todo)
  <2>1. Argument \in Methods
    BY ArgumentOf
  <2> QED
    BY <1>2, <2>1, ActivationType, BodyTypes, NoSteps, PlainBodies DEF Activation
<1>5. ctl' = Append(Append(Front(ctl), a), b) /\ res'.sound /\ Front(ctl) \in Seq(Frames)
  BY <1>1, <1>2, TopParts DEF Activate, StackInv
<1>6. Framed(a) /\ Framed(b)
  <2>1. Append(Front(ctl), a) \in Seq(Frames) /\ Stacked(ctl')
    BY <1>3, <1>5, AppendProperties DEF StackInv
  <2>2. Stacked(Append(Front(ctl), a)) /\ Framed(b)
    BY <1>4, <1>5, <2>1, StackAppend
  <2> QED
    BY <1>3, <1>5, <2>2, StackAppend
<1>7. Sorted(b) /\ Ready(b.todo, res', cache')
  BY <1>4, <1>6, PlainStarts
<1>8. CASE Plain(Top.todo)
  <2>2. Plain(a.todo)
    BY <1>1, <1>3, <1>8, PlainTail
  <2>3. Sorted(a) /\ Over(a, b)
    BY <1>3, <1>6, <2>2, PlainStarts
  <2> QED
    BY <1>1, <1>3, <1>4, <1>5, <1>7, <1>8, <2>3, ClimbCalls
<1>9. ASSUME NEW op \in DOMAIN Level, Combining(Top, op) PROVE ClimbInv'
  <2>1. Last(Top.todo) = MakeExpr(op) /\ op \in {"call", "dot"} /\ a.todo = <<MakeExpr(op)>>
    BY <1>1, <1>3, <1>9, CombiningSteps
  <2>2. Combining(a, op)
    BY <1>1, <1>3, <1>9, CombiningTail
  <2>3. Last(a.todo) = Last(Top.todo) /\ Over(a, b) /\ Sorted(a)
    BY <2>1, <2>2 DEF Last, Over, MakeExpr, Sorted
  <2> QED
    BY <1>1, <1>3, <1>4, <1>5, <1>7, <2>3, ClimbCalls
<1> QED
  BY <1>1, <1>8, <1>9 DEF Sorted

LEMMA ClimbExpr ==
    ASSUME TypeInv, StackInv, ClimbInv, StackInv', At("expr"),
           Activate("parseExpr", <<Do("unary"), <<"operators", Argument>>>>, <<>>)
    PROVE  ClimbInv'
<1>1. /\ ctl # <<>> /\ Top \in Frames /\ Top.todo \in Seq(Steps) /\ Top.todo # <<>>
      /\ Top.todo[1][1] = "expr" /\ Sorted(Top) /\ ~Climbing(Top) /\ res.sound
      /\ Argument = Top.todo[1][2] /\ Argument \in 0..8
  BY WhoIsAt, ArgumentOf DEF ClimbInv
<1>2. PICK a, b, m : /\ a = Before(<<>>) /\ m = Argument
                     /\ b = Activation("parseExpr", <<Do("unary"), <<"operators", m>>>>, <<>>)
  OBVIOUS
<1>3. a \in Frames /\ a.todo = Tail(Top.todo) /\ a.kids = Top.kids
  BY <1>1, <1>2, BeforeTail
<1>4. b \in Frames /\ b.todo = <<Do("unary"), <<"operators", m>>>>
  <2>0. m \in 0..8 /\ Do("unary") \in Steps
    BY <1>1, <1>2, DoSteps
  <2>1. <<"operators", m>> \in Steps
    BY <2>0, StepTypes
  <2>2. <<Do("unary"), <<"operators", m>>>> \in Seq(Steps)
    BY <2>0, <2>1
  <2> QED
    BY <1>2, <2>2, ActivationType, NoSteps DEF Activation
<1>5. ctl' = Append(Append(Front(ctl), a), b) /\ res'.sound /\ Front(ctl) \in Seq(Frames)
  BY <1>1, <1>2, TopParts DEF Activate, StackInv
<1>6. Framed(a)
  <2>1. Append(Front(ctl), a) \in Seq(Frames) /\ Stacked(ctl')
    BY <1>3, <1>5, AppendProperties DEF StackInv
  <2>2. Stacked(Append(Front(ctl), a))
    BY <1>4, <1>5, <2>1, StackAppend
  <2> QED
    BY <1>3, <1>5, <2>2, StackAppend
<1>7. b.todo[1][1] = "unary" /\ Last(b.todo) = <<"operators", m>>
  BY <1>4 DEF Do, Last
<1>8. Ready(b.todo, res', cache')
  BY <1>7, Calm
<1>9. m \in 0..7 => Sorted(b)
  BY <1>4 DEF Sorted, Climbing
<1>10. CASE Plain(Top.todo)
  <2>1. Plain(a.todo)
    BY <1>1, <1>3, <1>10, PlainTail
  <2>2. m = 0
    BY <1>1, <1>2, <1>10, PlainHead
  <2>3. Sorted(a) /\ Over(a, b)
    BY <1>3, <1>6, <2>1, PlainStarts
  <2>4. Sorted(b)
    BY <1>9, <2>2
  <2> QED
    BY <1>1, <1>3, <1>4, <1>5, <1>8, <1>10, <2>3, <2>4, ClimbCalls
<1>11. CASE Enclosing(Top)
  <2>0. Top.todo[1] = Expr(0) /\ a.todo = Tail(ParseParens) /\ Last(Top.todo) = Do("parens")
    BY <1>1, <1>3, <1>11, EnclosingHead DEF Skip, Do
  <2>1. m = 0 /\ Sorted(b)
    BY <1>1, <1>2, <1>9, <2>0 DEF Expr
  <2>2. Last(a.todo) = Do("parens") /\ a.todo[1][1] = "skip"
    BY <2>0, ParensSteps DEF Last, Skip
  <2>3. Sorted(a) /\ Over(a, b)
    BY <2>0, <2>2 DEF Sorted, Enclosing, Over
  <2> QED
    BY <1>1, <1>3, <1>4, <1>5, <1>8, <2>0, <2>1, <2>2, <2>3, ClimbCalls
<1>12. ASSUME NEW op \in DOMAIN Level, Combining(Top, op) PROVE ClimbInv'
  <2>1. /\ Last(Top.todo) = MakeExpr(op) /\ m = Least(op) /\ m <= 7
        /\ a.todo[1][1] = "child" /\ Last(a.todo) = MakeExpr(op)
    BY <1>1, <1>2, <1>3, <1>12, CombiningSteps
  <2>2. Combining(a, op)
    BY <1>1, <1>3, <1>12, CombiningTail
  <2>3. Last(a.todo)[2] = op
    BY <2>1 DEF MakeExpr
  <2>4. Over(a, b) /\ Sorted(a)
    BY <1>7, <2>1, <2>2, <2>3 DEF Over, Sorted
  <2>5. m \in 0..7
    BY <1>1, <1>2, <2>1
  <2> QED
    BY <1>1, <1>3, <1>4, <1>5, <1>8, <1>9, <2>1, <2>4, <2>5, ClimbCalls
<1> QED
  BY <1>1, <1>10, <1>11, <1>12 DEF Sorted

-----------------------------------------------------------------------------
(* The actions of expressions.                                             *)

LEMMA ClimbChild ==
    ASSUME TypeInv, StackInv, ClimbInv, At("child"), res # Null,
           ctl' = Append(Front(ctl), [Before(<<>>) EXCEPT !.kids = Append(@, res)]),
           res' = res, cache' = cache
    PROVE  ClimbInv'
<1>1. /\ ctl # <<>> /\ Top \in Frames /\ Sorted(Top) /\ Top.todo[1][1] = "child"
      /\ ~Climbing(Top) /\ ~Enclosing(Top) /\ ~Plain(Top.todo) /\ res.sound
      /\ res \in Results /\ Ready(Top.todo, res, cache)
  BY WhoIsAt, ClimbParts DEF ClimbInv, TypeInv
<1>2. PICK op \in DOMAIN Level : Combining(Top, op)
  BY <1>1 DEF Sorted
<1>3. PICK a : a = [Before(<<>>) EXCEPT !.kids = Append(@, res)]
  OBVIOUS
<1>4. a \in Frames /\ a.todo = Tail(Top.todo) /\ a.kids = Append(Top.kids, res)
  <2>1. /\ Before(<<>>) \in Frames /\ Before(<<>>).todo = Tail(Top.todo)
        /\ Before(<<>>).kids = Top.kids
    BY BeforeTail
  <2>2. Append(Top.kids, res) \in Seq(Results)
    BY <1>1, AppendProperties DEF Frames
  <2> QED
    BY <1>3, <2>1, <2>2 DEF Frames
<1>5. Last(Top.todo) = MakeExpr(op) /\ op \notin {"call", "dot"}
  BY <1>1, <1>2, CombiningSteps
<1>6. Last(Top.todo)[2] = op
  BY <1>5 DEF MakeExpr
<1>7. res.level > Least(op) /\ Stopped(cache, Least(op))
  BY <1>1, <1>6 DEF Ready
<1>8. Combining(a, op)
  BY <1>1, <1>2, <1>4, <1>7, CombiningChild
<1>9. Last(a.todo) = Last(Top.todo)
  BY <1>4, <1>5, <1>8, CombiningSteps
<1>10. Ready(a.todo, res', cache')
  <2>1. a.todo = <<MakeExpr(op)>> \/ a.todo = Tail(Tail(Tail(ParseTernary)))
    BY <1>1, <1>2, <1>4, CombiningSteps
  <2>2. CASE a.todo = <<MakeExpr(op)>>
    <3>1. a.todo[1][1] = "makeExpr" /\ a.todo[1][2] = op
      BY <2>2 DEF MakeExpr
    <3> QED
      BY <1>7, <3>1 DEF Ready
  <2>3. CASE a.todo = Tail(Tail(Tail(ParseTernary)))
    <3>1. a.todo[1][1] = "need"
      BY <2>3, TernarySteps DEF Need
    <3> QED
      BY <3>1, Calm
  <2> QED
    BY <2>1, <2>2, <2>3
<1>11. Sorted(a)
  BY <1>8 DEF Sorted
<1> QED
  BY <1>1, <1>3, <1>4, <1>9, <1>10, <1>11, ClimbReplaces

LEMMA ClimbMakes ==
    ASSUME TypeInv, StackInv, ClimbInv, At("makeExpr"), cache' = cache,
           Return(Tree(Level[Argument], InGrammar(Argument, Top.kids)))
    PROVE  ClimbInv'
<1>1. /\ ctl # <<>> /\ Top \in Frames /\ Sorted(Top) /\ Top.todo[1][1] = "makeExpr"
      /\ ~Climbing(Top) /\ ~Enclosing(Top) /\ ~Plain(Top.todo)
      /\ Argument = Top.todo[1][2] /\ Ready(Top.todo, res, cache)
  BY WhoIsAt, ClimbParts DEF ClimbInv, TypeInv
<1>2. PICK op \in DOMAIN Level : Combining(Top, op)
  BY <1>1 DEF Sorted
<1>3. Making(Top, op) /\ Last(Top.todo) = MakeExpr(op)
  BY <1>1, <1>2, CombiningSteps
<1>4. Argument = op
  BY <1>1, <1>3 DEF Making, MakeExpr
<1>5. InGrammar(op, Top.kids)
  BY <1>2, <1>3 DEF Combining, Fitting, Making, InGrammar
<1>6. PICK v : v = Tree(Level[op], InGrammar(op, Top.kids))
  OBVIOUS
<1>7. v.sound /\ v.level = Level[op]
  BY <1>5, <1>6, ResultSound
<1>8. op \in {"call", "dot"} \/ Stopped(cache', Least(op))
  BY <1>1, <1>4 DEF Ready
<1>9. Tight(v, cache')
  BY <1>6, <1>8, TreeTight
<1>10. ASSUME NEW p \in Frames, Over(p, Top) PROVE Ready(p.todo, v, cache')
  <2>1. \A m : MakeExpr(op) # <<"operators", m>>
    BY DEF MakeExpr
  <2>2. MakeExpr(op) # Do("parens") /\ \A o : MakeExpr(o) = MakeExpr(op) => o = op
    BY DEF MakeExpr, Do
  <2>3. p.todo[1][1] # "child"
    BY <1>3, <1>10, <2>1 DEF Over
  <2>4. p.todo[1][1] = "operators" => Level[op] > p.todo[1][2]
    BY <1>3, <1>10, <2>2 DEF Over
  <2> QED
    BY <1>7, <1>9, <1>10, <2>3, <2>4 DEF Over, Ready
<1>11. Return(v)
  BY <1>4, <1>6
<1> QED
  BY <1>1, <1>7, <1>10, <1>11, ClimbReturns

LEMMA ClimbParens ==
    ASSUME TypeInv, StackInv, ClimbInv, At("parens"),
           Return(IF res = Null THEN Null ELSE Tree(10, res.sound))
    PROVE  ClimbInv'
<1>1. /\ ctl # <<>> /\ Sorted(Top) /\ Top.todo[1][1] = "parens" /\ ~Climbing(Top)
      /\ ~Plain(Top.todo) /\ (\A op \in DOMAIN Level : ~Combining(Top, op)) /\ res.sound
  BY WhoIsAt DEF ClimbInv
<1>2. Last(Top.todo) = Do("parens")
  BY <1>1, EnclosingHead DEF Sorted
<1>3. CASE res = Null
  BY <1>1, <1>3, ClimbReturnsNull
<1>4. CASE res # Null
  <2>1. PICK v : v = Tree(10, res.sound) /\ v.sound /\ v.level = 10 /\ Return(v)
    BY <1>1, <1>4, ResultSound
  <2>2. ASSUME NEW p \in Frames, Framed(p), Over(p, Top) PROVE Ready(p.todo, v, cache')
    <3>1. \A m : Do("parens") # <<"operators", m>>
      BY DEF Do
    <3>2. p.todo[1][1] # "child"
      BY <1>2, <2>2, <3>1 DEF Over
    <3>3. p.todo[1] \in Steps
      <4>1. p.todo \in Seq(Steps) /\ p.todo # <<>>
        BY <2>2 DEF Frames, Framed, Shaped, Ended
      <4> QED
        BY <4>1, EmptySeq, LenProperties, ElementOfSeq
    <3>4. p.todo[1][1] = "operators" => p.todo[1][2] \in 0..8
      BY <3>3, ArgumentTypes
    <3>5. p.todo[1][1] = "operators" => v.level > p.todo[1][2] /\ Tight(v, cache')
      BY <2>1, <3>4 DEF Tight
    <3> QED
      BY <2>2, <3>2, <3>5 DEF Over, Ready
  <2> QED
    BY <1>1, <2>1, <2>2, ClimbReturns
<1> QED
  BY <1>3, <1>4

LEMMA ClimbMethodStep ==
    ASSUME TypeInv, StackInv, ClimbInv, StackInv', MethodStep PROVE ClimbInv'
<1>0. res.sound /\ cache' = cache
  BY DEF ClimbInv, MethodStep, NoText
<1>1. CASE At("call") /\ Activate(Argument, Body[Argument], <<>>)
  BY <1>1, ClimbCall
<1>2. CASE At("expr") /\ Activate("parseExpr", <<Do("unary"), <<"operators", Argument>>>>, <<>>)
  BY <1>2, ClimbExpr
<1>3. CASE At("nonNull") /\ IF res = Null THEN Return(Null) ELSE GoOn(<<>>)
  <2>1. ctl # <<>>
    BY <1>3 DEF At
  <2> QED
    BY <1>3, <2>1, ClimbReturnsNull, ClimbSkips
<1>4. CASE At("child") /\ res = Null /\ Return(Null)
  <2>1. ctl # <<>>
    BY <1>4 DEF At
  <2> QED
    BY <1>4, <2>1, ClimbReturnsNull
<1>5. CASE /\ At("child") /\ res # Null /\ res' = res
           /\ ctl' = Append(Front(ctl), [Before(<<>>) EXCEPT !.kids = Append(@, res)])
  BY <1>0, <1>5, ClimbChild
<1>6. CASE (At("make") /\ Return(Node)) \/ (At("pass") /\ Return(res))
  <2>1. PICK name \in {"make", "pass"} : \E v : At(name) /\ v.sound /\ Return(v)
    BY <1>0, <1>6, ResultSound
  <2>2. PlainMove(name)
    BY <2>1 DEF PlainMove
  <2> QED
    BY <2>1, <2>2, OnlyPlain, PlainMoves
<1>7. CASE At("makeExpr") /\ Return(Tree(Level[Argument], InGrammar(Argument, Top.kids)))
  BY <1>0, <1>7, ClimbMakes
<1>8. CASE At("parens") /\ Return(IF res = Null THEN Null ELSE Tree(10, res.sound))
  BY <1>8, ClimbParens
<1> QED
  BY <1>1, <1>2, <1>3, <1>4, <1>5, <1>6, <1>7, <1>8 DEF MethodStep

LEMMA ClimbMethodArgs ==
    ASSUME TypeInv, StackInv, ClimbInv, MethodArgs PROVE ClimbInv'
<1>1. PICK steps \in {<<>>, <<Call("parseCallArgs")>>} : At("methodArgs") /\ GoOn(steps)
  BY DEF MethodArgs
<1>2. /\ ctl # <<>> /\ Top \in Frames /\ Sorted(Top) /\ Top.todo[1][1] = "methodArgs"
      /\ ~Climbing(Top) /\ ~Enclosing(Top) /\ ~Plain(Top.todo) /\ res.sound
  BY <1>1, WhoIsAt DEF ClimbInv
<1>3. PICK op \in DOMAIN Level : Combining(Top, op)
  BY <1>2 DEF Sorted
<1>4. Last(Top.todo) = MakeExpr(op) /\ Tail(Top.todo) = <<MakeExpr(op)>> /\ op = "dot"
  BY <1>2, <1>3, CombiningSteps
<1>5. PICK a : a = Before(steps)
  OBVIOUS
<1>6. ctl' = Append(Front(ctl), a) /\ res'.sound
  BY <1>1, <1>2, <1>5 DEF GoOn
<1>7. CASE steps = <<>>
  <2>1. a \in Frames /\ a.todo = Tail(Top.todo) /\ a.kids = Top.kids
    BY <1>1, <1>5, <1>7, BeforeTail
  <2>2. Combining(a, op) /\ a.todo = <<MakeExpr(op)>>
    BY <1>2, <1>3, <1>4, <2>1, CombiningTail
  <2>3. a.todo[1][1] = "makeExpr" /\ a.todo[1][2] = "dot" /\ Last(a.todo) = Last(Top.todo)
    BY <1>4, <2>2 DEF MakeExpr, Last
  <2>4. Ready(a.todo, res', cache') /\ Sorted(a)
    BY <2>2, <2>3 DEF Ready, Sorted
  <2> QED
    BY <1>2, <1>6, <2>1, <2>3, <2>4, ClimbReplaces
<1>8. CASE steps = <<Call("parseCallArgs")>>
  <2>1. steps \in Seq(Steps)
    BY <1>8, AddedMembers
  <2>2. a \in Frames /\ a.todo = <<Call("parseCallArgs")>> \o Tail(Top.todo)
    BY <1>1, <1>5, <1>8, <2>1, BeforeIs
  <2>3. a.kids = Top.kids
    BY <1>2, <1>5 DEF Before, Frames
  <2>4. Combining(a, op) /\ a.todo[1][1] = "call" /\ Last(a.todo) = Last(Top.todo)
    BY <1>2, <1>3, <2>2, <2>3, CombiningArgs
  <2>5. Ready(a.todo, res', cache') /\ Sorted(a)
    BY <2>4, Calm DEF Sorted
  <2> QED
    BY <1>2, <1>6, <2>2, <2>4, <2>5, ClimbReplaces
<1> QED
  BY <1>1, <1>7, <1>8

LEMMA ClimbEnds ==
    ASSUME TypeInv, StackInv, ClimbInv, ExprEnds PROVE ClimbInv'
<1>1. /\ At("operators") /\ Return(res)
      /\ res = Null \/ \E t \in Current : getPrec(t) <= Argument /\ Leave(t)
  BY DEF ExprEnds
<1>2. /\ ctl # <<>> /\ Top.todo[1][1] = "operators" /\ Sorted(Top) /\ ~Enclosing(Top)
      /\ ~Plain(Top.todo) /\ (\A op \in DOMAIN Level : ~Combining(Top, op)) /\ res.sound
      /\ Argument = Top.todo[1][2] /\ Ready(Top.todo, res, cache)
  BY <1>1, WhoIsAt, ClimbParts DEF ClimbInv
<1>3. PICK m \in 0..7 : Top.todo = <<<<"operators", m>>>> /\ Top.todo[1] = <<"operators", m>>
  BY <1>2, ClimbingHead DEF Sorted
<1>4. Last(Top.todo) = <<"operators", m>> /\ Argument = m
  BY <1>2, <1>3 DEF Last
<1>5. CASE res = Null
  BY <1>1, <1>2, <1>5, ClimbReturnsNull
<1>6. CASE res # Null
  <2>1. res.level > m
    BY <1>2, <1>3, <1>6 DEF Ready
  <2>2. Stopped(cache', m)
    BY <1>1, <1>4, <1>6 DEF Leave, Stopped
  <2>3. ASSUME NEW p \in Frames, Over(p, Top) PROVE Ready(p.todo, res, cache')
    <3>1. <<"operators", m>> # Do("parens") /\ \A op : <<"operators", m>> # MakeExpr(op)
      BY DEF Do, MakeExpr
    <3>2. p.todo[1][1] # "operators"
      BY <1>4, <2>3, <3>1 DEF Over
    <3>3. p.todo[1][1] = "child" => Least(Last(p.todo)[2]) = m
      BY <1>4, <2>3 DEF Over
    <3> QED
      BY <2>1, <2>2, <2>3, <3>2, <3>3 DEF Over, Ready
  <2> QED
    BY <1>1, <1>2, <2>3, ClimbReturns
<1> QED
  BY <1>5, <1>6

\* The operator of a token, and what it asks of what has been parsed so far.
LEMMA OperatorOf ==
    ASSUME NEW t, getPrec(t) > 0, NEW op,
           op = (IF t = "lparen" THEN "call" ELSE t)
    PROVE  /\ op \in DOMAIN Level /\ OperandLevels(op)[1] = LeftLevel(t)
           /\ Level[op] >= getPrec(t) /\ LeftLevel(t) \in 1..9
<1>1. t \in {"dot", "lparen", "star", "plus", "minus", "less", "equal", "and", "question", "assign"}
  BY DEF getPrec
<1>2. op \in DOMAIN Level
  BY <1>1, OperatorNames
<1>3. Level[op] >= getPrec(t)
  BY <1>1, <1>2, OperatorNames DEF Level, getPrec
<1>4. LeftLevel(t) \in 1..9
  BY <1>1 DEF LeftLevel, getPrec
<1>5. CASE t \in {"dot", "lparen", "question", "assign"}
  <2>1. CASE t \in {"dot", "lparen"}
    <3>1. OperandLevels(op) = <<9>> /\ LeftLevel(t) = 9
      BY <2>1 DEF OperandLevels, LeftLevel
    <3> QED
      BY <1>2, <1>3, <1>4, <3>1
  <2>2. CASE t = "question"
    <3>1. OperandLevels(op) = <<3, 2, 2>> /\ LeftLevel(t) = 3
      BY <2>2 DEF OperandLevels, LeftLevel
    <3> QED
      BY <1>2, <1>3, <1>4, <3>1
  <2>3. CASE t = "assign"
    <3>1. OperandLevels(op) = <<2, 1>> /\ LeftLevel(t) = 2
      BY <2>3 DEF OperandLevels, LeftLevel
    <3> QED
      BY <1>2, <1>3, <1>4, <3>1
  <2> QED
    BY <1>5, <2>1, <2>2, <2>3
<1>6. CASE t \in {"star", "plus", "minus", "less", "equal", "and"}
  <2>1. OperandLevels(op) = <<Level[op], Level[op] + 1>> /\ LeftLevel(t) = getPrec(t)
    BY <1>6 DEF OperandLevels, LeftLevel
  <2>2. Level[op] = getPrec(t)
    BY <1>6, OperatorNames DEF Level, getPrec
  <2>3. OperandLevels(op)[1] = Level[op]
    BY <2>1
  <2> QED
    BY <1>2, <1>3, <1>4, <2>1, <2>2, <2>3
<1> QED
  BY <1>1, <1>5, <1>6

LEMMA ClimbOperator ==
    ASSUME TypeInv, StackInv, ClimbInv, ParseBinaryOp PROVE ClimbInv'
<1>1. PICK t \in Current :
          /\ At("operators") /\ res # Null /\ Argument < getPrec(t)
          /\ \/ t = "question" /\ Operator("parseTernary", ParseTernary)
             \/ t = "lparen" /\ Operator("parseCall", ParseCall)
             \/ t = "dot" /\ Operator("parseMemberAccess", ParseMemberAccess)
             \/ /\ t \notin {"question", "lparen", "dot"}
                /\ Operator("parseBinaryExpr", ParseBinaryExpr(t))
  BY DEF ParseBinaryOp
<1>2. /\ ctl # <<>> /\ Top.todo[1][1] = "operators" /\ Sorted(Top) /\ ~Enclosing(Top)
      /\ ~Plain(Top.todo) /\ (\A op \in DOMAIN Level : ~Combining(Top, op)) /\ res.sound
      /\ Argument = Top.todo[1][2] /\ Ready(Top.todo, res, cache) /\ res \in Results
  BY <1>1, WhoIsAt, ClimbParts DEF ClimbInv, TypeInv
<1>3. PICK m \in 0..7 : Top.todo = <<<<"operators", m>>>> /\ Top.todo[1] = <<"operators", m>>
  BY <1>2, ClimbingHead DEF Sorted
<1>4. Argument = m /\ getPrec(t) \in 0..8
  BY <1>2, <1>3, PrecTypes
<1>5. getPrec(t) > 0 /\ m < getPrec(t)
  BY <1>1, <1>4
<1>6. Tight(res, cache) /\ res.level \in 0..10
  BY <1>1, <1>2 DEF Ready, Results
<1>7. PICK op : op = IF t = "lparen" THEN "call" ELSE t
  OBVIOUS
<1>8. /\ op \in DOMAIN Level /\ OperandLevels(op)[1] = LeftLevel(t)
      /\ Level[op] >= getPrec(t) /\ LeftLevel(t) \in 1..9
  BY <1>5, <1>7, OperatorOf
<1>9. res.level >= LeftLevel(t)
  <2>1. CASE res.level >= 9
    BY <1>6, <1>8, <2>1
  <2>2. ASSUME NEW u, cache = <<u>>, getPrec(u) > 0 => LeftLevel(u) <= res.level
        PROVE  res.level >= LeftLevel(t)
    <3>1. t = u
      BY <2>2 DEF Current
    <3> QED
      BY <1>5, <1>6, <1>8, <2>2, <3>1
  <2> QED
    BY <1>6, <2>1, <2>2 DEF Tight
<1>10. Fitting(<<res>>, op)
  BY <1>2, <1>8, <1>9, FirstOperand
<1>11. Level[op] > m
  BY <1>4, <1>5, <1>8, LeastTypes
<1>12. ASSUME NEW b \in Frames, Combining(b, op), b.todo[1][1] \in {"need", "call", "expr"},
              ctl' = Append(ctl, b), res' = res
       PROVE  ClimbInv'
  <2>1. Last(b.todo) = MakeExpr(op)
    BY <1>8, <1>12, CombiningSteps
  <2>2. Over(Top, b)
    BY <1>3, <1>8, <1>11, <2>1 DEF Over
  <2>3. Sorted(b) /\ Ready(b.todo, res', cache')
    BY <1>8, <1>12, Calm DEF Sorted
  <2> QED
    BY <1>2, <1>12, <2>2, <2>3, ClimbOperates
<1>13. ASSUME NEW todo \in Seq(Steps),
              NEW fn \in {"parseTernary", "parseCall", "parseMemberAccess", "parseBinaryExpr"},
              Operator(fn, todo)
       PROVE  \E b \in Frames : /\ b.todo = todo /\ b.kids = <<res>> /\ b.kids = <<b.kids[1]>>
                                /\ ctl' = Append(ctl, b) /\ res' = res
  <2>1. <<res>> \in Seq(Results)
    BY <1>2
  <2>2. Activation(fn, todo, <<res>>) \in Frames
    BY <2>1, ActivationType
  <2>3. PICK b \in Frames : b = Activation(fn, todo, <<res>>)
    BY <2>2
  <2>4. b.todo = todo /\ b.kids = <<res>>
    BY <2>3 DEF Activation
  <2>5. b.kids = <<b.kids[1]>>
    BY <2>4
  <2> QED
    BY <1>13, <2>3, <2>4, <2>5 DEF Operator
<1>14. CASE t = "question" /\ Operator("parseTernary", ParseTernary)
  <2>1. PICK b \in Frames : /\ b.todo = ParseTernary /\ b.kids = <<res>> /\ b.kids = <<b.kids[1]>>
                            /\ ctl' = Append(ctl, b) /\ res' = res
    BY <1>13, <1>14, OperatorTypes
  <2>2. op = "question" /\ Combining(b, op)
    BY <1>7, <1>10, <1>14, <2>1, TernaryStarts
  <2>3. b.todo[1][1] = "need"
    BY <2>1 DEF ParseTernary, Need
  <2> QED
    BY <1>12, <2>1, <2>2, <2>3
<1>15. CASE t = "lparen" /\ Operator("parseCall", ParseCall)
  <2>1. PICK b \in Frames : /\ b.todo = ParseCall /\ b.kids = <<res>> /\ b.kids = <<b.kids[1]>>
                            /\ ctl' = Append(ctl, b) /\ res' = res
    BY <1>13, <1>15, OperatorTypes
  <2>2. op = "call" /\ Combining(b, op)
    BY <1>7, <1>10, <1>15, <2>1, CallStarts
  <2>3. b.todo[1][1] = "call"
    BY <2>1 DEF ParseCall, Call
  <2> QED
    BY <1>12, <2>1, <2>2, <2>3
<1>16. CASE t = "dot" /\ Operator("parseMemberAccess", ParseMemberAccess)
  <2>1. PICK b \in Frames : /\ b.todo = ParseMemberAccess /\ b.kids = <<res>>
                            /\ b.kids = <<b.kids[1]>> /\ ctl' = Append(ctl, b) /\ res' = res
    BY <1>13, <1>16, OperatorTypes
  <2>2. op = "dot" /\ Combining(b, op)
    BY <1>7, <1>10, <1>16, <2>1, AccessStarts
  <2>3. b.todo[1][1] = "need"
    BY <2>1 DEF ParseMemberAccess, Need
  <2> QED
    BY <1>12, <2>1, <2>2, <2>3
<1>17. CASE /\ t \notin {"question", "lparen", "dot"}
            /\ Operator("parseBinaryExpr", ParseBinaryExpr(t))
  <2>0. ParseBinaryExpr(t) \in Seq(Steps)
    BY <1>5, <1>17, OperatorTypes
  <2>1. PICK b \in Frames : /\ b.todo = ParseBinaryExpr(t) /\ b.kids = <<res>>
                            /\ b.kids = <<b.kids[1]>> /\ ctl' = Append(ctl, b) /\ res' = res
    BY <1>13, <1>17, <2>0
  <2>2. op = t
    BY <1>7, <1>17
  <2>3. Combining(b, op)
    BY <1>5, <1>10, <1>17, <2>1, <2>2, BinaryStarts
  <2>4. b.todo[1][1] = "expr"
    BY <2>1 DEF ParseBinaryExpr, Expr
  <2> QED
    BY <1>12, <2>1, <2>3, <2>4
<1> QED
  BY <1>1, <1>14, <1>15, <1>16, <1>17

\* An operand: a name or a literal, an operator before one, or a parenthesis.
LEMMA ClimbUnary ==
    ASSUME TypeInv, StackInv, ClimbInv, ParseUnaryOp PROVE ClimbInv'
<1>1. PICK t \in Current :
          /\ At("unary")
          /\ \/ ctl' = Append(Front(ctl), Before(<<>>)) /\ res' = Tree(10, TRUE)
             \/ Activate("parseUnaryOp", ParseUnaryExpr, <<>>)
             \/ Activate("parseUnaryOp", ParseParens, <<>>)
             \/ ctl' = Append(Front(ctl), Before(<<>>)) /\ res' = Null
  BY DEF ParseUnaryOp
<1>2. /\ ctl # <<>> /\ Top.todo[1][1] = "unary" /\ Sorted(Top) /\ ~Enclosing(Top)
      /\ ~Plain(Top.todo) /\ (\A op \in DOMAIN Level : ~Combining(Top, op)) /\ res.sound
  BY <1>1, WhoIsAt DEF ClimbInv
<1>3. PICK m \in 0..7 : /\ Top.todo = <<Do("unary"), <<"operators", m>>>>
                        /\ Tail(Top.todo) = <<<<"operators", m>>>>
  BY <1>2, ClimbingHead DEF Sorted
<1>4. PICK a \in Frames : a = Before(<<>>) /\ a.todo = <<<<"operators", m>>>>
  BY <1>1, <1>3, BeforeTail
<1>5. /\ Sorted(a) /\ a.todo[1] = <<"operators", m>> /\ a.todo[1][1] = "operators"
      /\ a.todo[1][2] = m
  BY <1>4 DEF Sorted, Climbing
<1>6. Last(a.todo) = Last(Top.todo)
  BY <1>3, <1>4 DEF Last
<1>7. CASE ctl' = Append(Front(ctl), Before(<<>>)) /\ res' = Tree(10, TRUE)
  <2>1. res'.level = 10 /\ res'.sound
    BY <1>7, ResultSound
  <2>2. res'.level > m /\ res'.level >= 9
    BY <2>1
  <2>3. Ready(a.todo, res', cache')
    BY <1>5, <2>2 DEF Ready, Tight
  <2> QED
    BY <1>2, <1>4, <1>5, <1>6, <1>7, <2>1, <2>3, ClimbReplaces
<1>8. CASE ctl' = Append(Front(ctl), Before(<<>>)) /\ res' = Null
  <2>1. Null.sound
    BY DEF Null, Result
  <2>2. Ready(a.todo, res', cache')
    BY <1>5, <1>8 DEF Ready
  <2> QED
    BY <1>2, <1>4, <1>5, <1>6, <1>8, <2>1, <2>2, ClimbReplaces
<1>9. ASSUME NEW todo \in Seq(Steps), Activate("parseUnaryOp", todo, <<>>)
      PROVE  \E b \in Frames : /\ b.todo = todo /\ b.kids = <<>> /\ res' = res
                               /\ ctl' = Append(Append(Front(ctl), a), b)
  <2>1. PICK b \in Frames : b = Activation("parseUnaryOp", todo, <<>>)
    BY NoSteps, ActivationType
  <2> QED
    BY <1>4, <1>9, <2>1 DEF Activate, Activation
<1>10. CASE Activate("parseUnaryOp", ParseUnaryExpr, <<>>)
  <2>1. PICK b \in Frames : /\ b.todo = ParseUnaryExpr /\ b.kids = <<>> /\ res' = res
                            /\ ctl' = Append(Append(Front(ctl), a), b)
    BY <1>9, <1>10, OperatorTypes
  <2>2. "neg" \in DOMAIN Level /\ Level["neg"] = 8
    BY DEF Level
  <2>3. Combining(b, "neg") /\ b.todo[1][1] = "expr"
    BY <2>1, UnaryStarts DEF ParseUnaryExpr, Expr
  <2>4. Last(b.todo) = MakeExpr("neg")
    BY <2>2, <2>3, CombiningSteps
  <2>5. Over(a, b)
    BY <1>5, <2>2, <2>4 DEF Over
  <2>6. Sorted(b) /\ Ready(b.todo, res', cache')
    BY <2>2, <2>3, Calm DEF Sorted
  <2> QED
    BY <1>2, <1>5, <1>6, <2>1, <2>5, <2>6, ClimbCalls
<1>11. CASE Activate("parseUnaryOp", ParseParens, <<>>)
  <2>1. PICK b \in Frames : /\ b.todo = ParseParens /\ res' = res
                            /\ ctl' = Append(Append(Front(ctl), a), b)
    BY <1>9, <1>11, OperatorTypes
  <2>2. b.todo[1][1] = "expr" /\ Last(b.todo) = Do("parens")
    BY <2>1 DEF ParseParens, Expr, Last
  <2>3. Over(a, b)
    BY <1>5, <2>2 DEF Over
  <2>4. Sorted(b) /\ Ready(b.todo, res', cache')
    BY <2>1, <2>2, Calm DEF Sorted, Enclosing
  <2> QED
    BY <1>2, <1>5, <1>6, <2>1, <2>3, <2>4, ClimbCalls
<1> QED
  BY <1>1, <1>7, <1>8, <1>10, <1>11

LEMMA StepKeepsClimb ==
    ASSUME TypeInv, StackInv, ClimbInv, StackInv', [Next]_vars PROVE ClimbInv'
<1>1. CASE OutOfStack
  <2>1. ctl' = <<>> /\ res'.sound
    BY <1>1 DEF OutOfStack, ClimbInv
  <2>2. Climbed(<<>>)
    BY DEF Climbed
  <2> QED
    BY <2>1, <2>2 DEF ClimbInv
<1>2. CASE Returned \/ UNCHANGED vars
  BY <1>2 DEF Returned, vars, ClimbInv, Top
<1>3. CASE Expression
  BY <1>3, ClimbUnary, ClimbEnds, ClimbOperator, ClimbMethodArgs DEF Expression
<1> QED
  BY <1>1, <1>2, <1>3, ClimbExpected, ClimbMethodStep, ClimbDeclaration, ClimbStatement DEF Next

LEMMA ClimbInit == Init => ClimbInv
<1> SUFFICES ASSUME Init PROVE ClimbInv
  OBVIOUS
<1>1. PICK a, f : a = Activation("parse", <<Do("decls")>>, <<>>) /\ f = <<>>
  OBVIOUS
<1>2. a \in Frames /\ a.todo = <<Do("decls")>>
  <2>1. <<Do("decls")>> \in Seq(Steps)
    BY DoSteps
  <2> QED
    BY <1>1, <2>1, NoSteps, ActivationType DEF Activation
<1>3. ctl = <<a>> /\ ctl[1] = a /\ DOMAIN ctl = {1} /\ Top = a
  BY <1>1 DEF Init, Top, Last
<1>4. a.todo[1] = <<"decls">> /\ a.todo[1][1] = "decls" /\ DOMAIN a.todo = {1}
  BY <1>2 DEF Do
<1>5. Sorted(a)
  BY <1>4 DEF Sorted, Plain
<1>6. Climbed(ctl)
  BY <1>3, <1>5 DEF Climbed
<1>7. Ready(a.todo, res, cache)
  BY <1>4, Calm
<1>8. res.sound
  BY DEF Init, Node, Result
<1> QED
  BY <1>3, <1>6, <1>7, <1>8 DEF ClimbInv

\* Every operator that parseExpr and the methods it calls build binds as the grammar
\* says: its operands bind at least as tightly as they must, whatever operators,
\* parentheses, calls and errors the text has.
THEOREM PrecedenceIsKept == Spec => []PrecedenceKept
<1>1. Init => TypeInv /\ NullReported /\ StackInv /\ BracketsMatch /\ ClimbInv
  BY BracketsInit, ClimbInit, NotNull DEF Init, NullReported
<1>2. TypeInv /\ NullReported /\ StackInv /\ BracketsMatch /\ ClimbInv /\ [Next]_vars =>
         (TypeInv /\ NullReported /\ StackInv /\ BracketsMatch /\ ClimbInv)'
  <2>1. ASSUME NullReported, [Next]_vars PROVE NullReported'
    BY <2>1, ErrorsStay, NullHasReason DEF NullReported
  <2>2. ASSUME TypeInv, NullReported, StackInv, BracketsMatch, [Next]_vars
        PROVE  StackInv' /\ BracketsMatch'
    BY <2>2, StepKeepsBrackets
  <2>3. ASSUME TypeInv, StackInv, StackInv', ClimbInv, [Next]_vars PROVE ClimbInv'
    BY <2>3, StepKeepsClimb
  <2> QED
    BY <2>1, <2>2, <2>3, StepKeepsType
<1>3. ClimbInv => PrecedenceKept
  BY DEF ClimbInv, PrecedenceKept
<1> QED
  BY <1>1, <1>2, <1>3, PTL DEF Spec
=============================================================================
