------------------------------- MODULE Parser -------------------------------
(***************************************************************************)
(* VSLParser: recursive descent over one token of lookahead, with          *)
(* precedence climbing for expressions.  It reports an error and goes on:  *)
(* what it returns after an error is handed to the passes all the same.    *)
(*                                                                         *)
(* ctl is the recursion: one activation for each method that is running,   *)
(* with the steps it still has to take.  A method that runs straight       *)
(* through is the sequence of its steps, with the errors each one may      *)
(* report; a method that branches has an action of its own.  The text is   *)
(* any text: the lexer answers each request with any token.                *)
(*                                                                         *)
(* Tokens that the parser treats alike are one: "literal" is a number,     *)
(* true, false or self, "access" is public or private, "var" is var or     *)
(* let, "type" is Bool or Int; "star", "plus", "less", "equal" and "and"   *)
(* stand for the operators of their precedence.  Names are left out, and   *)
(* so is the tree but for what the grammar of expressions tells apart.     *)
(***************************************************************************)
EXTENDS Naturals, SequencesExt

CONSTANTS
    Tokens,   \* the kinds of token that occur in the text
    MaxDepth  \* bound: the parser's recursion

TokenKinds == {"access", "func", "var", "class", "init", "external",
               "return", "if", "else", "type", "void", "ident", "literal",
               "lparen", "rparen", "lbrace", "rbrace", "comma", "colon",
               "semicolon", "arrow", "dot", "star", "plus", "less", "equal",
               "and", "question", "assign", "minus", "not"}

ASSUME TokensAssumption == Tokens \subseteq TokenKinds
ASSUME DepthAssumption == MaxDepth \in Nat \ {0}

VARIABLES
    ctl,      \* the activations, the outermost first
    cache,    \* VSLParser::cache: the token looked at and not consumed
    text,     \* where the lexer is: "more", "end" once it has answered END,
              \* "over" once it has been asked for another token after that
    res,      \* what the method that returned last returned
    errored,  \* Diag has printed an error
    declared, \* some class has been declared
    open      \* the brackets consumed and not closed, up to the first error

vars == <<ctl, cache, text, res, errored, declared, open>>

-----------------------------------------------------------------------------
\* Steps.  A bracket, keyword or name that the grammar asks for:
Need(t) == <<"need", t>>   \* take it, or report it missing and return null
Want(t) == <<"want", t>>   \* take it, or report it missing and go on
Skip(t) == <<"skip", t>>   \* report it missing if it is, take what is there
Typo(t) == <<"typo", t>>   \* take what is there, report it if it is not t
Late(t) == <<"late", t>>   \* the same, and return null if it is not

Call(f) == <<"call", f>>
Expr(min) == <<"expr", min>>  \* call parseExpr(min)
NonNull == <<"nonNull">>      \* return null if the last call did
Child == <<"child">>          \* the same; the tree it returned is a child
Make == <<"make">>            \* return a new node
MakeExpr(op) == <<"makeExpr", op>>
Pass == <<"pass">>            \* return what the last call returned
Do(step) == <<step>>          \* an action of that name

\* What a method returns: a kind of node, and of an expression its level in the
\* grammar below and whether the tree is one of that grammar's; of a variable,
\* whether it has a type and an initializer.
Result(kind, level, sound, type, init) ==
    [kind |-> kind, level |-> level, sound |-> sound, type |-> type, init |-> init]
Null == Result("null", 0, TRUE, FALSE, FALSE)
Node == Result("node", 0, TRUE, FALSE, FALSE)
Tree(level, sound) == Result("expr", level, sound, FALSE, FALSE)

-----------------------------------------------------------------------------
\* The grammar of expressions, one nonterminal for each level:
\*   E1 -> E2 = E1 | E2      E2 -> E3 ? E2 : E2 | E3     E3 -> E3 && E4 | E4
\*   E4 -> E4 == E5 | E5     E5 -> E5 < E6 | E6          E6 -> E6 + E7 | E7
\*   E7 -> E7 * E8 | E8      E8 -> -E8 | !E8 | E9        E9 -> E9.name | E9(args) | E10
\*   E10 -> name | literal | (E1)
\* An operator's level, and the least level of each of its operands.
Level == [op \in {"assign", "question", "and", "equal", "less", "plus", "minus", "star",
                   "neg", "call", "dot"} |->
    CASE op = "assign" -> 1 [] op = "question" -> 2 [] op = "and" -> 3 [] op = "equal" -> 4
      [] op = "less" -> 5 [] op \in {"plus", "minus"} -> 6 [] op = "star" -> 7
      [] op = "neg" -> 8 [] op \in {"call", "dot"} -> 9]

OperandLevels(op) == CASE op = "assign" -> <<2, 1>>
                       [] op = "question" -> <<3, 2, 2>>
                       [] op = "neg" -> <<8>>
                       [] op \in {"call", "dot"} -> <<9>>
                       [] OTHER -> <<Level[op], Level[op] + 1>>

InGrammar(op, kids) ==
    /\ Len(kids) = Len(OperandLevels(op))
    /\ \A i \in DOMAIN kids : kids[i].sound /\ kids[i].level >= OperandLevels(op)[i]

\* VSLParser::getPrec
getPrec(t) == CASE t \in {"dot", "lparen"} -> 8
                [] t = "star" -> 7
                [] t \in {"plus", "minus"} -> 6
                [] t = "less" -> 5
                [] t = "equal" -> 4
                [] t = "and" -> 3
                [] t = "question" -> 2
                [] t = "assign" -> 1
                [] OTHER -> 0

-----------------------------------------------------------------------------
(* The methods that run straight through.                                  *)

ParseFunction == <<Call("parseFuncData"), NonNull, Do("externalOrBody")>>

ExternalRest == <<Need("lparen"), Need("ident"), Need("rparen"), Need("semicolon"), Make>>

ParseFuncData == <<Need("func"), Need("ident"), Call("parseParams"), Need("arrow"),
                   Do("type"), Make>>

ParseParams == <<Want("lparen"), <<"list", "parseParam">>, Want("rparen"), Make>>

ParseParam == <<Skip("ident"), Typo("colon"), Do("type"), Do("param")>>

ParseVariable == <<Call("parseVarData"), NonNull, Do("variable")>>

ParseVarData == <<Need("var"), Need("ident"), Do("varType")>>

ParseClass_BraceLeft == <<Need("class"), Need("ident"), Need("lbrace"), Do("classType"),
                          Do("members"), Make>>

ParseClass == <<Need("class"), Need("ident"), Need("lbrace"), Do("classType"),
                Do("members"), Want("rbrace"), Make>>

ParseField == <<Call("parseVarData"), NonNull, Do("field")>>

ParseCtor == <<Need("init"), Call("parseParams"), Call("parseBlock"), NonNull, Make>>

ParseMethod == <<Call("parseFuncData"), NonNull, Call("parseBlock"), NonNull, Make>>

ParseBlock == <<Need("lbrace"), Do("statements"), Need("rbrace"), Make>>

ParseIf == <<Need("if"), Need("lparen"), Expr(0), NonNull, Need("rparen"),
             Call("parseStatement"), NonNull, Do("else"), Make>>

ParseReturn == <<Need("return"), Do("value"), Make>>

ParseExprStmt_NoReturn == <<Expr(0), Want("semicolon")>>

ParseExprStmt == <<Expr(0), Want("semicolon"), Pass>>

ParseUnaryExpr == <<Expr(getPrec("lparen") - 1), Child, MakeExpr("neg")>>

ParseParens == <<Expr(0), Skip("rparen"), Do("parens")>>

ParseBinaryExpr_RightAssoc(op) == <<Expr(getPrec(op) - 1), Child, MakeExpr(op)>>

ParseBinaryExpr(op) == <<Expr(IF op = "assign" THEN getPrec(op) - 1 ELSE getPrec(op)),
                         Child, MakeExpr(op)>>

ParseTernary == <<Need("question"), Expr(getPrec("question") - 1), Child, Need("colon"),
                  Expr(getPrec("question") - 1), Child, MakeExpr("question")>>

ParseCall == <<Call("parseCallArgs"), MakeExpr("call")>>

ParseCallArgs_ParenLeft == <<Need("lparen"), <<"list", "parseCallArg">>, Make>>

ParseCallArgs == <<Need("lparen"), <<"list", "parseCallArg">>, Want("rparen"), Make>>

ParseCallArg == <<Need("ident"), Late("colon"), Expr(0), NonNull, Make>>

ParseMemberAccess == <<Need("dot"), Need("ident"), Do("methodArgs"), MakeExpr("dot")>>

Body == [parseDecl |-> <<Do("access"), Do("decl")>>,
         parseFunction |-> ParseFunction, parseFuncData |-> ParseFuncData,
         parseParams |-> ParseParams, parseParam |-> ParseParam,
         parseVariable |-> ParseVariable, parseVarData |-> ParseVarData,
         parseClass |-> ParseClass, parseField |-> ParseField,
         parseCtor |-> ParseCtor, parseMethod |-> ParseMethod,
         parseStatement |-> <<Do("statement")>>, parseBlock |-> ParseBlock,
         parseIf |-> ParseIf, parseReturn |-> ParseReturn,
         parseExprStmt |-> ParseExprStmt,
         parseCallArgs |-> ParseCallArgs, parseCallArg |-> ParseCallArg]

-----------------------------------------------------------------------------
(* The cache of one token.                                                 *)

\* A request to the lexer, and where it is then.  What it answers after END
\* is whatever follows the text in memory.
Lexed == Tokens \cup {"END"}
Ask(where, t) == IF where = "more" THEN (IF t = "END" THEN "end" ELSE "more") ELSE "over"

\* VSLParser::current, and the lexer after it.
Current == IF cache = <<>> THEN Lexed ELSE {cache[1]}
TextAfter(t) == IF cache = <<>> THEN Ask(text, t) ELSE text

Opener == [t \in {"rparen", "rbrace"} |-> IF t = "rparen" THEN "lparen" ELSE "lbrace"]
Nest(t) == CASE t \in {"lparen", "lbrace"} -> Append(open, t)
             [] t \in {"rparen", "rbrace"} -> IF open # <<>> /\ Last(open) = Opener[t]
                                    THEN Front(open) ELSE Append(open, t)
             [] OTHER -> open

\* consume() of the current token, or leave it there.
Consume(t) == /\ cache' = <<>> /\ text' = TextAfter(t)
              /\ open' = IF errored THEN <<>> ELSE Nest(t)
              /\ UNCHANGED errored
Leave(t) == cache' = <<t>> /\ text' = TextAfter(t) /\ UNCHANGED <<errored, open>>

\* errorExpected prints the current token: when the offending one has been
\* consumed already, it asks for the next.
Failed == errored' = TRUE /\ open' = <<>>
ErrorExpected(t) == cache' = <<t>> /\ text' = TextAfter(t) /\ Failed
ErrorAfter(t) == \E u \in Lexed : cache' = <<u>> /\ text' = Ask(TextAfter(t), u) /\ Failed
ErrorConsumed_Warning(t) == cache' = <<>> /\ text' = TextAfter(t) /\ UNCHANGED <<errored, open>>
ErrorConsumed_Kept(t) == ErrorExpected(t)
ErrorConsumed(t) == cache' = <<>> /\ text' = TextAfter(t) /\ Failed
ErrorOnly == Failed /\ UNCHANGED <<cache, text>>

-----------------------------------------------------------------------------
(* The recursion.                                                          *)

Activation(fn, todo, kids) == [fn |-> fn, todo |-> todo, kids |-> kids]

Top == Last(ctl)
At(step) == ctl # <<>> /\ Top.todo # <<>> /\ Head(Top.todo)[1] = step
Argument == Head(Top.todo)[2]

\* The activation goes on, with more steps first; becomes another method's
\* (a call whose result it returns); waits for a call; returns.
Before(steps) == [Top EXCEPT !.todo = steps \o Tail(@)]
GoOn(steps) == ctl' = Append(Front(ctl), Before(steps)) /\ UNCHANGED res
Become(fn) == ctl' = Append(Front(ctl), Activation(fn, Body[fn], <<>>)) /\ UNCHANGED res
Activate(fn, todo, kids) ==
    /\ Len(ctl) < MaxDepth
    /\ ctl' = Append(Append(Front(ctl), Before(<<>>)), Activation(fn, todo, kids))
    /\ UNCHANGED res
Return(value) == ctl' = Front(ctl) /\ res' = value

NoText == UNCHANGED <<cache, text, errored, open>>

\* A token that the grammar asks for.
ExpectMet == /\ \E mode \in {"need", "want", "skip", "typo", "late"} : At(mode)
             /\ Argument \in Current
             /\ Consume(Argument) /\ GoOn(<<>>) /\ UNCHANGED declared

ExpectFailed ==
    \E t \in Current :
        /\ \/ At("need") /\ t # Argument /\ ErrorExpected(t) /\ Return(Null)
           \/ At("want") /\ t # Argument /\ ErrorExpected(t) /\ GoOn(<<>>)
           \/ At("skip") /\ t # Argument /\ ErrorConsumed(t) /\ GoOn(<<>>)
           \/ At("typo") /\ t # Argument /\ ErrorAfter(t) /\ GoOn(<<>>)
           \/ At("late") /\ t # Argument /\ ErrorAfter(t) /\ Return(Null)
        /\ UNCHANGED declared

\* A step that calls a method, or returns.
MethodStep ==
    /\ \/ At("call") /\ Activate(Argument, Body[Argument], <<>>)
       \/ At("expr") /\ Activate("parseExpr", <<Do("unary"), <<"operators", Argument>>>>, <<>>)
       \/ At("nonNull") /\ IF res = Null THEN Return(Null) ELSE GoOn(<<>>)
       \/ At("child") /\ IF res = Null THEN Return(Null)
                         ELSE /\ ctl' = Append(Front(ctl),
                                               [Before(<<>>) EXCEPT !.kids = Append(@, res)])
                              /\ UNCHANGED res
       \/ At("make") /\ Return(Node)
       \/ At("makeExpr") /\ Return(Tree(Level[Argument], InGrammar(Argument, Top.kids)))
       \/ At("pass") /\ Return(res)
       \/ At("parens") /\ Return(IF res = Null THEN Null ELSE Tree(10, res.sound))
    /\ NoText /\ UNCHANGED declared

-----------------------------------------------------------------------------
(* Declarations.                                                           *)

\* VSLParser::parse: until END, one declaration after the other.
Parse ==
    \E t \in Current :
        /\ At("decls") /\ Leave(t)
        /\ IF t = "END" THEN Return(res) ELSE GoOn(<<Call("parseDecl"), Do("decls")>>)
        /\ UNCHANGED declared

ParseAccess ==
    \E t \in Current :
        /\ At("access") /\ GoOn(<<>>)
        /\ IF t = "access" THEN Consume(t) ELSE ErrorExpected(t)
        /\ UNCHANGED declared

ParseDecl ==
    \E t \in Current :
        /\ At("decl")
        /\ \/ t = "func" /\ Leave(t) /\ Become("parseFunction")
           \/ t = "var" /\ Leave(t) /\ Become("parseVariable")
           \/ t = "class" /\ Leave(t) /\ Become("parseClass")
           \/ t \notin {"func", "var", "class"} /\ ErrorConsumed(t) /\ Return(Null)
        /\ UNCHANGED declared

ExternalOrBody ==
    \E t \in Current :
        /\ At("externalOrBody")
        /\ IF t = "external" THEN Consume(t) /\ GoOn(ExternalRest)
           ELSE Leave(t) /\ GoOn(<<Call("parseBlock"), NonNull, Make>>)
        /\ UNCHANGED declared

\* A list of parameters or arguments up to ')', and what follows each.
List ==
    \E t \in Current :
        /\ At("list") /\ Leave(t)
        /\ GoOn(IF t = "rparen" THEN <<>> ELSE <<Call(Argument), <<"more", Argument>>>>)
        /\ UNCHANGED declared

More ==
    \E t \in Current :
        /\ At("more")
        /\ IF t = "comma" THEN Consume(t) /\ GoOn(<<Call(Argument), <<"more", Argument>>>>)
           ELSE Leave(t) /\ GoOn(<<>>)
        /\ UNCHANGED declared

\* VSLParser::parseType, which returns at once.  Void is not valid for a
\* parameter, and neither is the error type.
ParseType ==
    \E t \in Current :
        /\ At("type")
        /\ ctl' = Append(Front(ctl), Before(<<>>))
        /\ res' = Result("type", 0, TRUE, t \in {"type", "ident"}, FALSE)
        /\ IF t \in {"type", "void", "ident"} THEN Consume(t) ELSE ErrorExpected(t)
        /\ UNCHANGED declared

ParamNode ==
    /\ At("param")
    /\ IF res.type THEN Return(Node) /\ NoText
       ELSE Return(Null) /\ ErrorOnly
    /\ UNCHANGED declared

\* The type of a variable, its initializer, and the VarData they make.
VarType ==
    \E t \in Current :
        /\ At("varType")
        /\ IF t = "colon" THEN Consume(t) /\ GoOn(<<Do("type"), <<"varInit", TRUE>>>>)
           ELSE Leave(t) /\ GoOn(<<<<"varInit", FALSE>>>>)
        /\ UNCHANGED declared

VarInit ==
    \E t \in Current :
        /\ At("varInit")
        /\ \/ /\ t = "assign" /\ Consume(t)
              /\ GoOn(<<Expr(0), Want("semicolon"), <<"varData", Argument, TRUE>>>>)
           \/ /\ t # "assign" /\ Argument /\ Leave(t)
              /\ GoOn(<<Want("semicolon"), <<"varData", Argument, FALSE>>>>)
           \/ t # "assign" /\ ~Argument /\ ErrorConsumed(t) /\ Return(Null)
        /\ UNCHANGED declared

VarData ==
    /\ At("varData")
    /\ Return(Result("varData", 0, TRUE, Argument, Head(Top.todo)[3] /\ res # Null))
    /\ NoText /\ UNCHANGED declared

VariableNode == /\ At("variable")
                /\ Return(Result("variable", 0, TRUE, res.type, res.init))
                /\ NoText /\ UNCHANGED declared

FieldNode_Silent ==
    /\ At("field") /\ Return(IF res.type /\ ~res.init THEN Node ELSE Null)
    /\ NoText /\ UNCHANGED declared

FieldNode ==
    /\ At("field")
    /\ IF res.type /\ ~res.init THEN Return(Node) /\ NoText
       ELSE Return(Null) /\ ErrorOnly
    /\ UNCHANGED declared

\* The class may have been declared before.
ClassType ==
    /\ At("classType") /\ declared' = TRUE
    /\ \/ GoOn(<<>>) /\ NoText
       \/ declared /\ Return(Null) /\ ErrorOnly

\* VSLParser::parseMembers; a field may have been declared before.
Members ==
    \E t \in Current :
        /\ At("members") /\ Leave(t)
        /\ GoOn(IF t \in {"rbrace", "END"} THEN <<>> ELSE <<Do("access"), Do("member")>>)
        /\ UNCHANGED declared

Member ==
    \E t \in Current :
        /\ At("member")
        /\ \/ /\ t = "var" /\ Leave(t)
              /\ GoOn(<<Call("parseField"), Do("addField"), Do("members")>>)
           \/ t = "init" /\ Leave(t) /\ GoOn(<<Call("parseCtor"), Do("members")>>)
           \/ t = "func" /\ Leave(t) /\ GoOn(<<Call("parseMethod"), Do("members")>>)
           \/ t \notin {"var", "init", "func"} /\ ErrorConsumed(t) /\ GoOn(<<Do("members")>>)
        /\ UNCHANGED declared

AddField ==
    /\ At("addField") /\ GoOn(<<>>) /\ UNCHANGED declared
    /\ \/ NoText
       \/ res # Null /\ ErrorOnly

-----------------------------------------------------------------------------
(* Statements.                                                             *)

\* VSLParser::parseStatements
Statements ==
    \E t \in Current :
        /\ At("statements") /\ Leave(t)
        /\ GoOn(IF t \in {"rbrace", "END"} THEN <<>>
                ELSE <<Call("parseStatement"), Do("statements")>>)
        /\ UNCHANGED declared

FirstOfExpr == {"ident", "literal", "minus", "lparen"}

ParseStatement ==
    \E t \in Current :
        /\ At("statement")
        /\ \/ t = "var" /\ Leave(t) /\ Become("parseVariable")
           \/ t = "return" /\ Leave(t) /\ Become("parseReturn")
           \/ t = "if" /\ Leave(t) /\ Become("parseIf")
           \/ t \in FirstOfExpr /\ Leave(t) /\ Become("parseExprStmt")
           \/ t = "lbrace" /\ Leave(t) /\ Become("parseBlock")
           \/ t = "semicolon" /\ Consume(t) /\ Return(Node)
           \/ /\ t \notin {"var", "return", "if", "lbrace", "semicolon"} \cup FirstOfExpr
              /\ ErrorConsumed(t) /\ Return(Null)
        /\ UNCHANGED declared

ParseElse ==
    \E t \in Current :
        /\ At("else")
        /\ IF t = "else" THEN Consume(t) /\ GoOn(<<Call("parseStatement")>>)
           ELSE Leave(t) /\ GoOn(<<>>)
        /\ UNCHANGED declared

ReturnValue ==
    \E t \in Current :
        /\ At("value")
        /\ IF t = "semicolon" THEN Consume(t) /\ GoOn(<<>>)
           ELSE Leave(t) /\ GoOn(<<Expr(0), Need("semicolon")>>)
        /\ UNCHANGED declared

-----------------------------------------------------------------------------
(* Expressions.                                                            *)

\* VSLParser::parseUnaryOp; a name or a literal returns at once.  A number may
\* be too large (parseNumber): reported, and a literal all the same.
ParseUnaryOp ==
    \E t \in Current :
        /\ At("unary")
        /\ \/ /\ t \in {"ident", "literal"}
              /\ Consume(t) \/ (t = "literal" /\ ErrorConsumed(t))
              /\ ctl' = Append(Front(ctl), Before(<<>>)) /\ res' = Tree(10, TRUE)
           \/ /\ t \in {"minus", "not"} /\ Consume(t)
              /\ Activate("parseUnaryOp", ParseUnaryExpr, <<>>)
           \/ t = "lparen" /\ Consume(t) /\ Activate("parseUnaryOp", ParseParens, <<>>)
           \/ /\ t \notin {"ident", "literal", "minus", "not", "lparen"} /\ ErrorAfter(t)
              /\ ctl' = Append(Front(ctl), Before(<<>>)) /\ res' = Null
        /\ UNCHANGED declared

\* The loop of VSLParser::parseExpr, after an operand or an operator.
ExprEnds ==
    /\ At("operators") /\ Return(res) /\ UNCHANGED declared
    /\ \/ res = Null /\ NoText
       \/ /\ res # Null
          /\ \E t \in Current : getPrec(t) <= Argument /\ Leave(t)

\* VSLParser::parseBinaryOp, on what has been parsed so far.
Operator(fn, todo) == /\ Len(ctl) < MaxDepth
                      /\ ctl' = Append(ctl, Activation(fn, todo, <<res>>))
                      /\ UNCHANGED res

ParseBinaryOp ==
    \E t \in Current :
        /\ At("operators") /\ res # Null /\ Argument < getPrec(t)
        /\ \/ t = "question" /\ Leave(t) /\ Operator("parseTernary", ParseTernary)
           \/ t = "lparen" /\ Leave(t) /\ Operator("parseCall", ParseCall)
           \/ t = "dot" /\ Leave(t) /\ Operator("parseMemberAccess", ParseMemberAccess)
           \/ /\ t \notin {"question", "lparen", "dot"} /\ Consume(t)
              /\ Operator("parseBinaryExpr", ParseBinaryExpr(t))
        /\ UNCHANGED declared

\* A field, or a call of a method.
MethodArgs ==
    \E t \in Current :
        /\ At("methodArgs") /\ Leave(t)
        /\ GoOn(IF t = "lparen" THEN <<Call("parseCallArgs")>> ELSE <<>>)
        /\ UNCHANGED declared

-----------------------------------------------------------------------------
Init == /\ ctl = <<Activation("parse", <<Do("decls")>>, <<>>)>>
        /\ cache = <<>> /\ text = "more"
        /\ res = Node /\ errored = FALSE /\ declared = FALSE /\ open = <<>>

\* The recursion does not fit in the parser's own stack: the process ends.
OutOfStack == /\ ctl # <<>> /\ Len(ctl) = MaxDepth
              /\ \/ At("call") \/ At("expr")
                 \/ At("unary") /\ \E t \in Current : t \in {"minus", "not", "lparen"}
                 \/ At("operators") /\ res # Null /\ \E t \in Current : Argument < getPrec(t)
              /\ ctl' = <<>> /\ open' = <<>>
              /\ UNCHANGED <<cache, text, res, errored, declared>>

\* parse has returned.
Returned == ctl = <<>> /\ UNCHANGED vars

Expected == ExpectMet \/ ExpectFailed
Declaration == Parse \/ ParseAccess \/ ParseDecl \/ ExternalOrBody \/ List \/ More
               \/ ParseType \/ ParamNode \/ VarType \/ VarInit \/ VarData \/ VariableNode
               \/ FieldNode \/ ClassType \/ Members \/ Member \/ AddField
Statement == Statements \/ ParseStatement \/ ParseElse \/ ReturnValue
Expression == ParseUnaryOp \/ ExprEnds \/ ParseBinaryOp \/ MethodArgs

Next == Expected \/ MethodStep \/ Declaration \/ Statement \/ Expression
        \/ OutOfStack \/ Returned

\* One thread that runs until parse returns.
Spec == Init /\ [][Next]_vars /\ WF_vars(Next)

-----------------------------------------------------------------------------
(* Properties.                                                             *)

\* The steps, and what a method may return.
Methods == DOMAIN Body
Steps == {<<mode, t>> : mode \in {"need", "want", "skip", "typo", "late"}, t \in TokenKinds}
         \cup {<<mode, fn>> : mode \in {"call", "list", "more"}, fn \in Methods}
         \cup {<<mode, min>> : mode \in {"expr", "operators"}, min \in 0..8}
         \cup {<<"makeExpr", op>> : op \in DOMAIN Level}
         \cup {<<"varInit", typed>> : typed \in BOOLEAN}
         \cup {<<"varData", typed, init>> : typed \in BOOLEAN, init \in BOOLEAN}
         \cup {<<step>> : step \in {"nonNull", "child", "make", "pass", "parens", "decls",
                "access", "decl", "externalOrBody", "type", "param", "varType", "variable",
                "field", "classType", "members", "member", "addField", "statements",
                "statement", "else", "value", "unary", "methodArgs"}}
Results == [kind : {"null", "node", "expr", "type", "varData", "variable"},
            level : 0..10, sound : BOOLEAN, type : BOOLEAN, init : BOOLEAN]

Frames == [fn : Methods \cup {"parse", "parseExpr", "parseUnaryOp", "parseTernary",
                              "parseCall", "parseMemberAccess", "parseBinaryExpr"},
           todo : Seq(Steps), kids : Seq(Results)]

\* Every activation has a step left, one that its actions understand, and the
\* steps that look at a result find one of the kind they expect.
TypeOK == /\ ctl \in Seq(Frames) /\ Len(ctl) <= MaxDepth
          /\ \A i \in DOMAIN ctl : ctl[i].todo # <<>>
          /\ cache = <<>> \/ \E t \in Lexed : cache = <<t>>
          /\ text \in {"more", "end", "over"}
          /\ res \in Results /\ errored \in BOOLEAN /\ declared \in BOOLEAN
          /\ open \in Seq({"lparen", "lbrace", "rparen", "rbrace"})
          /\ At("param") => res.kind = "type"
          /\ At("variable") \/ At("field") => res.kind = "varData"

\* A method that returns null, for whatever reason along the recursion, has
\* had an error printed: no declaration is dropped silently.
NullReported == res.kind = "null" => errored

\* As long as no error has been printed, the brackets that the text has opened
\* and not closed are the ones that the recursion is waiting to see closed, in
\* that order; so a text without an error has balanced brackets.
Mentions(todo, t) == \E i \in DOMAIN todo :
    todo[i][1] \in {"need", "want", "skip"} /\ todo[i][2] = t
Awaited(todo) ==
    CASE Mentions(todo, "rparen") /\ ~Mentions(todo, "lparen") -> <<"lparen">>
      [] Mentions(todo, "rbrace") /\ ~Mentions(todo, "lbrace") -> <<"lbrace">>
      [] OTHER -> <<>>
BracketsMatch ==
    ~errored => open = FlattenSeq([i \in DOMAIN ctl |-> Awaited(ctl[i].todo)])

\* Precedence climbing builds the trees of the stratified grammar: no operand
\* binds less tightly than its operator's level allows, on either side.
PrecedenceKept == res.kind = "expr" => res.sound

\* A text in which no error is found is never read past its end: once the lexer
\* has answered END it is not asked again.
OverrunReported == text = "over" => errored

\* A variable in which no error was found has an initializer, as the grammar in
\* the comment on parseVariable says and as IREmitter::visitVariable relies on.
VariablesHaveInit == ~errored /\ res.kind = "variable" => res.init

\* The parser never goes round a loop without consuming a token.
Progress == []<>(cache = <<>> \/ ctl = <<>>)
=============================================================================
