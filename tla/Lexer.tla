------------------------------- MODULE Lexer -------------------------------
(***************************************************************************)
(* VSLLexer on every short text.  `buf` is the lexer's window over the     *)
(* source, the StringRef `text` of the code, with its location; the        *)
(* character at its end is current(), the one after it peek().  Each       *)
(* iteration of a loop is a step, and the token-less iterations of         *)
(* nextToken's own loop are steps too.  Whoever asks for tokens asks until *)
(* it gets END, as the parser and the lexer REPL do.                       *)
(*                                                                         *)
(* Characters are named by words; the letters can spell one keyword.       *)
(* Behind the text lies one NUL and behind that nothing the lexer may      *)
(* read: `far` is the farthest position it has looked at.                  *)
(***************************************************************************)
EXTENDS Integers, Sequences, FiniteSets

CONSTANTS Alphabet,    \* the characters of the texts
          MaxLength,   \* bound on their length
          Forms        \* what texts may contain beyond Handled's comments

ASSUME AlphabetAssumption == "NUL" \notin Alphabet
ASSUME LengthAssumption   == MaxLength \in Nat

VARIABLES text,    \* the source, without its NUL
          buf,     \* the window and its location
          mode,    \* which loop runs; "done" when END has been answered
          tokens,  \* what nextToken has returned
          warned,  \* where UNKNOWN_SYMBOL was printed
          far      \* the farthest position read

vars == <<text, buf, mode, tokens, warned, far>>

-----------------------------------------------------------------------------
(* Characters and kinds *)

Letters == {"i", "f"}
Digits  == {"0"}
Spaces  == {"space", "newline"}
Alnum   == Letters \cup Digits

\* The token a character is by itself.
Symbol == [plus |-> "PLUS", minus |-> "MINUS", star |-> "STAR", slash |-> "SLASH",
           percent |-> "PERCENT", equal |-> "ASSIGN", greater |-> "GREATER",
           less |-> "LESS", question |-> "QUESTION", lparen |-> "LPAREN",
           rparen |-> "RPAREN", lbrace |-> "LBRACE", rbrace |-> "RBRACE",
           comma |-> "COMMA", colon |-> "COLON", semicolon |-> "SEMICOLON",
           bang |-> "NOT", dot |-> "DOT"]

\* The second character that some can be followed by, and the token they make.
Second == [minus |-> "greater", equal |-> "equal", greater |-> "equal",
           less |-> "equal", bang |-> "equal", amp |-> "amp", bar |-> "bar"]
Double == [minus |-> "ARROW", equal |-> "EQUAL", greater |-> "GREATER_EQUAL",
           less |-> "LESS_EQUAL", bang |-> "NOT_EQUAL", amp |-> "AND", bar |-> "OR"]

\* getKeywordKind, for the one keyword that Letters can spell
KeywordKind(s) == IF s = <<"i", "f">> THEN "KW_IF" ELSE "IDENTIFIER"

-----------------------------------------------------------------------------
(* The window *)

At(i)   == IF i \in DOMAIN text THEN text[i] ELSE "NUL"
Current == At(buf.last)
Peek    == At(buf.last + 1)

Advance(b) == [b EXCEPT !.last = @ + 1]        \* next()

\* mutant: an empty window, { text.end(), 0 }.
ResetBuffer_Empty(b) ==
    [first |-> b.last + 1, last |-> b.last,
     line  |-> IF At(b.last) = "newline" THEN b.line + 1 ELSE b.line,
     col   |-> IF At(b.last) = "newline" THEN 0 ELSE b.col + (b.last - b.first + 1)]

\* mutant: one column, however long the window is.
ResetBuffer_OneColumn(b) ==
    [first |-> b.last + 1, last |-> b.last + 1,
     line  |-> IF At(b.last) = "newline" THEN b.line + 1 ELSE b.line,
     col   |-> IF At(b.last) = "newline" THEN 0 ELSE b.col + 1]

\* The window becomes the character after it. A newline counts only if it
\* is the last character of the window.
ResetBuffer(b) ==
    [first |-> b.last + 1, last |-> b.last + 1,
     line  |-> IF At(b.last) = "newline" THEN b.line + 1 ELSE b.line,
     col   |-> IF At(b.last) = "newline" THEN 0 ELSE b.col + (b.last - b.first + 1)]

Farther(i) == far' = IF i > far THEN i ELSE far
Reads      == Farther(buf.last)                \* current()
Peeks      == Farther(buf.last + 1)            \* peek(), of a character that is not NUL

CreateToken(kind, b) ==
    /\ tokens' = Append(tokens, [kind |-> kind, first |-> b.first, last |-> b.last,
                                 line |-> b.line, col |-> b.col])
    /\ buf' = ResetBuffer(b)
    /\ mode' = IF kind = "END" THEN "done" ELSE "scan"
    /\ UNCHANGED <<text, warned>>

Loop(m, b) ==
    /\ mode' = m
    /\ buf' = b
    /\ UNCHANGED <<text, tokens, warned>>

-----------------------------------------------------------------------------
(* nextToken *)

\* the while loop ends
ReadEnd ==
    /\ mode = "scan" /\ Current = "NUL"
    /\ Reads /\ CreateToken("END", buf)

IsPair    == Current \in DOMAIN Second /\ Peek = Second[Current]
IsComment == Current = "slash" /\ Peek \in {"slash", "star"}

ReadSymbol ==
    /\ mode = "scan" /\ Current \in DOMAIN Symbol /\ ~IsPair /\ ~IsComment
    /\ IF Current \in DOMAIN Second \cup {"slash"} THEN Peeks ELSE Reads
    /\ CreateToken(Symbol[Current], buf)

ReadPair ==
    /\ mode = "scan" /\ IsPair
    /\ Peeks /\ CreateToken(Double[Current], Advance(buf))

SkipSpace ==
    /\ mode = "scan" /\ Current \in Spaces
    /\ Reads /\ Loop("scan", ResetBuffer(buf))

\* A lone '&' or '|' as well as any other character: a warning, not an error.
IsUnknown == /\ Current \notin Alnum \cup Spaces \cup {"NUL"}
             /\ Current \notin DOMAIN Symbol
             /\ ~IsPair

\* mutant: an operator's first character that stands alone is not reported.
SkipUnknown_Lone ==
    /\ mode = "scan" /\ IsUnknown
    /\ IF Current \in DOMAIN Second THEN Peeks ELSE Reads
    /\ warned' = IF Current \in DOMAIN Second THEN warned ELSE warned \cup {buf.last}
    /\ buf' = ResetBuffer(buf)
    /\ UNCHANGED <<text, mode, tokens>>

\* mutant: the loop goes on without resetting the buffer.
SkipUnknown_Stays ==
    /\ mode = "scan" /\ IsUnknown
    /\ IF Current \in DOMAIN Second THEN Peeks ELSE Reads
    /\ warned' = warned \cup {buf.last}
    /\ UNCHANGED <<text, buf, mode, tokens>>

SkipUnknown ==
    /\ mode = "scan" /\ IsUnknown
    /\ IF Current \in DOMAIN Second THEN Peeks ELSE Reads
    /\ warned' = warned \cup {buf.last}
    /\ buf' = ResetBuffer(buf)
    /\ UNCHANGED <<text, mode, tokens>>

-----------------------------------------------------------------------------
(* Words and numbers *)

StartWord   == mode = "scan" /\ Current \in Letters /\ Reads /\ Loop("word", buf)
StartNumber == mode = "scan" /\ Current \in Digits /\ Reads /\ Loop("number", buf)

InWord_Alpha == Peek \in Letters     \* mutant: isalpha for isalnum
InWord_Separator == Peek \notin Spaces \cup DOMAIN Symbol    \* mutant: the NUL is none

InWord   == Peek \in Alnum     \* isalnum(peek())
InNumber == Peek \in Digits    \* isdigit(peek())

LexIdentOrKeyword ==
    /\ mode = "word" /\ Peeks
    /\ IF InWord THEN Loop("word", Advance(buf))
       ELSE CreateToken(KeywordKind(SubSeq(text, buf.first, buf.last)), buf)

LexNumber ==
    /\ mode = "number" /\ Peeks
    /\ IF InNumber THEN Loop("number", Advance(buf)) ELSE CreateToken("NUMBER", buf)

-----------------------------------------------------------------------------
(* Comments *)

StartLineComment ==
    /\ mode = "scan" /\ Current = "slash" /\ Peek = "slash"
    /\ Peeks /\ Loop("line", buf)

LineEnds(i) == At(i + 1) \in {"newline", "NUL"}    \* peek() ends the comment

\* do next(); while (...)
LexLineComment ==
    /\ mode = "line" /\ Farther(buf.last + 2)
    /\ Loop(IF LineEnds(buf.last + 1) THEN "lineend" ELSE "line", Advance(buf))

\* lexLineComment resets the buffer and so does nextToken after it: the second
\* of them is meant for the newline and takes what is there.
EndLineComment ==
    /\ mode = "lineend" /\ Peeks
    /\ Loop("scan", ResetBuffer(ResetBuffer(buf)))

StartBlockComment ==
    /\ mode = "scan" /\ Current = "slash" /\ Peek = "star"
    /\ Peeks /\ Loop("block", ResetBuffer(buf))

\* the loop's condition, with the window at i: any '*', or a '/' next
BlockEnds(i) == At(i) \in {"NUL", "star"} \/ At(i + 1) = "slash"

\* do resetBuffer(); while (...)
LexBlockComment ==
    /\ mode = "block"
    /\ Farther(IF At(buf.last + 1) \in {"NUL", "star"} THEN buf.last + 1 ELSE buf.last + 2)
    /\ Loop(IF BlockEnds(buf.last + 1) THEN "blockend" ELSE "block", ResetBuffer(buf))

\* next() takes the '/', and nextToken resets the buffer.
EndBlockComment ==
    /\ mode = "blockend" /\ Peeks
    /\ Loop("scan", ResetBuffer(Advance(buf)))

-----------------------------------------------------------------------------
(* Texts *)

\* Comments that the two loops above can handle, by their form: a line comment
\* ends in a newline, and what a block comment holds has neither '*' nor '/'.
LineCommentsEnd(t) ==
    \A i \in 1..Len(t) - 1 :
        t[i] = "slash" /\ t[i+1] = "slash" => \E j \in i+2..Len(t) : t[j] = "newline"

BlockCommentsEnd(t) ==
    \A i \in 1..Len(t) - 1 :
        t[i] = "slash" /\ t[i+1] = "star" =>
            \E e \in i+2..Len(t) - 1 :
                /\ t[e] = "star" /\ t[e+1] = "slash"
                /\ \A k \in i+2..e-1 : t[k] \notin {"star", "slash"}

Handled(t) ==
    /\ "CommentAtEnd" \in Forms \/ LineCommentsEnd(t)
    /\ "CommentBody" \in Forms \/ BlockCommentsEnd(t)

Texts == UNION {[1..n -> Alphabet] : n \in 0..MaxLength}

Init ==
    /\ text \in {t \in Texts : Handled(t)}
    /\ buf = [first |-> 1, last |-> 1, line |-> 1, col |-> 1]
    /\ mode = "scan"
    /\ tokens = <<>>
    /\ warned = {}
    /\ far = 1

\* The lexer has read no farther than the NUL. What it does when it has is not
\* determined by the text, and behaviours end there.
InText == far <= Len(text) + 1

Stopped == mode = "done" \/ ~InText

Step ==
    \/ ReadEnd \/ ReadSymbol \/ ReadPair \/ SkipSpace \/ SkipUnknown
    \/ StartWord \/ LexIdentOrKeyword \/ StartNumber \/ LexNumber
    \/ StartLineComment \/ LexLineComment \/ EndLineComment
    \/ StartBlockComment \/ LexBlockComment \/ EndBlockComment

Next == \/ InText /\ Step
        \/ Stopped /\ UNCHANGED vars

Spec     == Init /\ [][Next]_vars
FairSpec == Spec /\ WF_vars(Next)

-----------------------------------------------------------------------------
(* What the tokens of a text are, from left to right *)

Length == Len(text)

\* The last position of the longest run of characters in S that starts at i.
RunEnd(S, i) ==
    CHOOSE j \in i..Length : /\ \A k \in i..j : text[k] \in S
                            /\ At(j + 1) \notin S

\* Where what starts at i ends: a comment, a word, a number, a pair or a character.
LexemeEnd(i) ==
    LET Closers == {e \in i+3..Length : text[e-1] = "star" /\ text[e] = "slash"}
    IN  CASE At(i) = "slash" /\ At(i+1) = "slash" -> RunEnd(Alphabet \ {"newline"}, i)
          [] At(i) = "slash" /\ At(i+1) = "star" ->
                IF Closers = {} THEN Length
                ELSE CHOOSE e \in Closers : \A d \in Closers : e <= d
          [] At(i) \in Letters -> RunEnd(Alnum, i)
          [] At(i) \in Digits -> RunEnd(Digits, i)
          [] At(i) \in DOMAIN Second /\ At(i+1) = Second[At(i)] -> i + 1
          [] OTHER -> i

\* The positions at which something starts.
Starts ==
    LET From[i \in 1..Length+1] ==
            {i} \cup (IF i > Length THEN {} ELSE From[LexemeEnd(i) + 1])
    IN  From[1]

\* The kind of what starts at i: a token's, or that it makes none.
KindAt(i) ==
    LET c == At(i)
    IN  CASE c = "NUL" -> "END"
          [] c \in Spaces -> "space"
          [] c = "slash" /\ At(i+1) \in {"slash", "star"} -> "comment"
          [] c \in Letters -> KeywordKind(SubSeq(text, i, LexemeEnd(i)))
          [] c \in Digits -> "NUMBER"
          [] OTHER -> IF LexemeEnd(i) > i THEN Double[c]
                      ELSE IF c \in DOMAIN Symbol THEN Symbol[c] ELSE "unknown"

\* How far the lexer has done with the text.
Done == IF mode = "done" THEN Length + 1 ELSE buf.first - 1

-----------------------------------------------------------------------------
(* Properties *)

\* The window is a window: it is never empty, locations count from line 1 on,
\* and what is recorded are tokens of the kinds the code has.
TypeOK ==
    /\ text \in Seq(Alphabet) /\ Length <= MaxLength
    /\ buf \in [first : Nat \ {0}, last : Nat \ {0}, line : Nat \ {0}, col : Nat]
    /\ buf.first <= buf.last
    /\ mode \in {"scan", "word", "number", "line", "lineend", "block", "blockend", "done"}
    /\ tokens \in Seq([kind : {Symbol[c] : c \in DOMAIN Symbol}
                                \cup {Double[c] : c \in DOMAIN Double}
                                \cup {"END", "NUMBER", "IDENTIFIER", "KW_IF"},
                        first : Nat \ {0}, last : Nat \ {0}, line : Nat \ {0}, col : Nat])
    /\ warned \in SUBSET Nat
    /\ far \in Nat

\* nextToken answers the tokens of the text, each of the longest form its first
\* character allows, in their order and without leaving one out: comments and
\* blanks hide nothing but themselves.
TokensMatch ==
    LET Wanted == {i \in Starts : i <= Done /\ KindAt(i) \notin {"space", "comment", "unknown"}}
    IN  /\ \A n \in DOMAIN tokens :
              LET t == tokens[n]
              IN  /\ t.first \in Wanted
                  /\ t.kind = KindAt(t.first)
                  /\ t.kind # "END" => t.last = LexemeEnd(t.first)
                  /\ n > 1 => tokens[n-1].first < t.first
        /\ Len(tokens) = Cardinality(Wanted)

\* A token's location says where in the text it is, whatever was skipped before
\* it: the line exactly, the column from 1 on the first line and from 0 on the others.
LocationsExact ==
    \A n \in DOMAIN tokens :
        LET t        == tokens[n]
            Newlines == {i \in 1..t.first - 1 : text[i] = "newline"}
        IN  /\ t.line = 1 + Cardinality(Newlines)
            /\ \/ Newlines = {} /\ t.col = t.first
               \/ \E i \in Newlines : /\ \A j \in Newlines : j <= i
                                       /\ t.col = t.first - i - 1

\* A character that belongs to no token is reported, and nothing else is: what
\* the compiler skips silently is blanks and comments.
UnknownReported ==
    warned = {i \in Starts : i <= Done /\ KindAt(i) = "unknown"}

\* Every text ends in END: no loop of the lexer stands still. (nextToken is
\* called until it has answered END.)
Finishes == <>(mode = "done")

=============================================================================
