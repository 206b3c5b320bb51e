---------------------------- MODULE LexerProofs ----------------------------
(***************************************************************************)
(* Whatever the text is, if its comments end as lexLineComment and         *)
(* lexBlockComment expect, the lexer reads no farther than the NUL behind  *)
(* it and answers its tokens, with their locations, and reports the rest.  *)
(*                                                                         *)
(* For the first, WindowInv says for each mode what lies ahead of the      *)
(* window: the two loops do not look for the end of the text where it      *)
(* matters, and that they stop in time is the comment's doing.  For the    *)
(* others, LexInv adds where the window is among the lexemes of the text   *)
(* (Placed), that its location is exact (Located), and what has been       *)
(* recorded of the lexemes behind it (Recorded).                           *)
(***************************************************************************)
EXTENDS Lexer, FiniteSetTheorems, SequenceTheorems, WellFoundedInduction, TLAPS

\* A newline, with at least one character between it and the window.
LineAhead(i) == \E j \in i+2..Length : text[j] = "newline"

\* A star that stops the loop, with at least one character behind it.
BlockAhead(i) == \E e \in i+1..Length - 1 : text[e] = "star"

\* Where the window may be in each mode, and what is in front of it.
Ahead ==
    /\ mode = "scan" => buf.last <= Length + 1
    /\ mode \in {"word", "number"} => buf.last <= Length
    /\ mode = "line" => LineAhead(buf.last)
    /\ mode \in {"lineend", "blockend"} => buf.last + 1 <= Length
    /\ mode = "block" => BlockAhead(buf.last)

Window == [first : Nat \ {0}, last : Nat \ {0}, line : Nat \ {0}, col : Nat]
Whole(b) == b \in Window /\ b.first <= b.last

Typed == text \in Seq(Alphabet) /\ Whole(buf) /\ far \in Nat

CommentsEnd == LineCommentsEnd(text) /\ BlockCommentsEnd(text)

WindowInv == Typed /\ CommentsEnd /\ Ahead /\ InText

-----------------------------------------------------------------------------
(* Characters and the window *)

\* A character that is not the NUL is in the text, and every position of the
\* text holds one.
LEMMA CharInText ==
    ASSUME Typed, NEW i \in Nat \ {0}
    PROVE  /\ At(i) # "NUL" => i <= Length
           /\ i <= Length => At(i) = text[i] /\ At(i) # "NUL"
<1>1. Length \in Nat /\ DOMAIN text = 1..Length
    BY DEF Typed, Length
<1>2. ASSUME i <= Length PROVE text[i] \in Alphabet
    BY <1>1, <1>2 DEF Typed, Length
<1> QED
    BY <1>1, <1>2, AlphabetAssumption DEF At

\* What resetting the buffer and next() do to the window.
LEMMA ResetMoves ==
    ASSUME NEW b, Whole(b)
    PROVE  Whole(ResetBuffer(b)) /\ ResetBuffer(b).last = b.last + 1
BY DEF ResetBuffer, Whole, Window

LEMMA AdvanceMoves ==
    ASSUME NEW b, Whole(b)
    PROVE  Whole(Advance(b)) /\ Advance(b).last = b.last + 1
BY DEF Advance, Whole, Window

\* A step that reads up to i, within the text or its NUL, and keeps the rest.
LEMMA Keeps ==
    ASSUME WindowInv, NEW i \in Nat, i <= Length + 1, Farther(i),
           text' = text, Whole(buf'), Ahead'
    PROVE  WindowInv'
<1>1. Length \in Nat
    BY DEF WindowInv, Typed, Length
<1>2. far' \in Nat /\ far' <= Length + 1
    BY <1>1 DEF WindowInv, Typed, Farther, InText, Length
<1>3. CommentsEnd'
    BY DEF WindowInv, CommentsEnd, LineCommentsEnd, BlockCommentsEnd
<1> QED
    BY <1>2, <1>3 DEF WindowInv, Typed, InText, Length

-----------------------------------------------------------------------------
(* The steps of nextToken outside comments *)

\* A token behind a character of the text: the window moves to the character
\* after it, the NUL at the farthest.
LEMMA TokenKeeps ==
    ASSUME WindowInv, NEW kind, NEW b, Whole(b), NEW i \in Nat, i <= Length + 1,
           Farther(i), CreateToken(kind, b), kind = "END" \/ b.last <= Length
    PROVE  WindowInv'
<1>1. text' = text /\ Whole(buf') /\ buf'.last = b.last + 1
    BY ResetMoves DEF CreateToken
<1>2. Length \in Nat /\ Length' = Length
    BY <1>1 DEF WindowInv, Typed, Length
<1>3. Ahead'
    BY <1>1, <1>2 DEF CreateToken, Ahead, Whole, Window
<1> QED
    BY <1>1, <1>3, Keeps

\* The same for a step of a loop, to a mode outside comments.
LEMMA LoopKeeps ==
    ASSUME WindowInv, NEW m \in {"scan", "word", "number"}, NEW b, Whole(b),
           NEW i \in Nat, i <= Length + 1, Farther(i), Loop(m, b),
           b.last <= Length \/ (m = "scan" /\ b.last <= Length + 1)
    PROVE  WindowInv'
<1>1. text' = text /\ Whole(buf') /\ buf' = b /\ mode' = m
    BY DEF Loop
<1>2. Length \in Nat /\ Length' = Length
    BY <1>1 DEF WindowInv, Typed, Length
<1>3. Ahead'
    BY <1>1, <1>2 DEF Ahead, Whole, Window
<1> QED
    BY <1>1, <1>3, Keeps

\* Everything but a comment.
LEMMA TokenStep ==
    ASSUME WindowInv,
           ReadEnd \/ ReadSymbol \/ ReadPair \/ SkipSpace \/ SkipUnknown
           \/ StartWord \/ LexIdentOrKeyword \/ StartNumber \/ LexNumber
    PROVE  WindowInv'
<1> DEFINE i == buf.last
<1>1. Typed /\ Ahead /\ Length \in Nat /\ i \in Nat \ {0} /\ i + 1 \in Nat \ {0}
    BY DEF WindowInv, Typed, Whole, Window, Length
<1>2. Current # "NUL" => i <= Length
    BY <1>1, CharInText DEF Current
<1>3. i <= Length /\ Peek # "NUL" => i + 1 <= Length
    BY <1>1, CharInText DEF Peek
<1>4. Whole(buf) /\ Whole(Advance(buf)) /\ Advance(buf).last = i + 1
    BY <1>1, AdvanceMoves DEF Typed
<1>5. Whole(ResetBuffer(buf)) /\ ResetBuffer(buf).last = i + 1
    BY <1>4, ResetMoves
<1> HIDE DEF i
<1>6. CASE ReadEnd
    <2>1. i <= Length + 1
        BY <1>1, <1>6 DEF ReadEnd, Ahead, i
    <2> QED
        BY <1>1, <1>4, <1>6, <2>1, TokenKeeps DEF ReadEnd, Reads, i
<1>7. CASE ReadSymbol
    <2>1. Current # "NUL"
        BY <1>7 DEF ReadSymbol, Symbol
    <2>2. PICK j \in {i, i + 1} : Farther(j)
        BY <1>7 DEF ReadSymbol, Reads, Peeks, i
    <2> QED
        BY <1>1, <1>2, <1>4, <1>7, <2>1, <2>2, TokenKeeps DEF ReadSymbol, i
<1>8. CASE ReadPair
    <2>1. Current # "NUL" /\ Peek # "NUL"
        BY <1>8 DEF ReadPair, IsPair, Second
    <2> QED
        BY <1>1, <1>2, <1>3, <1>4, <1>8, <2>1, TokenKeeps DEF ReadPair, Peeks, i
<1>9. CASE SkipSpace
    <2>1. Current # "NUL"
        BY <1>9 DEF SkipSpace, Spaces
    <2> QED
        BY <1>1, <1>2, <1>5, <1>9, <2>1, LoopKeeps DEF SkipSpace, Reads, i
<1>10. CASE SkipUnknown
    <2>1. Current # "NUL"
        BY <1>10 DEF SkipUnknown, IsUnknown
    <2>2. PICK j \in {i, i + 1} : Farther(j)
        BY <1>10 DEF SkipUnknown, Reads, Peeks, i
    <2>3. text' = text /\ buf' = ResetBuffer(buf) /\ mode' = "scan"
        BY <1>10 DEF SkipUnknown
    <2>4. Ahead'
        BY <1>1, <1>2, <1>5, <2>1, <2>3 DEF Ahead, Length
    <2> QED
        BY <1>1, <1>2, <1>5, <2>1, <2>2, <2>3, <2>4, Keeps
<1>11. CASE StartWord
    <2>1. Current # "NUL"
        BY <1>11 DEF StartWord, Letters
    <2> QED
        BY <1>1, <1>2, <1>4, <1>11, <2>1, LoopKeeps DEF StartWord, Reads, i
<1>12. CASE StartNumber
    <2>1. Current # "NUL"
        BY <1>12 DEF StartNumber, Digits
    <2> QED
        BY <1>1, <1>2, <1>4, <1>12, <2>1, LoopKeeps DEF StartNumber, Reads, i
<1>13. CASE LexIdentOrKeyword
    <2>1. i <= Length /\ Farther(i + 1)
        BY <1>1, <1>13 DEF LexIdentOrKeyword, Peeks, Ahead, i
    <2>2. InWord => Peek # "NUL"
        BY DEF InWord, Alnum, Letters, Digits
    <2>3. CASE InWord
        BY <1>1, <1>3, <1>4, <1>13, <2>1, <2>2, <2>3, LoopKeeps DEF LexIdentOrKeyword
    <2>4. CASE ~InWord
        BY <1>1, <1>4, <1>13, <2>1, <2>4, TokenKeeps DEF LexIdentOrKeyword, i
    <2> QED
        BY <2>3, <2>4
<1>14. CASE LexNumber
    <2>1. i <= Length /\ Farther(i + 1)
        BY <1>1, <1>14 DEF LexNumber, Peeks, Ahead, i
    <2>2. InNumber => Peek # "NUL"
        BY DEF InNumber, Digits
    <2>3. CASE InNumber
        BY <1>1, <1>3, <1>4, <1>14, <2>1, <2>2, <2>3, LoopKeeps DEF LexNumber
    <2>4. CASE ~InNumber
        BY <1>1, <1>4, <1>14, <2>1, <2>4, TokenKeeps DEF LexNumber, i
    <2> QED
        BY <2>3, <2>4
<1> QED
    BY <1>6, <1>7, <1>8, <1>9, <1>10, <1>11, <1>12, <1>13, <1>14

-----------------------------------------------------------------------------
(* Comments *)

\* lexLineComment stops before the newline because it has not passed it.
LEMMA LineStep ==
    ASSUME WindowInv, StartLineComment \/ LexLineComment \/ EndLineComment
    PROVE  WindowInv'
<1> DEFINE i == buf.last
<1>1. Typed /\ Ahead /\ CommentsEnd /\ Length \in Nat /\ i \in Nat \ {0}
        /\ i + 1 \in Nat \ {0} /\ i + 2 \in Nat \ {0}
    BY DEF WindowInv, Typed, Whole, Window, Length
<1>2. Whole(buf) /\ Whole(Advance(buf)) /\ Advance(buf).last = i + 1
    BY <1>1, AdvanceMoves DEF Typed
<1> HIDE DEF i
<1>3. CASE StartLineComment
    <2>1. At(i) = "slash" /\ At(i + 1) = "slash" /\ Farther(i + 1)
        BY <1>3 DEF StartLineComment, Current, Peek, Peeks, i
    <2>2. i + 1 <= Length /\ text[i] = "slash" /\ text[i+1] = "slash"
        BY <1>1, <2>1, CharInText
    <2>3. LineAhead(i)
        BY <1>1, <2>2 DEF CommentsEnd, LineCommentsEnd, LineAhead, Length
    <2>4. text' = text /\ buf' = buf /\ mode' = "line"
        BY <1>3 DEF StartLineComment, Loop
    <2>5. Ahead'
        BY <2>3, <2>4 DEF Ahead, LineAhead, Length, i
    <2> QED
        BY <1>1, <1>2, <2>1, <2>2, <2>4, <2>5, Keeps
<1>4. CASE LexLineComment
    <2>1. PICK j \in i+2..Length : text[j] = "newline"
        BY <1>1, <1>4 DEF LexLineComment, Ahead, LineAhead, i
    <2>2. i + 2 <= Length /\ Farther(i + 2)
        BY <1>1, <1>4, <2>1 DEF LexLineComment, i
    <2>3. text' = text /\ buf' = Advance(buf)
            /\ mode' = IF LineEnds(i + 1) THEN "lineend" ELSE "line"
        BY <1>4 DEF LexLineComment, Loop, i
    <2>4. At(i + 2) = text[i + 2]
        BY <1>1, <2>2, CharInText
    <2>5. ASSUME ~LineEnds(i + 1) PROVE LineAhead(i + 1)
        <3>1. j # i + 2
            BY <1>1, <2>1, <2>4, <2>5 DEF LineEnds
        <3>2. j \in (i + 1) + 2..Length
            BY <1>1, <2>1, <3>1
        <3> QED
            BY <2>1, <3>2 DEF LineAhead
    <2>6. Ahead'
        <3>1. Length' = Length
            BY <2>3 DEF Length
        <3>2. ASSUME mode' = "line" PROVE LineAhead(buf.last)'
            BY <1>2, <2>3, <2>5, <3>1, <3>2 DEF LineAhead
        <3> QED
            BY <1>1, <1>2, <2>2, <2>3, <3>1, <3>2 DEF Ahead
    <2> QED
        BY <1>1, <1>2, <2>2, <2>3, <2>6, Keeps
<1>5. CASE EndLineComment
    <2>1. i + 1 <= Length /\ Farther(i + 1)
        BY <1>1, <1>5 DEF EndLineComment, Peeks, Ahead, i
    <2>2. Whole(ResetBuffer(ResetBuffer(buf))) /\ ResetBuffer(ResetBuffer(buf)).last = i + 2
        BY <1>1, <1>2, ResetMoves DEF i
    <2> QED
        BY <1>1, <1>5, <2>1, <2>2, LoopKeeps DEF EndLineComment
<1> QED
    BY <1>3, <1>4, <1>5

\* lexBlockComment stops at the star of the closing "*/" if not before.
LEMMA BlockStep ==
    ASSUME WindowInv, StartBlockComment \/ LexBlockComment \/ EndBlockComment
    PROVE  WindowInv'
<1> DEFINE i == buf.last
<1>1. Typed /\ Ahead /\ CommentsEnd /\ Length \in Nat /\ i \in Nat \ {0}
        /\ i + 1 \in Nat \ {0} /\ i + 2 \in Nat \ {0}
    BY DEF WindowInv, Typed, Whole, Window, Length
<1>2. Whole(buf) /\ Whole(Advance(buf)) /\ Advance(buf).last = i + 1
    BY <1>1, AdvanceMoves DEF Typed
<1>3. Whole(ResetBuffer(buf)) /\ ResetBuffer(buf).last = i + 1
    BY <1>2, ResetMoves
<1> HIDE DEF i
<1>4. CASE StartBlockComment
    <2>1. At(i) = "slash" /\ At(i + 1) = "star" /\ Farther(i + 1)
        BY <1>4 DEF StartBlockComment, Current, Peek, Peeks, i
    <2>2. i + 1 <= Length /\ text[i] = "slash" /\ text[i+1] = "star"
        BY <1>1, <2>1, CharInText
    <2>3. PICK e \in i+2..Length - 1 : text[e] = "star"
        BY <1>1, <2>2 DEF CommentsEnd, BlockCommentsEnd, Length
    <2>4. text' = text /\ buf' = ResetBuffer(buf) /\ mode' = "block"
        BY <1>4 DEF StartBlockComment, Loop
    <2>5. buf'.last = i + 1 /\ Length' = Length
        BY <1>3, <2>4 DEF Length
    <2>6. e \in (i + 1) + 1..Length - 1
        BY <1>1, <2>3
    <2>7. Ahead'
        BY <2>3, <2>4, <2>5, <2>6 DEF Ahead, BlockAhead
    <2> QED
        BY <1>1, <1>3, <2>1, <2>2, <2>4, <2>7, Keeps
<1>5. CASE LexBlockComment
    <2>1. PICK e \in i+1..Length - 1 : text[e] = "star"
        BY <1>1, <1>5 DEF LexBlockComment, Ahead, BlockAhead, i
    <2>2. i + 2 <= Length /\ At(i + 1) = text[i + 1] /\ At(i + 2) = text[i + 2]
        BY <1>1, <2>1, CharInText
    <2>3. PICK r \in {i + 1, i + 2} : Farther(r)
        BY <1>5 DEF LexBlockComment, i
    <2>4. text' = text /\ buf' = ResetBuffer(buf)
            /\ mode' = IF BlockEnds(i + 1) THEN "blockend" ELSE "block"
        BY <1>5 DEF LexBlockComment, Loop, i
    <2>5. ASSUME ~BlockEnds(i + 1) PROVE e # i + 1
        BY <2>1, <2>2, <2>5 DEF BlockEnds
    <2>6. buf'.last = i + 1 /\ Length' = Length
        BY <1>3, <2>4 DEF Length
    <2>7. ASSUME mode' = "block" PROVE BlockAhead(buf.last)'
        <3>1. e \in (i + 1) + 1..Length - 1
            BY <1>1, <2>1, <2>4, <2>5, <2>7
        <3> QED
            BY <2>1, <2>4, <2>6, <3>1 DEF BlockAhead
    <2>8. Ahead'
        BY <1>1, <2>2, <2>4, <2>6, <2>7 DEF Ahead
    <2> QED
        BY <1>1, <1>3, <2>2, <2>3, <2>4, <2>8, Keeps
<1>6. CASE EndBlockComment
    <2>1. i + 1 <= Length /\ Farther(i + 1)
        BY <1>1, <1>6 DEF EndBlockComment, Peeks, Ahead, i
    <2>2. Whole(ResetBuffer(Advance(buf))) /\ ResetBuffer(Advance(buf)).last = i + 2
        BY <1>1, <1>2, ResetMoves
    <2> QED
        BY <1>1, <1>6, <2>1, <2>2, LoopKeeps DEF EndBlockComment
<1> QED
    BY <1>4, <1>5, <1>6

-----------------------------------------------------------------------------

LEMMA WindowInit ==
    ASSUME Init, "CommentAtEnd" \notin Forms, "CommentBody" \notin Forms
    PROVE  WindowInv
<1>1. text \in Seq(Alphabet)
    <2>1. PICK n \in 0..MaxLength : text \in [1..n -> Alphabet]
        BY DEF Init, Texts
    <2> QED
        BY <2>1, LengthAssumption, SeqDef
<1>2. CommentsEnd
    BY DEF Init, Handled, CommentsEnd
<1>3. Whole(buf) /\ buf.last = 1 /\ far = 1 /\ mode = "scan"
    BY DEF Init, Whole, Window
<1>4. Length \in Nat
    BY <1>1 DEF Length
<1> QED
    BY <1>1, <1>2, <1>3, <1>4 DEF WindowInv, Typed, Ahead, InText, Length

\* Whatever the text, the alphabet and the length: if comments have the form that
\* Handled describes, current() and peek() are called for characters of the text
\* and its NUL only.
THEOREM ReadsOnlyTheText ==
    ASSUME "CommentAtEnd" \notin Forms, "CommentBody" \notin Forms
    PROVE  Spec => []InText
<1>1. Init => WindowInv
    BY WindowInit
<1>2. WindowInv /\ [Next]_vars => WindowInv'
    <2> SUFFICES ASSUME WindowInv, [Next]_vars PROVE WindowInv'
        OBVIOUS
    <2>1. CASE Step
        BY <2>1, TokenStep, LineStep, BlockStep DEF Step
    <2>2. CASE UNCHANGED vars
        BY <2>2 DEF vars, WindowInv, Typed, CommentsEnd, LineCommentsEnd, BlockCommentsEnd,
                    Ahead, LineAhead, BlockAhead, InText, Length
    <2> QED
        BY <2>1, <2>2 DEF Next
<1>3. WindowInv => InText
    BY DEF WindowInv
<1> QED
    BY <1>1, <1>2, <1>3, PTL DEF Spec

-----------------------------------------------------------------------------
(* Where the lexemes of a text end *)

LEMMA LeastNat ==
    ASSUME NEW S, S \subseteq Nat, S # {}
    PROVE  \E x \in S : \A y \in S : x <= y
<1>1. PICK R : IsWellFoundedOn(R, Nat) /\ R = {ss \in Nat \X Nat : ss[1] < ss[2]}
    BY NatLessThanWellFounded DEF OpToRel
<1>2. PICK x \in S : \A y \in S : ~ (<<y, x>> \in R)
    BY <1>1, WFMin
<1>3. ASSUME NEW y \in S, y < x
      PROVE  FALSE
    <2>1. <<y, x>> \in Nat \X Nat /\ <<y, x>>[1] < <<y, x>>[2]
        BY <1>3
    <2> QED
        BY <1>1, <1>2, <2>1
<1>4. \A y \in S : x <= y
    BY <1>3
<1> QED
    BY <1>4

LEMMA SameText ==
    ASSUME text' = text
    PROVE  /\ Length' = Length /\ Starts' = Starts
           /\ \A i : /\ At(i)' = At(i) /\ LexemeEnd(i)' = LexemeEnd(i)
                     /\ KindAt(i)' = KindAt(i)
<1>1. Length' = Length /\ \A i : At(i)' = At(i)
    BY DEF Length, At
<1>2. \A i : LexemeEnd(i)' = LexemeEnd(i)
    BY DEF LexemeEnd, RunEnd, At, Length
<1>3. \A i : KindAt(i)' = KindAt(i)
    BY DEF KindAt, LexemeEnd, RunEnd, At, Length
<1>4. Starts' = Starts
    BY DEF Starts, LexemeEnd, RunEnd, At, Length
<1> QED
    BY <1>1, <1>2, <1>3, <1>4

\* A run ends where its characters do, and nowhere else.
RunsTo(S, i, j) == j \in i..Length /\ (\A k \in i..j : text[k] \in S) /\ At(j + 1) \notin S

LEMMA RunFacts ==
    ASSUME Typed, NEW S, "NUL" \notin S, NEW i \in 1..Length, text[i] \in S
    PROVE  RunsTo(S, i, RunEnd(S, i))
<1>1. Length \in Nat
    BY DEF Typed, Length
<1> DEFINE Ends == {j \in i..Length : At(j + 1) \notin S}
<1>2. Ends \subseteq Nat /\ Length \in Ends
    <2>1. At(Length + 1) = "NUL"
        BY <1>1 DEF At, Typed, Length
    <2> QED
        BY <1>1, <2>1
<1>3. PICK m \in Ends : \A j \in Ends : m <= j
    <2>1. Ends # {}
        BY <1>2
    <2> HIDE DEF Ends
    <2> QED
        BY <1>2, <2>1, LeastNat
<1>4. ASSUME NEW k \in i..m PROVE text[k] \in S
    <2>1. CASE k = i
        BY <2>1
    <2>2. CASE k # i
        <3>1. k - 1 \in i..Length /\ ~(m <= k - 1) /\ (k - 1) + 1 = k /\ k \in 1..Length
            BY <1>1, <1>3, <2>2
        <3>2. At(k) \in S
            BY <1>3, <3>1
        <3>3. At(k) = text[k]
            BY <1>1, <3>1 DEF At, Typed, Length
        <3> QED
            BY <3>2, <3>3
    <2> QED
        BY <2>1, <2>2
<1>5. RunsTo(S, i, m)
    BY <1>3, <1>4 DEF RunsTo
<1>6. \E j \in i..Length : (\A k \in i..j : text[k] \in S) /\ At(j + 1) \notin S
    BY <1>5 DEF RunsTo
<1> QED
    BY <1>6 DEF RunEnd, RunsTo

LEMMA RunUnique ==
    ASSUME Typed, NEW S, "NUL" \notin S, NEW i \in 1..Length, NEW j, RunsTo(S, i, j)
    PROVE  RunEnd(S, i) = j
<1>1. Length \in Nat /\ j \in i..Length
    BY DEF Typed, Length, RunsTo
<1>2. PICK m : m = RunEnd(S, i)
    OBVIOUS
<1>3. RunsTo(S, i, m)
    <2>1. text[i] \in S
        BY <1>1 DEF RunsTo
    <2> QED
        BY <1>2, <2>1, RunFacts
<1>4. \A k \in i..Length : k + 1 <= Length => At(k + 1) = text[k + 1]
    BY <1>1 DEF At, Typed, Length
<1>5. ASSUME j < m PROVE FALSE
    <2>1. j + 1 \in i..m /\ j + 1 <= Length
        BY <1>1, <1>3, <1>5 DEF RunsTo
    <2> QED
        BY <1>1, <1>3, <1>4, <2>1 DEF RunsTo
<1>6. ASSUME m < j PROVE FALSE
    <2>1. m + 1 \in i..j /\ m + 1 <= Length /\ m \in i..Length
        BY <1>1, <1>3, <1>6 DEF RunsTo
    <2> QED
        BY <1>3, <1>4, <2>1 DEF RunsTo
<1>7. m \in i..Length
    BY <1>3 DEF RunsTo
<1> QED
    BY <1>1, <1>2, <1>5, <1>6, <1>7

\* What a lexeme is depends on its first two characters.
IsPairAt(i) == At(i) \in DOMAIN Second /\ At(i + 1) = Second[At(i)]

LEMMA SecondFacts ==
    /\ DOMAIN Second = {"minus", "equal", "greater", "less", "bang", "amp", "bar"}
    /\ \A c \in DOMAIN Second : Second[c] \in {"greater", "equal", "amp", "bar"}
BY DEF Second

LEMMA LexemeCases ==
    ASSUME NEW i
    PROVE  /\ At(i) = "slash" /\ At(i + 1) = "slash" =>
                LexemeEnd(i) = RunEnd(Alphabet \ {"newline"}, i)
           /\ At(i) \in Letters => LexemeEnd(i) = RunEnd(Alnum, i)
           /\ At(i) \in Digits => LexemeEnd(i) = RunEnd(Digits, i)
           /\ IsPairAt(i) => LexemeEnd(i) = i + 1
           /\ At(i) \notin Alnum /\ ~IsPairAt(i)
              /\ ~(At(i) = "slash" /\ At(i + 1) \in {"slash", "star"}) => LexemeEnd(i) = i
<1>1. PICK c, d : c = At(i) /\ d = At(i + 1)
    OBVIOUS
<1>2. c \in Letters => c # "slash"
    BY DEF Letters
<1>3. c \in Digits => c # "slash" /\ c \notin Letters
    BY DEF Letters, Digits
<1>4. c \in DOMAIN Second => c # "slash" /\ c \notin Letters /\ c \notin Digits
    BY SecondFacts DEF Letters, Digits
<1> QED
    BY <1>1, <1>2, <1>3, <1>4 DEF LexemeEnd, IsPairAt, Alnum

\* Where a block comment ends.
BlockCommentAt(i, e) ==
    /\ At(i) = "slash" /\ At(i + 1) = "star" /\ e \in i + 2..Length - 1
    /\ text[e] = "star" /\ text[e + 1] = "slash"
    /\ \A k \in i + 2..e - 1 : text[k] \notin {"star", "slash"}

LEMMA BlockCommentEnd ==
    ASSUME Typed, NEW i \in 1..Length, NEW e, BlockCommentAt(i, e)
    PROVE  LexemeEnd(i) = e + 1
<1> DEFINE Closers == {x \in i + 3..Length : text[x - 1] = "star" /\ text[x] = "slash"}
<1>1. Length \in Nat /\ e \in i + 2..Length - 1
    BY DEF Typed, Length, BlockCommentAt
<1>2. e + 1 \in Closers
    BY <1>1 DEF BlockCommentAt
<1>3. ASSUME NEW x \in Closers PROVE e + 1 <= x
    <2> SUFFICES ASSUME x < e + 1 PROVE FALSE
        BY <1>1
    <2>1. x - 1 \in i + 2..e - 1
        BY <1>1
    <2> QED
        BY <2>1 DEF BlockCommentAt
<1>4. Closers # {} /\ \A x \in Closers : x \in Int
    <2>1. \A x \in Closers : x \in Int
        BY <1>1
    <2> HIDE DEF Closers
    <2> QED
        BY <1>2, <2>1
<1>5. LexemeEnd(i) = CHOOSE x \in Closers : \A d \in Closers : x <= d
    <2>1. LexemeEnd(i) = IF Closers = {} THEN Length
                         ELSE CHOOSE x \in Closers : \A d \in Closers : x <= d
        <3>1. "slash" \notin Letters /\ "slash" \notin Digits /\ "slash" \notin DOMAIN Second
            BY SecondFacts DEF Letters, Digits
        <3> QED
            BY <3>1 DEF LexemeEnd, BlockCommentAt
    <2> HIDE DEF Closers
    <2> QED
        BY <1>4, <2>1
<1> HIDE DEF Closers
<1>6. PICK m \in Closers : m = LexemeEnd(i) /\ \A d \in Closers : m <= d
    BY <1>2, <1>3, <1>5
<1>7. m <= e + 1 /\ e + 1 <= m /\ m \in Int
    BY <1>2, <1>3, <1>4, <1>6
<1> QED
    BY <1>1, <1>6, <1>7

\* A lexeme is not empty and lies in the text.
LEMMA LexemeRange ==
    ASSUME Typed, CommentsEnd, NEW i \in 1..Length
    PROVE  LexemeEnd(i) \in i..Length
<1>1. Length \in Nat /\ At(i) = text[i] /\ text[i] \in Alphabet
    BY DEF Typed, Length, At
<1>2. CASE At(i) = "slash" /\ At(i + 1) = "slash"
    <2>1. RunsTo(Alphabet \ {"newline"}, i, RunEnd(Alphabet \ {"newline"}, i))
        BY <1>1, <1>2, RunFacts, AlphabetAssumption
    <2> QED
        BY <1>2, <2>1, LexemeCases DEF RunsTo
<1>3. CASE At(i) = "slash" /\ At(i + 1) = "star"
    <2>1. i + 1 <= Length /\ text[i] = "slash" /\ text[i+1] = "star"
        BY <1>1, <1>3, CharInText
    <2>4. i \in 1..Len(text) - 1
        BY <1>1, <2>1 DEF Length
    <2>5. PICK e \in i + 2..Len(text) - 1 :
                /\ text[e] = "star" /\ text[e + 1] = "slash"
                /\ \A k \in i + 2..e - 1 : text[k] \notin {"star", "slash"}
        BY <2>1, <2>4 DEF CommentsEnd, BlockCommentsEnd
    <2>2. BlockCommentAt(i, e)
        BY <1>3, <2>5 DEF BlockCommentAt, Length
    <2>3. LexemeEnd(i) = e + 1 /\ e \in i + 2..Length - 1
        BY <2>2, BlockCommentEnd DEF BlockCommentAt
    <2> QED
        BY <1>1, <2>3
<1>4. CASE At(i) \in Letters
    <2>1. RunsTo(Alnum, i, RunEnd(Alnum, i))
        BY <1>1, <1>4, RunFacts DEF Alnum, Letters, Digits
    <2> QED
        BY <1>4, <2>1, LexemeCases DEF RunsTo
<1>5. CASE At(i) \in Digits
    <2>1. RunsTo(Digits, i, RunEnd(Digits, i))
        BY <1>1, <1>5, RunFacts DEF Digits
    <2> QED
        BY <1>5, <2>1, LexemeCases DEF RunsTo
<1>6. CASE IsPairAt(i)
    <2>1. At(i + 1) # "NUL"
        BY <1>6, SecondFacts DEF IsPairAt
    <2>2. i + 1 <= Length
        BY <1>1, <2>1, CharInText
    <2> QED
        BY <1>1, <1>6, <2>2, LexemeCases
<1>7. CASE /\ At(i) \notin Alnum /\ ~IsPairAt(i)
           /\ ~(At(i) = "slash" /\ At(i + 1) \in {"slash", "star"})
    BY <1>1, <1>7, LexemeCases
<1> QED
    BY <1>2, <1>3, <1>4, <1>5, <1>6, <1>7 DEF Alnum
-----------------------------------------------------------------------------
(* The positions at which a lexeme starts: the path from 1 along f, where f[i] *)
(* is the position behind the lexeme at i and n the length of the text         *)

Forward(f, n) == n \in Nat /\ f \in [1..n -> 1..n + 1] /\ \A i \in 1..n : i < f[i]

Closed(S, f, n) == \A y \in S : y <= n => f[y] \in S

Path(i, f, n) == {x \in 1..n + 1 : \A S \in SUBSET (1..n + 1) :
                                        i \in S /\ Closed(S, f, n) => x \in S}

LEMMA PathFacts ==
    ASSUME NEW n, NEW f, Forward(f, n), NEW i \in 1..n + 1
    PROVE  /\ i \in Path(i, f, n) /\ Path(i, f, n) \subseteq 1..n + 1
           /\ Closed(Path(i, f, n), f, n)
           /\ \A S \in SUBSET (1..n + 1) :
                i \in S /\ Closed(S, f, n) => Path(i, f, n) \subseteq S
<1>1. i \in Path(i, f, n) /\ Path(i, f, n) \subseteq 1..n + 1
    BY DEF Path
<1>2. ASSUME NEW y \in Path(i, f, n), y <= n PROVE f[y] \in Path(i, f, n)
    <2>1. y \in 1..n /\ f[y] \in 1..n + 1
        BY <1>1, <1>2 DEF Forward
    <2>2. ASSUME NEW S \in SUBSET (1..n + 1), i \in S, Closed(S, f, n) PROVE f[y] \in S
        <3>1. y \in S
            BY <2>2 DEF Path
        <3> QED
            BY <1>2, <2>2, <3>1 DEF Closed
    <2> QED
        BY <2>1, <2>2 DEF Path
<1>3. Closed(Path(i, f, n), f, n)
    BY <1>2 DEF Closed
<1>4. \A S \in SUBSET (1..n + 1) : i \in S /\ Closed(S, f, n) => Path(i, f, n) \subseteq S
    BY DEF Path
<1> QED
    BY <1>1, <1>3, <1>4

LEMMA PathStep ==
    ASSUME NEW n, NEW f, Forward(f, n), NEW i \in 1..n + 1
    PROVE  Path(i, f, n) = {i} \cup (IF i > n THEN {} ELSE Path(f[i], f, n))
<1>1. n \in Nat /\ f \in [1..n -> 1..n + 1]
    BY DEF Forward
<1>2. CASE i > n
    <2>1. {i} \in SUBSET (1..n + 1) /\ Closed({i}, f, n)
        BY <1>1, <1>2 DEF Closed
    <2>2. Path(i, f, n) \subseteq {i} /\ i \in Path(i, f, n)
        BY <2>1, PathFacts
    <2> QED
        BY <1>2, <2>2
<1>3. CASE ~(i > n)
    <2>1. PICK j \in 1..n + 1 : j = f[i]
        BY <1>1, <1>3
    <2>2. PICK P, Q : P = Path(i, f, n) /\ Q = Path(j, f, n)
        OBVIOUS
    <2>3. /\ i \in P /\ P \subseteq 1..n + 1 /\ Closed(P, f, n)
          /\ \A S \in SUBSET (1..n + 1) : i \in S /\ Closed(S, f, n) => P \subseteq S
        BY <2>2, PathFacts
    <2>4. /\ j \in Q /\ Q \subseteq 1..n + 1 /\ Closed(Q, f, n)
          /\ \A S \in SUBSET (1..n + 1) : j \in S /\ Closed(S, f, n) => Q \subseteq S
        BY <2>2, PathFacts
    <2>5. j \in P
        BY <1>1, <1>3, <2>1, <2>3 DEF Closed
    <2>6. Q \subseteq P
        BY <2>3, <2>4, <2>5
    <2>7. Closed({i} \cup Q, f, n)
        BY <2>1, <2>4 DEF Closed
    <2>8. P \subseteq {i} \cup Q
        BY <2>3, <2>4, <2>7
    <2>9. P = {i} \cup Q
        BY <2>3, <2>6, <2>8
    <2> QED
        BY <1>3, <2>1, <2>2, <2>9
<1> QED
    BY <1>2, <1>3

\* What is defined by recursion along f is the path.
LEMMA PathIs ==
    ASSUME NEW n, NEW f, Forward(f, n), NEW d,
           d = [i \in 1..n + 1 |-> {i} \cup (IF i > n THEN {} ELSE d[f[i]])]
    PROVE  \A i \in 1..n + 1 : d[i] = Path(i, f, n)
<1>1. n \in Nat /\ f \in [1..n -> 1..n + 1] /\ \A i \in 1..n : i < f[i]
    BY DEF Forward
<1>2. \A i \in 1..n + 1 : d[i] = {i} \cup (IF i > n THEN {} ELSE d[f[i]])
    OBVIOUS
<1> DEFINE Wrong == {i \in 1..n + 1 : d[i] # Path(i, f, n)}
<1> DEFINE Left == {n + 1 - i : i \in Wrong}
<1>3. SUFFICES ASSUME Wrong # {} PROVE FALSE
    OBVIOUS
<1>4. Left \subseteq Nat /\ Left # {}
    <2>1. \A i \in Wrong : n + 1 - i \in Nat
        BY <1>1
    <2> HIDE DEF Wrong
    <2>2. PICK i : i \in Wrong
        BY <1>3
    <2>3. n + 1 - i \in Left
        BY <2>2
    <2> QED
        BY <2>1, <2>3
<1>5. PICK k \in Left : \A j \in Left : k <= j
    <2> HIDE DEF Left
    <2> QED
        BY <1>4, LeastNat
<1>6. PICK i \in Wrong : k = n + 1 - i
    BY <1>5
<1>7. i \in 1..n + 1 /\ d[i] # Path(i, f, n)
    BY <1>6
<1>8. i <= n
    BY <1>1, <1>2, <1>7, PathStep
<1>9. PICK j \in 1..n + 1 : j = f[i] /\ i < j
    BY <1>1, <1>7, <1>8
<1>10. d[j] = Path(j, f, n)
    <2>1. j \in Wrong => n + 1 - j \in Left
        OBVIOUS
    <2> HIDE DEF Left
    <2>2. ~(k <= n + 1 - j)
        BY <1>1, <1>6, <1>7, <1>9
    <2>3. j \notin Wrong
        BY <1>5, <2>1, <2>2
    <2> QED
        BY <2>3
<1>11. d[i] = {i} \cup d[j]
    BY <1>1, <1>2, <1>7, <1>8, <1>9
<1>12. Path(i, f, n) = {i} \cup Path(j, f, n)
    BY <1>1, <1>7, <1>8, <1>9, PathStep
<1> QED
    BY <1>7, <1>10, <1>11, <1>12

\* Nothing starts inside a lexeme.
LEMMA PathOrder ==
    ASSUME NEW n, NEW f, Forward(f, n)
    PROVE  \A x, y \in Path(1, f, n) : x < y => f[x] <= y
<1>1. n \in Nat /\ f \in [1..n -> 1..n + 1] /\ (\A i \in 1..n : i < f[i]) /\ 1 \in 1..n + 1
    BY DEF Forward
<1>2. PICK P : P = Path(1, f, n)
    OBVIOUS
<1>3. /\ 1 \in P /\ P \subseteq 1..n + 1 /\ Closed(P, f, n)
      /\ \A S \in SUBSET (1..n + 1) : 1 \in S /\ Closed(S, f, n) => P \subseteq S
    BY <1>1, <1>2, PathFacts
<1> DEFINE T == {y \in P : \A x \in P : x < y => f[x] <= y}
<1>4. 1 \in T
    BY <1>3
<1>5. ASSUME NEW y \in T, y <= n PROVE f[y] \in T
    <2>1. y \in P /\ y \in 1..n /\ f[y] \in P /\ y < f[y] /\ \A x \in P : x < y => f[x] <= y
        BY <1>1, <1>3, <1>5 DEF Closed
    <2> DEFINE U == {x \in P : x <= y \/ f[y] <= x}
    <2>2. 1 \in U
        BY <1>3, <2>1
    <2>3. ASSUME NEW x \in U, x <= n PROVE f[x] \in U
        <3>1. x \in P /\ x \in 1..n /\ f[x] \in P /\ x < f[x]
            BY <1>1, <1>3, <2>3 DEF Closed
        <3>2. CASE x < y
            BY <2>1, <3>1, <3>2
        <3>3. CASE x = y
            BY <1>1, <3>1, <3>3
        <3>4. CASE f[y] <= x
            BY <1>1, <2>1, <3>1, <3>4
        <3> QED
            BY <1>3, <2>1, <2>3, <3>1, <3>2, <3>3, <3>4
    <2>4. P \subseteq U
        <3>1. U \in SUBSET (1..n + 1) /\ Closed(U, f, n)
            BY <1>3, <2>3 DEF Closed
        <3> HIDE DEF U
        <3> QED
            BY <1>3, <2>2, <3>1
    <2>5. ASSUME NEW x \in P, x < f[y] PROVE f[x] <= f[y]
        <3>1. x <= y
            BY <1>1, <1>3, <2>1, <2>4, <2>5
        <3>2. x \in 1..n /\ f[x] \in 1..n + 1 /\ f[y] \in 1..n + 1
            BY <1>1, <1>3, <2>1, <3>1
        <3> QED
            BY <1>3, <2>1, <3>1, <3>2
    <2> QED
        BY <2>1, <2>5
<1>6. P \subseteq T
    <2>1. T \in SUBSET (1..n + 1) /\ Closed(T, f, n)
        BY <1>3, <1>5 DEF Closed
    <2> HIDE DEF T
    <2> QED
        BY <1>3, <1>4, <2>1
<1> QED
    BY <1>2, <1>6

LEMMA StartsIs ==
    ASSUME Typed, CommentsEnd
    PROVE  /\ 1 \in Starts /\ Starts \subseteq 1..Length + 1
           /\ \A i \in Starts : i <= Length =>
                /\ LexemeEnd(i) \in i..Length /\ LexemeEnd(i) + 1 \in Starts
                /\ \A j \in Starts : j <= i \/ LexemeEnd(i) < j
<1> DEFINE f == [i \in 1..Length |-> LexemeEnd(i) + 1]
<1> DEFINE d == CHOOSE g : g = [i \in 1..Length + 1 |->
                {i} \cup (IF i > Length THEN {} ELSE g[LexemeEnd(i) + 1])]
<1> DEFINE F == [i \in 1..Length + 1 |-> Path(i, f, Length)]
<1>1. Starts = d[1]
    BY Zenon DEF Starts
<1>2. Length \in Nat
    BY DEF Typed, Length
<1>3. \A i \in 1..Length : LexemeEnd(i) \in i..Length
    BY LexemeRange
<1>4. Forward(f, Length) /\ \A i \in 1..Length : f[i] = LexemeEnd(i) + 1
    BY <1>2, <1>3 DEF Forward
<1> HIDE DEF f
<1>5. F = [i \in 1..Length + 1 |-> {i} \cup (IF i > Length THEN {} ELSE F[LexemeEnd(i) + 1])]
    <2>1. ASSUME NEW i \in 1..Length + 1
          PROVE  F[i] = {i} \cup (IF i > Length THEN {} ELSE F[LexemeEnd(i) + 1])
        <3>1. F[i] = {i} \cup (IF i > Length THEN {} ELSE Path(f[i], f, Length))
            BY <1>4, PathStep
        <3>2. ~(i > Length) => F[LexemeEnd(i) + 1] = Path(f[i], f, Length)
            <4>1. ~(i > Length) => i \in 1..Length
                BY <1>2
            <4>2. ~(i > Length) => LexemeEnd(i) + 1 \in 1..Length + 1
                BY <1>2, <1>3, <4>1
            <4> QED
                BY <1>4, <4>1, <4>2
        <3> HIDE DEF F
        <3> QED
            BY <3>1, <3>2
    <2> QED
        BY <2>1
<1> HIDE DEF F
<1>6. d = [i \in 1..Length + 1 |-> {i} \cup (IF i > Length THEN {} ELSE d[LexemeEnd(i) + 1])]
    BY <1>5
<1> HIDE DEF d
<1>7. PICK n \in Nat : n = Length
    BY <1>2
<1>8. d = [i \in 1..n + 1 |-> {i} \cup (IF i > n THEN {} ELSE d[f[i]])]
    <2>1. \A i \in 1..n + 1 : {i} \cup (IF i > n THEN {} ELSE d[LexemeEnd(i) + 1])
                              = {i} \cup (IF i > n THEN {} ELSE d[f[i]])
        BY <1>4, <1>7
    <2> QED
        BY <1>6, <1>7, <2>1
<1>9. \A i \in 1..n + 1 : d[i] = Path(i, f, n)
    BY <1>4, <1>7, <1>8, PathIs
<1>10. PICK P : P = Path(1, f, n) /\ P = Starts
    <2>1. 1 \in 1..n + 1
        OBVIOUS
    <2> QED
        BY <1>1, <1>9, <2>1
<1>11. /\ 1 \in P /\ P \subseteq 1..n + 1 /\ Closed(P, f, n)
       /\ \A x, y \in P : x < y => f[x] <= y
    <2>1. 1 \in 1..n + 1
        OBVIOUS
    <2> QED
        BY <1>4, <1>7, <1>10, <2>1, PathFacts, PathOrder
<1>12. ASSUME NEW i \in P, i <= n
       PROVE  /\ LexemeEnd(i) \in i..n /\ LexemeEnd(i) + 1 \in P
              /\ \A j \in P : j <= i \/ LexemeEnd(i) < j
    <2>1. i \in 1..n /\ f[i] = LexemeEnd(i) + 1 /\ LexemeEnd(i) \in i..n
        BY <1>3, <1>4, <1>7, <1>11, <1>12
    <2>2. \A j \in P : j \in Int
        BY <1>11
    <2> QED
        BY <1>11, <1>12, <2>1, <2>2 DEF Closed
<1> QED
    BY <1>7, <1>10, <1>11, <1>12
-----------------------------------------------------------------------------
(* Kinds of lexemes *)

LEMMA SymbolFacts ==
    DOMAIN Symbol = {"plus", "minus", "star", "slash", "percent", "equal", "greater", "less",
                     "question", "lparen", "rparen", "lbrace", "rbrace", "comma", "colon",
                     "semicolon", "bang", "dot"}
BY DEF Symbol

LEMMA KindCases ==
    ASSUME NEW i \in Int
    PROVE  /\ At(i) = "NUL" => KindAt(i) = "END"
           /\ At(i) \in Spaces => KindAt(i) = "space"
           /\ At(i) = "slash" /\ At(i + 1) \in {"slash", "star"} => KindAt(i) = "comment"
           /\ At(i) \in Letters => KindAt(i) = KeywordKind(SubSeq(text, i, LexemeEnd(i)))
           /\ At(i) \in Digits => KindAt(i) = "NUMBER"
           /\ IsPairAt(i) => KindAt(i) = Double[At(i)]
           /\ At(i) \notin Alnum \cup Spaces \cup {"NUL"} /\ ~IsPairAt(i)
              /\ ~(At(i) = "slash" /\ At(i + 1) \in {"slash", "star"})
                => KindAt(i) = IF At(i) \in DOMAIN Symbol THEN Symbol[At(i)] ELSE "unknown"
<1>1. PICK c, d, e : c = At(i) /\ d = At(i + 1) /\ e = LexemeEnd(i)
    OBVIOUS
<1>2. /\ "NUL" \notin Spaces \cup Letters \cup Digits /\ "slash" \notin Spaces \cup Letters \cup Digits
      /\ \A x \in Spaces : x \notin Letters \cup Digits
      /\ \A x \in Letters : x \notin Digits
    BY DEF Spaces, Letters, Digits
<1>3. KindAt(i) = CASE c = "NUL" -> "END"
                    [] c \in Spaces -> "space"
                    [] c = "slash" /\ d \in {"slash", "star"} -> "comment"
                    [] c \in Letters -> KeywordKind(SubSeq(text, i, e))
                    [] c \in Digits -> "NUMBER"
                    [] OTHER -> IF e > i THEN Double[c]
                                ELSE IF c \in DOMAIN Symbol THEN Symbol[c] ELSE "unknown"
    BY <1>1 DEF KindAt
<1>4. c = "NUL" => KindAt(i) = "END"
    BY <1>2, <1>3
<1>5. c \in Spaces => KindAt(i) = "space"
    BY <1>2, <1>3
<1>6. c = "slash" /\ d \in {"slash", "star"} => KindAt(i) = "comment"
    BY <1>2, <1>3
<1>7. c \in Letters => KindAt(i) = KeywordKind(SubSeq(text, i, e))
    BY <1>2, <1>3
<1>8. c \in Digits => KindAt(i) = "NUMBER"
    BY <1>2, <1>3
<1>9. c \notin Alnum \cup Spaces \cup {"NUL"} /\ ~(c = "slash" /\ d \in {"slash", "star"})
        => KindAt(i) = IF e > i THEN Double[c]
                       ELSE IF c \in DOMAIN Symbol THEN Symbol[c] ELSE "unknown"
    BY <1>3 DEF Alnum
<1>10. IsPairAt(i) => e = i + 1 /\ c \notin Alnum \cup Spaces \cup {"NUL"} /\ c # "slash"
    BY <1>1, LexemeCases, SecondFacts DEF IsPairAt, Alnum, Letters, Digits, Spaces
<1>11. ASSUME c \notin Alnum, ~IsPairAt(i), ~(c = "slash" /\ d \in {"slash", "star"})
       PROVE  e = i
    BY <1>1, <1>11, LexemeCases
<1> QED
    BY <1>1, <1>4, <1>5, <1>6, <1>7, <1>8, <1>9, <1>10, <1>11

-----------------------------------------------------------------------------
(* What the lexer has done with the text so far *)

\* The window, by what the lexer is in the middle of.
InComment(s, e) == s \in Starts /\ BlockCommentAt(s, e)

InRun(S) == buf.first \in Starts /\ \A k \in buf.first..buf.last : text[k] \in S

Placed ==
    /\ mode = "scan" => buf.last = buf.first /\ buf.first \in Starts
    /\ mode = "word" => InRun(Alnum) /\ At(buf.first) \in Letters
    /\ mode = "number" => InRun(Digits)
    /\ mode \in {"line", "lineend"} => /\ InRun(Alphabet \ {"newline"})
                                       /\ At(buf.first) = "slash" /\ At(buf.first + 1) = "slash"
    /\ mode = "line" => At(buf.last + 1) # "newline"
    /\ mode = "lineend" => At(buf.last + 1) = "newline"
    /\ mode = "block" => /\ buf.last = buf.first
                         /\ \E s, e : InComment(s, e) /\ s < buf.first /\ buf.first < e
    /\ mode = "blockend" => buf.last = buf.first /\ \E s : InComment(s, buf.first)

\* The location of position p.
Newlines(p) == {i \in 1..p - 1 : text[i] = "newline"}

Location(p, line, col) ==
    /\ line = 1 + Cardinality(Newlines(p))
    /\ \/ Newlines(p) = {} /\ col = p
       \/ \E i \in Newlines(p) : (\A j \in Newlines(p) : j <= i) /\ col = p - i - 1

Located == mode # "done" => Location(buf.first, buf.line, buf.col)

Recorded == TokensMatch /\ UnknownReported /\ LocationsExact

LexInv == WindowInv /\ TypeOK /\ Placed /\ Located /\ Recorded

-----------------------------------------------------------------------------
(* Locations *)

LEMMA NewlinesFinite ==
    ASSUME NEW p \in Nat
    PROVE  IsFiniteSet(Newlines(p)) /\ Cardinality(Newlines(p)) \in Nat
<1>1. PICK n \in Int : n = p - 1
    OBVIOUS
<1>2. IsFiniteSet(1..n)
    BY FS_Interval
<1>3. Newlines(p) \subseteq 1..n
    BY <1>1 DEF Newlines
<1> QED
    BY <1>2, <1>3, FS_Subset, FS_CardinalityType

\* Resetting a window without a newline, or with one at its end, moves the
\* location behind it.
LEMMA ResetLocation ==
    ASSUME Typed, NEW b, Whole(b), Location(b.first, b.line, b.col), b.last <= Length,
           \A k \in b.first..b.last - 1 : At(k) # "newline",
           NEW r, r = ResetBuffer(b)
    PROVE  Location(r.first, r.line, r.col)
<1>1. PICK m, n \in Nat \ {0} : m = b.first /\ n = b.last /\ m <= n
    BY DEF Whole, Window
<1>2. /\ r.first = n + 1
      /\ r.line = IF At(n) = "newline" THEN b.line + 1 ELSE b.line
      /\ r.col = IF At(n) = "newline" THEN 0 ELSE b.col + (n - m + 1)
    BY <1>1 DEF ResetBuffer
<1>3. Length \in Nat /\ (\A k \in 1..n : At(k) = text[k])
    BY <1>1 DEF Typed, Length, At
<1>4. Newlines(n + 1) = Newlines(m) \cup (IF At(n) = "newline" THEN {n} ELSE {})
    <2>1. \A k \in m..n - 1 : text[k] # "newline"
        BY <1>1, <1>3
    <2> QED
        BY <1>1, <1>3, <2>1 DEF Newlines
<1>5. b.line \in Nat /\ b.col \in Nat /\ Cardinality(Newlines(m)) \in Nat
      /\ IsFiniteSet(Newlines(m))
    BY <1>1, NewlinesFinite DEF Whole, Window
<1>6. CASE At(n) = "newline"
    <2>1. n \notin Newlines(m) /\ \A j \in Newlines(m) : j <= n
        BY <1>1 DEF Newlines
    <2>2. Cardinality(Newlines(m) \cup {n}) = Cardinality(Newlines(m)) + 1
        BY <1>5, <2>1, FS_AddElement
    <2>3. r.line = 1 + Cardinality(Newlines(n + 1))
        BY <1>1, <1>2, <1>4, <1>5, <1>6, <2>2 DEF Location
    <2>4. n \in Newlines(n + 1) /\ (\A j \in Newlines(n + 1) : j <= n) /\ r.col = (n + 1) - n - 1
        BY <1>1, <1>2, <1>4, <1>6, <2>1
    <2> QED
        BY <1>2, <2>3, <2>4 DEF Location
<1>7. CASE At(n) # "newline"
    <2>1. Newlines(n + 1) = Newlines(m) /\ r.line = b.line /\ r.col = b.col + (n - m + 1)
        BY <1>2, <1>4, <1>7
    <2>2. CASE Newlines(m) = {} /\ b.col = m
        <3>1. r.col = n + 1
            BY <1>1, <2>1, <2>2
        <3> QED
            BY <1>1, <1>2, <2>1, <2>2, <3>1 DEF Location
    <2>3. ASSUME NEW i \in Newlines(m), \A j \in Newlines(m) : j <= i, b.col = m - i - 1
          PROVE  Location(r.first, r.line, r.col)
        <3>1. i \in Int
            BY <1>1 DEF Newlines
        <3>2. r.col = (n + 1) - i - 1
            BY <1>1, <2>1, <2>3, <3>1
        <3> QED
            BY <1>1, <1>2, <2>1, <2>3, <3>2 DEF Location
    <2> QED
        BY <1>1, <2>2, <2>3 DEF Location
<1> QED
    BY <1>6, <1>7
-----------------------------------------------------------------------------
(* What a step records *)

WantedTo(d)  == {i \in Starts : i <= d /\ KindAt(i) \notin {"space", "comment", "unknown"}}
UnknownTo(d) == {i \in Starts : i <= d /\ KindAt(i) = "unknown"}

Right(t) == t.kind = KindAt(t.first) /\ (t.kind # "END" => t.last = LexemeEnd(t.first))

\* TokensMatch and the others, of what is recorded when d characters are done.
RecordedTo(ts, ws, d) ==
    /\ \A n \in DOMAIN ts : ts[n].first \in WantedTo(d) /\ Right(ts[n])
    /\ \A n \in DOMAIN ts : n > 1 => ts[n - 1].first < ts[n].first
    /\ Len(ts) = Cardinality(WantedTo(d))
    /\ ws = UnknownTo(d)
    /\ \A n \in DOMAIN ts : Location(ts[n].first, ts[n].line, ts[n].col)

LEMMA RecordedIs == Recorded <=> RecordedTo(tokens, warned, Done)
BY DEF Recorded, RecordedTo, TokensMatch, UnknownReported, LocationsExact, WantedTo, UnknownTo,
       Right, Location, Newlines

Kind == {Symbol[c] : c \in DOMAIN Symbol} \cup {Double[c] : c \in DOMAIN Double}
            \cup {"END", "NUMBER", "IDENTIFIER", "KW_IF"}

Token == [kind : Kind, first : Nat \ {0}, last : Nat \ {0}, line : Nat \ {0}, col : Nat]

LEMMA StartsTyped ==
    ASSUME LexInv
    PROVE  /\ Starts \subseteq Nat \ {0} /\ \A i \in Starts : i <= Length + 1
           /\ IsFiniteSet(Starts) /\ Length \in Nat /\ tokens \in Seq(Token)
<1>1. Typed /\ CommentsEnd
    BY DEF LexInv, WindowInv
<1>2. PICK n \in Nat : n = Length
    BY <1>1 DEF Typed, Length
<1>3. Starts \subseteq 1..n + 1
    BY <1>1, <1>2, StartsIs
<1>4. IsFiniteSet(1..n + 1)
    BY FS_Interval
<1>5. IsFiniteSet(Starts)
    BY <1>3, <1>4, FS_Subset
<1> QED
    BY <1>2, <1>3, <1>5 DEF LexInv, TypeOK, Token, Kind

LEMMA SameRecorded ==
    ASSUME text' = text, NEW ts, NEW ws, NEW d, tokens' = ts, warned' = ws, Done' = d,
           RecordedTo(ts, ws, d)
    PROVE  Recorded'
<1>1. Starts' = Starts /\ \A i : LexemeEnd(i)' = LexemeEnd(i) /\ KindAt(i)' = KindAt(i)
    BY SameText
<1>2. TokensMatch'
    BY <1>1 DEF TokensMatch, RecordedTo, WantedTo, Right
<1>3. UnknownReported'
    BY <1>1 DEF UnknownReported, RecordedTo, UnknownTo
<1>4. LocationsExact'
    BY DEF LocationsExact, RecordedTo, Location, Newlines
<1> QED
    BY <1>2, <1>3, <1>4 DEF Recorded

\* The text moves on over what is no token.
LEMMA SkipRecorded ==
    ASSUME LexInv, text' = text, tokens' = tokens, warned' = warned, mode # "done",
           mode' # "done", NEW p \in Nat, p = buf'.first, buf.first <= p,
           \A i \in Starts : buf.first <= i /\ i < p => KindAt(i) \in {"space", "comment"}
    PROVE  Recorded'
<1>1. Done = buf.first - 1 /\ Done' = p - 1 /\ buf.first \in Nat
    BY DEF Done, LexInv, TypeOK
<1>2. \A i \in Starts : i \in Nat
    BY StartsTyped
<1>3. WantedTo(p - 1) = WantedTo(Done) /\ UnknownTo(p - 1) = UnknownTo(Done)
    BY <1>1, <1>2 DEF WantedTo, UnknownTo
<1>4. RecordedTo(tokens, warned, Done)
    BY RecordedIs DEF LexInv
<1>5. RecordedTo(tokens, warned, p - 1)
    BY <1>3, <1>4 DEF RecordedTo
<1> QED
    BY <1>1, <1>5, SameRecorded

\* A token: the one that starts at the window.
LEMMA TakeRecorded ==
    ASSUME LexInv, text' = text, warned' = warned, mode # "done", NEW i \in Starts,
           i = buf.first, NEW t, tokens' = Append(tokens, t), t.first = i,
           t.line = buf.line, t.col = buf.col, Right(t),
           KindAt(i) \notin {"space", "comment", "unknown"},
           NEW d \in Nat, d = Done', i <= d, \A j \in Starts : j <= d => j <= i
    PROVE  Recorded'
<1>1. Done = i - 1 /\ i \in Nat
    BY StartsTyped DEF Done
<1>2. \A j \in Starts : j \in Nat
    BY StartsTyped
<1>3. WantedTo(d) = WantedTo(i - 1) \cup {i} /\ i \notin WantedTo(i - 1)
    BY <1>1, <1>2 DEF WantedTo
<1>4. UnknownTo(d) = UnknownTo(i - 1)
    BY <1>1, <1>2 DEF UnknownTo
<1>5. RecordedTo(tokens, warned, i - 1)
    BY <1>1, RecordedIs DEF LexInv
<1>6. Len(tokens) \in Nat /\ DOMAIN tokens = 1..Len(tokens)
    BY StartsTyped
<1>7. IsFiniteSet(WantedTo(i - 1))
    <2>1. WantedTo(i - 1) \subseteq Starts
        BY DEF WantedTo
    <2> QED
        BY <2>1, StartsTyped, FS_Subset
<1>8. Cardinality(WantedTo(d)) = Len(tokens) + 1
    BY <1>3, <1>5, <1>7, FS_AddElement DEF RecordedTo
<1>9. PICK ts : ts = Append(tokens, t)
    OBVIOUS
<1>10. /\ Len(ts) = Len(tokens) + 1 /\ DOMAIN ts = 1..Len(tokens) + 1
       /\ ts[Len(tokens) + 1] = t /\ \A n \in 1..Len(tokens) : ts[n] = tokens[n]
    BY <1>9, StartsTyped
<1>11. \A n \in 1..Len(tokens) : tokens[n].first \in WantedTo(i - 1) /\ tokens[n].first < i
    BY <1>1, <1>2, <1>5, <1>6 DEF RecordedTo, WantedTo
<1>12. Location(t.first, t.line, t.col)
    BY DEF LexInv, Located
<1>13. \A n \in DOMAIN ts : n = Len(tokens) + 1 \/ n \in 1..Len(tokens)
    BY <1>6, <1>10
<1>14. \A n \in DOMAIN ts : /\ ts[n].first \in WantedTo(d) /\ Right(ts[n])
                            /\ Location(ts[n].first, ts[n].line, ts[n].col)
    BY <1>3, <1>5, <1>6, <1>10, <1>12, <1>13 DEF RecordedTo
<1>15. ASSUME NEW n \in DOMAIN ts, n > 1 PROVE ts[n - 1].first < ts[n].first
    <2>1. n - 1 \in 1..Len(tokens)
        BY <1>6, <1>10, <1>15
    <2>2. ts[n - 1] = tokens[n - 1]
        BY <1>10, <2>1
    <2>3. CASE n = Len(tokens) + 1
        BY <1>10, <1>11, <2>1, <2>2, <2>3
    <2>4. CASE n \in 1..Len(tokens)
        BY <1>5, <1>6, <1>10, <1>15, <2>2, <2>4 DEF RecordedTo
    <2> QED
        BY <1>13, <2>3, <2>4
<1>16. RecordedTo(ts, warned, d)
    BY <1>4, <1>5, <1>8, <1>10, <1>14, <1>15 DEF RecordedTo
<1> QED
    BY <1>9, <1>16, SameRecorded

\* A character that belongs to no token.
LEMMA UnknownRecorded ==
    ASSUME LexInv, text' = text, tokens' = tokens, mode # "done", mode' # "done",
           NEW i \in Starts, i = buf.first, warned' = warned \cup {i}, KindAt(i) = "unknown",
           buf'.first = i + 1
    PROVE  Recorded'
<1>1. Done = i - 1 /\ Done' = i /\ i \in Nat
    <2>1. i \in Nat
        BY StartsTyped
    <2>2. Done' = (i + 1) - 1
        BY DEF Done
    <2> QED
        BY <2>1, <2>2 DEF Done
<1>2. \A j \in Starts : j \in Nat
    BY StartsTyped
<1>3. WantedTo(i) = WantedTo(i - 1) /\ UnknownTo(i) = UnknownTo(i - 1) \cup {i}
    BY <1>1, <1>2 DEF WantedTo, UnknownTo
<1>4. RecordedTo(tokens, warned, i - 1)
    BY <1>1, RecordedIs DEF LexInv
<1>5. RecordedTo(tokens, warned \cup {i}, i)
    BY <1>3, <1>4 DEF RecordedTo
<1> QED
    BY <1>1, <1>5, SameRecorded
-----------------------------------------------------------------------------
(* What the steps have in common *)

Modes == {"scan", "word", "number", "line", "lineend", "block", "blockend", "done"}

LEMMA TypeKeeps ==
    ASSUME LexInv, WindowInv', text' = text, mode' \in Modes, tokens' \in Seq(Token),
           warned' \in SUBSET Nat
    PROVE  TypeOK'
<1>1. text \in Seq(Alphabet) /\ Length <= MaxLength /\ Length' = Length
    BY DEF LexInv, TypeOK, Length
<1>2. Whole(buf)' /\ (far \in Nat)'
    BY DEF WindowInv, Typed
<1>3. /\ buf' \in [first : Nat \ {0}, last : Nat \ {0}, line : Nat \ {0}, col : Nat]
      /\ buf'.first <= buf'.last
    BY <1>2 DEF Whole, Window
<1> QED
    BY <1>1, <1>2, <1>3 DEF TypeOK, Token, Kind, Modes

\* The character at the window's end is in the text unless END is next.
LEMMA InvFacts ==
    ASSUME LexInv
    PROVE  /\ Typed /\ CommentsEnd /\ Whole(buf) /\ Length \in Nat
           /\ buf.first \in Nat \ {0} /\ buf.last \in Nat \ {0} /\ buf.first <= buf.last
           /\ tokens \in Seq(Token) /\ warned \in SUBSET Nat
           /\ mode \in {"word", "number", "line", "lineend", "block", "blockend"}
                => buf.last <= Length
<1>1. Typed /\ CommentsEnd /\ Whole(buf) /\ Length \in Nat
    BY StartsTyped DEF LexInv, WindowInv, Typed
<1>2. tokens \in Seq(Token) /\ warned \in SUBSET Nat
    BY StartsTyped DEF LexInv, TypeOK
<1>3. buf.first \in Nat \ {0} /\ buf.last \in Nat \ {0} /\ buf.first <= buf.last
    BY <1>1 DEF Whole, Window
<1>4. mode \in {"word", "number", "line", "lineend", "block", "blockend"} => buf.last <= Length
    BY <1>1, <1>3 DEF LexInv, WindowInv, Ahead, LineAhead, BlockAhead
<1> QED
    BY <1>1, <1>2, <1>3, <1>4

\* A character belongs to the lexeme at the window's start.
LEMMA Continues ==
    ASSUME LexInv, WindowInv', mode # "done", NEW m \in Modes \ {"done"}, NEW b, Loop(m, b),
           b.first = buf.first, b.line = buf.line, b.col = buf.col, Placed'
    PROVE  LexInv'
<1>1. text' = text /\ tokens' = tokens /\ warned' = warned /\ mode' = m /\ buf' = b
    BY DEF Loop
<1>2. TypeOK'
    BY <1>1, InvFacts, TypeKeeps
<1>3. Located'
    BY <1>1 DEF LexInv, Located, Location, Newlines
<1>4. Recorded'
    <2>1. buf.first \in Nat /\ \A i \in Starts : i \in Nat
        BY InvFacts, StartsTyped
    <2>2. PICK p \in Nat : p = buf'.first
        BY <1>1, <2>1
    <2> QED
        BY <1>1, <2>1, <2>2, SkipRecorded
<1> QED
    BY <1>2, <1>3, <1>4 DEF LexInv

\* The window leaves characters behind that are no token and moves to the next one.
LEMMA Skips ==
    ASSUME LexInv, WindowInv', mode # "done", NEW m \in Modes \ {"done"}, NEW b, Loop(m, b),
           NEW p \in Nat, p = b.first, buf.first <= p, Location(b.first, b.line, b.col), Placed',
           \A i \in Starts : buf.first <= i /\ i < p => KindAt(i) \in {"space", "comment"}
    PROVE  LexInv'
<1>1. text' = text /\ tokens' = tokens /\ warned' = warned /\ mode' = m /\ buf' = b
    BY DEF Loop
<1>2. TypeOK'
    BY <1>1, InvFacts, TypeKeeps
<1>3. Located'
    BY <1>1 DEF Located, Location, Newlines
<1>4. Recorded'
    BY <1>1, SkipRecorded
<1> QED
    BY <1>2, <1>3, <1>4 DEF LexInv
-----------------------------------------------------------------------------
(* Blanks, words and numbers *)

LEMMA ScanFacts ==
    ASSUME LexInv, mode = "scan", NEW i, i = buf.last
    PROVE  /\ buf.first = i /\ i \in Starts /\ i \in Nat \ {0} /\ i <= Length + 1
           /\ Current = At(i) /\ Peek = At(i + 1)
           /\ At(i) # "NUL" => /\ i <= Length /\ At(i) = text[i]
                               /\ LexemeEnd(i) \in i..Length /\ LexemeEnd(i) + 1 \in Starts
                               /\ \A j \in Starts : j <= i \/ LexemeEnd(i) < j
<1>1. buf.first = i /\ i \in Starts
    BY DEF LexInv, Placed
<1>2. Typed /\ CommentsEnd /\ i \in Nat \ {0}
    BY InvFacts
<1>3. i <= Length + 1
    BY DEF LexInv, WindowInv, Ahead
<1>4. At(i) # "NUL" => i <= Length /\ At(i) = text[i]
    BY <1>2, CharInText
<1> QED
    BY <1>1, <1>2, <1>3, <1>4, StartsIs DEF Current, Peek

\* A blank, or the end of a comment: the window moves to the next lexeme.
LEMMA SpaceSkipped ==
    ASSUME LexInv, SkipSpace
    PROVE  LexInv'
<1> DEFINE i == buf.last
<1>1. mode = "scan" /\ Current \in Spaces /\ Loop("scan", ResetBuffer(buf))
    BY DEF SkipSpace
<1>2. WindowInv'
    BY TokenStep DEF LexInv
<1>3. buf.first = i /\ i \in Starts /\ i \in Nat \ {0} /\ At(i) \in Spaces /\ At(i) # "NUL"
    BY <1>1, ScanFacts DEF Spaces
<1>4. i <= Length /\ LexemeEnd(i) + 1 \in Starts /\ \A j \in Starts : j <= i \/ LexemeEnd(i) < j
    BY <1>1, <1>3, ScanFacts
<1>5. LexemeEnd(i) = i /\ KindAt(i) = "space"
    <2>1. At(i) \notin Alnum /\ At(i) # "slash" /\ ~IsPairAt(i)
        BY <1>3, SecondFacts DEF Spaces, Alnum, Letters, Digits, IsPairAt
    <2> QED
        BY <1>3, <2>1, LexemeCases, KindCases
<1> HIDE DEF i
<1>6. PICK b : b = ResetBuffer(buf)
    OBVIOUS
<1>7. Location(b.first, b.line, b.col)
    <2>1. Typed /\ Whole(buf) /\ Location(buf.first, buf.line, buf.col)
        BY <1>1, InvFacts DEF LexInv, Located
    <2>2. \A k \in buf.first..buf.last - 1 : At(k) # "newline"
        BY <1>3 DEF i
    <2> QED
        BY <1>4, <1>6, <2>1, <2>2, ResetLocation DEF i
<1>8. b.first = i + 1 /\ b.last = i + 1
    BY <1>6 DEF ResetBuffer, i
<1>9. Placed'
    <2>1. mode' = "scan" /\ buf' = b /\ Starts' = Starts
        BY <1>1, <1>6, SameText DEF Loop
    <2> QED
        BY <1>4, <1>5, <1>8, <2>1 DEF Placed
<1>10. \A j \in Starts : i <= j /\ j < i + 1 => KindAt(j) \in {"space", "comment"}
    <2>1. \A j \in Starts : j \in Nat
        BY StartsTyped
    <2> QED
        BY <1>3, <1>5, <2>1
<1>11. "scan" \in Modes \ {"done"} /\ i + 1 \in Nat /\ i <= i + 1 /\ mode # "done"
    BY <1>1, <1>3 DEF Modes
<1> QED
    BY <1>1, <1>2, <1>3, <1>6, <1>7, <1>8, <1>9, <1>10, <1>11, Skips

\* A letter or a digit starts a lexeme whose end is looked for.
LEMMA RunStarted ==
    ASSUME LexInv, StartWord \/ StartNumber
    PROVE  LexInv'
<1> DEFINE i == buf.last
<1>1. mode = "scan" /\ Current \in Alnum
    BY DEF StartWord, StartNumber, Alnum
<1>2. WindowInv'
    BY TokenStep DEF LexInv
<1>3. buf.first = i /\ i \in Starts /\ At(i) = text[i] /\ Current = At(i)
    BY <1>1, ScanFacts DEF Alnum, Letters, Digits
<1>4. PICK m \in {"word", "number"} : /\ Loop(m, buf)
                                     /\ Current \in IF m = "word" THEN Letters ELSE Digits
    BY DEF StartWord, StartNumber
<1>5. Starts' = Starts /\ mode' = m /\ buf' = buf /\ text' = text /\ \A k : At(k)' = At(k)
    BY <1>4, SameText DEF Loop
<1>6. i \in Nat
    BY InvFacts
<1> HIDE DEF i
<1>7. \A k \in buf.first..buf.last : k = i
    BY <1>3, <1>6 DEF i
<1>8. Placed'
    <2>1. CASE m = "word"
        BY <1>3, <1>4, <1>5, <1>7, <2>1 DEF Placed, InRun, Alnum
    <2>2. CASE m = "number"
        BY <1>3, <1>4, <1>5, <1>7, <2>2 DEF Placed, InRun
    <2> QED
        BY <2>1, <2>2
<1>9. m \in Modes \ {"done"} /\ mode # "done"
    BY <1>1 DEF Modes
<1> QED
    BY <1>2, <1>4, <1>8, <1>9, Continues

\* What the window has passed becomes a token.
LEMMA Takes ==
    ASSUME LexInv, WindowInv', mode # "done", NEW i \in Starts, i = buf.first, i <= Length,
           NEW b, Whole(b), b.first = i, b.last = LexemeEnd(i), b.line = buf.line,
           b.col = buf.col, NEW k \in Kind \ {"END"}, k = KindAt(i), CreateToken(k, b),
           k \notin {"space", "comment", "unknown"},
           \A j \in i..LexemeEnd(i) : At(j) # "newline"
    PROVE  LexInv'
<1>1. PICK e : e = LexemeEnd(i) /\ e \in i..Length /\ e + 1 \in Starts
                /\ \A j \in Starts : j <= i \/ e < j
    BY InvFacts, StartsIs
<1>2. PICK t : t = [kind |-> k, first |-> i, last |-> e, line |-> b.line, col |-> b.col]
    OBVIOUS
<1>3. PICK r : r = ResetBuffer(b)
    OBVIOUS
<1>4. /\ text' = text /\ warned' = warned /\ tokens' = Append(tokens, t) /\ buf' = r
      /\ mode' = "scan"
    BY <1>1, <1>2, <1>3 DEF CreateToken
<1>5. i \in Nat \ {0} /\ e \in Nat \ {0} /\ Length \in Nat
    BY <1>1, StartsTyped
<1>6. TypeOK'
    <2>1. b.line \in Nat \ {0} /\ b.col \in Nat
        BY DEF Whole, Window
    <2>2. t \in Token
        BY <1>2, <1>5, <2>1 DEF Token
    <2>3. Append(tokens, t) \in Seq(Token)
        BY <2>2, InvFacts
    <2> QED
        BY <1>4, <2>3, InvFacts, TypeKeeps DEF Modes
<1>7. r.first = e + 1 /\ r.last = e + 1
    BY <1>1, <1>3 DEF ResetBuffer
<1>8. Starts' = Starts
    BY <1>4, SameText
<1>9. Placed'
    BY <1>1, <1>4, <1>7, <1>8 DEF Placed
<1>10. Located'
    <2>1. Location(b.first, b.line, b.col)
        BY DEF LexInv, Located
    <2>2. \A j \in b.first..b.last - 1 : At(j) # "newline"
        BY <1>1, <1>5
    <2>3. Location(r.first, r.line, r.col)
        BY <1>1, <1>3, <2>1, <2>2, InvFacts, ResetLocation
    <2> QED
        BY <1>4, <2>3 DEF Located, Location, Newlines
<1>11. Recorded'
    <2>1. e = Done'
        <3>1. Done' = (e + 1) - 1
            BY <1>4, <1>7 DEF Done
        <3> QED
            BY <1>5, <3>1
    <2>2. Right(t) /\ t.first = i /\ t.line = buf.line /\ t.col = buf.col
        BY <1>1, <1>2 DEF Right
    <2>3. i <= e /\ e \in Nat /\ \A j \in Starts : j <= e => j <= i
        <3>1. \A j \in Starts : j \in Nat
            BY StartsTyped
        <3> QED
            BY <1>1, <1>5, <3>1
    <2> QED
        BY <1>4, <2>1, <2>2, <2>3, TakeRecorded
<1> QED
    BY <1>6, <1>9, <1>10, <1>11 DEF LexInv

\* The loops of lexIdentOrKeyword and lexNumber: the run they walk is the lexeme.
LEMMA RunWalked ==
    ASSUME LexInv, NEW S, NEW m \in {"word", "number"}, "NUL" \notin S, "newline" \notin S,
           mode = m, InRun(S), Peek \in S, Loop(m, Advance(buf)),
           m = "word" => S = Alnum, m = "number" => S = Digits, WindowInv'
    PROVE  LexInv'
<1>1. PICK i, j \in Nat \ {0} : i = buf.first /\ j = buf.last /\ i <= j
    BY InvFacts
<1>2. PICK b : b = Advance(buf)
    OBVIOUS
<1>3. /\ b.first = i /\ b.last = j + 1 /\ b.line = buf.line /\ b.col = buf.col
    <2>1. buf \in Window
        BY InvFacts DEF Whole
    <2> QED
        BY <1>1, <1>2, <2>1 DEF Advance, Window
<1>4. Starts' = Starts /\ mode' = m /\ buf' = b /\ text' = text /\ \A k : At(k)' = At(k)
    BY <1>2, SameText DEF Loop
<1>5. text[j + 1] \in S
    <2>1. At(j + 1) = text[j + 1]
        <3>1. At(j + 1) # "NUL"
            BY <1>1 DEF Peek
        <3> QED
            BY <3>1 DEF At
    <2> QED
        BY <1>1, <2>1 DEF Peek
<1>6. i \in Starts /\ \A k \in i..j + 1 : text[k] \in S
    <2>1. \A k \in i..j + 1 : k \in i..j \/ k = j + 1
        BY <1>1
    <2> QED
        BY <1>1, <1>5, <2>1 DEF InRun
<1>7. Placed'
    <2>1. m = "word" => At(i) \in Letters
        BY <1>1 DEF LexInv, Placed
    <2> QED
        BY <1>3, <1>4, <1>6, <2>1 DEF Placed, InRun
<1>8. m \in Modes \ {"done"} /\ mode # "done"
    BY DEF Modes
<1> QED
    BY <1>1, <1>2, <1>3, <1>7, <1>8, Continues

LEMMA RunEnds ==
    ASSUME LexInv, NEW S, "NUL" \notin S, InRun(S), At(buf.last + 1) \notin S,
           buf.last <= Length
    PROVE  /\ RunEnd(S, buf.first) = buf.last /\ buf.first <= Length
           /\ \A k \in buf.first..buf.last : At(k) \in S
<1>1. PICK i, j \in Nat \ {0} : i = buf.first /\ j = buf.last /\ i <= j
    BY InvFacts
<1>2. Typed /\ Length \in Nat /\ i \in 1..Length
    BY <1>1, InvFacts
<1>3. RunsTo(S, i, j)
    BY <1>1, <1>2 DEF RunsTo, InRun
<1>4. RunEnd(S, i) = j
    BY <1>2, <1>3, RunUnique
<1>5. \A k \in i..j : At(k) = text[k]
    BY <1>1, <1>2 DEF Typed, Length, At
<1> QED
    BY <1>1, <1>2, <1>4, <1>5 DEF InRun

LEMMA WordStep ==
    ASSUME LexInv, LexIdentOrKeyword
    PROVE  LexInv'
<1>1. WindowInv' /\ mode = "word"
    BY TokenStep DEF LexInv, LexIdentOrKeyword
<1>2. "NUL" \notin Alnum /\ "newline" \notin Alnum
    BY DEF Alnum, Letters, Digits
<1>3. InRun(Alnum) /\ At(buf.first) \in Letters /\ buf.last <= Length
    BY <1>1, InvFacts DEF LexInv, Placed
<1>4. CASE Peek \in Alnum
    <2>1. Loop("word", Advance(buf))
        BY <1>4 DEF LexIdentOrKeyword, InWord
    <2> QED
        BY <1>1, <1>2, <1>3, <1>4, <2>1, RunWalked
<1>5. CASE Peek \notin Alnum
    <2>1. PICK i, j \in Nat \ {0} : i = buf.first /\ j = buf.last /\ i <= j
        BY InvFacts
    <2>2. RunEnd(Alnum, i) = j /\ \A k \in i..j : At(k) \in Alnum
        BY <1>2, <1>3, <1>5, <2>1, RunEnds DEF Peek
    <2>3. LexemeEnd(i) = j
        BY <1>3, <2>1, <2>2, LexemeCases
    <2>4. PICK k : k = KeywordKind(SubSeq(text, i, j))
        OBVIOUS
    <2>5. k = KindAt(i)
        BY <1>3, <2>1, <2>3, <2>4, KindCases
    <2>6. k \in {"KW_IF", "IDENTIFIER"}
        BY <2>4 DEF KeywordKind
    <2>7. k \in Kind \ {"END"} /\ k \notin {"space", "comment", "unknown"}
        BY <2>6 DEF Kind
    <2>8. CreateToken(k, buf)
        BY <1>5, <2>1, <2>4 DEF LexIdentOrKeyword, InWord
    <2>9. i \in Starts /\ Whole(buf) /\ i <= Length
        BY <1>3, <2>1, InvFacts DEF InRun
    <2> QED
        BY <1>1, <1>2, <2>1, <2>2, <2>3, <2>5, <2>7, <2>8, <2>9, Takes
<1> QED
    BY <1>4, <1>5

LEMMA NumberStep ==
    ASSUME LexInv, LexNumber
    PROVE  LexInv'
<1>1. WindowInv' /\ mode = "number"
    BY TokenStep DEF LexInv, LexNumber
<1>2. "NUL" \notin Digits /\ "newline" \notin Digits
    BY DEF Digits
<1>3. InRun(Digits) /\ buf.last <= Length
    BY <1>1, InvFacts DEF LexInv, Placed
<1>4. CASE Peek \in Digits
    <2>1. Loop("number", Advance(buf))
        BY <1>4 DEF LexNumber, InNumber
    <2> QED
        BY <1>1, <1>2, <1>3, <1>4, <2>1, RunWalked
<1>5. CASE Peek \notin Digits
    <2>1. PICK i, j \in Nat \ {0} : i = buf.first /\ j = buf.last /\ i <= j
        BY InvFacts
    <2>2. RunEnd(Digits, i) = j /\ \A k \in i..j : At(k) \in Digits
        BY <1>2, <1>3, <1>5, <2>1, RunEnds DEF Peek
    <2>3. At(i) \in Digits
        BY <2>1, <2>2
    <2>4. LexemeEnd(i) = j /\ KindAt(i) = "NUMBER"
        BY <2>1, <2>2, <2>3, LexemeCases, KindCases
    <2>5. "NUMBER" \in Kind \ {"END"}
        BY DEF Kind
    <2>6. CreateToken("NUMBER", buf)
        BY <1>5 DEF LexNumber, InNumber
    <2>7. i \in Starts /\ Whole(buf) /\ i <= Length
        BY <1>3, <2>1, InvFacts DEF InRun
    <2> QED
        BY <1>1, <1>2, <2>1, <2>2, <2>4, <2>5, <2>6, <2>7, Takes
<1> QED
    BY <1>4, <1>5

-----------------------------------------------------------------------------
(* Operators, END and what is no token *)

LEMMA TableFacts ==
    /\ \A c \in DOMAIN Symbol : Symbol[c] \in Kind \ {"END", "space", "comment", "unknown"}
    /\ \A c \in DOMAIN Second : Double[c] \in Kind \ {"END", "space", "comment", "unknown"}
    /\ \A c \in DOMAIN Second \cup DOMAIN Symbol :
            c \notin Alnum \cup Spaces \cup {"NUL"}
<1>1. \A c \in DOMAIN Symbol : /\ Symbol[c] \in Kind
                               /\ Symbol[c] \notin {"END", "space", "comment", "unknown"}
    <2>1. \A c \in DOMAIN Symbol : Symbol[c] \in Kind
        BY DEF Kind
    <2>2. \A c \in DOMAIN Symbol : Symbol[c] \notin {"END", "space", "comment", "unknown"}
        BY DEF Symbol
    <2> QED
        BY <2>1, <2>2
<1>2. \A c \in DOMAIN Second : Double[c] \in Kind
                               /\ Double[c] \notin {"END", "space", "comment", "unknown"}
    <2>1. DOMAIN Second = DOMAIN Double
        BY DEF Second, Double
    <2>2. \A c \in DOMAIN Double : Double[c] \in Kind
        BY DEF Kind
    <2>3. \A c \in DOMAIN Double : Double[c] \notin {"END", "space", "comment", "unknown"}
        BY DEF Double
    <2> QED
        BY <2>1, <2>2, <2>3
<1>3. \A c \in DOMAIN Second \cup DOMAIN Symbol : c \notin Alnum \cup Spaces \cup {"NUL"}
    BY SecondFacts, SymbolFacts DEF Alnum, Letters, Digits, Spaces
<1> QED
    BY <1>1, <1>2, <1>3

LEMMA SymbolStep ==
    ASSUME LexInv, ReadSymbol
    PROVE  LexInv'
<1>1. PICK i : i = buf.last
    OBVIOUS
<1>2. mode = "scan" /\ ~IsPair /\ ~IsComment /\ Current \in DOMAIN Symbol /\ WindowInv'
    BY TokenStep DEF LexInv, ReadSymbol
<1>3. buf.first = i /\ i \in Starts /\ i \in Nat \ {0} /\ Current = At(i) /\ Peek = At(i + 1)
    BY <1>1, <1>2, ScanFacts
<1>4. At(i) \notin Alnum \cup Spaces \cup {"NUL"}
    BY <1>2, <1>3, TableFacts
<1>5. i <= Length
    BY <1>1, <1>2, <1>4, ScanFacts
<1>6. ~IsPairAt(i) /\ ~(At(i) = "slash" /\ At(i + 1) \in {"slash", "star"})
    BY <1>2, <1>3 DEF IsPair, IsPairAt, IsComment
<1>7. LexemeEnd(i) = i
    BY <1>4, <1>6, LexemeCases
<1>8. KindAt(i) = Symbol[At(i)]
    BY <1>2, <1>3, <1>4, <1>6, KindCases
<1>9. PICK k : k = Symbol[At(i)]
    OBVIOUS
<1>10. k \in Kind \ {"END"} /\ k \notin {"space", "comment", "unknown"} /\ CreateToken(k, buf)
    BY <1>2, <1>3, <1>9, TableFacts DEF ReadSymbol
<1>11. \A j \in i..LexemeEnd(i) : At(j) # "newline"
    <2>1. \A j \in i..i : j = i
        BY <1>3
    <2> QED
        BY <1>4, <1>7, <2>1 DEF Spaces
<1>12. Whole(buf) /\ mode # "done"
    BY <1>2, InvFacts
<1> QED
    BY <1>1, <1>2, <1>3, <1>5, <1>7, <1>8, <1>9, <1>10, <1>11, <1>12, Takes

LEMMA PairStep ==
    ASSUME LexInv, ReadPair
    PROVE  LexInv'
<1>1. PICK i : i = buf.last
    OBVIOUS
<1>2. mode = "scan" /\ IsPair /\ WindowInv'
    BY TokenStep DEF LexInv, ReadPair
<1>3. buf.first = i /\ i \in Starts /\ i \in Nat \ {0} /\ Current = At(i) /\ Peek = At(i + 1)
    BY <1>1, <1>2, ScanFacts
<1>4. IsPairAt(i) /\ At(i) \in DOMAIN Second
    BY <1>2, <1>3 DEF IsPair, IsPairAt
<1>5. At(i) \notin Alnum \cup Spaces \cup {"NUL"}
    BY <1>4, TableFacts
<1>6. i <= Length
    BY <1>1, <1>2, <1>5, ScanFacts
<1>7. LexemeEnd(i) = i + 1 /\ KindAt(i) = Double[At(i)]
    BY <1>3, <1>4, LexemeCases, KindCases
<1>8. PICK k : k = Double[At(i)]
    OBVIOUS
<1>9. PICK b : b = Advance(buf)
    OBVIOUS
<1>10. /\ k \in Kind \ {"END"} /\ k \notin {"space", "comment", "unknown"}
       /\ CreateToken(k, b)
    BY <1>2, <1>3, <1>4, <1>8, <1>9, TableFacts DEF ReadPair
<1>11. At(i) # "newline" /\ At(i + 1) # "newline"
    BY <1>4, <1>5, SecondFacts DEF IsPairAt, Spaces
<1>12. \A j \in i..LexemeEnd(i) : At(j) # "newline"
    <2>1. \A j \in i..i + 1 : j = i \/ j = i + 1
        BY <1>3
    <2> QED
        BY <1>7, <1>11, <2>1
<1>13. Whole(b) /\ b.first = i /\ b.last = i + 1 /\ b.line = buf.line /\ b.col = buf.col
    <2>1. Whole(buf) /\ buf \in Window
        BY InvFacts DEF Whole
    <2> QED
        BY <1>1, <1>3, <1>9, <2>1, AdvanceMoves DEF Advance, Window
<1>14. mode # "done"
    BY <1>2
<1> QED
    BY <1>2, <1>3, <1>6, <1>7, <1>8, <1>10, <1>12, <1>13, <1>14, Takes

LEMMA UnknownStep ==
    ASSUME LexInv, SkipUnknown
    PROVE  LexInv'
<1>1. PICK i : i = buf.last
    OBVIOUS
<1>2. mode = "scan" /\ IsUnknown /\ WindowInv'
    BY TokenStep DEF LexInv, SkipUnknown
<1>3. buf.first = i /\ i \in Starts /\ i \in Nat \ {0} /\ Current = At(i) /\ Peek = At(i + 1)
    BY <1>1, <1>2, ScanFacts
<1>4. At(i) \notin Alnum \cup Spaces \cup {"NUL"} /\ At(i) \notin DOMAIN Symbol /\ ~IsPairAt(i)
    BY <1>2, <1>3 DEF IsUnknown, IsPair, IsPairAt
<1>5. i <= Length /\ LexemeEnd(i) + 1 \in Starts
    BY <1>1, <1>2, <1>4, ScanFacts
<1>6. At(i) # "slash"
    BY <1>4, SymbolFacts
<1>7. LexemeEnd(i) = i /\ KindAt(i) = "unknown"
    BY <1>3, <1>4, <1>6, LexemeCases, KindCases
<1>8. PICK b : b = ResetBuffer(buf)
    OBVIOUS
<1>9. /\ text' = text /\ tokens' = tokens /\ mode' = mode /\ buf' = b
      /\ warned' = warned \cup {i}
    BY <1>1, <1>8 DEF SkipUnknown
<1>10. b.first = i + 1 /\ b.last = i + 1
    BY <1>1, <1>8 DEF ResetBuffer
<1>11. TypeOK'
    BY <1>2, <1>3, <1>9, InvFacts, TypeKeeps DEF Modes
<1>12. Placed'
    BY <1>2, <1>5, <1>7, <1>9, <1>10, SameText DEF Placed
<1>13. Located'
    <2>1. Location(buf.first, buf.line, buf.col)
        BY <1>2 DEF LexInv, Located
    <2>2. \A k \in buf.first..buf.last - 1 : At(k) # "newline"
        BY <1>1, <1>3
    <2>3. Location(b.first, b.line, b.col)
        BY <1>1, <1>5, <1>8, <2>1, <2>2, InvFacts, ResetLocation
    <2> QED
        BY <1>9, <2>3 DEF Located, Location, Newlines
<1>14. Recorded'
    <2>1. mode # "done" /\ mode' # "done"
        BY <1>2, <1>9
    <2> QED
        BY <1>3, <1>7, <1>9, <1>10, <2>1, UnknownRecorded
<1> QED
    BY <1>2, <1>11, <1>12, <1>13, <1>14 DEF LexInv

LEMMA EndStep ==
    ASSUME LexInv, ReadEnd
    PROVE  LexInv'
<1>1. PICK i : i = buf.last
    OBVIOUS
<1>2. mode = "scan" /\ Current = "NUL" /\ WindowInv'
    BY TokenStep DEF LexInv, ReadEnd
<1>3. buf.first = i /\ i \in Starts /\ i \in Nat \ {0} /\ i <= Length + 1 /\ At(i) = "NUL"
    BY <1>1, <1>2, ScanFacts
<1>4. i = Length + 1
    BY <1>3, InvFacts, CharInText
<1>5. KindAt(i) = "END"
    BY <1>3, KindCases
<1>6. PICK t : t = [kind |-> "END", first |-> i, last |-> i, line |-> buf.line, col |-> buf.col]
    OBVIOUS
<1>7. /\ text' = text /\ tokens' = Append(tokens, t) /\ mode' = "done" /\ warned' = warned
    BY <1>1, <1>3, <1>6 DEF ReadEnd, CreateToken
<1>8. TypeOK'
    <2>1. t \in Token
        <3>1. buf.line \in Nat \ {0} /\ buf.col \in Nat
            BY InvFacts DEF Whole, Window
        <3> QED
            BY <1>3, <1>6, <3>1 DEF Token, Kind
    <2>2. Append(tokens, t) \in Seq(Token)
        BY <2>1, InvFacts
    <2> QED
        BY <1>2, <1>7, <2>2, InvFacts, TypeKeeps DEF Modes
<1>9. Placed' /\ Located'
    BY <1>7 DEF Placed, Located
<1>10. Recorded'
    <2>1. Done' = i
        <3>1. Length' = Length
            BY <1>7, SameText
        <3> QED
            BY <1>4, <1>7, <3>1 DEF Done
    <2>2. Right(t) /\ t.first = i /\ t.line = buf.line /\ t.col = buf.col
        BY <1>5, <1>6 DEF Right
    <2>3. i \in Nat /\ i <= i
        BY <1>3
    <2>4. mode # "done" /\ KindAt(i) \notin {"space", "comment", "unknown"}
        BY <1>2, <1>5
    <2> QED
        BY <1>3, <1>7, <2>1, <2>2, <2>3, <2>4, TakeRecorded
<1> QED
    BY <1>2, <1>8, <1>9, <1>10 DEF LexInv

-----------------------------------------------------------------------------
(* Line comments *)

LEMMA LineStarted ==
    ASSUME LexInv, StartLineComment
    PROVE  LexInv'
<1>1. PICK i : i = buf.last
    OBVIOUS
<1>2. mode = "scan" /\ Current = "slash" /\ Peek = "slash" /\ WindowInv' /\ Loop("line", buf)
    BY LineStep DEF LexInv, StartLineComment
<1>3. buf.first = i /\ i \in Starts /\ i \in Nat \ {0} /\ At(i) = "slash" /\ At(i + 1) = "slash"
    BY <1>1, <1>2, ScanFacts
<1>4. text[i] = "slash" /\ i \in 1..Length
    <2>1. i <= Length /\ At(i) = text[i]
        BY <1>1, <1>2, <1>3, ScanFacts
    <2> QED
        BY <1>3, <2>1, InvFacts
<1>5. text[i] \in Alphabet \ {"newline"}
    <2>1. text \in Seq(Alphabet)
        BY InvFacts DEF Typed
    <2> QED
        BY <1>4, <2>1 DEF Length
<1>6. Starts' = Starts /\ mode' = "line" /\ buf' = buf /\ text' = text /\ \A k : At(k)' = At(k)
    BY <1>2, SameText DEF Loop
<1>7. \A k \in i..i : k = i
    BY <1>3
<1>8. Placed'
    BY <1>1, <1>3, <1>5, <1>6, <1>7 DEF Placed, InRun
<1>9. mode # "done" /\ "line" \in Modes \ {"done"}
    BY <1>2 DEF Modes
<1> QED
    BY <1>2, <1>8, <1>9, Continues

LEMMA LineWalked ==
    ASSUME LexInv, LexLineComment
    PROVE  LexInv'
<1>1. PICK i, j \in Nat \ {0} : i = buf.first /\ j = buf.last /\ i <= j
    BY InvFacts
<1>2. PICK b : b = Advance(buf)
    OBVIOUS
<1>3. PICK m : m = IF LineEnds(j + 1) THEN "lineend" ELSE "line"
    OBVIOUS
<1>4. mode = "line" /\ Loop(m, b) /\ WindowInv'
    BY <1>1, <1>2, <1>3, LineStep DEF LexInv, LexLineComment
<1>5. /\ b.first = i /\ b.last = j + 1 /\ b.line = buf.line /\ b.col = buf.col
    <2>1. buf \in Window
        BY InvFacts DEF Whole
    <2> QED
        BY <1>1, <1>2, <2>1 DEF Advance, Window
<1>6. j + 2 <= Length
    <2>1. PICK x \in j + 2..Length : TRUE
        BY <1>1, <1>4 DEF LexInv, WindowInv, Ahead, LineAhead
    <2> QED
        BY <1>1, <2>1, InvFacts
<1>7. At(j + 1) = text[j + 1] /\ text[j + 1] \in Alphabet /\ At(j + 2) # "NUL"
    <2>1. text \in Seq(Alphabet) /\ j + 1 \in 1..Length /\ j + 2 \in Nat \ {0} /\ Typed
        BY <1>1, <1>6, InvFacts DEF Typed
    <2> QED
        BY <1>6, <2>1, CharInText DEF At, Length
<1>8. At(j + 1) # "newline"
    BY <1>1, <1>4 DEF LexInv, Placed
<1>9. i \in Starts /\ \A k \in i..j + 1 : text[k] \in Alphabet \ {"newline"}
    <2>1. \A k \in i..j + 1 : k \in i..j \/ k = j + 1
        BY <1>1
    <2>2. InRun(Alphabet \ {"newline"})
        BY <1>4 DEF LexInv, Placed
    <2> QED
        BY <1>1, <1>7, <1>8, <2>1, <2>2 DEF InRun
<1>10. m = "lineend" => At((j + 1) + 1) = "newline"
    BY <1>1, <1>3, <1>7 DEF LineEnds
<1>11. m = "line" => At((j + 1) + 1) # "newline"
    BY <1>3 DEF LineEnds
<1>12. Starts' = Starts /\ mode' = m /\ buf' = b /\ text' = text /\ \A k : At(k)' = At(k)
    BY <1>4, SameText DEF Loop
<1>13. m \in {"line", "lineend"}
    BY <1>3
<1>14. Placed'
    <2>1. At(i) = "slash" /\ At(i + 1) = "slash"
        BY <1>1, <1>4 DEF LexInv, Placed
    <2> QED
        BY <1>5, <1>9, <1>10, <1>11, <1>12, <1>13, <2>1 DEF Placed, InRun
<1>15. mode # "done" /\ m \in Modes \ {"done"}
    BY <1>4, <1>13 DEF Modes
<1> QED
    BY <1>1, <1>4, <1>5, <1>14, <1>15, Continues

\* The comment is the run up to its newline, and the second of the two resets
\* takes exactly that newline.
LEMMA LineEnded ==
    ASSUME LexInv, EndLineComment
    PROVE  LexInv'
<1>1. PICK i, j \in Nat \ {0} : i = buf.first /\ j = buf.last /\ i <= j
    BY InvFacts
<1>2. PICK r : r = ResetBuffer(buf)
    OBVIOUS
<1>3. PICK b : b = ResetBuffer(r)
    OBVIOUS
<1>4. mode = "lineend" /\ Loop("scan", b) /\ WindowInv'
    BY <1>2, <1>3, LineStep DEF LexInv, EndLineComment
<1>5. j + 1 <= Length /\ j <= Length /\ At(j + 1) = "newline"
    BY <1>1, <1>4, InvFacts DEF LexInv, WindowInv, Ahead, Placed
<1>6. InRun(Alphabet \ {"newline"}) /\ At(i) = "slash" /\ At(i + 1) = "slash"
    BY <1>1, <1>4 DEF LexInv, Placed
<1>7. RunEnd(Alphabet \ {"newline"}, i) = j /\ \A k \in i..j : At(k) # "newline"
    BY <1>1, <1>5, <1>6, AlphabetAssumption, RunEnds
<1>8. i \in Starts /\ LexemeEnd(i) = j /\ KindAt(i) = "comment"
    <2>1. LexemeEnd(i) = j
        BY <1>6, <1>7, LexemeCases
    <2>2. KindAt(i) = "comment"
        BY <1>1, <1>6, KindCases
    <2> QED
        BY <1>1, <1>6, <2>1, <2>2 DEF InRun
<1>9. j + 1 \in Starts /\ \A k \in Starts : k <= i \/ j < k
    BY <1>1, <1>5, <1>8, InvFacts, StartsIs
<1>10. LexemeEnd(j + 1) = j + 1 /\ KindAt(j + 1) = "space"
    <2>1. At(j + 1) \notin Alnum /\ At(j + 1) # "slash" /\ ~IsPairAt(j + 1)
        BY <1>5, SecondFacts DEF Alnum, Letters, Digits, IsPairAt
    <2> QED
        BY <1>1, <1>5, <2>1, LexemeCases, KindCases DEF Spaces
<1>11. (j + 1) + 1 \in Starts
    BY <1>5, <1>9, <1>10, InvFacts, StartsIs
<1>12. PICK p \in Nat : p = j + 2
    BY <1>1
<1>13. r.first = j + 1 /\ r.last = j + 1 /\ b.first = p /\ b.last = p
    BY <1>1, <1>2, <1>3, <1>12 DEF ResetBuffer
<1>14. Location(r.first, r.line, r.col) /\ Whole(r)
    <2>1. Location(buf.first, buf.line, buf.col)
        BY <1>4 DEF LexInv, Located
    <2>2. \A k \in buf.first..buf.last - 1 : At(k) # "newline"
        BY <1>1, <1>7
    <2> QED
        BY <1>1, <1>2, <1>5, <2>1, <2>2, InvFacts, ResetLocation, ResetMoves
<1>15. Location(b.first, b.line, b.col)
    <2>1. \A k \in r.first..r.last - 1 : At(k) # "newline"
        BY <1>1, <1>13
    <2> QED
        BY <1>3, <1>5, <1>13, <1>14, <2>1, InvFacts, ResetLocation
<1>16. Placed'
    BY <1>1, <1>4, <1>11, <1>12, <1>13, SameText DEF Placed, Loop
<1>17. \A k \in Starts : i <= k /\ k < p => KindAt(k) \in {"space", "comment"}
    <2>1. \A k \in Starts : k \in Nat
        BY StartsTyped
    <2>2. \A k \in Starts : i <= k /\ k < p => k = i \/ k = j + 1
        BY <1>1, <1>9, <1>12, <2>1
    <2> QED
        BY <1>8, <1>10, <2>2
<1>18. mode # "done" /\ "scan" \in Modes \ {"done"} /\ i <= p
    BY <1>1, <1>4, <1>12 DEF Modes
<1> QED
    BY <1>1, <1>4, <1>13, <1>15, <1>16, <1>17, <1>18, Skips

-----------------------------------------------------------------------------
(* Block comments *)

\* Nothing starts inside a block comment.
LEMMA CommentFacts ==
    ASSUME LexInv, NEW s, NEW e, InComment(s, e)
    PROVE  /\ s \in Nat \ {0} /\ e \in s + 2..Length - 1 /\ KindAt(s) = "comment"
           /\ LexemeEnd(s) = e + 1 /\ (e + 1) + 1 \in Starts
           /\ \A j \in Starts : j <= s \/ e + 1 < j
           /\ At(e) = "star" /\ At(e + 1) = "slash"
           /\ \A k \in s + 2..e - 1 : At(k) \notin {"star", "slash"}
<1>1. s \in Starts /\ s \in Nat \ {0} /\ Length \in Nat
    BY StartsTyped DEF InComment
<1>2. e \in s + 2..Length - 1 /\ At(s) = "slash" /\ At(s + 1) = "star"
    BY DEF InComment, BlockCommentAt
<1>3. s \in 1..Length /\ s <= Length
    BY <1>1, <1>2
<1>4. LexemeEnd(s) = e + 1 /\ KindAt(s) = "comment"
    BY <1>1, <1>2, <1>3, InvFacts, BlockCommentEnd, KindCases DEF InComment
<1>5. (e + 1) + 1 \in Starts /\ \A j \in Starts : j <= s \/ e + 1 < j
    BY <1>1, <1>3, <1>4, InvFacts, StartsIs
<1>6. \A k \in 1..Length : At(k) = text[k]
    BY DEF At, Length
<1>7. e \in 1..Length /\ e + 1 \in 1..Length /\ \A k \in s + 2..e - 1 : k \in 1..Length
    BY <1>1, <1>2
<1> QED
    BY <1>1, <1>2, <1>4, <1>5, <1>6, <1>7 DEF InComment, BlockCommentAt

\* A character of the comment is left behind.
LEMMA CommentMoves ==
    ASSUME LexInv, WindowInv', NEW s, NEW e, InComment(s, e), mode \in {"scan", "block"},
           NEW i, i = buf.first, i = buf.last, s <= i, i < e,
           NEW m \in {"block", "blockend"}, Loop(m, ResetBuffer(buf)),
           m = "block" => i + 1 < e, m = "blockend" => i + 1 = e
    PROVE  LexInv'
<1>1. i \in Nat \ {0}
    BY InvFacts
<1>2. PICK b : b = ResetBuffer(buf)
    OBVIOUS
<1>3. b.first = i + 1 /\ b.last = i + 1
    BY <1>2 DEF ResetBuffer
<1>4. text' = text /\ mode' = m /\ buf' = b
    BY <1>2 DEF Loop
<1>5. Starts' = Starts /\ Length' = Length /\ \A k : At(k)' = At(k)
    BY <1>4, SameText
<1>6. InComment(s, e)'
    BY <1>4, <1>5 DEF InComment, BlockCommentAt
<1>7. s \in Nat /\ e \in Nat /\ e <= Length - 1 /\ Length \in Nat /\ s < i + 1
      /\ \A j \in Starts : j \in Nat /\ (j <= s \/ e + 1 < j)
    BY <1>1, CommentFacts, StartsTyped
<1>8. Placed'
    <2>1. CASE m = "block"
        <3>1. (s < buf.first /\ buf.first < e)'
            BY <1>3, <1>4, <1>7, <2>1
        <3>2. (\E x, y : InComment(x, y) /\ x < buf.first /\ buf.first < y)'
            BY <1>6, <3>1
        <3> QED
            BY <1>3, <1>4, <2>1, <3>2 DEF Placed
    <2>2. CASE m = "blockend"
        <3>1. InComment(s, buf.first)'
            BY <1>3, <1>4, <1>6, <2>2
        <3> QED
            BY <1>3, <1>4, <2>2, <3>1 DEF Placed
    <2> QED
        BY <2>1, <2>2
<1>9. Location(b.first, b.line, b.col)
    <2>1. Location(buf.first, buf.line, buf.col)
        BY DEF LexInv, Located
    <2>2. \A k \in buf.first..buf.last - 1 : At(k) # "newline"
        BY <1>1
    <2>3. buf.last <= Length
        BY <1>1, <1>7
    <2> QED
        BY <1>2, <2>1, <2>2, <2>3, InvFacts, ResetLocation
<1>10. \A j \in Starts : i <= j /\ j < i + 1 => KindAt(j) \in {"space", "comment"}
    <2>1. ASSUME NEW j \in Starts, i <= j, j < i + 1
          PROVE  j = s
        BY <1>1, <1>7, <2>1
    <2> QED
        BY <2>1, CommentFacts
<1>11. mode # "done" /\ m \in Modes \ {"done"} /\ i + 1 \in Nat /\ i <= i + 1
    BY <1>1 DEF Modes
<1> QED
    BY <1>2, <1>3, <1>8, <1>9, <1>10, <1>11, Skips

LEMMA BlockStarted ==
    ASSUME LexInv, StartBlockComment
    PROVE  LexInv'
<1>1. PICK i : i = buf.last
    OBVIOUS
<1>2. mode = "scan" /\ Current = "slash" /\ Peek = "star" /\ WindowInv'
      /\ Loop("block", ResetBuffer(buf))
    BY BlockStep DEF LexInv, StartBlockComment
<1>3. buf.first = i /\ i \in Starts /\ i \in Nat \ {0} /\ At(i) = "slash" /\ At(i + 1) = "star"
    BY <1>1, <1>2, ScanFacts
<1>4. i + 1 \in Nat \ {0} /\ Typed
    BY <1>3, InvFacts
<1>5. At(i) # "NUL" /\ At(i + 1) # "NUL"
    BY <1>3
<1>6. i <= Length /\ i + 1 <= Length /\ text[i] = "slash" /\ text[i + 1] = "star"
    BY <1>3, <1>4, <1>5, CharInText
<1>7. i \in 1..Len(text) - 1
    BY <1>3, <1>6, InvFacts DEF Length
<1>8. PICK e \in i + 2..Len(text) - 1 :
            /\ text[e] = "star" /\ text[e + 1] = "slash"
            /\ \A k \in i + 2..e - 1 : text[k] \notin {"star", "slash"}
    BY <1>6, <1>7, InvFacts DEF CommentsEnd, BlockCommentsEnd
<1>9. InComment(i, e)
    BY <1>3, <1>8 DEF InComment, BlockCommentAt, Length
<1>10. i <= i /\ i < e /\ i + 1 < e
    BY <1>3, <1>8
<1> QED
    BY <1>1, <1>2, <1>3, <1>9, <1>10, CommentMoves

\* The loop stops at the star of the closing "*/" and not before it.
LEMMA BlockWalked ==
    ASSUME LexInv, LexBlockComment
    PROVE  LexInv'
<1>1. PICK i : i = buf.first
    OBVIOUS
<1>2. PICK m : m = IF BlockEnds(i + 1) THEN "blockend" ELSE "block"
    OBVIOUS
<1>3. mode = "block" /\ i = buf.last
    BY <1>1 DEF LexInv, Placed, LexBlockComment
<1>4. Loop(m, ResetBuffer(buf)) /\ WindowInv'
    BY <1>2, <1>3, BlockStep DEF LexInv, LexBlockComment
<1>5. PICK s, e : InComment(s, e) /\ s < i /\ i < e
    BY <1>1, <1>3 DEF LexInv, Placed
<1>6. /\ s \in Nat \ {0} /\ e \in s + 2..Length - 1 /\ Length \in Nat /\ i \in Nat \ {0}
      /\ At(e) = "star" /\ \A k \in s + 2..e - 1 : At(k) \notin {"star", "slash"}
    BY <1>1, <1>5, CommentFacts, InvFacts
<1>7. ASSUME i + 1 = e PROVE BlockEnds(i + 1)
    BY <1>6, <1>7 DEF BlockEnds
<1>8. ASSUME i + 1 # e PROVE ~BlockEnds(i + 1)
    <2>1. i + 1 \in s + 2..e - 1
        BY <1>5, <1>6, <1>8
    <2>2. (i + 1) + 1 \in s + 2..e - 1 \/ (i + 1) + 1 = e
        BY <1>6, <2>1
    <2>3. At(i + 1) \notin {"star", "slash"} /\ At((i + 1) + 1) # "slash"
        BY <1>6, <2>1, <2>2
    <2>4. At(i + 1) # "NUL"
        <3>1. i + 1 \in Nat \ {0} /\ i + 1 <= Length /\ Typed
            BY <1>6, <2>1, InvFacts
        <3> QED
            BY <3>1, CharInText
    <2> QED
        BY <2>3, <2>4 DEF BlockEnds
<1>9. m \in {"block", "blockend"} /\ (m = "block" => i + 1 < e) /\ (m = "blockend" => i + 1 = e)
    BY <1>2, <1>5, <1>6, <1>7, <1>8
<1>10. s <= i
    BY <1>5, <1>6
<1> QED
    BY <1>1, <1>3, <1>4, <1>5, <1>9, <1>10, CommentMoves

LEMMA BlockEnded ==
    ASSUME LexInv, EndBlockComment
    PROVE  LexInv'
<1>1. PICK i : i = buf.first
    OBVIOUS
<1>2. mode = "blockend" /\ i = buf.last
    BY <1>1 DEF LexInv, Placed, EndBlockComment
<1>3. PICK s : InComment(s, i)
    BY <1>1, <1>2 DEF LexInv, Placed
<1>4. /\ s \in Nat \ {0} /\ i \in s + 2..Length - 1 /\ Length \in Nat /\ i \in Nat \ {0}
      /\ KindAt(s) = "comment" /\ (i + 1) + 1 \in Starts
      /\ (\A j \in Starts : j <= s \/ i + 1 < j)
      /\ At(i) = "star" /\ At(i + 1) = "slash"
    BY <1>1, <1>3, CommentFacts, InvFacts
<1>5. PICK a : a = Advance(buf)
    OBVIOUS
<1>6. PICK b : b = ResetBuffer(a)
    OBVIOUS
<1>7. Loop("scan", b) /\ WindowInv'
    BY <1>5, <1>6, BlockStep DEF LexInv, EndBlockComment
<1>8. Whole(a) /\ a.first = i /\ a.last = i + 1 /\ a.line = buf.line /\ a.col = buf.col
    <2>1. Whole(buf) /\ buf \in Window
        BY InvFacts DEF Whole
    <2> QED
        BY <1>1, <1>2, <1>5, <2>1, AdvanceMoves DEF Advance, Window
<1>9. PICK p \in Nat : p = i + 2
    BY <1>4
<1>10. b.first = p /\ b.last = p
    BY <1>4, <1>6, <1>8, <1>9 DEF ResetBuffer
<1>11. Location(b.first, b.line, b.col)
    <2>1. Location(a.first, a.line, a.col)
        BY <1>1, <1>2, <1>8 DEF LexInv, Located
    <2>2. \A k \in a.first..a.last - 1 : At(k) # "newline"
        <3>1. \A k \in a.first..a.last - 1 : k = i
            BY <1>4, <1>8
        <3> QED
            BY <1>4, <3>1
    <2>3. a.last <= Length
        BY <1>4, <1>8
    <2> QED
        BY <1>6, <1>8, <2>1, <2>2, <2>3, InvFacts, ResetLocation
<1>12. Placed'
    <2>1. p \in Starts
        BY <1>4, <1>9
    <2> QED
        BY <1>7, <1>10, <2>1, SameText DEF Placed, Loop
<1>13. \A j \in Starts : i <= j /\ j < p => KindAt(j) \in {"space", "comment"}
    <2>1. \A j \in Starts : j \in Nat
        BY StartsTyped
    <2>2. ASSUME NEW j \in Starts, i <= j, j < p PROVE FALSE
        BY <1>4, <1>9, <2>1, <2>2
    <2> QED
        BY <2>2
<1>14. mode # "done" /\ "scan" \in Modes \ {"done"} /\ i <= p
    BY <1>2, <1>4, <1>9 DEF Modes
<1> QED
    BY <1>1, <1>7, <1>9, <1>10, <1>11, <1>12, <1>13, <1>14, Skips

-----------------------------------------------------------------------------
(* The invariant *)

LEMMA LexStart ==
    ASSUME Init, "CommentAtEnd" \notin Forms, "CommentBody" \notin Forms
    PROVE  LexInv
<1>1. WindowInv
    BY WindowInit
<1>2. /\ buf = [first |-> 1, last |-> 1, line |-> 1, col |-> 1]
      /\ mode = "scan" /\ tokens = <<>> /\ warned = {} /\ far = 1
    BY DEF Init
<1>3. Typed /\ CommentsEnd
    BY <1>1 DEF WindowInv
<1>4. TypeOK
    <2>1. Length <= MaxLength
        <3>1. PICK n \in 0..MaxLength : text \in [1..n -> Alphabet]
            BY DEF Init, Texts
        <3>2. n \in Nat /\ n <= MaxLength
            BY <3>1, LengthAssumption
        <3>3. Len(text) = n
            BY <3>1, <3>2
        <3> QED
            BY <3>2, <3>3 DEF Length
    <2> QED
        BY <1>2, <1>3, <2>1 DEF TypeOK, Typed
<1>5. Placed
    BY <1>2, <1>3, StartsIs DEF Placed
<1>6. Location(1, 1, 1)
    <2>1. Newlines(1) = {}
        BY DEF Newlines
    <2> QED
        BY <2>1, FS_EmptySet DEF Location
<1>7. Located
    BY <1>2, <1>6 DEF Located
<1>8. Recorded
    <2>1. Done = 0
        BY <1>2 DEF Done
    <2>2. \A i \in Starts : i \in Nat \ {0}
        <3>1. Length \in Nat /\ Starts \subseteq 1..Length + 1
            BY <1>3, StartsIs DEF Typed, Length
        <3> QED
            BY <3>1
    <2>3. WantedTo(0) = {} /\ UnknownTo(0) = {}
        BY <2>2 DEF WantedTo, UnknownTo
    <2>4. DOMAIN tokens = {} /\ Len(tokens) = 0
        BY <1>2
    <2>5. RecordedTo(tokens, warned, 0)
        BY <1>2, <2>3, <2>4, FS_EmptySet DEF RecordedTo
    <2> QED
        BY <2>1, <2>5, RecordedIs
<1> QED
    BY <1>1, <1>4, <1>5, <1>7, <1>8 DEF LexInv

LEMMA LexStutters ==
    ASSUME LexInv, UNCHANGED vars
    PROVE  LexInv'
<1>1. /\ text' = text /\ buf' = buf /\ mode' = mode /\ tokens' = tokens /\ warned' = warned
      /\ far' = far
    BY DEF vars
<1>2. WindowInv'
    BY <1>1 DEF LexInv, WindowInv, Typed, CommentsEnd, LineCommentsEnd, BlockCommentsEnd,
                Ahead, LineAhead, BlockAhead, InText, Length
<1>3. TypeOK'
    <2>1. mode \in Modes
        BY DEF LexInv, TypeOK, Modes
    <2> QED
        BY <1>1, <1>2, <2>1, InvFacts, TypeKeeps
<1>4. Starts' = Starts /\ Length' = Length /\ \A k : At(k)' = At(k)
    BY <1>1, SameText
<1>5. Placed'
    BY <1>1, <1>4 DEF LexInv, Placed, InRun, InComment, BlockCommentAt
<1>6. Located'
    BY <1>1 DEF LexInv, Located, Location, Newlines
<1>7. Recorded'
    <2>1. RecordedTo(tokens, warned, Done)
        BY RecordedIs DEF LexInv
    <2>2. Done' = Done
        BY <1>1, <1>4 DEF Done
    <2> QED
        BY <1>1, <2>1, <2>2, SameRecorded
<1> QED
    BY <1>2, <1>3, <1>5, <1>6, <1>7 DEF LexInv

LEMMA LexInductive ==
    ASSUME LexInv, [Next]_vars
    PROVE  LexInv'
<1>1. CASE Step
    BY <1>1, EndStep, SymbolStep, PairStep, SpaceSkipped, UnknownStep, RunStarted, WordStep,
       NumberStep, LineStarted, LineWalked, LineEnded, BlockStarted, BlockWalked, BlockEnded
       DEF Step
<1>2. CASE UNCHANGED vars
    BY <1>2, LexStutters
<1> QED
    BY <1>1, <1>2 DEF Next

LEMMA LexInvariant ==
    ASSUME "CommentAtEnd" \notin Forms, "CommentBody" \notin Forms
    PROVE  Spec => []LexInv
<1>1. Init => LexInv
    BY LexStart
<1>2. LexInv /\ [Next]_vars => LexInv'
    BY LexInductive
<1> QED
    BY <1>1, <1>2, PTL DEF Spec

\* The buffer of VSLLexer is never empty and its line never 0, and createToken
\* makes tokens of the kinds of token.hpp only.
THEOREM TypesAreRight ==
    ASSUME "CommentAtEnd" \notin Forms, "CommentBody" \notin Forms
    PROVE  Spec => []TypeOK
BY LexInvariant, PTL DEF LexInv

\* What nextToken has answered for a text is the tokens of that text, each of
\* the longest form, none left out and none invented: looking one character ahead
\* with peek(), and the extra resets of the comment loops, never split a lexeme
\* or swallow the next one.
THEOREM TokensAreRight ==
    ASSUME "CommentAtEnd" \notin Forms, "CommentBody" \notin Forms
    PROVE  Spec => []TokensMatch
BY LexInvariant, PTL DEF LexInv, Recorded

\* resetBuffer counts a newline only at the end of the buffer; no token is given
\* a wrong line or column by that, because every newline is such an end.
THEOREM LocationsAreRight ==
    ASSUME "CommentAtEnd" \notin Forms, "CommentBody" \notin Forms
    PROVE  Spec => []LocationsExact
BY LexInvariant, PTL DEF LexInv, Recorded

\* nextToken prints "unknown symbol" for exactly the characters that are part of
\* no token, blank or comment, however long the text.
THEOREM UnknownsAreReported ==
    ASSUME "CommentAtEnd" \notin Forms, "CommentBody" \notin Forms
    PROVE  Spec => []UnknownReported
BY LexInvariant, PTL DEF LexInv, Recorded
=============================================================================
