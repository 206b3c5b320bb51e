--------------------------- MODULE RefCountProofs ---------------------------
(***************************************************************************)
(* Proofs about RefCount for any heap, any classes and any stack bound.    *)
(***************************************************************************)
EXTENDS RefCount, TLAPS, FiniteSetTheorems, SequenceTheorems, WellFoundedInduction

-----------------------------------------------------------------------------
(* Sequences of cells *)

LEMMA PushFacts ==
    ASSUME NEW s \in Seq(Cell), NEW c \in Cell
    PROVE  /\ Push(s, c) \in Seq(Cell)
           /\ Len(Push(s, c)) = Len(s) + 1
           /\ \A i \in 1..Len(s) : Push(s, c)[i] = s[i]
           /\ Push(s, c)[Len(s) + 1] = c
  BY DEF Push

LEMMA PopFacts ==
    ASSUME NEW s \in Seq(Cell), Len(s) > 0
    PROVE  /\ Pop(s) \in Seq(Cell)
           /\ Len(Pop(s)) = Len(s) - 1
           /\ \A i \in 1..(Len(s) - 1) : Pop(s)[i] = s[i]
<1> DEFINE n == Len(s) - 1
<1>1. Len(s) \in Nat /\ n \in Nat
  BY LenProperties
<1>2. \A i \in 1..n : s[i] \in Cell
  BY <1>1, ElementOfSeq
<1> HIDE DEF n
<1>3. /\ SubSeq(s, 1, n) \in Seq(Cell)
      /\ Len(SubSeq(s, 1, n)) = IF 1 <= n THEN n - 1 + 1 ELSE 0
      /\ \A i \in 1..(n - 1 + 1) : SubSeq(s, 1, n)[i] = s[1 + i - 1]
  BY <1>1, <1>2, SubSeqProperties
<1>4. Len(SubSeq(s, 1, n)) = n /\ \A i \in 1..n : SubSeq(s, 1, n)[i] = s[i]
  BY <1>1, <1>3
<1> QED
  BY <1>3, <1>4 DEF Pop, n

LEMMA CellFacts ==
    ASSUME NEW k \in ValueKind \cup ExprPlace \cup {"drop", "free"},
           NEW o \in Obj \cup {None}, NEW a \in Obj \cup {None}, NEW i \in Nat
    PROVE  /\ MkCell(k, o, a, i) \in Cell
           /\ MkCell(k, o, a, i).kind = k
           /\ MkCell(k, o, a, i).own = o
           /\ MkCell(k, o, a, i).at = a
           /\ MkCell(k, o, a, i).idx = i
  BY DEF MkCell, Cell

-----------------------------------------------------------------------------
(* The shape of the stack *)

Base == MkCell("frame", None, None, 0)

NoFree(s) == \A i \in 1..Len(s) : s[i].kind # "free"

\* What a cell says about the cells under it.
Shape(s, i) ==
    /\ i = 1 => s[i] = Base
    /\ s[i].kind = "ident" => /\ s[i].idx \in 1..(i - 1)
                              /\ s[s[i].idx].kind = "var"
                              /\ s[i].own = None
    /\ s[i].kind = "field" => s[i].at \in Obj
    /\ s[i].kind \notin {"drop", "free"} => \A j \in 1..(i - 1) : s[j].kind # "free"
    /\ s[i].kind = "scope" => \E j \in 2..(i - 1) : s[j].kind = "frame"
    /\ s[i].kind = "call" => s[i].idx = 0
    /\ s[i].kind = "frame" /\ s[i].idx = 1 =>
          \A j \in 1..(i - 1) : s[j].kind # "scope"

Shaped(s) == s \in Seq(Cell) /\ \A i \in 1..Len(s) : Shape(s, i)

LEMMA ShapedPop ==
    ASSUME NEW s, Shaped(s), Len(s) > 0
    PROVE  Shaped(Pop(s))
<1> s \in Seq(Cell)
  BY DEF Shaped
<1> SUFFICES ASSUME NEW i \in 1..Len(Pop(s))
             PROVE  Shape(Pop(s), i)
  BY PopFacts DEF Shaped
<1>1. Shape(s, i) /\ i \in 1..Len(s) /\ \A j \in 1..i : Pop(s)[j] = s[j]
  BY PopFacts DEF Shaped
<1> QED
  BY <1>1, SMTT(30) DEF Shape

\* A cell that may be pushed on s.
Fits(s, c) ==
    /\ c \in Cell
    /\ Len(s) > 0
    /\ c.kind = "ident" => /\ c.idx \in 1..Len(s) /\ s[c.idx].kind = "var"
                           /\ c.own = None
    /\ c.kind = "field" => c.at \in Obj
    /\ c.kind \notin {"drop", "free"} => NoFree(s)
    /\ c.kind = "scope" => \E j \in 2..Len(s) : s[j].kind = "frame"
    /\ c.kind = "call" => c.idx = 0
    /\ c.kind = "frame" /\ c.idx = 1 => \A j \in 1..Len(s) : s[j].kind # "scope"

LEMMA ShapedPush ==
    ASSUME NEW s, NEW c, Shaped(s), Fits(s, c)
    PROVE  Shaped(Push(s, c)) /\ Len(Push(s, c)) > 0
<1> s \in Seq(Cell) /\ c \in Cell
  BY DEF Shaped, Fits
<1> DEFINE t == Push(s, c)
<1>1. /\ t \in Seq(Cell) /\ Len(t) = Len(s) + 1
      /\ \A i \in 1..Len(s) : t[i] = s[i]
      /\ t[Len(s) + 1] = c
  BY PushFacts
<1> HIDE DEF t
<1>2. ASSUME NEW i \in 1..Len(s)
      PROVE  Shape(t, i)
  <2>1. Shape(s, i) /\ \A j \in 1..i : t[j] = s[j]
    BY <1>1 DEF Shaped
  <2> QED
    BY <2>1 DEF Shape
<1>3. Shape(t, Len(s) + 1)
  BY <1>1 DEF Shape, Fits, NoFree
<1>4. Shaped(t)
  BY <1>1, <1>2, <1>3 DEF Shaped
<1>5. Len(t) > 0
  BY <1>1, LenProperties
<1> QED
  BY <1>4, <1>5 DEF t
LEMMA NoFreePop ==
    ASSUME NEW s \in Seq(Cell), Len(s) > 0, NoFree(s)
    PROVE  NoFree(Pop(s))
  BY PopFacts DEF NoFree

LEMMA NoFreePush ==
    ASSUME NEW s \in Seq(Cell), NEW c \in Cell, NoFree(s), c.kind # "free"
    PROVE  NoFree(Push(s, c))
<1> DEFINE t == Push(s, c)
<1>1. /\ Len(s) \in Nat /\ Len(t) = Len(s) + 1
      /\ \A i \in 1..Len(s) : t[i] = s[i]
      /\ t[Len(s) + 1] = c
  BY PushFacts, LenProperties
<1> HIDE DEF t
<1>2. NoFree(t)
  BY <1>1 DEF NoFree
<1> QED
  BY <1>2 DEF t

\* Cells whose shape asks nothing of the stack under them but that no
\* destructor is running.
PlainKind == {"expr", "self", "int", "lhs", "cond", "rhs", "arg", "var"}

LEMMA PlainCells ==
    ASSUME NEW o \in Obj \cup {None}, NEW a \in Obj \cup {None}, NEW k \in PlainKind
    PROVE  /\ Int_(o) \in Cell /\ Int_(o).kind \in PlainKind
           /\ Expr(o) \in Cell /\ Expr(o).kind \in PlainKind
           /\ Var(o) \in Cell /\ Var(o).kind \in PlainKind
           /\ MkCell(k, o, a, 0) \in Cell /\ MkCell(k, o, a, 0).kind \in PlainKind
  BY DEF Int_, Expr, Var, MkCell, Cell, PlainKind, ValueKind, ExprPlace, StmtPlace

LEMMA PlainFits ==
    ASSUME NEW s, NEW c \in Cell, Len(s) > 0, NoFree(s), c.kind \in PlainKind
    PROVE  Fits(s, c)
  BY DEF Fits, PlainKind

LEMMA PlainPush ==
    ASSUME NEW s, NEW c \in Cell, Shaped(s), Len(s) > 0, NoFree(s), c.kind \in PlainKind
    PROVE  /\ Shaped(Push(s, c))
           /\ Len(Push(s, c)) > 0
           /\ NoFree(Push(s, c))
<1>1. s \in Seq(Cell) /\ Fits(s, c)
  BY PlainFits DEF Shaped
<1> QED
  <2>1. Len(s) \in Nat /\ c.kind # "free"
    BY <1>1, LenProperties DEF PlainKind
  <2>2. Shaped(Push(s, c))
    BY <1>1, ShapedPush
  <2>3. Len(Push(s, c)) = Len(s) + 1
    BY <1>1, PushFacts
  <2>4. NoFree(Push(s, c))
    BY <1>1, <2>1, NoFreePush
  <2> QED
    BY <2>1, <2>2, <2>3, <2>4

LEMMA DropPush ==
    ASSUME NEW s, NEW o \in Obj \cup {None}, Shaped(s), Len(s) > 0
    PROVE  /\ Shaped(Push(s, Drop(o)))
           /\ Len(Push(s, Drop(o))) > 0
           /\ NoFree(s) => NoFree(Push(s, Drop(o)))
<1>1. Drop(o) \in Cell /\ Drop(o).kind = "drop"
  BY CellFacts, NoneAssumption DEF Drop
<1>2. s \in Seq(Cell) /\ Fits(s, Drop(o))
  BY <1>1 DEF Shaped, Fits
<1> QED
  <2>1. Len(s) \in Nat
    BY <1>2, LenProperties
  <2>2. Shaped(Push(s, Drop(o)))
    BY <1>2, ShapedPush
  <2>3. Len(Push(s, Drop(o))) = Len(s) + 1
    BY <1>1, <1>2, PushFacts
  <2>4. NoFree(s) => NoFree(Push(s, Drop(o)))
    BY <1>1, <1>2, NoFreePush
  <2> QED
    BY <2>1, <2>2, <2>3, <2>4

-----------------------------------------------------------------------------
(* The type invariant *)

\* A live object's count is at least 1, so the destructor's decrement stays
\* in range; and the stack has the shape that the actions rely on.
Counted == \A o \in Live : rc[o] >= 1

TypeInv == TypeOK /\ Shaped(stack) /\ Counted

LEMMA TopFacts ==
    ASSUME TypeInv, Len(stack) > 0
    PROVE  /\ stack \in Seq(Cell) /\ Len(stack) \in Nat /\ Len(stack) \in 1..Len(stack)
           /\ Top \in Cell /\ Shape(stack, Len(stack))
           /\ stack[1] = Base /\ Base.kind = "frame"
           /\ Top.kind \notin {"drop", "free"} => NoFree(stack)
           /\ Top.kind # "frame" => Len(stack) > 1
<1>1. stack \in Seq(Cell) /\ Len(stack) \in Nat /\ Len(stack) \in 1..Len(stack)
  BY LenProperties DEF TypeInv, Shaped
<1>2. Top \in Cell /\ Shape(stack, Len(stack)) /\ Shape(stack, 1)
  BY <1>1, ElementOfSeq DEF TypeInv, Shaped, Top
<1>3. stack[1] = Base /\ Base.kind = "frame"
  BY <1>2 DEF Shape, Base, MkCell
<1>4. Top.kind # "frame" => Len(stack) > 1
  BY <1>1, <1>3 DEF Top
<1>5. Top.kind \notin {"drop", "free"} => NoFree(stack)
  BY <1>1, <1>2 DEF Shape, NoFree, Top
<1> QED
  BY <1>1, <1>2, <1>3, <1>4, <1>5

LEMMA UnderFacts ==
    ASSUME TypeInv, Len(stack) > 1
    PROVE  /\ Under \in Cell /\ Len(stack) - 1 \in 1..Len(stack)
           /\ Shape(stack, Len(stack) - 1)
           /\ Under.kind # "frame" => Len(stack) > 2
<1>1. stack \in Seq(Cell) /\ Len(stack) \in Nat /\ stack[1] = Base /\ Base.kind = "frame"
  BY TopFacts
<1>2. Len(stack) - 1 \in 1..Len(stack)
  BY <1>1
<1>3. Under \in Cell /\ Shape(stack, Len(stack) - 1)
  BY <1>1, <1>2, ElementOfSeq DEF TypeInv, Shaped, Under
<1>4. Under.kind # "frame" => Len(stack) > 2
  BY <1>1, <1>2 DEF Under
<1> QED
  BY <1>2, <1>3, <1>4

\* The objects that the operators on Values name, and what copyValue leaves.
LEMMA ValueFacts ==
    ASSUME TypeInv, NEW i \in 1..Len(stack)
    PROVE  /\ stack[i] \in Cell
           /\ Loaded(stack[i]) \in Obj \cup {None}
           /\ Destroyed(stack[i]) \in Obj \cup {None}
           /\ BaseOf(stack[i]) \in Obj \cup {None}
           /\ Copied(stack[i]) \in [Obj -> Nat]
           /\ \A o \in Obj : Copied(stack[i])[o] >= rc[o]
<1> DEFINE v == stack[i]
<1>1. v \in Cell /\ Shape(stack, i) /\ Len(stack) \in Nat
  BY ElementOfSeq, LenProperties DEF TypeInv, Shaped
<1>2. v.own \in Obj \cup {None} /\ v.at \in Obj \cup {None} /\ v.idx \in Nat
  BY <1>1 DEF Cell
<1>3. v.kind = "ident" => stack[v.idx].own \in Obj \cup {None}
  <2> SUFFICES ASSUME v.kind = "ident" PROVE stack[v.idx].own \in Obj \cup {None}
    OBVIOUS
  <2>1. v.idx \in 1..Len(stack)
    BY <1>1 DEF Shape
  <2>2. stack[v.idx] \in Cell
    BY <2>1, ElementOfSeq DEF TypeInv, Shaped
  <2> QED
    BY <2>2 DEF Cell
<1>4. v.kind = "field" => field[v.at] \in Obj \cup {None}
  BY <1>1 DEF Shape, TypeInv, TypeOK
<1>5. Loaded(v) \in Obj \cup {None}
  BY <1>2, <1>3, <1>4 DEF Loaded
<1>6. Destroyed(v) \in Obj \cup {None}
  BY <1>2, <1>4 DEF Destroyed
<1>7. BaseOf(v) \in Obj \cup {None}
  BY <1>2 DEF BaseOf
<1>8. rc \in [Obj -> Nat]
  BY DEF TypeInv, TypeOK
<1> HIDE DEF v
<1>9. /\ Copied(v) \in [Obj -> Nat]
      /\ \A o \in Obj : Copied(v)[o] >= rc[o]
  <2> DEFINE l == Loaded(v)
  <2>1. CASE v.kind \in {"ident", "field"} /\ l \in Obj
    <3>1. Copied(v) = [rc EXCEPT ![l] = @ + 1] /\ rc[l] \in Nat
      BY <1>8, <2>1 DEF Copied
    <3> QED
      BY <1>8, <2>1, <3>1
  <2>2. CASE v.kind \in {"ident", "field"} /\ l \notin Obj
    <3>1. Copied(v) = [rc EXCEPT ![l] = @ + 1]
      BY <2>2 DEF Copied
    <3>2. Copied(v) = rc
      BY <1>8, <2>2, <3>1
    <3> QED
      BY <1>8, <3>2
  <2>3. CASE v.kind \notin {"ident", "field"}
    BY <1>8, <2>3 DEF Copied
  <2> QED
    BY <2>1, <2>2, <2>3
<1> QED
  BY <1>1, <1>5, <1>6, <1>7, <1>9 DEF v

\* The program's frame is at the bottom of every stack, so there is a frame,
\* and CurFrame is the topmost.
LEMMA CurFrameFacts ==
    ASSUME TypeInv, Len(stack) > 0
    PROVE  /\ CurFrame \in 1..Len(stack)
           /\ stack[CurFrame].kind = "frame"
           /\ \A j \in 1..Len(stack) : stack[j].kind = "frame" => j <= CurFrame
<1> DEFINE n == Len(stack)
           F == {i \in 1..n : stack[i].kind = "frame"}
           T == {n - i : i \in F}
<1>1. n \in Nat /\ n > 0 /\ 1 \in F /\ DOMAIN stack = 1..n
  BY TopFacts, LenProperties
<1> HIDE DEF n
<1>2. T \subseteq Nat /\ T # {}
  BY <1>1
<1>3. PICK m \in T : \A k \in T : <<k, m>> \notin OpToRel(<, Nat)
  BY <1>2, NatLessThanWellFounded, WFMin
<1>4. \A k \in T : m <= k
  <2> SUFFICES ASSUME NEW k \in T, ~(m <= k) PROVE FALSE
    OBVIOUS
  <2> k \in Nat /\ m \in Nat
    BY <1>2
  <2>1. <<k, m>> \in Nat \X Nat /\ <<k, m>>[1] < <<k, m>>[2]
    BY <1>2
  <2>2. <<k, m>> \in OpToRel(<, Nat)
    BY <2>1, Zenon DEF OpToRel
  <2> QED
    BY <1>3, <2>2
<1>5. PICK i \in F : m = n - i
  OBVIOUS
<1>6. \A j \in F : j <= i
  <2> SUFFICES ASSUME NEW j \in F PROVE j <= i
    OBVIOUS
  <2>1. n - j \in T /\ i \in Int /\ j \in Int
    BY <1>1
  <2> QED
    <3>1. m <= n - j
      BY <1>4, <2>1
    <3> QED
      BY <1>1, <1>5, <2>1, <3>1
<1>7. \E x \in DOMAIN stack : /\ stack[x].kind = "frame"
                              /\ \A j \in DOMAIN stack : stack[j].kind = "frame" => j <= x
  BY <1>1, <1>5, <1>6
<1> QED
  BY <1>1, <1>7 DEF CurFrame, n

\* A step that leaves objects and fields alone keeps the invariant if its
\* stack is well shaped and counts only grow.
LEMMA StackStep ==
    ASSUME TypeInv, Shaped(stack'), state' = state, field' = field,
           rc' \in [Obj -> Nat], \A o \in Obj : rc'[o] >= rc[o],
           ret' \in Obj \cup {None},
           mode' \in {"run", "leave", "unwind", "done", "oom", "fault"}
    PROVE  TypeInv'
<1>1. TypeOK'
  BY DEF TypeInv, TypeOK, Shaped
<1>2. Shaped(stack)'
  BY DEF Shaped, Shape, Base, MkCell
<1>3. Counted'
  BY DEF Counted, Live, TypeInv, TypeOK
<1> QED
  BY <1>1, <1>2, <1>3 DEF TypeInv
LEMMA FaultStep ==
    ASSUME TypeInv, mode' = "fault", UNCHANGED <<stack, rc, state, field, ret>>
    PROVE  TypeInv'
<1>1. Shaped(stack') /\ rc' \in [Obj -> Nat] /\ \A o \in Obj : rc'[o] >= rc[o]
  BY DEF TypeInv, TypeOK
<1>2. ret' \in Obj \cup {None} /\ state' = state /\ field' = field
  BY DEF TypeInv, TypeOK
<1> QED
  BY <1>1, <1>2, StackStep

\* The stack when the innermost expression has its Value: both it and the
\* value's place can be popped.
LEMMA ValuePops ==
    ASSUME TypeInv, HasValue
    PROVE  /\ Len(stack) > 1 /\ NoFree(stack) /\ Top \in Cell
           /\ Shaped(Pop(stack)) /\ Len(Pop(stack)) > 0 /\ NoFree(Pop(stack))
<1>1. Len(stack) > 0 /\ Top.kind \in ValueKind
  BY DEF HasValue, TopIs
<1>2. Len(stack) > 1 /\ NoFree(stack) /\ Top \in Cell
  BY <1>1, TopFacts DEF ValueKind
<1>3. stack \in Seq(Cell) /\ Shaped(stack) /\ Len(stack) \in Nat
  BY <1>1, TopFacts DEF TypeInv
<1>4. Shaped(Pop(stack)) /\ NoFree(Pop(stack)) /\ Len(Pop(stack)) = Len(stack) - 1
  BY <1>2, <1>3, ShapedPop, NoFreePop, PopFacts
<1> QED
  BY <1>2, <1>3, <1>4

LEMMA PlacePops ==
    ASSUME TypeInv, Len(stack) > 1, Top.kind \in ValueKind,
           Under.kind \in ValueKind \cup {"lhs", "cond", "rhs"}
    PROVE  /\ Len(stack) > 2 /\ Under \in Cell
           /\ Shaped(Pop2) /\ Len(Pop2) > 0 /\ NoFree(Pop2)
           /\ Len(Pop2) = Len(stack) - 2
           /\ \A i \in 1..Len(Pop2) : Pop2[i] = stack[i]
<1>1. NoFree(stack) /\ stack \in Seq(Cell) /\ Shaped(stack) /\ Len(stack) \in Nat
  BY TopFacts DEF ValueKind, TypeInv
<1>2. Len(stack) > 2 /\ Under \in Cell
  BY UnderFacts DEF ValueKind
<1>3. /\ Shaped(Pop(stack)) /\ NoFree(Pop(stack)) /\ Len(Pop(stack)) = Len(stack) - 1
      /\ \A i \in 1..(Len(stack) - 1) : Pop(stack)[i] = stack[i]
  BY <1>1, <1>2, ShapedPop, NoFreePop, PopFacts
<1>4. Pop(stack) \in Seq(Cell)
  BY <1>3 DEF Shaped
<1> DEFINE s == Pop(stack)
<1> HIDE DEF s
<1>5. s \in Seq(Cell) /\ Shaped(s) /\ NoFree(s) /\ Len(s) > 0 /\ Len(s) \in Nat
      /\ Len(s) = Len(stack) - 1 /\ \A i \in 1..Len(s) : s[i] = stack[i]
  BY <1>1, <1>2, <1>3, <1>4 DEF s
<1>6. /\ Shaped(Pop(s)) /\ NoFree(Pop(s)) /\ Len(Pop(s)) = Len(s) - 1
      /\ \A i \in 1..(Len(s) - 1) : Pop(s)[i] = s[i]
  BY <1>5, ShapedPop, NoFreePop, PopFacts
<1>7. Len(Pop(s)) > 0 /\ Len(Pop(s)) = Len(stack) - 2
      /\ \A i \in 1..Len(Pop(s)) : Pop(s)[i] = stack[i]
  BY <1>1, <1>2, <1>5, <1>6
<1> QED
  BY <1>2, <1>6, <1>7 DEF Pop2, s

\* The end of an expression's use: its cell is replaced by at most one plain
\* cell and a destructor call.
LEMMA ReplaceTop ==
    ASSUME TypeInv, HasValue, NEW c \in Cell, c.kind \in PlainKind,
           NEW o \in Obj \cup {None}
    PROVE  /\ Shaped(Push(Pop(stack), c))
           /\ Shaped(Push(Pop(stack), Drop(o)))
           /\ Shaped(Push(Push(Pop(stack), c), Drop(o)))
<1> DEFINE s == Pop(stack)
<1>1. Shaped(s) /\ Len(s) > 0 /\ NoFree(s)
  BY ValuePops
<1> HIDE DEF s
<1>2. Shaped(Push(s, c)) /\ Len(Push(s, c)) > 0
  BY <1>1, PlainPush
<1>3. Shaped(Push(s, Drop(o))) /\ Shaped(Push(Push(s, c), Drop(o)))
  BY <1>1, <1>2, DropPush
<1> QED
  BY <1>2, <1>3 DEF s

\* The same under a value's place: up to three cells take the place's part.
LEMMA ReplacePlace ==
    ASSUME TypeInv, HasValue, Len(stack) > 1,
           Under.kind \in ValueKind \cup {"lhs", "cond", "rhs"},
           NEW c \in Cell, c.kind \in PlainKind, NEW o \in Obj \cup {None}
    PROVE  /\ Under.own \in Obj \cup {None} /\ Top.own \in Obj \cup {None}
           /\ Shaped(Push(Pop2, Drop(o)))
           /\ Shaped(Push(Push(Pop2, c), Drop(o)))
           /\ Shaped(Push(Push(Push(Pop2, c), Drop(Under.own)), Drop(o)))
           /\ Shaped(Push(Push(Push(Pop2, c), Drop(o)), Drop(Under.own)))
<1>1. Shaped(Pop2) /\ Len(Pop2) > 0 /\ NoFree(Pop2) /\ Under \in Cell /\ Top \in Cell
  BY PlacePops, ValuePops DEF HasValue, TopIs
<1>2. Under.own \in Obj \cup {None} /\ Top.own \in Obj \cup {None}
  BY <1>1 DEF Cell
<1>3. Shaped(Push(Pop2, c)) /\ Len(Push(Pop2, c)) > 0
  BY <1>1, PlainPush
<1>4. \A p \in Obj \cup {None} :
         /\ Shaped(Push(Pop2, Drop(p)))
         /\ Shaped(Push(Push(Pop2, c), Drop(p)))
         /\ Len(Push(Push(Pop2, c), Drop(p))) > 0
  BY <1>1, <1>3, DropPush
<1>5. \A p, q \in Obj \cup {None} : Shaped(Push(Push(Push(Pop2, c), Drop(p)), Drop(q)))
  BY <1>4, DropPush
<1> QED
  BY <1>2, <1>4, <1>5

LEMMA NoneCell == None \in Obj \cup {None}
  OBVIOUS

LEMMA IntCell ==
    ASSUME NEW o \in Obj \cup {None}
    PROVE  Int_(o) \in Cell /\ Int_(o).kind \in PlainKind
  BY DEF Int_, MkCell, Cell, PlainKind, ValueKind

LEMMA ExprCell ==
    ASSUME NEW o \in Obj \cup {None}
    PROVE  Expr(o) \in Cell /\ Expr(o).kind \in PlainKind
  BY IntCell DEF Expr, MkCell, Cell, PlainKind, ValueKind

LEMMA TopValue ==
    ASSUME TypeInv, HasValue
    PROVE  /\ Top \in Cell /\ Top.own \in Obj \cup {None}
           /\ Loaded(Top) \in Obj \cup {None}
           /\ Destroyed(Top) \in Obj \cup {None}
           /\ BaseOf(Top) \in Obj \cup {None}
           /\ Copied(Top) \in [Obj -> Nat]
           /\ \A o \in Obj : Copied(Top)[o] >= rc[o]
<1>1. Len(stack) > 0
  BY DEF HasValue, TopIs
<1>2. Len(stack) \in 1..Len(stack)
  BY <1>1, TopFacts
<1> QED
  BY <1>2, ValueFacts DEF Top, Cell

\* Steps that only move references, and steps that copy the top value.
LEMMA SameHeap ==
    ASSUME TypeInv, Shaped(stack'), UNCHANGED <<rc, state, field, ret>>,
           mode' \in {"run", "leave", "unwind", "done", "oom", "fault"} \/ mode' = mode
    PROVE  TypeInv'
<1>1. rc' \in [Obj -> Nat] /\ \A o \in Obj : rc'[o] >= rc[o]
  BY DEF TypeInv, TypeOK
<1> QED
  BY <1>1, StackStep DEF TypeInv, TypeOK

LEMMA CopyHeap ==
    ASSUME TypeInv, HasValue, Shaped(stack'), rc' = Copied(Top),
           UNCHANGED <<state, field, ret, mode>>
    PROVE  TypeInv'
  BY TopValue, StackStep DEF TypeInv, TypeOK

-----------------------------------------------------------------------------
(* Expressions keep the type invariant *)

LEMMA EvalType ==
    ASSUME TypeInv, NEW c, Eval(c), Len(stack) > 0 => Fits(stack, c)
    PROVE  TypeInv'
<1>1. Len(stack) > 0 /\ Shaped(stack)
  BY DEF Eval, CanEval, TopIs, TypeInv
<1>2. Shaped(stack')
  BY <1>1, ShapedPush DEF Eval
<1>3. rc' \in [Obj -> Nat] /\ \A o \in Obj : rc'[o] >= rc[o]
  BY DEF Eval, TypeInv, TypeOK
<1> QED
  BY <1>2, <1>3, StackStep DEF Eval, TypeInv, TypeOK

LEMMA ExprPlaceNoFree ==
    ASSUME TypeInv, TopIs(ExprPlace)
    PROVE  Len(stack) > 0 /\ NoFree(stack)
  BY TopFacts DEF TopIs, ExprPlace, StmtPlace

LEMMA ExpressionType ==
    ASSUME TypeInv, Expression
    PROVE  TypeInv'
<1>1. ASSUME VisitLiteral PROVE TypeInv'
  <2>1. Len(stack) > 0 /\ NoFree(stack)
    BY <1>1, ExprPlaceNoFree DEF VisitLiteral, Eval, CanEval
  <2>2. Int_(None) \in Cell /\ Int_(None).kind \in PlainKind
    BY CellFacts, SMTT(30) DEF Int_, PlainKind, ValueKind
  <2>3. Fits(stack, Int_(None))
    BY <2>1, <2>2, PlainFits
  <2> QED
    BY <1>1, <2>3, EvalType DEF VisitLiteral
<1>2. ASSUME VisitIdent PROVE TypeInv'
  <2> PICK i \in DOMAIN stack : /\ Visible(i)
                                /\ Eval(MkCell("ident", None, None, i))
    BY <1>2 DEF VisitIdent
  <2> DEFINE c == MkCell("ident", None, None, i)
  <2>1. i \in 1..Len(stack) /\ Len(stack) \in Nat
    BY LenProperties DEF TypeInv, TypeOK
  <2>2. c \in Cell /\ c.kind = "ident" /\ c.own = None /\ c.idx = i
    BY <2>1, CellFacts DEF ValueKind
  <2> HIDE DEF c
  <2>3. Len(stack) > 0 => Fits(stack, c)
    BY <2>1, <2>2, ExprPlaceNoFree DEF Fits, Visible, Eval, CanEval
  <2>4. Eval(c)
    BY DEF c
  <2> QED
    BY <2>3, <2>4, EvalType
<1>3. ASSUME VisitSelf PROVE TypeInv'
  <2> DEFINE c == MkCell("self", None, stack[CurFrame].at, 0)
  <2>1. Eval(c) /\ Len(stack) > 0 /\ NoFree(stack)
    BY <1>3, ExprPlaceNoFree DEF VisitSelf, Eval, CanEval
  <2>2. stack[CurFrame].at \in Obj \cup {None}
    BY <2>1, CurFrameFacts, ValueFacts DEF Cell
  <2>3. Fits(stack, c)
    BY <2>1, <2>2, PlainCells, PlainFits DEF PlainKind
  <2> QED
    BY <2>1, <2>3, EvalType
<1>4. ASSUME VisitFieldAccess PROVE TypeInv'
  <2> DEFINE c == MkCell("field", Top.own, Loaded(Top), 0)
  <2>1. HasValue /\ Loaded(Top) \in Obj
    BY <1>4 DEF VisitFieldAccess
  <2>2. CASE LoadTouches(Top) \subseteq Live
    <3>1. Shaped(Pop(stack)) /\ Len(Pop(stack)) > 0 /\ NoFree(Pop(stack)) /\ Top \in Cell
      BY <2>1, ValuePops
    <3>2. c \in Cell /\ c.kind = "field" /\ c.at \in Obj
      BY <2>1, <3>1, CellFacts DEF Cell, ValueKind
    <3> HIDE DEF c
    <3>3. Fits(Pop(stack), c)
      BY <3>1, <3>2 DEF Fits
    <3>4. stack' = Push(Pop(stack), c) /\ UNCHANGED <<rc, state, field, ret, mode>>
      BY <1>4, <2>2 DEF VisitFieldAccess, Touch, c
    <3>5. Shaped(stack')
      BY <3>1, <3>3, <3>4, ShapedPush
    <3> QED
      BY <3>4, <3>5, SameHeap
  <2>3. CASE ~(LoadTouches(Top) \subseteq Live)
    BY <1>4, <2>3, FaultStep DEF VisitFieldAccess, Touch
  <2> QED
    BY <2>2, <2>3
<1>5. ASSUME VisitIntField PROVE TypeInv'
  <2>1. HasValue
    BY <1>5 DEF VisitIntField
  <2>2. CASE LoadTouches(Top) \cup {Loaded(Top)} \subseteq Live
    <3>1. Top.own \in Obj \cup {None}
      BY <2>1, ValuePops DEF Cell
    <3>2. Shaped(Push(Pop(stack), Int_(Top.own)))
      BY <2>1, <3>1, IntCell, NoneCell, ReplaceTop
    <3> QED
      BY <1>5, <2>2, <3>2, SameHeap DEF VisitIntField, Touch
  <2>3. CASE ~(LoadTouches(Top) \cup {Loaded(Top)} \subseteq Live)
    BY <1>5, <2>3, FaultStep DEF VisitIntField, Touch
  <2> QED
    BY <2>2, <2>3
<1>6. ASSUME NEW k \in {"lhs", "cond"}, HoldOperand(k) PROVE TypeInv'
  <2> DEFINE c == MkCell(k, Top.own, None, 0)
  <2>1. HasValue /\ stack' = Push(Pop(stack), c) /\ UNCHANGED <<rc, state, field, ret, mode>>
    BY <1>6 DEF HoldOperand
  <2>2. Top.own \in Obj \cup {None}
    BY <2>1, ValuePops DEF Cell
  <2>3. c \in Cell /\ c.kind \in PlainKind
    BY <2>2 DEF MkCell, Cell, PlainKind, ExprPlace
  <2> HIDE DEF c
  <2>4. Shaped(Push(Pop(stack), c))
    BY <2>1, <2>3, NoneCell, ReplaceTop
  <2> QED
    BY <2>1, <2>4, SameHeap
<1>7. ASSUME Binary PROVE TypeInv'
  <2>1. /\ HasValue /\ UnderIs({"lhs"})
        /\ stack' = Push(Push(Push(Pop2, Int_(None)), Drop(Top.own)), Drop(Under.own))
        /\ UNCHANGED <<rc, state, field, ret, mode>>
    BY <1>7 DEF Binary
  <2>2. Shaped(stack')
    BY <2>1, NoneCell, IntCell, ReplacePlace DEF UnderIs
  <2> QED
    BY <2>1, <2>2, SameHeap
<1>8. ASSUME Ternary PROVE TypeInv'
  <2>1. HasValue /\ UnderIs({"cond"})
    BY <1>8 DEF Ternary
  <2>2. CASE CopyTouches(Top) \subseteq Live
    <3>1. Loaded(Top) \in Obj \cup {None} /\ BaseOf(Top) \in Obj \cup {None}
      BY <2>1, TopValue
    <3>2. Expr(Loaded(Top)) \in Cell /\ Expr(Loaded(Top)).kind \in PlainKind
      BY <3>1, ExprCell
    <3>3. Shaped(Push(Push(Push(Pop2, Expr(Loaded(Top))), Drop(Under.own)), Drop(BaseOf(Top))))
      BY <2>1, <3>1, <3>2, ReplacePlace DEF UnderIs
    <3> QED
      BY <1>8, <2>1, <2>2, <3>3, CopyHeap DEF Ternary, Touch
  <2>3. CASE ~(CopyTouches(Top) \subseteq Live)
    BY <1>8, <2>3, FaultStep DEF Ternary, Touch
  <2> QED
    BY <2>2, <2>3
<1>9. ASSUME Unary PROVE TypeInv'
  <2>1. /\ HasValue /\ Top.own \in Obj \cup {None}
        /\ stack' = Push(Push(Pop(stack), Int_(None)), Drop(Top.own))
        /\ UNCHANGED <<rc, state, field, ret, mode>>
    BY <1>9, ValuePops DEF Unary, Cell
  <2>2. Shaped(stack')
    BY <2>1, NoneCell, IntCell, ReplaceTop
  <2> QED
    BY <2>1, <2>2, SameHeap
<1> QED
  BY <1>1, <1>2, <1>3, <1>4, <1>5, <1>6, <1>7, <1>8, <1>9
     DEF Expression, BinaryLhs, TernaryCond

-----------------------------------------------------------------------------
(* Calls keep the type invariant *)

LEMMA BeginCtorType ==
    ASSUME TypeInv, BeginCtor
    PROVE  TypeInv'
<1> PICK o \in Obj :
       /\ CanEval /\ state[o] = "free"
       /\ stack' = Push(stack, MkCell("call", o, o, 0))
       /\ rc' = [rc EXCEPT ![o] = 1]
       /\ state' = [state EXCEPT ![o] = "live"]
       /\ field' = [field EXCEPT ![o] = None]
       /\ UNCHANGED <<ret, mode>>
  BY DEF BeginCtor
<1> DEFINE c == MkCell("call", o, o, 0)
<1>1. c \in Cell /\ c.kind = "call" /\ c.idx = 0
  BY DEF MkCell, Cell, ExprPlace
<1> HIDE DEF c
<1>2. Len(stack) > 0 /\ NoFree(stack)
  BY ExprPlaceNoFree DEF CanEval
<1>3. Shaped(stack) /\ Fits(stack, c)
  BY <1>1, <1>2 DEF Fits, TypeInv
<1>4. Shaped(Push(stack, c))
  BY <1>3, ShapedPush
<1>5. Shaped(stack')
  BY <1>4 DEF c
<1>6. Shaped(stack)'
  BY <1>5 DEF Shaped, Shape, Base, MkCell
<1>7. TypeOK'
  BY <1>5 DEF TypeInv, TypeOK, Shaped
<1>8. Counted'
  BY DEF TypeInv, TypeOK, Counted, Live
<1> QED
  BY <1>6, <1>7, <1>8 DEF TypeInv

LEMMA BeginMethodType ==
    ASSUME TypeInv, BeginMethod
    PROVE  TypeInv'
<1> DEFINE c == MkCell("call", None, Loaded(Top), 0)
<1>1. HasValue
  BY DEF BeginMethod
<1>2. Len(stack) > 0 /\ NoFree(stack) /\ Shaped(stack) /\ Loaded(Top) \in Obj \cup {None}
  BY <1>1, ValuePops, TopValue DEF TypeInv
<1>3. c \in Cell /\ c.kind = "call" /\ c.idx = 0
  BY <1>2 DEF MkCell, Cell, ExprPlace
<1> HIDE DEF c
<1>4. Shaped(Push(stack, c))
  BY <1>2, <1>3, ShapedPush DEF Fits
<1>5. CASE LoadTouches(Top) \subseteq Live
  BY <1>4, <1>5, SameHeap DEF BeginMethod, Touch, c
<1>6. CASE ~(LoadTouches(Top) \subseteq Live)
  BY <1>6, FaultStep DEF BeginMethod, Touch
<1> QED
  BY <1>5, <1>6

LEMMA PassArgType ==
    ASSUME TypeInv, PassArg
    PROVE  TypeInv'
<1> DEFINE c == MkCell("arg", Loaded(Top), Destroyed(Top), 0)
<1>1. HasValue
  BY DEF PassArg
<1>2. /\ Loaded(Top) \in Obj \cup {None} /\ Destroyed(Top) \in Obj \cup {None}
      /\ BaseOf(Top) \in Obj \cup {None}
  BY <1>1, TopValue
<1>3. c \in Cell /\ c.kind \in PlainKind
  BY <1>2 DEF MkCell, Cell, ExprPlace, PlainKind
<1> HIDE DEF c
<1>4. Shaped(Push(Push(Pop(stack), c), Drop(BaseOf(Top))))
  BY <1>1, <1>2, <1>3, ReplaceTop
<1>5. CASE CopyTouches(Top) \subseteq Live
  BY <1>1, <1>4, <1>5, CopyHeap DEF PassArg, Touch, c
<1>6. CASE ~(CopyTouches(Top) \subseteq Live)
  BY <1>6, FaultStep DEF PassArg, Touch
<1> QED
  BY <1>5, <1>6

\* The stack that EnterCall leaves: only the kinds of the call and its
\* arguments change.
LEMMA EnterCallShape ==
    ASSUME TypeInv, EnterCall
    PROVE  /\ Shaped(stack') /\ Len(stack') = Len(stack)
           /\ \A i \in 1..Len(stack) : /\ stack'[i].own = stack[i].own
                                       /\ stack'[i].at = stack[i].at
                                       /\ stack'[i].idx = stack[i].idx
                                       /\ \/ stack'[i].kind = stack[i].kind
                                          \/ stack[i].kind = "call" /\ stack'[i].kind = "frame"
                                          \/ stack[i].kind = "arg" /\ stack'[i].kind = "var"
<1>0. PICK c \in DOMAIN stack :
       /\ stack[c].kind = "call"
       /\ \A i \in DOMAIN stack : i > c => stack[i].kind = "arg"
       /\ stack' = [i \in DOMAIN stack |->
                      IF i < c THEN stack[i]
                      ELSE [stack[i] EXCEPT !.kind = IF i = c THEN "frame" ELSE "var"]]
  BY DEF EnterCall
<1> DEFINE n == Len(stack)
<1>1. n \in Nat /\ DOMAIN stack = 1..n /\ stack \in [1..n -> Cell] /\ c \in 1..n
  BY <1>0, LenProperties DEF TypeInv, TypeOK
<1>2. \A i \in 1..n : Shape(stack, i)
  BY DEF TypeInv, Shaped
<1>3. /\ stack' \in [1..n -> Cell]
      /\ \A i \in 1..n : /\ stack'[i].own = stack[i].own
                         /\ stack'[i].at = stack[i].at
                         /\ stack'[i].idx = stack[i].idx
                         /\ i < c => stack'[i] = stack[i]
                         /\ i = c => stack'[i].kind = "frame" /\ stack[i].kind = "call"
                         /\ i > c => stack'[i].kind = "var" /\ stack[i].kind = "arg"
  BY <1>0, <1>1 DEF Cell, ExprPlace, StmtPlace
<1>4. stack' \in Seq(Cell) /\ Len(stack') = n
  BY <1>1, <1>3
<1>5. ASSUME NEW i \in 1..n
      PROVE  Shape(stack', i)
  <2>1. Shape(stack, i)
    BY <1>2
  <2>2. CASE i < c
    <3>1. \A j \in 1..i : stack'[j] = stack[j]
      BY <1>1, <1>3, <2>2
    <3> QED
      BY <2>1, <3>1 DEF Shape
  <2>3. CASE i >= c
    <3>1. stack[i].kind \in {"call", "arg"} /\ i \in Nat /\ i # 1
      BY <1>1, <1>3, <2>1, <2>3 DEF Shape, Base, MkCell
    <3>2. \A j \in 1..(i - 1) : stack[j].kind # "free" /\ stack'[j].kind # "free"
      BY <1>1, <1>3, <2>1, <3>1 DEF Shape
    <3>3. stack'[i].kind \in {"frame", "var"}
      BY <1>1, <1>3, <2>3
    <3>4. stack'[i].kind = "frame" => stack'[i].idx = 0
      BY <1>1, <1>3, <2>1, <2>3 DEF Shape
    <3> QED
      BY <3>1, <3>2, <3>3, <3>4 DEF Shape
  <2> QED
    BY <1>1, <2>2, <2>3
<1>6. Shaped(stack')
  BY <1>4, <1>5 DEF Shaped
<1> QED
  BY <1>1, <1>3, <1>4, <1>6

LEMMA EndMethodTop ==
    ASSUME TypeInv, Len(stack) > 1, Top.kind \in ValueKind, Under.kind \in ValueKind
    PROVE  Top \in Cell /\ Fits(Pop2, Top)
<1>1. /\ Len(Pop2) > 0 /\ NoFree(Pop2) /\ Len(Pop2) = Len(stack) - 2
      /\ \A i \in 1..Len(Pop2) : Pop2[i] = stack[i]
  BY PlacePops
<1>2. Top \in Cell /\ Shape(stack, Len(stack)) /\ Len(stack) \in Nat
  BY TopFacts
<1>3. Top = stack[Len(stack)] /\ Under = stack[Len(stack) - 1]
  BY DEF Top, Under
<1>4. ASSUME Top.kind = "ident"
      PROVE  Top.idx \in 1..Len(Pop2) /\ Pop2[Top.idx].kind = "var" /\ Top.own = None
  <2>1. Top.idx \in 1..(Len(stack) - 1) /\ stack[Top.idx].kind = "var" /\ Top.own = None
    BY <1>2, <1>3, <1>4 DEF Shape
  <2>2. Top.idx # Len(stack) - 1
    BY <1>3, <2>1 DEF ValueKind
  <2>3. Top.idx \in 1..Len(Pop2)
    BY <1>1, <1>2, <2>1, <2>2
  <2> QED
    BY <1>1, <2>1, <2>3
<1>5. Top.kind = "field" => Top.at \in Obj
  BY <1>2, <1>3 DEF Shape
<1>6. Top.kind \notin {"scope", "call", "frame"}
  BY DEF ValueKind
<1> QED
  BY <1>1, <1>2, <1>4, <1>5, <1>6 DEF Fits

LEMMA CallType ==
    ASSUME TypeInv, Call
    PROVE  TypeInv'
<1>1. ASSUME BeginCall PROVE TypeInv'
  <2> DEFINE c == MkCell("call", None, None, 0)
  <2>1. c \in Cell /\ c.kind = "call" /\ c.idx = 0
    BY DEF MkCell, Cell, ExprPlace
  <2> HIDE DEF c
  <2>2. Eval(c) /\ Len(stack) > 0 /\ NoFree(stack)
    BY <1>1, ExprPlaceNoFree DEF BeginCall, Eval, CanEval, c
  <2>3. Fits(stack, c)
    BY <2>1, <2>2 DEF Fits
  <2> QED
    BY <2>2, <2>3, EvalType
<1>2. ASSUME PassInt PROVE TypeInv'
  <2>1. HasValue /\ stack' = Pop(stack) /\ UNCHANGED <<rc, state, field, ret, mode>>
    BY <1>2 DEF PassInt
  <2> QED
    BY <2>1, ValuePops, SameHeap
<1>3. ASSUME EnterCall PROVE TypeInv'
  <2>1. UNCHANGED <<rc, state, field, ret, mode>>
    BY <1>3 DEF EnterCall
  <2> QED
    BY <1>3, <2>1, EnterCallShape, SameHeap
<1>4. ASSUME EndCall PROVE TypeInv'
  <2> DEFINE c == Expr(IF Top.own # None THEN Top.own ELSE ret)
  <2>1. /\ Len(stack) > 1 /\ Top.kind = "frame" /\ stack' = Push(Pop(stack), c)
        /\ ret' = None /\ mode' = "run" /\ UNCHANGED <<rc, state, field>>
    BY <1>4 DEF EndCall, TopIs
  <2>2. /\ stack \in Seq(Cell) /\ Shaped(stack) /\ Len(stack) \in Nat
        /\ Top \in Cell /\ NoFree(stack)
    BY <2>1, TopFacts DEF TypeInv
  <2>3. c \in Cell /\ c.kind \in PlainKind
    BY <2>2, ExprCell DEF TypeInv, TypeOK, Cell
  <2> HIDE DEF c
  <2>4. Shaped(Pop(stack)) /\ Len(Pop(stack)) > 0 /\ NoFree(Pop(stack))
    BY <2>1, <2>2, ShapedPop, PopFacts, NoFreePop
  <2>5. Shaped(stack')
    BY <2>1, <2>3, <2>4, PlainPush
  <2>6. rc' \in [Obj -> Nat] /\ \A o \in Obj : rc'[o] >= rc[o]
    BY <2>1 DEF TypeInv, TypeOK
  <2> QED
    BY <2>1, <2>5, <2>6, StackStep
<1>5. ASSUME EndMethod PROVE TypeInv'
  <2> DEFINE objs == IF Under.own = None THEN LoadTouches(Under) ELSE {}
  <2>1. CASE objs \subseteq Live
    <3>1. /\ Len(stack) > 1 /\ Top.kind \in ValueKind /\ Under.kind \in ValueKind
          /\ stack' = Push(Push(Pop2, Top), Drop(Destroyed(Under)))
          /\ UNCHANGED <<rc, state, field, ret, mode>>
      BY <1>5, <2>1 DEF EndMethod, Touch, TopIs, UnderIs
    <3>2. Shaped(Pop2) /\ Len(Pop2) > 0 /\ NoFree(Pop2)
      BY <3>1, PlacePops
    <3>3. Destroyed(Under) \in Obj \cup {None}
      BY <3>1, UnderFacts, ValueFacts DEF Under
    <3>4. Top \in Cell /\ Fits(Pop2, Top)
      BY <1>5, <3>1, EndMethodTop
    <3>5. Shaped(Push(Pop2, Top)) /\ Len(Push(Pop2, Top)) > 0
      BY <3>2, <3>4, ShapedPush
    <3>6. Shaped(stack')
      BY <3>1, <3>3, <3>5, DropPush
    <3> QED
      BY <3>1, <3>6, SameHeap
  <2>2. CASE ~(objs \subseteq Live)
    BY <1>5, <2>2, FaultStep DEF EndMethod, Touch
  <2> QED
    BY <2>1, <2>2
<1> QED
  BY <1>1, <1>2, <1>3, <1>4, <1>5, BeginCtorType, BeginMethodType, PassArgType DEF Call

-----------------------------------------------------------------------------
(* Statements keep the type invariant *)

LEMMA AssignVarShape ==
    ASSUME TypeInv, AssignVar
    PROVE  LET i == Top.idx
               s == [Pop2 EXCEPT ![i].own = Under.own]
           IN  /\ i \in 1..Len(Pop2) /\ Loaded(Top) = Pop2[i].own
               /\ Pop2[i].own \in Obj \cup {None} /\ Under.own \in Obj
               /\ Pop2[i].kind = "var"
               /\ Shaped(s) /\ Len(s) > 0 /\ Len(s) = Len(Pop2)
               /\ \A j \in 1..Len(s) : s[j].own = IF j = i THEN Under.own ELSE Pop2[j].own
               /\ \A j \in 1..Len(s) : /\ s[j].kind = Pop2[j].kind
                                       /\ s[j].at = Pop2[j].at
                                       /\ s[j].idx = Pop2[j].idx
                                       /\ j # i => s[j] = Pop2[j]
<1> DEFINE i == Top.idx
           p == Pop2
           s == [p EXCEPT ![i].own = Under.own]
<1>1. /\ Len(stack) > 1 /\ Top.kind = "ident" /\ Under.kind = "rhs" /\ Under.own # None
  BY DEF AssignVar, HasValue, TopIs, UnderIs
<1>2. /\ Shaped(p) /\ Len(p) > 0 /\ Under \in Cell /\ Len(p) = Len(stack) - 2
      /\ \A j \in 1..Len(p) : p[j] = stack[j]
  BY <1>1, PlacePops DEF ValueKind
<1>3. /\ Shape(stack, Len(stack)) /\ Len(stack) \in Nat
      /\ Top = stack[Len(stack)] /\ Under = stack[Len(stack) - 1]
  BY <1>1, TopFacts DEF Top, Under
<1>4. i \in 1..(Len(stack) - 1) /\ stack[i].kind = "var"
  BY <1>1, <1>3 DEF Shape
<1>5. i \in 1..Len(p)
  BY <1>1, <1>2, <1>3, <1>4
<1>6. Loaded(Top) = p[i].own /\ p[i].kind = "var"
  BY <1>1, <1>2, <1>4, <1>5 DEF Loaded
<1>7. Under.own \in Obj
  BY <1>1, <1>2 DEF Cell
<1> HIDE DEF p
<1>8. p \in [1..Len(p) -> Cell] /\ Len(p) \in Nat /\ \A j \in 1..Len(p) : Shape(p, j)
  BY <1>2, LenProperties DEF Shaped
<1>9. p[i].own \in Obj \cup {None}
  BY <1>5, <1>8 DEF Cell
<1> HIDE DEF i
<1>10. s \in [1..Len(p) -> Cell]
  BY <1>5, <1>7, <1>8 DEF Cell
<1>11. \A j \in 1..Len(p) : /\ s[j].own = IF j = i THEN Under.own ELSE p[j].own
                            /\ s[j].kind = p[j].kind
                            /\ s[j].at = p[j].at
                            /\ s[j].idx = p[j].idx
                            /\ j # i => s[j] = p[j]
  BY <1>5, <1>8 DEF Cell
<1>12. s \in Seq(Cell) /\ Len(s) = Len(p)
  BY <1>8, <1>10
<1> HIDE DEF s
<1>13. ASSUME NEW j \in 1..Len(s)
       PROVE  Shape(s, j)
  <2>1. Shape(p, j) /\ \A k \in 1..j : s[k].kind = p[k].kind /\ s[k].idx = p[k].idx
    BY <1>8, <1>11, <1>12
  <2>2. CASE j = i
    <3>1. s[j].kind = "var" /\ j # 1
      BY <1>5, <1>6, <1>11, <2>1, <2>2 DEF Shape, Base, MkCell
    <3> QED
      BY <2>1, <3>1, <1>12, <1>8 DEF Shape
  <2>3. CASE j # i
    <3>1. s[j] = p[j] /\ j \in Nat
      BY <1>11, <1>12, <2>3
    <3>2. s[j].kind = "ident" => s[j].idx \in 1..(j - 1) /\ s[s[j].idx].kind = "var" /\ s[j].own = None
      BY <2>1, <3>1 DEF Shape
    <3> QED
      BY <2>1, <3>1, <3>2 DEF Shape
  <2> QED
    BY <2>2, <2>3
<1> QED
  BY <1>2, <1>5, <1>6, <1>7, <1>9, <1>11, <1>12, <1>13 DEF Shaped, p, s, i

LEMMA AssignFieldType ==
    ASSUME TypeInv, AssignField
    PROVE  TypeInv'
<1>1. HasValue /\ Top.kind = "field" /\ Len(stack) > 1 /\ Under.kind = "rhs" /\ Under.own # None
  BY DEF AssignField, UnderIs
<1>2. CASE Top.at \in Live
  <2>1. /\ field' = [field EXCEPT ![Top.at] = Under.own]
        /\ stack' = Push(Pop2, Drop(Top.own))
        /\ UNCHANGED <<rc, state, ret, mode>>
    BY <1>2 DEF AssignField, Touch
  <2>2. /\ Shaped(Push(Pop2, Drop(Top.own)))
        /\ Under.own \in Obj /\ Top.own \in Obj \cup {None}
    BY <1>1, NoneCell, IntCell, TopValue, ReplacePlace
  <2>3. Shaped(stack')
    BY <2>1, <2>2
  <2>4. Shaped(stack)'
    BY <2>3 DEF Shaped, Shape, Base, MkCell
  <2>5. TypeOK'
    BY <2>1, <2>2, <2>3 DEF TypeInv, TypeOK, Shaped
  <2>6. Counted'
    BY <2>1 DEF TypeInv, Counted, Live
  <2> QED
    BY <2>4, <2>5, <2>6 DEF TypeInv
<1>3. CASE Top.at \notin Live
  BY <1>3, FaultStep DEF AssignField, Touch
<1> QED
  BY <1>2, <1>3

\* Outside the program's frame there is a function's frame.
LEMMA ScopeFits ==
    ASSUME TypeInv, ~InProgram, NEW o \in Obj \cup {None},
           NEW s, NoFree(s), Len(s) > 0, Len(stack) \in Nat,
           Len(s) = Len(stack) \/ (Len(s) = Len(stack) - 1 /\ Top.kind # "frame"),
           \A j \in 1..Len(s) : s[j] = stack[j]
    PROVE  Fits(s, Scope(o))
<1>1. Scope(o) \in Cell /\ Scope(o).kind = "scope"
  BY DEF Scope, MkCell, Cell, ExprPlace, StmtPlace
<1>2. DOMAIN stack = 1..Len(stack)
  BY DEF TypeInv, TypeOK
<1>3. PICK j \in DOMAIN stack : stack[j].kind = "frame" /\ j # 1
  BY DEF InProgram
<1>4. j \in 2..Len(s)
  <2>1. j \in 1..Len(stack) /\ j # 1
    BY <1>2, <1>3
  <2>2. Len(s) = Len(stack) \/ (Len(s) = Len(stack) - 1 /\ j # Len(stack))
    BY <1>3 DEF Top
  <2> QED
    BY <2>1, <2>2
<1>5. s[j].kind = "frame"
  BY <1>3, <1>4
<1> QED
  BY <1>1, <1>4, <1>5 DEF Fits

LEMMA ScopeType ==
    ASSUME TypeInv, EnterIf \/ EnterBlock
    PROVE  TypeInv'
<1>1. CASE EnterIf
  <2>1. /\ HasValue /\ Top.kind = "int" /\ ~InProgram
        /\ stack' = Push(Pop(stack), Scope(Top.own))
        /\ UNCHANGED <<rc, state, field, ret, mode>>
    BY <1>1 DEF EnterIf, StmtValue
  <2> DEFINE s == Pop(stack)
  <2>2. /\ Shaped(s) /\ Len(s) > 0 /\ NoFree(s) /\ Len(stack) > 1
        /\ Top.own \in Obj \cup {None}
    BY <2>1, ValuePops, TopValue
  <2>3. /\ stack \in Seq(Cell) /\ Len(stack) \in Nat /\ Len(s) = Len(stack) - 1
        /\ \A j \in 1..Len(s) : s[j] = stack[j]
    BY <2>2, TopFacts, PopFacts
  <2> HIDE DEF s
  <2>4. Fits(s, Scope(Top.own))
    BY <2>1, <2>2, <2>3, ScopeFits
  <2>5. Shaped(stack')
    BY <2>1, <2>2, <2>4, ShapedPush DEF s
  <2> QED
    BY <2>1, <2>5, SameHeap
<1>2. CASE EnterBlock
  <2>1. /\ TopIs(ExprPlace) /\ ~InProgram
        /\ stack' = Push(stack, Scope(None))
        /\ UNCHANGED <<rc, state, field, ret, mode>>
    BY <1>2 DEF EnterBlock, CanEval
  <2>2. Len(stack) > 0 /\ NoFree(stack) /\ Shaped(stack)
    BY <2>1, ExprPlaceNoFree DEF TypeInv
  <2>3. Fits(stack, Scope(None))
    BY <2>1, <2>2, TopFacts, ScopeFits
  <2>4. Shaped(stack')
    BY <2>1, <2>2, <2>3, ShapedPush
  <2> QED
    BY <2>1, <2>4, SameHeap
<1> QED
  BY <1>1, <1>2

LEMMA ReturnValueType ==
    ASSUME TypeInv, ReturnValue
    PROVE  TypeInv'
<1>1. HasValue
  BY DEF ReturnValue, StmtValue
<1>2. CASE CopyTouches(Top) \subseteq Live
  <2>1. /\ stack' = Push(Pop(stack), Drop(BaseOf(Top)))
        /\ rc' = Copied(Top) /\ ret' = Loaded(Top) /\ mode' = "unwind"
        /\ UNCHANGED <<state, field>>
    BY <1>2 DEF ReturnValue, Touch
  <2>2. Shaped(stack')
    BY <1>1, <2>1, TopValue, NoneCell, IntCell, ReplaceTop
  <2> QED
    BY <1>1, <2>1, <2>2, TopValue, StackStep
<1>3. CASE ~(CopyTouches(Top) \subseteq Live)
  BY <1>3, FaultStep DEF ReturnValue, Touch
<1> QED
  BY <1>2, <1>3

LEMMA StatementType ==
    ASSUME TypeInv, Statement
    PROVE  TypeInv'
<1>1. ASSUME ExprStmt PROVE TypeInv'
  <2> DEFINE objs == IF Top.own = None THEN LoadTouches(Top) ELSE {}
  <2>1. HasValue
    BY <1>1 DEF ExprStmt, StmtValue
  <2>2. CASE objs \subseteq Live
    <3>1. /\ stack' = Push(Pop(stack), Drop(Destroyed(Top)))
          /\ UNCHANGED <<rc, state, field, ret, mode>>
      BY <1>1, <2>2 DEF ExprStmt, Touch
    <3>2. Shaped(stack')
      BY <2>1, <3>1, TopValue, NoneCell, IntCell, ReplaceTop
    <3> QED
      BY <3>1, <3>2, SameHeap
  <2>3. CASE ~(objs \subseteq Live)
    BY <1>1, <2>3, FaultStep DEF ExprStmt, Touch
  <2> QED
    BY <2>2, <2>3
<1>2. ASSUME VisitVariable PROVE TypeInv'
  <2> DEFINE c == Var(Loaded(Top))
  <2>1. HasValue
    BY <1>2 DEF VisitVariable, StmtValue
  <2>2. c \in Cell /\ c.kind \in PlainKind
    BY <2>1, TopValue DEF Var, MkCell, Cell, PlainKind, ExprPlace, StmtPlace
  <2>3. Shaped(Push(Push(Pop(stack), c), Drop(BaseOf(Top))))
    BY <2>1, <2>2, TopValue, ReplaceTop
  <2>4. CASE CopyTouches(Top) \subseteq Live
    BY <1>2, <2>1, <2>3, <2>4, CopyHeap DEF VisitVariable, Touch
  <2>5. CASE ~(CopyTouches(Top) \subseteq Live)
    BY <1>2, <2>5, FaultStep DEF VisitVariable, Touch
  <2> QED
    BY <2>4, <2>5
<1>3. ASSUME AssignRhs PROVE TypeInv'
  <2> DEFINE c == MkCell("rhs", Loaded(Top), None, 0)
  <2>1. HasValue
    BY <1>3 DEF AssignRhs, StmtValue
  <2>2. c \in Cell /\ c.kind \in PlainKind
    BY <2>1, TopValue DEF MkCell, Cell, PlainKind, ExprPlace
  <2>3. Shaped(Push(Push(Pop(stack), c), Drop(BaseOf(Top))))
    BY <2>1, <2>2, TopValue, ReplaceTop
  <2>4. CASE CopyTouches(Top) \subseteq Live
    BY <1>3, <2>1, <2>3, <2>4, CopyHeap DEF AssignRhs, Touch
  <2>5. CASE ~(CopyTouches(Top) \subseteq Live)
    BY <1>3, <2>5, FaultStep DEF AssignRhs, Touch
  <2> QED
    BY <2>4, <2>5
<1>4. ASSUME AssignVar PROVE TypeInv'
  <2> DEFINE s == [Pop2 EXCEPT ![Top.idx].own = Under.own]
  <2>1. /\ stack' = Push(s, Drop(Loaded(Top)))
        /\ UNCHANGED <<rc, state, field, ret, mode>>
    BY <1>4 DEF AssignVar
  <2>2. Shaped(s) /\ Len(s) > 0 /\ Loaded(Top) \in Obj \cup {None}
    BY <1>4, AssignVarShape
  <2> HIDE DEF s
  <2>3. Shaped(stack')
    BY <2>1, <2>2, DropPush
  <2> QED
    BY <2>1, <2>3, SameHeap
<1>5. ASSUME AssignInt PROVE TypeInv'
  <2>1. /\ HasValue /\ Len(stack) > 1 /\ Under.kind = "rhs"
        /\ stack' = Push(Pop2, Drop(Top.own))
        /\ UNCHANGED <<rc, state, field, ret, mode>>
    BY <1>5 DEF AssignInt, UnderIs
  <2>2. Shaped(stack')
    BY <2>1, TopValue, NoneCell, IntCell, ReplacePlace
  <2> QED
    BY <2>1, <2>2, SameHeap
<1>6. ASSUME LeaveScope \/ ReturnVoid PROVE TypeInv'
  BY <1>6, SameHeap DEF LeaveScope, ReturnVoid, TypeInv
<1> QED
  BY <1>1, <1>2, <1>3, <1>4, <1>5, <1>6, AssignFieldType, ScopeType, ReturnValueType
     DEF Statement

-----------------------------------------------------------------------------
(* Destruction and the program's own steps keep the type invariant *)

LEMMA DtorType ==
    ASSUME TypeInv, Dtor
    PROVE  TypeInv'
<1> DEFINE o == Top.own
           p == Pop(stack)
           f == MkCell("free", None, o, 0)
<1>1. /\ Len(stack) > 0 /\ Top.kind = "drop" /\ o # None
  BY DEF Dtor, TopIs
<1>2. /\ o \in Obj /\ Shaped(p) /\ Len(p) > 0
      /\ rc \in [Obj -> Nat] /\ state \in [Obj -> {"free", "live", "dying"}]
      /\ field \in [Obj -> Obj \cup {None}] /\ mode' \in {"fault", mode}
  <2>1. Top \in Cell /\ Len(stack) > 1 /\ stack \in Seq(Cell) /\ Len(stack) \in Nat
    BY <1>1, TopFacts
  <2>2. Shaped(p) /\ Len(p) > 0
    BY <2>1, ShapedPop, PopFacts DEF TypeInv
  <2> QED
    BY <1>1, <2>1, <2>2 DEF Cell, TypeInv, TypeOK, Dtor, Touch
<1>3. CASE o \notin Live
  BY <1>3, FaultStep DEF Dtor, Touch
<1>4. CASE o \in Live /\ rc[o] - 1 # 0
  <2>1. /\ rc' = [rc EXCEPT ![o] = @ - 1] /\ stack' = p
        /\ UNCHANGED <<state, field, ret, mode>>
    BY <1>4 DEF Dtor, Touch
  <2>2. rc[o] >= 1
    BY <1>2, <1>4 DEF TypeInv, Counted
  <2>3. rc' \in [Obj -> Nat] /\ rc'[o] >= 1
    BY <1>2, <1>4, <2>1, <2>2
  <2>4. TypeOK'
    BY <1>2, <2>1, <2>3 DEF TypeInv, TypeOK, Shaped
  <2>5. Shaped(stack)'
    BY <1>2, <2>1 DEF Shaped, Shape, Base, MkCell
  <2>6. Counted'
    BY <1>2, <2>1, <2>3 DEF TypeInv, Counted, Live
  <2> QED
    BY <2>4, <2>5, <2>6 DEF TypeInv
<1>5. CASE o \in Live /\ rc[o] - 1 = 0
  <2>1. /\ state' = [state EXCEPT ![o] = "dying"]
        /\ stack' = Push(Push(p, f), Drop(field[o]))
        /\ UNCHANGED <<rc, field, ret>>
    BY <1>5 DEF Dtor, Touch
  <2>2. Fits(p, f)
    BY <1>2 DEF Fits, MkCell, Cell
  <2>3. Shaped(Push(p, f)) /\ Len(Push(p, f)) > 0 /\ field[o] \in Obj \cup {None}
    BY <1>2, <2>2, ShapedPush
  <2>4. Shaped(stack')
    BY <2>1, <2>3, DropPush
  <2>5. Shaped(stack)'
    BY <2>4 DEF Shaped, Shape, Base, MkCell
  <2>6. TypeOK'
    BY <1>2, <2>1, <2>4 DEF TypeInv, TypeOK, Shaped
  <2>7. Counted'
    BY <1>2, <2>1 DEF TypeInv, Counted, Live
  <2> QED
    BY <2>5, <2>6, <2>7 DEF TypeInv
<1> QED
  BY <1>3, <1>4, <1>5

LEMMA FreeType ==
    ASSUME TypeInv, Free
    PROVE  TypeInv'
<1>1. /\ state' = [state EXCEPT ![Top.at] = "free"] /\ stack' = Pop(stack)
      /\ Len(stack) > 0 /\ UNCHANGED <<rc, field, ret, mode>>
  BY DEF Free, TopIs
<1>2. Shaped(stack')
  BY <1>1, ShapedPop DEF TypeInv
<1>3. Shaped(stack)'
  BY <1>2 DEF Shaped, Shape, Base, MkCell
<1>4. TypeOK'
  BY <1>1, <1>2 DEF TypeInv, TypeOK, Shaped
<1>5. Counted'
  BY <1>1 DEF TypeInv, TypeOK, Counted, Live
<1> QED
  BY <1>3, <1>4, <1>5 DEF TypeInv

LEMMA DestructionType ==
    ASSUME TypeInv, Destruction
    PROVE  TypeInv'
<1>0. ASSUME Len(stack) > 0, Top.kind # "frame"
      PROVE  /\ Shaped(Pop(stack)) /\ Len(Pop(stack)) > 0
             /\ Top.own \in Obj \cup {None} /\ Top.at \in Obj \cup {None}
  <2>1. /\ stack \in Seq(Cell) /\ Len(stack) \in Nat /\ Len(stack) > 1
        /\ Top \in Cell /\ Shaped(stack)
    BY <1>0, TopFacts DEF TypeInv
  <2>2. Shaped(Pop(stack)) /\ Len(Pop(stack)) > 0
    BY <2>1, ShapedPop, PopFacts
  <2> QED
    BY <2>1, <2>2 DEF Cell
<1>1. ASSUME PopVar PROVE TypeInv'
  <2>1. /\ Len(stack) > 0 /\ Top.kind = "var"
        /\ stack' = Push(Push(Pop(stack), Drop(Top.at)), Drop(Top.own))
        /\ UNCHANGED <<rc, state, field, ret, mode>>
    BY <1>1 DEF PopVar, TopIs
  <2>2. Shaped(stack')
    BY <1>0, <2>1, DropPush
  <2> QED
    BY <2>1, <2>2, SameHeap
<1>2. ASSUME PopScope PROVE TypeInv'
  <2>1. /\ Len(stack) > 0 /\ Top.kind = "scope"
        /\ stack' = Push(Pop(stack), Drop(Top.own)) \/ stack' = Pop(stack)
        /\ mode' = "run" \/ mode' = mode
        /\ UNCHANGED <<rc, state, field, ret>>
    BY <1>2 DEF PopScope, TopIs
  <2>2. Shaped(stack')
    BY <1>0, <2>1, DropPush
  <2> QED
    BY <2>1, <2>2, SameHeap
<1>3. ASSUME DropNothing PROVE TypeInv'
  <2>1. /\ Len(stack) > 0 /\ Top.kind = "drop" /\ stack' = Pop(stack)
        /\ UNCHANGED <<rc, state, field, ret, mode>>
    BY <1>3 DEF DropNothing, TopIs
  <2> QED
    BY <1>0, <2>1, SameHeap
<1> QED
  BY <1>1, <1>2, <1>3, DtorType, FreeType DEF Destruction

LEMMA ProgramType ==
    ASSUME TypeInv, Program
    PROVE  TypeInv'
<1>1. ASSUME CallMain PROVE TypeInv'
  <2> DEFINE c == MkCell("frame", None, None, 1)
  <2>1. /\ InProgram /\ Len(stack) > 0 /\ Top.kind \in {"frame", "var"}
        /\ stack' = Push(stack, c) /\ UNCHANGED <<rc, state, field, ret, mode>>
    BY <1>1 DEF CallMain, TopIs
  <2>2. /\ NoFree(stack) /\ Shaped(stack) /\ DOMAIN stack = 1..Len(stack)
        /\ Len(stack) \in Nat
    BY <2>1, TopFacts DEF TypeInv
  <2>3. \A j \in 1..Len(stack) : stack[j].kind # "scope"
    <3> SUFFICES ASSUME NEW j \in 1..Len(stack), stack[j].kind = "scope" PROVE FALSE
      OBVIOUS
    <3>1. PICK k \in 2..(j - 1) : stack[k].kind = "frame"
      BY <2>2 DEF Shaped, Shape
    <3>2. k \in DOMAIN stack /\ k # 1
      BY <2>2, <3>1
    <3> QED
      BY <2>1, <3>1, <3>2 DEF InProgram
  <2>4. c \in Cell /\ c.kind = "frame"
    BY DEF MkCell, Cell, ExprPlace, StmtPlace
  <2> HIDE DEF c
  <2>5. Fits(stack, c)
    BY <2>1, <2>2, <2>3, <2>4 DEF Fits
  <2>6. Shaped(stack')
    BY <2>1, <2>2, <2>5, ShapedPush
  <2> QED
    BY <2>1, <2>6, SameHeap
<1>2. ASSUME EndMain PROVE TypeInv'
  BY <1>2, ShapedPop, SameHeap DEF EndMain, TopIs, TypeInv
<1>3. ASSUME Exit PROVE TypeInv'
  <2>1. Shaped(<<>>)
    BY DEF Shaped
  <2> QED
    BY <1>3, <2>1, SameHeap DEF Exit
<1>4. ASSUME OutOfMemory PROVE TypeInv'
  BY <1>4, SameHeap DEF OutOfMemory, TypeInv
<1> QED
  BY <1>1, <1>2, <1>3, <1>4 DEF Program

-----------------------------------------------------------------------------
(* Type correctness *)

LEMMA TypeInit == Init => TypeInv
<1> SUFFICES ASSUME Init PROVE TypeInv
  OBVIOUS
<1>1. Base \in Cell /\ Base.kind = "frame" /\ Base.idx = 0
  BY DEF Base, MkCell, Cell, ExprPlace, StmtPlace
<1>2. stack = <<Base>>
  BY DEF Init, Base
<1>3. stack \in Seq(Cell) /\ Len(stack) = 1 /\ stack[1] = Base
  BY <1>1, <1>2
<1>4. Shaped(stack)
  BY <1>1, <1>3 DEF Shaped, Shape
<1>5. TypeOK
  BY <1>3 DEF Init, TypeOK
<1>6. Counted
  BY DEF Init, Counted, Live
<1> QED
  BY <1>4, <1>5, <1>6 DEF TypeInv

LEMMA TypeStep == TypeInv /\ [Next]_vars => TypeInv'
<1> SUFFICES ASSUME TypeInv, [Next]_vars PROVE TypeInv'
  OBVIOUS
<1>1. CASE Stopped \/ UNCHANGED vars
  BY <1>1, SameHeap DEF Stopped, vars, TypeInv
<1> QED
  BY <1>1, ExpressionType, CallType, StatementType, DestructionType, ProgramType DEF Next

\* Every reachable state of every program has the declared shape: in
\* particular no stored count is ever decremented below zero, whatever the
\* program's forms (Forms), its classes and the size of its heap and stack.
THEOREM TypeCorrect == Spec => []TypeOK
<1>1. TypeInv => TypeOK
  BY DEF TypeInv
<1> QED
  BY <1>1, TypeInit, TypeStep, PTL DEF Spec
=============================================================================
