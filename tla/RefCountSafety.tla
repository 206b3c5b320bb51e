--------------------------- MODULE RefCountSafety ---------------------------
(***************************************************************************)
(* Nothing is used after it was freed and nothing leaks: proofs for any    *)
(* heap, any classes and any stack bound, for programs that use none of    *)
(* the unsafe source forms.                                                *)
(*                                                                         *)
(* Exact counts do not suffice: `self`, a field's address and a receiver   *)
(* are borrowed, with no count of their own.  The invariant says what keeps*)
(* each of them alive: an owner that cannot go before the borrower does.   *)
(***************************************************************************)
EXTENDS RefCountCounts

-----------------------------------------------------------------------------
(* What keeps a borrowed object alive *)

\* b is a or is reached from a through the fields of the objects of L that are
\* set: while L holds a, and every object that such a field names, it holds b.
Reach(L, f, a, b) ==
    \A S \in SUBSET Obj :
        a \in S /\ (\A o \in S \cap L : f[o] # None => f[o] \in S) => b \in S

Borrowed == {"self", "ident", "field"}
Entered  == {"call", "frame"}
InBody   == {"scope", "var"}

\* A local variable, a scope or a right-hand side is part of a function's body.
Based(s, i) == s[i].kind \in InBody \cup {"rhs"} =>
    \E j \in 1..(i - 1) : /\ s[j].kind = "frame"
                          /\ \A k \in (j + 1)..(i - 1) : s[k].kind \in InBody

\* Only a call, and its result, come on top of a borrowed Value; only they and
\* destructors on top of any Value.
Covers(s, i) == i > 1 =>
    /\ s[i - 1].kind \in Borrowed => s[i].kind \in Entered \cup {"expr", "int"}
    /\ s[i - 1].kind \in ValueKind =>
           s[i].kind \in Entered \cup {"expr", "int", "drop", "free"}

\* The receiver of a method, or the object of a constructor, has an owner below
\* or in the frame: the frame itself, the temporary the method was called on, a
\* variable of a caller, or the temporary whose field it is.
Anchored(s, i, L, f) == s[i].kind \in Entered /\ s[i].at # None =>
    \/ s[i].own = s[i].at
    \/ i > 1 /\ s[i - 1].kind = "expr" /\ s[i - 1].own = s[i].at
    \/ /\ i > 1 /\ s[i - 1].kind = "ident" /\ s[i - 1].idx \in 1..(i - 2)
       /\ s[s[i - 1].idx].own = s[i].at
       /\ \E j \in 2..s[i - 1].idx : s[j].kind = "frame"
    \/ /\ i > 1 /\ s[i - 1].kind = "field" /\ s[i - 1].own # None
       /\ Reach(L, f, s[i - 1].own, s[i].at)

\* main runs on the program's own frame.
First(s, i) == s[i].kind = "frame" /\ s[i].idx = 1 =>
    \A j \in 2..(i - 1) : s[j].kind # "frame"

Firm(s, L, f) == \A i \in 1..Len(s) :
    Based(s, i) /\ Covers(s, i) /\ First(s, i) /\ Anchored(s, i, L, f)

\* The borrowed Value that the next step consumes.
Grip(s, L, f) == Len(s) > 0 =>
    /\ s[Len(s)].kind = "self" => s[Len(s)].own = None /\ s[Len(s)].at \in L
    /\ s[Len(s)].kind = "field" =>
          /\ s[Len(s)].at \in L
          /\ s[Len(s)].own # None => Reach(L, f, s[Len(s)].own, s[Len(s)].at)
    /\ s[Len(s)].kind = "ident" =>
          /\ s[s[Len(s)].idx].own # None
          /\ \/ \A j \in (s[Len(s)].idx + 1)..Len(s) : s[j].kind # "frame"
             \/ \A j \in 2..s[Len(s)].idx : s[j].kind # "frame"

\* An object whose field is not set yet has one owner, its constructor's frame
\* or call; the field is set before that constructor starts to return.
Incomplete(o) == o \in Live /\ FieldClass[ClassOf[o]] # None /\ field[o] = None

Builds(s, o) == \E i \in 1..Len(s) : s[i].kind \in Entered /\ s[i].own = o

Building == \A o \in Obj : Incomplete(o) => rc[o] = 1 /\ Builds(stack, o)

Finished == mode = "unwind" =>
    \A i \in 1..Len(stack) :
        /\ stack[i].kind = "frame"
        /\ \A j \in (i + 1)..Len(stack) : stack[j].kind # "frame"
        /\ stack[i].own # None
        => ~Incomplete(stack[i].own)

\* An object being destroyed is freed by a cell of the stack; the fields of live
\* objects make no cycle; the program ends with nothing in flight.
Dying == \A o \in Obj : state[o] = "dying" =>
    \E i \in 1..Len(stack) : stack[i].kind = "free" /\ stack[i].at = o

Acyclic == \A S \in SUBSET Live : S # {} => \E o \in S : \A p \in S : field[p] # o

Ended == /\ mode = "unwind" /\ ret # None => ~InProgram
         /\ mode = "done" => stack = <<>> /\ ret = None

Safe == /\ mode # "fault"
        /\ Firm(stack, Live, field)
        /\ mode = "run" => Grip(stack, Live, field)
        /\ Building /\ Finished /\ Dying /\ Acyclic /\ Ended

SafeInv == CountInv /\ Safe

-----------------------------------------------------------------------------
(* Reaching *)

LEMMA ReachSelf ==
    ASSUME NEW L, NEW f, NEW a
    PROVE  Reach(L, f, a, a)
  BY DEF Reach

LEMMA ReachField ==
    ASSUME NEW L, NEW f, NEW a, NEW b \in L, Reach(L, f, a, b), f[b] # None
    PROVE  Reach(L, f, a, f[b])
  BY DEF Reach

\* An object that something owns is alive.
LEMMA OwnedLive ==
    ASSUME CountInv, NEW o \in Obj,
           (\E i \in 1..Len(stack) : stack[i].own = o) \/ FieldsOf(o) # {} \/ ret = o
    PROVE  o \in Live
<1>1. /\ Owners(o) = Held(stack, o) + Cardinality(FieldsOf(o)) + Is(ret, o)
      /\ Held(stack, o) \in Nat /\ Cardinality(FieldsOf(o)) \in Nat
      /\ IsFiniteSet(FieldsOf(o)) /\ Is(ret, o) \in Nat
  BY OwnersSum DEF CountInv, Is
<1>2. Owners(o) = IF o \in Live THEN rc[o] ELSE 0
  BY DEF CountInv, CountExact
<1>3. ASSUME NEW i \in 1..Len(stack), stack[i].own = o
      PROVE  Held(stack, o) > 0
  <2>1. stack \in Seq(Cell)
    BY DEF CountInv, Neat
  <2>2. Held(stack, o) = Cardinality({j \in 1..Len(stack) : j # i /\ stack[j].own = o}) + 1
        /\ Cardinality({j \in 1..Len(stack) : j # i /\ stack[j].own = o}) \in Nat
    BY <1>3, <2>1, HeldSplit DEF Is
  <2> QED
    BY <2>2
<1>4. FieldsOf(o) # {} => Cardinality(FieldsOf(o)) > 0
  BY <1>1, FS_EmptySet
<1>5. ret = o => Is(ret, o) > 0
  BY DEF Is
<1> QED
  BY <1>1, <1>2, <1>3, <1>4, <1>5

\* The live objects are closed under fields, so what a live object reaches lives.
LEMMA ReachLive ==
    ASSUME CountInv, NEW a \in Live, NEW b, Reach(Live, field, a, b)
    PROVE  b \in Live
<1>1. \A o \in Live : field[o] # None => field[o] \in Live
  <2> SUFFICES ASSUME NEW o \in Live, field[o] # None PROVE field[o] \in Live
    OBVIOUS
  <2>1. field[o] \in Obj /\ o \in FieldsOf(field[o])
    BY DEF CountInv, TypeInv, TypeOK, Live, FieldsOf
  <2> QED
    BY <2>1, OwnedLive
<1>2. Live \in SUBSET Obj
  BY DEF Live
<1> QED
  BY <1>1, <1>2 DEF Reach

\* The owner of an object whose count is 1 is the only one.
LEMMA SoleOwner ==
    ASSUME CountInv, NEW o \in Live, rc[o] = 1, NEW i \in 1..Len(stack), stack[i].own = o
    PROVE  /\ \A j \in 1..Len(stack) : stack[j].own = o => j = i
           /\ \A p \in Live : field[p] # o
           /\ ret # o
<1> o \in Obj
  BY DEF Live
<1> DEFINE R == {j \in 1..Len(stack) : j # i /\ stack[j].own = o}
<1>1. /\ Owners(o) = Held(stack, o) + Cardinality(FieldsOf(o)) + Is(ret, o)
      /\ Held(stack, o) \in Nat /\ Cardinality(FieldsOf(o)) \in Nat
      /\ IsFiniteSet(FieldsOf(o)) /\ Is(ret, o) \in Nat
  BY OwnersSum DEF CountInv, Is
<1>2. Owners(o) = 1
  BY DEF CountInv, CountExact
<1>3. stack \in Seq(Cell) /\ Len(stack) \in Nat
  BY LenProperties DEF CountInv, Neat
<1>4. Cardinality(R) \in Nat /\ Held(stack, o) = Cardinality(R) + 1
  BY <1>3, HeldSplit DEF Is
<1>5. IsFiniteSet(R)
  <2>1. IsFiniteSet(1..Len(stack))
    BY <1>3, FS_Interval
  <2> QED
    BY <2>1, FS_Subset
<1> HIDE DEF R
<1>6. Cardinality(R) = 0 /\ Cardinality(FieldsOf(o)) = 0 /\ Is(ret, o) = 0
  BY <1>1, <1>2, <1>4
<1>7. R = {} /\ FieldsOf(o) = {}
  BY <1>1, <1>5, <1>6, FS_EmptySet
<1> QED
  BY <1>6, <1>7 DEF R, FieldsOf, Is

-----------------------------------------------------------------------------
(* Firm stacks *)

\* The top of s is no Value; it is no borrowed one; a statement may start on it.
Open(s)  == Len(s) > 0 => s[Len(s)].kind \notin ValueKind
Loose(s) == Len(s) > 0 => s[Len(s)].kind \notin Borrowed
Body(s)  == Len(s) > 0 /\ s[Len(s)].kind \in StmtPlace

\* c may be pushed on s.
Suits(s, c) ==
    /\ c \in Cell
    /\ \/ c.kind \in {"expr", "int"}
       \/ /\ c.kind \in Entered /\ c.at \in {None, c.own}
          /\ c.idx = 1 => \A j \in 2..Len(s) : s[j].kind # "frame"
       \/ c.kind \in Borrowed \cup {"lhs", "cond", "arg"} /\ Open(s)
       \/ c.kind \in InBody \cup {"rhs"} /\ Body(s)
       \/ c.kind \in {"drop", "free"} /\ Loose(s)

\* t is firm, and no constructor of s is missing from it.
Built(s, t, L, f) == /\ t \in Seq(Cell) /\ Firm(t, L, f)
                     /\ \A o : Builds(s, o) => Builds(t, o)

LEMMA LooseGrip ==
    ASSUME NEW s, NEW L, NEW f, Loose(s)
    PROVE  Grip(s, L, f)
  BY DEF Loose, Grip, Borrowed

LEMMA BasedSame ==
    ASSUME NEW s, NEW t, NEW i \in Nat, \A j \in 1..i : t[j] = s[j], i > 0, Based(s, i)
    PROVE  Based(t, i)
<1> SUFFICES ASSUME t[i].kind \in InBody \cup {"rhs"}
             PROVE  \E j \in 1..(i - 1) : /\ t[j].kind = "frame"
                                          /\ \A k \in (j + 1)..(i - 1) : t[k].kind \in InBody
  BY DEF Based
<1>1. PICK j \in 1..(i - 1) : /\ s[j].kind = "frame"
                              /\ \A k \in (j + 1)..(i - 1) : s[k].kind \in InBody
  BY DEF Based
<1>2. t[j].kind = "frame" /\ \A k \in (j + 1)..(i - 1) : t[k].kind \in InBody
  BY <1>1
<1> QED
  BY <1>2

\* What a cell of a firm stack asks is asked of the cells up to it.
LEMMA FirmCell ==
    ASSUME NEW s, NEW t, NEW L, NEW f, NEW i \in Nat, i > 0,
           \A j \in 1..i : t[j] = s[j],
           Based(s, i), Covers(s, i), First(s, i), Anchored(s, i, L, f)
    PROVE  Based(t, i) /\ Covers(t, i) /\ First(t, i) /\ Anchored(t, i, L, f)
<1>1. t[i] = s[i] /\ (i > 1 => t[i - 1] = s[i - 1])
  OBVIOUS
<1>2. Based(t, i)
  BY BasedSame
<1>3. Covers(t, i) /\ First(t, i)
  <2>1. \A j \in 2..(i - 1) : t[j] = s[j]
    OBVIOUS
  <2> QED
    BY <1>1, <2>1 DEF Covers, First
<1>4. Anchored(t, i, L, f)
  <2>1. CASE /\ i > 1 /\ s[i - 1].kind = "ident" /\ s[i - 1].idx \in 1..(i - 2)
             /\ s[s[i - 1].idx].own = s[i].at
             /\ \E j \in 2..s[i - 1].idx : s[j].kind = "frame"
    <3>1. t[s[i - 1].idx] = s[s[i - 1].idx]
      BY <2>1
    <3>2. \E j \in 2..s[i - 1].idx : t[j].kind = "frame"
      BY <2>1
    <3> QED
      BY <1>1, <2>1, <3>1, <3>2 DEF Anchored
  <2> QED
    BY <1>1, <2>1 DEF Anchored
<1> QED
  BY <1>2, <1>3, <1>4

LEMMA FirmPop ==
    ASSUME NEW s \in Seq(Cell), NEW L, NEW f, Firm(s, L, f), Len(s) > 0
    PROVE  /\ Pop(s) \in Seq(Cell) /\ Firm(Pop(s), L, f)
           /\ s[Len(s)].kind \notin Entered => \A o : Builds(s, o) => Builds(Pop(s), o)
           /\ s[Len(s)].kind \notin Entered \cup {"expr", "int"} => Loose(Pop(s))
           /\ s[Len(s)].kind \notin Entered \cup {"expr", "int", "drop", "free"}
                 => Open(Pop(s))
           /\ s[Len(s)].kind \in InBody \cup {"rhs"} => Body(Pop(s))
<1> DEFINE p == Pop(s)
           n == Len(s)
<1>1. /\ n \in Nat /\ n > 0 /\ p \in Seq(Cell) /\ Len(p) = n - 1
      /\ \A i \in 1..(n - 1) : p[i] = s[i]
  BY PopFacts, LenProperties
<1>2. Based(s, n) /\ Covers(s, n)
  BY <1>1 DEF Firm
<1> HIDE DEF p, n
<1>3. Firm(p, L, f)
  <2> SUFFICES ASSUME NEW i \in 1..Len(p)
               PROVE  Based(p, i) /\ Covers(p, i) /\ First(p, i) /\ Anchored(p, i, L, f)
    BY DEF Firm
  <2>1. i \in Nat /\ i > 0 /\ i \in 1..Len(s) /\ \A j \in 1..i : p[j] = s[j]
    BY <1>1 DEF n
  <2>2. Based(s, i) /\ Covers(s, i) /\ First(s, i) /\ Anchored(s, i, L, f)
    BY <2>1 DEF Firm
  <2> QED
    BY <2>1, <2>2, FirmCell
<1>4. ASSUME s[n].kind \notin Entered, NEW o, Builds(s, o)
      PROVE  Builds(p, o)
  <2>1. PICK i \in 1..n : s[i].kind \in Entered /\ s[i].own = o
    BY <1>4 DEF Builds, n
  <2>2. i \in 1..(n - 1)
    BY <1>1, <1>4, <2>1
  <2> QED
    BY <1>1, <2>1, <2>2 DEF Builds
<1>5. Len(p) > 0 => p[Len(p)] = s[n - 1] /\ n > 1
  BY <1>1
<1>6. /\ s[n].kind \notin Entered \cup {"expr", "int"} => Loose(p)
      /\ s[n].kind \notin Entered \cup {"expr", "int", "drop", "free"} => Open(p)
  BY <1>2, <1>5 DEF Covers, Loose, Open
<1>7. s[n].kind \in InBody \cup {"rhs"} => Body(p)
  <2> SUFFICES ASSUME s[n].kind \in InBody \cup {"rhs"} PROVE Body(p)
    OBVIOUS
  <2>1. PICK j \in 1..(n - 1) : /\ s[j].kind = "frame"
                               /\ \A k \in (j + 1)..(n - 1) : s[k].kind \in InBody
    BY <1>2 DEF Based
  <2>2. n > 1 /\ s[n - 1].kind \in InBody \cup {"frame"}
    BY <1>1, <2>1
  <2> QED
    BY <1>1, <1>5, <2>2 DEF Body, InBody, StmtPlace
<1> QED
  BY <1>1, <1>3, <1>4, <1>6, <1>7 DEF p, n

\* One more cell, that the cells under it bear out.
LEMMA FirmExtend ==
    ASSUME NEW s \in Seq(Cell), NEW L, NEW f, Firm(s, L, f), NEW c \in Cell,
           Based(Push(s, c), Len(s) + 1), Covers(Push(s, c), Len(s) + 1),
           First(Push(s, c), Len(s) + 1), Anchored(Push(s, c), Len(s) + 1, L, f)
    PROVE  /\ Push(s, c) \in Seq(Cell) /\ Firm(Push(s, c), L, f)
           /\ \A o : Builds(s, o) => Builds(Push(s, c), o)
<1> DEFINE t == Push(s, c)
           n == Len(s) + 1
<1>1. /\ Len(s) \in Nat /\ t \in Seq(Cell) /\ Len(t) = n
      /\ \A i \in 1..Len(s) : t[i] = s[i]
  BY PushFacts, LenProperties
<1>2. Based(t, n) /\ Covers(t, n) /\ First(t, n) /\ Anchored(t, n, L, f)
  OBVIOUS
<1> HIDE DEF t
<1>3. Firm(t, L, f)
  <2> SUFFICES ASSUME NEW i \in 1..Len(t)
               PROVE  Based(t, i) /\ Covers(t, i) /\ First(t, i) /\ Anchored(t, i, L, f)
    BY DEF Firm
  <2>1. CASE i = n
    BY <1>2, <2>1
  <2>2. CASE i # n
    <3>1. i \in Nat /\ i > 0 /\ i \in 1..Len(s) /\ \A j \in 1..i : t[j] = s[j]
      BY <1>1, <2>2
    <3>2. Based(s, i) /\ Covers(s, i) /\ First(s, i) /\ Anchored(s, i, L, f)
      BY <3>1 DEF Firm
    <3> QED
      BY <3>1, <3>2, FirmCell
  <2> QED
    BY <2>1, <2>2
<1>4. \A o : Builds(s, o) => Builds(t, o)
  BY <1>1 DEF Builds
<1> QED
  BY <1>1, <1>3, <1>4 DEF t

LEMMA FirmPush ==
    ASSUME NEW s \in Seq(Cell), NEW L, NEW f, Firm(s, L, f), NEW c, Suits(s, c)
    PROVE  /\ Push(s, c) \in Seq(Cell) /\ Firm(Push(s, c), L, f)
           /\ Len(Push(s, c)) = Len(s) + 1 /\ Push(s, c)[Len(s) + 1] = c
           /\ \A o : Builds(s, o) => Builds(Push(s, c), o)
           /\ c.kind \notin Borrowed => Loose(Push(s, c))
<1> DEFINE t == Push(s, c)
           n == Len(s) + 1
<1>1. /\ Len(s) \in Nat /\ t \in Seq(Cell) /\ Len(t) = n /\ t[n] = c
      /\ \A i \in 1..Len(s) : t[i] = s[i]
  BY PushFacts, LenProperties DEF Suits
<1>2. n \in Nat /\ n > 0 /\ (n > 1 => t[n - 1] = s[Len(s)] /\ Len(s) > 0)
  BY <1>1
<1> HIDE DEF t
<1>3. Based(t, n)
  <2> SUFFICES ASSUME c.kind \in InBody \cup {"rhs"}
               PROVE  \E j \in 1..(n - 1) : /\ t[j].kind = "frame"
                                            /\ \A k \in (j + 1)..(n - 1) : t[k].kind \in InBody
    BY <1>1 DEF Based
  <2>1. Len(s) > 0 /\ s[Len(s)].kind \in StmtPlace
    BY DEF Suits, Body, InBody, Entered, Borrowed
  <2>2. CASE s[Len(s)].kind = "frame"
    BY <1>1, <2>1, <2>2
  <2>3. CASE s[Len(s)].kind \in InBody
    <3>1. Based(s, Len(s))
      BY <1>1, <2>1 DEF Firm
    <3>2. PICK j \in 1..(Len(s) - 1) :
             /\ s[j].kind = "frame"
             /\ \A k \in (j + 1)..(Len(s) - 1) : s[k].kind \in InBody
      BY <2>3, <3>1 DEF Based
    <3>3. t[j].kind = "frame" /\ \A k \in (j + 1)..(n - 1) : t[k].kind \in InBody
      BY <1>1, <2>3, <3>2
    <3> QED
      BY <1>1, <3>3
  <2> QED
    BY <2>1, <2>2, <2>3 DEF StmtPlace, InBody
<1>4. Covers(t, n)
  BY <1>1, <1>2 DEF Covers, Suits, Open, Loose, Body, ValueKind, Borrowed, Entered, InBody, StmtPlace
<1>5. Anchored(t, n, L, f)
  BY <1>1 DEF Anchored, Suits, Entered, Borrowed, InBody
<1>6. First(t, n)
  <2>1. c.kind = "frame" /\ c.idx = 1 => \A j \in 2..Len(s) : s[j].kind # "frame"
    BY DEF Suits, Entered, Borrowed, InBody
  <2> QED
    BY <1>1, <2>1 DEF First
<1>7. Firm(t, L, f) /\ \A o : Builds(s, o) => Builds(t, o)
  <2>1. c \in Cell
    BY DEF Suits
  <2> QED
    BY <1>3, <1>4, <1>5, <1>6, <2>1, FirmExtend DEF t
<1>8. c.kind \notin Borrowed => Loose(t)
  BY <1>1 DEF Loose
<1> QED
  BY <1>1, <1>7, <1>8 DEF t

\* A cell, and up to two destructor calls, pushed on a firm stack.
LEMMA BuiltPush ==
    ASSUME NEW s, NEW t, NEW L, NEW f, Built(s, t, L, f), NEW c, Suits(t, c)
    PROVE  /\ Built(s, Push(t, c), L, f)
           /\ Len(Push(t, c)) > 0 /\ Push(t, c)[Len(Push(t, c))] = c
           /\ c.kind \notin Borrowed => Loose(Push(t, c))
<1>1. t \in Seq(Cell) /\ Firm(t, L, f) /\ Len(t) \in Nat
  BY LenProperties DEF Built
<1>2. /\ Push(t, c) \in Seq(Cell) /\ Firm(Push(t, c), L, f)
      /\ Len(Push(t, c)) = Len(t) + 1 /\ Push(t, c)[Len(t) + 1] = c
      /\ \A o : Builds(t, o) => Builds(Push(t, c), o)
      /\ c.kind \notin Borrowed => Loose(Push(t, c))
  BY <1>1, FirmPush
<1>3. Len(Push(t, c)) > 0 /\ Push(t, c)[Len(Push(t, c))] = c
  BY <1>1, <1>2
<1> QED
  BY <1>2, <1>3 DEF Built

LEMMA BuiltDrop ==
    ASSUME NEW s, NEW t, NEW L, NEW f, Built(s, t, L, f), Loose(t),
           NEW p \in Obj \cup {None}
    PROVE  Built(s, Push(t, Drop(p)), L, f) /\ Loose(Push(t, Drop(p)))
<1>1. Drop(p) \in Cell /\ Drop(p).kind = "drop"
  BY CellFacts, NoneAssumption DEF Drop
<1>2. Suits(t, Drop(p)) /\ Drop(p).kind \notin Borrowed
  BY <1>1 DEF Suits, Borrowed
<1> QED
  BY <1>2, BuiltPush

LEMMA BuiltCell ==
    ASSUME NEW s, NEW t, NEW L, NEW f, Built(s, t, L, f),
           NEW c, Suits(t, c), c.kind \notin Borrowed,
           NEW p \in Obj \cup {None}, NEW q \in Obj \cup {None}
    PROVE  /\ Built(s, Push(t, c), L, f) /\ Loose(Push(t, c))
           /\ Built(s, Push(Push(t, c), Drop(p)), L, f)
           /\ Loose(Push(Push(t, c), Drop(p)))
           /\ Built(s, Push(Push(Push(t, c), Drop(p)), Drop(q)), L, f)
           /\ Loose(Push(Push(Push(t, c), Drop(p)), Drop(q)))
<1>1. Built(s, Push(t, c), L, f) /\ Loose(Push(t, c))
  BY BuiltPush
<1>2. Built(s, Push(Push(t, c), Drop(p)), L, f) /\ Loose(Push(Push(t, c), Drop(p)))
  BY <1>1, BuiltDrop
<1>3. /\ Built(s, Push(Push(Push(t, c), Drop(p)), Drop(q)), L, f)
      /\ Loose(Push(Push(Push(t, c), Drop(p)), Drop(q)))
  BY <1>2, BuiltDrop
<1> QED
  BY <1>1, <1>2, <1>3

LEMMA SafeStack ==
    ASSUME SafeInv
    PROVE  /\ stack \in Seq(Cell) /\ Len(stack) \in Nat /\ Firm(stack, Live, field)
           /\ Built(stack, stack, Live, field)
           /\ TypeInv /\ CountInv /\ Live \subseteq Obj /\ None \notin Live
<1>1. stack \in Seq(Cell) /\ Len(stack) \in Nat
  BY LenProperties DEF SafeInv, CountInv, Neat
<1> QED
  BY <1>1, NoneAssumption DEF SafeInv, Safe, Built, CountInv, Live

LEMMA SafeCell ==
    ASSUME SafeInv, NEW i \in 1..Len(stack)
    PROVE  /\ stack[i] \in Cell
           /\ stack[i].own \in Obj \cup {None} /\ stack[i].at \in Obj \cup {None}
           /\ stack[i].idx \in Nat
           /\ Based(stack, i) /\ Covers(stack, i) /\ First(stack, i)
           /\ Anchored(stack, i, Live, field)
<1>1. stack[i] \in Cell
  BY SafeStack, ElementOfSeq
<1>2. /\ Based(stack, i) /\ Covers(stack, i) /\ First(stack, i)
      /\ Anchored(stack, i, Live, field)
  BY SafeStack DEF Firm
<1> QED
  BY <1>1, <1>2 DEF Cell

LEMMA UseTop ==
    ASSUME SafeInv, HasValue
    PROVE  /\ Built(stack, Pop(stack), Live, field)
           /\ Open(Pop(stack)) /\ Loose(Pop(stack))
           /\ Top.kind \in ValueKind /\ mode = "run" /\ Len(stack) > 1
           /\ Len(Pop(stack)) > 0 /\ Pop(stack)[Len(Pop(stack))] = Under
<1>1. /\ mode = "run" /\ Top.kind \in ValueKind /\ Len(stack) > 0
      /\ Len(stack) > 1 => Under.kind \notin ValueKind
  BY DEF HasValue, TopIs, UnderIs
<1>2. Len(stack) > 1
  BY <1>1, SafeStack, TopFacts DEF ValueKind
<1>3. /\ Pop(stack) \in Seq(Cell) /\ Len(Pop(stack)) = Len(stack) - 1
      /\ Pop(stack)[Len(stack) - 1] = Under
  BY <1>2, SafeStack, PopFacts DEF Under
<1>4. Built(stack, Pop(stack), Live, field)
  BY <1>1, SafeStack, FirmPop DEF Built, Top, ValueKind, Entered
<1>5. Open(Pop(stack)) /\ Loose(Pop(stack))
  BY <1>1, <1>2, <1>3 DEF Open, Loose, ValueKind, Borrowed
<1> QED
  BY <1>1, <1>2, <1>3, <1>4, <1>5, SafeStack

LEMMA UsePlace ==
    ASSUME SafeInv, mode = "run", TopIs(ValueKind), UnderIs(ValueKind \cup {"lhs", "cond", "rhs"})
    PROVE  /\ Built(stack, Pop2, Live, field)
           /\ Under.kind \in {"lhs", "cond", "rhs"} => Open(Pop2) /\ Loose(Pop2)
           /\ Under.kind = "rhs" => Body(Pop2)
           /\ Under.kind \in ValueKind => Top.kind \in {"expr", "int"}
<1> DEFINE s == Pop(stack)
<1>1. /\ Top.kind \in ValueKind /\ Len(stack) > 1 /\ Len(stack) \in Nat
      /\ Under.kind \in ValueKind \cup {"lhs", "cond", "rhs"}
  BY SafeStack DEF TopIs, UnderIs
<1>2. /\ s \in Seq(Cell) /\ Len(s) = Len(stack) - 1 /\ s[Len(s)] = Under /\ Len(s) > 0
  BY <1>1, SafeStack, PopFacts DEF Under
<1>3. Firm(s, Live, field) /\ \A o : Builds(stack, o) => Builds(s, o)
  BY <1>1, SafeStack, FirmPop DEF Top, ValueKind, Entered
<1> HIDE DEF s
<1>4. /\ Pop(s) \in Seq(Cell) /\ Firm(Pop(s), Live, field)
      /\ \A o : Builds(s, o) => Builds(Pop(s), o)
      /\ Under.kind \in {"lhs", "cond", "rhs"} => Open(Pop(s)) /\ Loose(Pop(s))
      /\ Under.kind = "rhs" => Body(Pop(s))
  BY <1>1, <1>2, <1>3, FirmPop DEF Entered, ValueKind
<1>5. Pop(s) = Pop2
  BY DEF s, Pop2
<1>6. Under.kind \in ValueKind => Top.kind \in {"expr", "int"}
  <2>1. Covers(stack, Len(stack))
    BY <1>1, SafeStack DEF Firm
  <2> QED
    BY <1>1, <2>1 DEF Covers, Top, Under, ValueKind, Entered
<1> QED
  BY <1>3, <1>4, <1>5, <1>6 DEF Built

-----------------------------------------------------------------------------
(* No use of a Value touches an object that is gone *)

LEMMA FrameAlive ==
    ASSUME SafeInv, NEW i \in 1..Len(stack), stack[i].kind \in Entered, stack[i].at # None
    PROVE  stack[i].at \in Live
<1>1. Anchored(stack, i, Live, field) /\ stack[i].at \in Obj
  BY SafeCell
<1>2. i \in Nat /\ (i > 1 => i - 1 \in 1..Len(stack)) /\ i - 1 >= 0
  BY SafeStack
<1>3. CASE stack[i].own = stack[i].at
  BY <1>1, <1>3, SafeStack, OwnedLive
<1>4. CASE i > 1 /\ stack[i - 1].own = stack[i].at
  BY <1>1, <1>2, <1>4, SafeStack, OwnedLive
<1>5. CASE /\ i > 1 /\ stack[i - 1].idx \in 1..(i - 2)
           /\ stack[stack[i - 1].idx].own = stack[i].at
  <2>1. stack[i - 1].idx \in 1..Len(stack)
    BY <1>2, <1>5, SafeStack
  <2> QED
    BY <1>1, <1>5, <2>1, SafeStack, OwnedLive
<1>6. CASE /\ i > 1 /\ stack[i - 1].own # None
           /\ Reach(Live, field, stack[i - 1].own, stack[i].at)
  <2>1. stack[i - 1].own \in Obj
    BY <1>2, <1>6, SafeCell
  <2>2. stack[i - 1].own \in Live
    BY <1>2, <1>6, <2>1, SafeStack, OwnedLive
  <2> QED
    BY <1>6, <2>2, SafeStack, ReachLive
<1> QED
  BY <1>1, <1>3, <1>4, <1>5, <1>6 DEF Anchored

\* Whatever object a Value denotes, and whatever loading or copying it touches.
LEMMA UseAlive ==
    ASSUME SafeInv, HasValue
    PROVE  /\ Loaded(Top) \in Live \cup {None}
           /\ Top.kind = "ident" => Loaded(Top) # None
           /\ LoadTouches(Top) \subseteq Live
           /\ Forms = {} /\ SafeCopy(Top) => CopyTouches(Top) \subseteq Live
<1>1. /\ Len(stack) > 1 /\ Len(stack) \in 1..Len(stack) /\ mode = "run"
      /\ Top = stack[Len(stack)] /\ Top \in Cell /\ Top.kind \in ValueKind
      /\ Shape(stack, Len(stack))
  BY UseTop, SafeStack, TopFacts DEF Top
<1>2. Grip(stack, Live, field) /\ Len(stack) > 0
  BY <1>1 DEF SafeInv, Safe
<1>3. Top.kind = "expr" => Top.own \in Live \cup {None}
  BY <1>1, SafeStack, OwnedLive DEF Cell
<1>4. Top.kind = "self" => Top.at \in Live
  BY <1>1, <1>2 DEF Grip
<1>5. Top.kind = "ident" => stack[Top.idx].own \in Live
  <2> SUFFICES ASSUME Top.kind = "ident" PROVE stack[Top.idx].own \in Live
    OBVIOUS
  <2>1. Top.idx \in 1..Len(stack) /\ stack[Top.idx].own # None
    BY <1>1, <1>2 DEF Shape, Grip
  <2>2. stack[Top.idx].own \in Obj
    BY <2>1, SafeCell
  <2> QED
    BY <2>1, <2>2, SafeStack, OwnedLive
<1>6. Top.kind = "field" => Top.at \in Live /\ field[Top.at] \in Live \cup {None}
  <2> SUFFICES ASSUME Top.kind = "field"
               PROVE  Top.at \in Live /\ field[Top.at] \in Live \cup {None}
    OBVIOUS
  <2>1. Top.at \in Live /\ Reach(Live, field, Top.at, Top.at)
    BY <1>1, <1>2, ReachSelf DEF Grip
  <2>2. CASE field[Top.at] # None
    <3>1. Reach(Live, field, Top.at, field[Top.at])
      BY <2>1, <2>2, ReachField
    <3> QED
      BY <2>1, <3>1, SafeStack, ReachLive
  <2> QED
    BY <2>1, <2>2
<1>7. /\ Loaded(Top) \in Live \cup {None}
      /\ Top.kind = "ident" => Loaded(Top) # None
      /\ LoadTouches(Top) \subseteq Live
  BY <1>3, <1>4, <1>5, <1>6, SafeStack DEF Loaded, LoadTouches
<1>8. Forms = {} /\ SafeCopy(Top) => CopyTouches(Top) \subseteq Live
  BY <1>7 DEF CopyTouches, SafeCopy
<1> QED
  BY <1>7, <1>8

\* An object whose constructor still runs is never copied, so its count stays 1.
LEMMA CopyIncomplete ==
    ASSUME SafeInv, HasValue, NEW o \in Obj, Incomplete(o)
    PROVE  Copied(Top)[o] = rc[o]
<1>1. /\ Len(stack) \in 1..Len(stack) /\ Top = stack[Len(stack)]
      /\ Shape(stack, Len(stack)) /\ Grip(stack, Live, field) /\ Len(stack) > 0
  BY UseTop, SafeStack, TopFacts DEF Top, SafeInv, Safe
<1>2. o \in Live /\ rc[o] = 1 /\ rc \in [Obj -> Nat]
  BY DEF SafeInv, Safe, Building, Incomplete, CountInv, TypeInv, TypeOK
<1>3. PICK i \in 1..Len(stack) : stack[i].kind \in Entered /\ stack[i].own = o
  BY DEF SafeInv, Safe, Building, Builds
<1>4. /\ \A j \in 1..Len(stack) : stack[j].own = o => j = i
      /\ \A p \in Live : field[p] # o
  BY <1>2, <1>3, SafeStack, SoleOwner
<1>5. Top.kind = "ident" => Loaded(Top) # o
  <2> SUFFICES ASSUME Top.kind = "ident", stack[Top.idx].own = o PROVE FALSE
    BY DEF Loaded
  <2>1. Top.idx \in 1..Len(stack) /\ stack[Top.idx].kind = "var"
    BY <1>1 DEF Shape
  <2> QED
    BY <1>3, <1>4, <2>1 DEF Entered
<1>6. Top.kind = "field" => Loaded(Top) # o
  BY <1>1, <1>4 DEF Grip, Loaded
<1> QED
  BY <1>2, <1>5, <1>6 DEF Copied

-----------------------------------------------------------------------------
(* Steps that leave the heap alone *)

LEMMA StackSafe ==
    ASSUME SafeInv, CountInv', UNCHANGED <<state, field>>, mode' # "fault",
           Firm(stack', Live, field), mode' = "run" => Grip(stack', Live, field),
           \A o \in Obj : Incomplete(o) => rc'[o] = 1 /\ Builds(stack', o),
           Finished', Dying', Ended'
    PROVE  SafeInv'
<1>1. Live' = Live
  BY DEF Live
<1>2. Firm(stack, Live, field)' /\ (mode = "run" => Grip(stack, Live, field))'
  BY <1>1
<1>3. Building'
  BY <1>1 DEF Building, Incomplete
<1>4. Acyclic'
  BY <1>1 DEF SafeInv, Safe, Acyclic
<1> QED
  BY <1>2, <1>3, <1>4 DEF SafeInv, Safe

LEMMA NoneDying ==
    ASSUME SafeInv, Len(stack) > 0, Top.kind \notin {"drop", "free"}
    PROVE  \A o \in Obj : state[o] # "dying"
<1>1. NoFree(stack)
  BY SafeStack, TopFacts
<1> QED
  BY <1>1 DEF NoFree, SafeInv, Safe, Dying

LEMMA RunStep ==
    ASSUME SafeInv, CountInv', UNCHANGED <<state, field>>, mode = "run",
           mode' \in {"run", "leave", "oom"}, Len(stack) > 0,
           Top.kind \notin {"drop", "free"}, Built(stack, stack', Live, field),
           Grip(stack', Live, field),
           \A o \in Obj : Incomplete(o) => rc'[o] = rc[o]
    PROVE  SafeInv'
<1>1. Finished' /\ Ended'
  BY DEF Finished, Ended
<1>2. Dying'
  BY NoneDying DEF Dying
<1>3. \A o \in Obj : Incomplete(o) => rc'[o] = 1 /\ Builds(stack', o)
  BY DEF SafeInv, Safe, Building, Built
<1>4. Firm(stack', Live, field)
  BY DEF Built
<1> QED
  BY <1>1, <1>2, <1>3, <1>4, StackSafe

\* A Value is used, and a stack with no borrowed Value on top is left.
LEMMA UseStep ==
    ASSUME SafeInv, CountInv', UNCHANGED <<state, field, mode>>, HasValue,
           rc' \in {rc, Copied(Top)},
           Built(stack, stack', Live, field), Grip(stack', Live, field)
    PROVE  SafeInv'
<1>1. mode = "run" /\ Len(stack) > 0 /\ Top.kind \notin {"drop", "free"}
  BY UseTop, SafeStack DEF ValueKind
<1>2. \A o \in Obj : Incomplete(o) => rc'[o] = rc[o]
  BY CopyIncomplete
<1> QED
  BY <1>1, <1>2, RunStep

-----------------------------------------------------------------------------
(* Expressions *)

LEMMA EvalSafe ==
    ASSUME SafeInv, CountInv', NEW c \in Cell, Eval(c), Suits(stack, c),
           Grip(Push(stack, c), Live, field)
    PROVE  SafeInv'
<1>1. /\ mode = "run" /\ Len(stack) > 0 /\ Top.kind \notin {"drop", "free"}
      /\ stack' = Push(stack, c) /\ UNCHANGED <<rc, state, field, ret, mode>>
  BY DEF Eval, CanEval, TopIs, ExprPlace, StmtPlace
<1>2. Built(stack, stack', Live, field)
  BY <1>1, SafeStack, BuiltPush
<1> QED
  BY <1>1, <1>2, RunStep

LEMMA CanEvalFacts ==
    ASSUME SafeInv, CanEval
    PROVE  /\ Len(stack) > 0 /\ Top.kind \in ExprPlace /\ mode = "run"
           /\ Open(stack) /\ Loose(stack) /\ NoFree(stack)
  BY SafeStack, ExprPlaceNoFree
     DEF CanEval, TopIs, Open, Loose, Top, ExprPlace, StmtPlace, ValueKind, Borrowed

LEMMA IdentSafe ==
    ASSUME SafeInv, CountInv', VisitIdent
    PROVE  SafeInv'
<1> PICK i \in DOMAIN stack : Visible(i) /\ stack[i].own # None
                              /\ Eval(MkCell("ident", None, None, i))
  BY DEF VisitIdent
<1> DEFINE c == MkCell("ident", None, None, i)
           t == Push(stack, c)
<1>1. Len(stack) > 0 /\ Open(stack) /\ i \in 1..Len(stack)
  BY CanEvalFacts, SafeStack, LenProperties DEF Eval
<1>2. c \in Cell /\ c.kind = "ident" /\ c.idx = i
  BY <1>1, SafeStack DEF MkCell, Cell, ValueKind
<1> HIDE DEF c
<1>3. Suits(stack, c)
  BY <1>1, <1>2 DEF Suits, Borrowed
<1>4. /\ Len(t) = Len(stack) + 1 /\ t[Len(t)] = c
      /\ \A j \in 1..Len(stack) : t[j] = stack[j]
  <2>1. stack \in Seq(Cell) /\ Len(stack) \in Nat
    BY SafeStack
  <2>2. /\ Len(t) = Len(stack) + 1 /\ t[Len(stack) + 1] = c
        /\ \A j \in 1..Len(stack) : t[j] = stack[j]
    BY <1>2, <2>1, PushFacts
  <2> QED
    BY <2>2
<1>5. \/ \A j \in (i + 1)..Len(stack) : stack[j].kind # "frame"
      \/ \A j \in 2..i : stack[j].kind # "frame"
  <2>1. CASE IsGlobal(i)
    BY <2>1 DEF IsGlobal
  <2>2. CASE i > CurFrame
    <3>1. CurFrame \in 1..Len(stack) /\ \A j \in 1..Len(stack) : stack[j].kind = "frame" => j <= CurFrame
      BY <1>1, SafeStack, CurFrameFacts
    <3> QED
      BY <1>1, <2>2, <3>1, SafeStack
  <2> QED
    BY <2>1, <2>2 DEF Visible
<1> HIDE DEF t
<1>6. /\ t[i].own # None
      /\ \/ \A j \in (i + 1)..Len(t) : t[j].kind # "frame"
         \/ \A j \in 2..i : t[j].kind # "frame"
  BY <1>1, <1>2, <1>4, <1>5, SafeStack
<1>7. Grip(t, Live, field)
  BY <1>2, <1>4, <1>6 DEF Grip
<1>8. Eval(c)
  BY DEF c
<1> QED
  BY <1>2, <1>3, <1>7, <1>8, EvalSafe DEF t

LEMMA SelfSafe ==
    ASSUME SafeInv, CountInv', VisitSelf
    PROVE  SafeInv'
<1> DEFINE o == stack[CurFrame].at
           c == MkCell("self", None, o, 0)
<1>1. Len(stack) > 0 /\ Open(stack) /\ Eval(c) /\ o # None
  BY CanEvalFacts DEF VisitSelf
<1>2. o \in Live /\ o \in Obj
  <2>1. CurFrame \in 1..Len(stack) /\ stack[CurFrame].kind \in Entered
    BY <1>1, SafeStack, CurFrameFacts DEF Entered
  <2> QED
    BY <1>1, <2>1, SafeStack, FrameAlive
<1>3. c \in Cell /\ c.kind = "self" /\ c.own = None /\ c.at = o
  BY <1>2 DEF MkCell, Cell, ValueKind
<1> HIDE DEF c
<1>4. Suits(stack, c)
  BY <1>1, <1>3 DEF Suits, Borrowed
<1>5. Push(stack, c)[Len(Push(stack, c))] = c
  BY <1>4, SafeStack, BuiltPush
<1>6. Grip(Push(stack, c), Live, field)
  BY <1>2, <1>3, <1>5 DEF Grip
<1> QED
  BY <1>1, <1>3, <1>4, <1>6, EvalSafe

LEMMA FieldAccessSafe ==
    ASSUME SafeInv, CountInv', VisitFieldAccess
    PROVE  SafeInv'
<1> DEFINE o == Loaded(Top)
           c == MkCell("field", Top.own, o, 0)
<1>1. HasValue /\ Top.kind # "int" /\ o \in Obj
  BY DEF VisitFieldAccess
<1>2. o \in Live /\ LoadTouches(Top) \subseteq Live
  BY <1>1, UseAlive, NoneAssumption
<1>3. stack' = Push(Pop(stack), c) /\ UNCHANGED <<rc, state, field, ret, mode>>
  BY <1>2 DEF VisitFieldAccess, Touch
<1>4. /\ Len(stack) \in 1..Len(stack) /\ Top = stack[Len(stack)] /\ Len(stack) > 0
      /\ Shape(stack, Len(stack)) /\ Grip(stack, Live, field) /\ Top.kind \in ValueKind
      /\ Top.own \in Obj \cup {None}
  BY <1>1, UseTop, SafeStack, TopFacts, SafeCell DEF Top, SafeInv, Safe
<1>5. c \in Cell /\ c.kind = "field" /\ c.own = Top.own /\ c.at = o
  BY <1>1, <1>4 DEF MkCell, Cell, ValueKind
<1> HIDE DEF c
<1>6. Top.own # None => Reach(Live, field, Top.own, o)
  <2>1. CASE Top.kind = "expr"
    BY <2>1, ReachSelf DEF Loaded
  <2>2. CASE Top.kind = "field"
    BY <1>1, <1>4, <2>2, ReachField, NoneAssumption DEF Loaded, Grip
  <2>3. CASE Top.kind \in {"self", "ident"}
    BY <1>4, <2>3 DEF Grip, Shape
  <2> QED
    BY <1>1, <1>4, <2>1, <2>2, <2>3 DEF ValueKind
<1>7. Suits(Pop(stack), c) /\ Built(stack, Pop(stack), Live, field)
  BY <1>1, <1>5, UseTop DEF Suits, Borrowed
<1>8. Built(stack, stack', Live, field) /\ stack'[Len(stack')] = c
  BY <1>3, <1>7, BuiltPush
<1>9. Grip(stack', Live, field)
  BY <1>2, <1>5, <1>6, <1>8 DEF Grip
<1> QED
  BY <1>1, <1>3, <1>8, <1>9, UseStep

\* A Value's cell becomes another, with a destructor call or without.
LEMMA ReplaceSafe ==
    ASSUME SafeInv, CountInv', HasValue, UNCHANGED <<state, field, mode>>,
           rc' \in {rc, Copied(Top)}, NEW c, Suits(Pop(stack), c), c.kind \notin Borrowed,
           NEW p \in Obj \cup {None},
           stack' \in {Push(Pop(stack), c), Push(Push(Pop(stack), c), Drop(p))}
    PROVE  SafeInv'
<1>1. Built(stack, Pop(stack), Live, field)
  BY UseTop
<1>2. Built(stack, stack', Live, field) /\ Loose(stack')
  BY <1>1, BuiltCell
<1>3. Grip(stack', Live, field)
  BY <1>2, LooseGrip
<1> QED
  BY <1>2, <1>3, UseStep

\* A Value and its place become a Value, or nothing, and destructor calls.
LEMMA ReplacePlaceSafe ==
    ASSUME SafeInv, CountInv', HasValue, UnderIs({"lhs", "cond", "rhs"}),
           UNCHANGED <<state, field, mode>>, rc' \in {rc, Copied(Top)},
           NEW c \in Cell, c.kind \in {"expr", "int"},
           NEW p \in Obj \cup {None}, NEW q \in Obj \cup {None},
           stack' \in {Push(Pop2, Drop(p)), Push(Push(Push(Pop2, c), Drop(p)), Drop(q))}
    PROVE  SafeInv'
<1>1. Built(stack, Pop2, Live, field) /\ Loose(Pop2)
  BY UsePlace DEF HasValue, UnderIs
<1>2. Suits(Pop2, c) /\ c.kind \notin Borrowed
  BY DEF Suits, Borrowed
<1>3. Built(stack, stack', Live, field) /\ Loose(stack')
  <2>1. CASE stack' = Push(Pop2, Drop(p))
    BY <1>1, <2>1, BuiltDrop
  <2>2. CASE stack' = Push(Push(Push(Pop2, c), Drop(p)), Drop(q))
    BY <1>1, <1>2, <2>2, BuiltCell
  <2> QED
    BY <2>1, <2>2
<1>4. Grip(stack', Live, field)
  BY <1>3, LooseGrip
<1> QED
  BY <1>3, <1>4, UseStep

\* The cells that hold a result.
LEMMA ResultCells ==
    ASSUME NEW o \in Obj \cup {None}
    PROVE  /\ Int_(o) \in Cell /\ Int_(o).kind \in {"expr", "int"}
           /\ Expr(o) \in Cell /\ Expr(o).kind \in {"expr", "int"}
           /\ \A s : Suits(s, Int_(o)) /\ Suits(s, Expr(o))
           /\ Int_(o).kind \notin Borrowed /\ Expr(o).kind \notin Borrowed
<1>1. Int_(o) \in Cell /\ Int_(o).kind \in {"expr", "int"}
  BY DEF Int_, MkCell, Cell, ValueKind
<1>2. Expr(o) \in Cell /\ Expr(o).kind \in {"expr", "int"}
  BY <1>1 DEF Expr, Int_, MkCell, Cell, ValueKind
<1> QED
  BY <1>1, <1>2 DEF Suits, Borrowed

LEMMA UseOwn ==
    ASSUME SafeInv, HasValue
    PROVE  /\ Top.own \in Obj \cup {None} /\ Loaded(Top) \in Obj \cup {None}
           /\ BaseOf(Top) \in Obj \cup {None}
  BY SafeStack, TopValue

LEMMA ExpressionSafe ==
    ASSUME SafeInv, CountInv', Forms = {}, Expression
    PROVE  SafeInv'
<1>1. ASSUME VisitLiteral PROVE SafeInv'
  <2> DEFINE c == Int_(None)
  <2>1. c \in Cell /\ Suits(stack, c) /\ Eval(c) /\ c.kind \notin Borrowed
    BY <1>1, NoneCell, ResultCells DEF VisitLiteral
  <2> HIDE DEF c
  <2>2. Grip(Push(stack, c), Live, field)
    BY <2>1, SafeStack, BuiltPush, LooseGrip
  <2> QED
    BY <2>1, <2>2, EvalSafe
<1>2. ASSUME VisitIntField PROVE SafeInv'
  <2>1. HasValue /\ Top.kind # "int" /\ Loaded(Top) \in Obj
    BY <1>2 DEF VisitIntField
  <2>2. Top.own \in Obj \cup {None}
    BY <2>1, UseOwn
  <2>3. LoadTouches(Top) \cup {Loaded(Top)} \subseteq Live
    BY <2>1, UseAlive, NoneAssumption
  <2>4. stack' = Push(Pop(stack), Int_(Top.own)) /\ UNCHANGED <<rc, state, field, ret, mode>>
    BY <1>2, <2>3 DEF VisitIntField, Touch
  <2> DEFINE c == Int_(Top.own)
  <2>5. Suits(Pop(stack), c) /\ c.kind \notin Borrowed /\ stack' = Push(Pop(stack), c)
    BY <2>2, <2>4, ResultCells
  <2> HIDE DEF c
  <2> QED
    BY <2>1, <2>4, <2>5, NoneCell, ReplaceSafe
<1>3. ASSUME Unary PROVE SafeInv'
  <2> DEFINE c == Int_(None)
  <2>1. HasValue /\ stack' = Push(Push(Pop(stack), c), Drop(Top.own))
        /\ UNCHANGED <<rc, state, field, ret, mode>>
    BY <1>3 DEF Unary
  <2>2. Suits(Pop(stack), c) /\ c.kind \notin Borrowed
    BY NoneCell, ResultCells
  <2>3. Top.own \in Obj \cup {None}
    BY <2>1, UseOwn
  <2> HIDE DEF c
  <2> QED
    BY <2>1, <2>2, <2>3, ReplaceSafe
<1>4. ASSUME NEW k \in {"lhs", "cond"}, HoldOperand(k) PROVE SafeInv'
  <2> DEFINE c == MkCell(k, Top.own, None, 0)
  <2>1. HasValue /\ stack' = Push(Pop(stack), c) /\ UNCHANGED <<rc, state, field, ret, mode>>
    BY <1>4 DEF HoldOperand
  <2>2. Top.own \in Obj \cup {None}
    BY <2>1, UseOwn
  <2>3. c \in Cell /\ c.kind = k
    BY <2>2 DEF MkCell, Cell, ExprPlace
  <2> HIDE DEF c
  <2>4. c.kind \notin Borrowed /\ c.kind \notin {"expr", "int"}
    BY <2>3 DEF Borrowed
  <2>5. Open(Pop(stack))
    BY <2>1, UseTop
  <2>6. Suits(Pop(stack), c)
    BY <2>3, <2>4, <2>5, <1>4 DEF Suits
  <2> QED
    BY <2>1, <2>4, <2>6, NoneCell, ReplaceSafe
<1>5. ASSUME Binary PROVE SafeInv'
  <2> DEFINE c == Int_(None)
  <2>1. /\ HasValue /\ UnderIs({"lhs", "cond", "rhs"}) /\ UnderIs({"lhs"})
        /\ stack' = Push(Push(Push(Pop2, c), Drop(Top.own)), Drop(Under.own))
        /\ UNCHANGED <<rc, state, field, ret, mode>>
    BY <1>5 DEF Binary, UnderIs
  <2>2. c \in Cell /\ c.kind \in {"expr", "int"}
    BY NoneCell, ResultCells
  <2>3. Top.own \in Obj \cup {None} /\ Under.own \in Obj \cup {None}
    BY <2>1, SafeStack, PopPlace DEF UnderIs
  <2> HIDE DEF c
  <2> QED
    BY <2>1, <2>2, <2>3, ReplacePlaceSafe
<1>6. ASSUME Ternary PROVE SafeInv'
  <2> DEFINE c == Expr(Loaded(Top))
  <2>1. HasValue /\ UnderIs({"lhs", "cond", "rhs"}) /\ SafeCopy(Top)
    BY <1>6 DEF Ternary, UnderIs
  <2>2. CopyTouches(Top) \subseteq Live
    BY <2>1, UseAlive
  <2>3. /\ stack' = Push(Push(Push(Pop2, c), Drop(Under.own)), Drop(BaseOf(Top)))
        /\ rc' = Copied(Top) /\ UNCHANGED <<state, field, ret, mode>>
    BY <1>6, <2>2 DEF Ternary, Touch
  <2>4. Loaded(Top) \in Obj \cup {None} /\ BaseOf(Top) \in Obj \cup {None}
    BY <2>1, UseOwn
  <2>5. c \in Cell /\ c.kind \in {"expr", "int"}
    BY <2>4, ResultCells
  <2>6. Under.own \in Obj \cup {None}
    BY <2>1, SafeStack, PopPlace DEF UnderIs
  <2> HIDE DEF c
  <2> QED
    BY <2>1, <2>3, <2>4, <2>5, <2>6, ReplacePlaceSafe
<1> QED
  BY <1>1, <1>2, <1>3, <1>4, <1>5, <1>6, IdentSafe, SelfSafe, FieldAccessSafe
     DEF Expression, BinaryLhs, TernaryCond

-----------------------------------------------------------------------------
(* Steps on the heap *)

\* Firmness depends on the heap only through what the owned objects reach.
LEMMA FirmHeap ==
    ASSUME NEW s, NEW L, NEW f, NEW M, NEW g, Firm(s, L, f), Len(s) \in Nat,
           \A i \in 1..Len(s) : s[i].own # None =>
               \A b : Reach(L, f, s[i].own, b) => Reach(M, g, s[i].own, b)
    PROVE  Firm(s, M, g)
<1> SUFFICES ASSUME NEW i \in 1..Len(s)
             PROVE  Anchored(s, i, M, g)
  BY DEF Firm
<1>1. Anchored(s, i, L, f) /\ (i > 1 => i - 1 \in 1..Len(s))
  BY DEF Firm
<1> QED
  BY <1>1 DEF Anchored

LEMMA ReachNew ==
    ASSUME NEW L, NEW f, NEW g, NEW n, NEW a, NEW b, Reach(L, f, a, b), n \notin L,
           \A o \in L : g[o] = f[o], g[n] = None
    PROVE  Reach(L \cup {n}, g, a, b)
<1> SUFFICES ASSUME NEW S \in SUBSET Obj, a \in S,
                    \A o \in S \cap (L \cup {n}) : g[o] # None => g[o] \in S
             PROVE  b \in S
  BY DEF Reach
<1>1. \A o \in S \cap L : f[o] # None => f[o] \in S
  OBVIOUS
<1> QED
  BY <1>1 DEF Reach

LEMMA ReachSet ==
    ASSUME NEW L, NEW f, NEW g, NEW t, NEW a, NEW b, Reach(L, f, a, b),
           f[t] = None, \A o \in L : o # t => g[o] = f[o]
    PROVE  Reach(L, g, a, b)
<1> SUFFICES ASSUME NEW S \in SUBSET Obj, a \in S,
                    \A o \in S \cap L : g[o] # None => g[o] \in S
             PROVE  b \in S
  BY DEF Reach
<1>1. \A o \in S \cap L : f[o] # None => f[o] \in S
  OBVIOUS
<1> QED
  BY <1>1 DEF Reach

LEMMA ReachDeath ==
    ASSUME NEW L, NEW f, NEW d, NEW a, NEW b, Reach(L, f, a, b), a # d,
           \A o \in L : f[o] # d
    PROVE  Reach(L \ {d}, f, a, b)
<1> SUFFICES ASSUME NEW S \in SUBSET Obj, a \in S,
                    \A o \in S \cap (L \ {d}) : f[o] # None => f[o] \in S
             PROVE  b \in S
  BY DEF Reach
<1> DEFINE T == S \ {d}
<1>1. T \in SUBSET Obj /\ a \in T
  OBVIOUS
<1>2. \A o \in T \cap L : f[o] # None => f[o] \in T
  OBVIOUS
<1> HIDE DEF T
<1>3. b \in T
  BY <1>1, <1>2 DEF Reach
<1> QED
  BY <1>3 DEF T

-----------------------------------------------------------------------------
(* Calls *)

LEMMA BeginCallSafe ==
    ASSUME SafeInv, CountInv', BeginCall
    PROVE  SafeInv'
<1> DEFINE c == MkCell("call", None, None, 0)
<1>1. c \in Cell /\ c.kind = "call" /\ c.at = None /\ c.idx = 0
  BY DEF MkCell, Cell, ExprPlace
<1>2. Eval(c)
  BY DEF BeginCall
<1> HIDE DEF c
<1>3. Suits(stack, c) /\ c.kind \notin Borrowed
  BY <1>1 DEF Suits, Entered, Borrowed
<1>4. Grip(Push(stack, c), Live, field)
  BY <1>3, SafeStack, BuiltPush, LooseGrip
<1> QED
  BY <1>1, <1>2, <1>3, <1>4, EvalSafe

LEMMA BeginCtorSafe ==
    ASSUME SafeInv, CountInv', BeginCtor
    PROVE  SafeInv'
<1> PICK n \in Obj :
       /\ CanEval /\ state[n] = "free"
       /\ stack' = Push(stack, MkCell("call", n, n, 0))
       /\ rc' = [rc EXCEPT ![n] = 1]
       /\ state' = [state EXCEPT ![n] = "live"]
       /\ field' = [field EXCEPT ![n] = None]
       /\ UNCHANGED <<ret, mode>>
  BY DEF BeginCtor
<1> DEFINE c == MkCell("call", n, n, 0)
<1>1. mode = "run" /\ Len(stack) > 0 /\ Top.kind \notin {"drop", "free"}
  BY CanEvalFacts DEF ExprPlace, StmtPlace
<1>2. c \in Cell /\ c.kind = "call" /\ c.own = n /\ c.at = n /\ c.idx = 0
  BY DEF MkCell, Cell, ExprPlace
<1>3. stack' = Push(stack, c)
  OBVIOUS
<1> HIDE DEF c
<1>4. /\ Live' = Live \cup {n} /\ n \notin Live
      /\ rc'[n] = 1 /\ field'[n] = None /\ state'[n] = "live"
      /\ \A o \in Obj : o # n => rc'[o] = rc[o] /\ field'[o] = field[o] /\ state'[o] = state[o]
  BY SafeStack DEF Live, TypeInv, TypeOK
<1>5. Firm(stack, Live', field')
  <2>1. \A a, b : Reach(Live, field, a, b) => Reach(Live', field', a, b)
    <3>1. \A o \in Live : field'[o] = field[o]
      BY <1>4 DEF Live
    <3> QED
      BY <1>4, <3>1, ReachNew
  <2> QED
    BY <2>1, SafeStack, FirmHeap
<1>6. Suits(stack, c) /\ c.kind \notin Borrowed
  BY <1>2 DEF Suits, Entered, Borrowed
<1>7. Built(stack, stack, Live', field')
  BY <1>5, SafeStack DEF Built
<1>8. /\ Built(stack, stack', Live', field') /\ Loose(stack')
      /\ stack'[Len(stack')] = c /\ Len(stack') > 0
  BY <1>3, <1>6, <1>7, BuiltPush
<1>9. Building'
  <2> SUFFICES ASSUME NEW o \in Obj, Incomplete(o)'
               PROVE  rc'[o] = 1 /\ Builds(stack', o)
    BY DEF Building
  <2>1. CASE o = n
    <3>1. Len(stack') \in 1..Len(stack')
      BY <1>8, LenProperties DEF Built
    <3> QED
      BY <1>2, <1>4, <1>8, <2>1, <3>1 DEF Builds, Entered
  <2>2. CASE o # n
    <3>1. Incomplete(o)
      BY <1>4, <2>2 DEF Incomplete
    <3> QED
      BY <1>4, <1>8, <2>2, <3>1 DEF SafeInv, Safe, Building, Built
  <2> QED
    BY <2>1, <2>2
<1>10. Acyclic'
  <2> SUFFICES ASSUME NEW S \in SUBSET (Live \cup {n}), S # {}
               PROVE  \E o \in S : \A p \in S : field'[p] # o
    BY <1>4 DEF Acyclic
  <2> DEFINE R == S \ {n}
  <2>1. CASE R = {}
    BY <1>4, <2>1, NoneAssumption
  <2>2. CASE R # {}
    <3>1. R \in SUBSET Live
      OBVIOUS
    <3>2. PICK o \in R : \A p \in R : field[p] # o
      BY <2>2, <3>1 DEF SafeInv, Safe, Acyclic
    <3>3. \A p \in S : field'[p] # o
      BY <1>4, <3>2, SafeStack DEF Live
    <3> QED
      BY <3>2, <3>3
  <2> QED
    BY <2>1, <2>2
<1>11. Dying'
  BY <1>1, <1>4, NoneDying DEF Dying
<1>12. mode' = "run" /\ Finished' /\ Ended'
  BY <1>1 DEF Finished, Ended
<1> QED
  BY <1>8, <1>9, <1>10, <1>11, <1>12, LooseGrip DEF SafeInv, Safe, Built

LEMMA BeginMethodSafe ==
    ASSUME SafeInv, CountInv', Forms = {}, BeginMethod
    PROVE  SafeInv'
<1> DEFINE o == Loaded(Top)
           c == MkCell("call", None, o, 0)
           t == Push(stack, c)
           n == Len(stack)
<1>1. HasValue /\ SafeReceiver(Top) /\ Top.kind # "int"
  BY DEF BeginMethod
<1>2. LoadTouches(Top) \subseteq Live /\ o \in Obj \cup {None}
  BY <1>1, UseAlive, UseOwn
<1>3. stack' = t /\ UNCHANGED <<rc, state, field, ret, mode>>
  BY <1>2 DEF BeginMethod, Touch
<1>4. /\ n \in Nat /\ n \in 1..n /\ n > 1 /\ Top = stack[n] /\ Top.kind \in ValueKind
      /\ Shape(stack, n) /\ Grip(stack, Live, field) /\ Top.own \in Obj \cup {None}
  BY <1>1, UseTop, SafeStack, SafeCell, TopFacts DEF Top, SafeInv, Safe
<1>5. c \in Cell /\ c.kind = "call" /\ c.at = o
  BY <1>2 DEF MkCell, Cell, ExprPlace
<1> HIDE DEF c
<1>6. /\ t[n + 1] = c /\ \A i \in 1..n : t[i] = stack[i]
      /\ Len(t) = n + 1
  <2>1. stack \in Seq(Cell)
    BY SafeStack
  <2> QED
    BY <1>5, <2>1, PushFacts
<1> HIDE DEF t, n
<1>7. Based(t, n + 1) /\ Covers(t, n + 1) /\ First(t, n + 1)
  BY <1>4, <1>5, <1>6 DEF Based, Covers, First, InBody, Entered
<1>8. t[n] = Top
  BY <1>4, <1>6
<1>9. Anchored(t, n + 1, Live, field)
  <2> SUFFICES ASSUME o # None PROVE Anchored(t, n + 1, Live, field)
    BY <1>5, <1>6 DEF Anchored
  <2>1. CASE Top.kind = "expr"
    BY <1>4, <1>5, <1>6, <1>8, <2>1 DEF Anchored, Loaded
  <2>2. CASE Top.kind = "ident"
    <3>1. Top.idx \in 1..(n - 1) /\ t[Top.idx] = stack[Top.idx]
      BY <1>4, <1>6, <2>2 DEF Shape
    <3>2. PICK j \in 2..Top.idx : stack[j].kind = "frame"
      BY <1>1, <2>2 DEF SafeReceiver, IsGlobal
    <3>3. t[j] = stack[j]
      BY <1>4, <1>6, <3>1
    <3>4. t[Top.idx].own = o
      BY <2>2, <3>1 DEF Loaded
    <3>5. (n + 1) - 1 = n /\ n + 1 > 1 /\ Top.idx \in 1..((n + 1) - 2)
      BY <1>4, <3>1
    <3>6. \E k \in 2..Top.idx : t[k].kind = "frame"
      BY <3>2, <3>3
    <3> QED
      BY <1>5, <1>6, <1>8, <2>2, <3>4, <3>5, <3>6 DEF Anchored
  <2>3. CASE Top.kind = "field"
    <3>1. Top.own # None /\ Reach(Live, field, Top.own, Top.at) /\ Top.at \in Live
      BY <1>1, <1>4, <2>3 DEF SafeReceiver, SafeDestroy, Grip, n
    <3>2. Reach(Live, field, Top.own, o)
      BY <2>3, <3>1, ReachField DEF Loaded
    <3> QED
      BY <1>4, <1>5, <1>6, <1>8, <2>3, <3>1, <3>2 DEF Anchored
  <2>4. Top.kind # "self"
    BY <1>1 DEF SafeReceiver, SafeDestroy
  <2> QED
    BY <1>1, <1>4, <2>1, <2>2, <2>3, <2>4 DEF ValueKind
<1>10. Built(stack, t, Live, field)
  BY <1>5, <1>7, <1>9, SafeStack, FirmExtend DEF Built, t, n
<1>11. Grip(t, Live, field)
  BY <1>4, <1>5, <1>6 DEF Grip
<1> QED
  BY <1>1, <1>3, <1>10, <1>11, UseStep

LEMMA PassSafe ==
    ASSUME SafeInv, CountInv', Forms = {}, PassInt \/ PassArg
    PROVE  SafeInv'
<1>1. CASE PassInt
  <2>1. HasValue /\ stack' = Pop(stack) /\ UNCHANGED <<rc, state, field, ret, mode>>
    BY <1>1 DEF PassInt
  <2>2. Built(stack, stack', Live, field) /\ Grip(stack', Live, field)
    BY <2>1, UseTop, LooseGrip
  <2> QED
    BY <2>1, <2>2, UseStep
<1>2. CASE PassArg
  <2> DEFINE c == MkCell("arg", Loaded(Top), Destroyed(Top), 0)
  <2>1. HasValue /\ SafeCopy(Top)
    BY <1>2 DEF PassArg, SafeArg
  <2>2. CopyTouches(Top) \subseteq Live /\ Open(Pop(stack))
    BY <2>1, UseAlive, UseTop
  <2>3. /\ stack' = Push(Push(Pop(stack), c), Drop(BaseOf(Top)))
        /\ rc' = Copied(Top) /\ UNCHANGED <<state, field, ret, mode>>
    BY <1>2, <2>2 DEF PassArg, Touch
  <2>4. /\ Loaded(Top) \in Obj \cup {None} /\ BaseOf(Top) \in Obj \cup {None}
        /\ Destroyed(Top) \in Obj \cup {None}
    BY <2>1, UseOwn, SafeStack, TopValue
  <2>5. c \in Cell /\ c.kind = "arg"
    BY <2>4 DEF MkCell, Cell, ExprPlace
  <2> HIDE DEF c
  <2>6. Suits(Pop(stack), c) /\ c.kind \notin Borrowed
    BY <2>2, <2>5 DEF Suits, Borrowed
  <2> QED
    BY <2>1, <2>3, <2>4, <2>6, ReplaceSafe
<1> QED
  BY <1>1, <1>2

LEMMA EnterCallSafe ==
    ASSUME SafeInv, CountInv', EnterCall
    PROVE  SafeInv'
<1> PICK k \in DOMAIN stack :
       /\ stack[k].kind = "call"
       /\ \A i \in DOMAIN stack : i > k => stack[i].kind = "arg"
       /\ stack' = [i \in DOMAIN stack |->
                      IF i < k THEN stack[i]
                      ELSE [stack[i] EXCEPT !.kind = IF i = k THEN "frame" ELSE "var"]]
  BY DEF EnterCall
<1> DEFINE t == stack'
           n == Len(stack)
<1>1. mode = "run" /\ UNCHANGED <<rc, state, field, ret, mode>>
      /\ Len(stack) > 0 /\ Top.kind \in {"call", "arg"}
  BY DEF EnterCall, TopIs
<1>2. /\ t \in Seq(Cell) /\ DOMAIN stack = 1..n /\ DOMAIN t = 1..Len(t)
      /\ n \in Nat /\ Len(t) \in Nat /\ k \in 1..n
  BY SafeStack, LenProperties DEF CountInv, Neat
<1>3. Len(t) = n
  BY <1>2
<1>4. ASSUME NEW i \in 1..n
      PROVE  /\ t[i].own = stack[i].own /\ t[i].at = stack[i].at /\ t[i].idx = stack[i].idx
             /\ i < k => t[i] = stack[i]
             /\ i = k => t[i].kind = "frame"
             /\ i > k => t[i].kind = "var" /\ stack[i].kind = "arg"
  BY <1>2, SafeCell DEF Cell
<1> HIDE DEF t, n
<1>5. ASSUME NEW i \in 1..n
      PROVE  Based(t, i) /\ Covers(t, i) /\ First(t, i) /\ Anchored(t, i, Live, field)
  <2>1. /\ Based(stack, i) /\ Covers(stack, i) /\ First(stack, i)
        /\ Anchored(stack, i, Live, field)
    BY SafeCell DEF n
  <2>2. CASE i < k
    <3>1. \A j \in 1..i : t[j] = stack[j]
      BY <1>2, <1>4, <2>2
    <3> QED
      BY <1>2, <2>1, <3>1, FirmCell
  <2>3. CASE i = k
    <3>1. Based(t, i)
      BY <1>4, <2>3 DEF Based, InBody
    <3>2. Covers(t, i)
      BY <1>2, <1>4, <2>1, <2>3 DEF Covers, Entered
    <3>3. Anchored(t, i, Live, field)
      <4>1. i > 1 => t[i - 1] = stack[i - 1] /\ \A j \in 1..(i - 2) : t[j] = stack[j]
        BY <1>2, <1>4, <2>3
      <4>2. t[i].own = stack[i].own /\ t[i].at = stack[i].at /\ stack[i].kind \in Entered
        BY <1>4, <2>3 DEF Entered
      <4>3. ASSUME i > 1, stack[i - 1].idx \in 1..(i - 2),
                   \E j \in 2..stack[i - 1].idx : stack[j].kind = "frame"
            PROVE  /\ t[stack[i - 1].idx].own = stack[stack[i - 1].idx].own
                   /\ \E j \in 2..stack[i - 1].idx : t[j].kind = "frame"
        BY <1>2, <4>1, <4>3
      <4> QED
        BY <2>1, <4>1, <4>2, <4>3 DEF Anchored
    <3>4. t[i].idx = 0
      BY <1>2, <1>4, <2>3, SafeStack DEF TypeInv, Shaped, Shape, n
    <3> QED
      BY <3>1, <3>2, <3>3, <3>4 DEF First
  <2>4. CASE i > k
    <3>1. t[k].kind = "frame" /\ k \in 1..(i - 1)
      BY <1>2, <1>4, <2>4
    <3>2. \A m \in (k + 1)..(i - 1) : t[m].kind \in InBody
      BY <1>2, <1>4 DEF InBody
    <3>3. t[i].kind = "var" /\ i - 1 \in k..n
      BY <1>2, <1>4, <2>4
    <3>4. t[i - 1].kind \in {"frame", "var"}
      BY <1>2, <1>4, <3>3
    <3> QED
      BY <3>1, <3>2, <3>3, <3>4 DEF Based, Covers, First, Anchored, Borrowed, ValueKind, Entered
  <2> QED
    BY <1>2, <2>2, <2>3, <2>4
<1>6. \A o : Builds(stack, o) => Builds(t, o)
  <2> SUFFICES ASSUME NEW o, NEW i \in 1..n, stack[i].kind \in Entered, stack[i].own = o
               PROVE  Builds(t, o)
    BY DEF Builds, n
  <2>1. t[i].kind \in Entered /\ t[i].own = o
    BY <1>2, <1>4 DEF Entered
  <2> QED
    BY <1>3, <2>1 DEF Builds
<1>7. Built(stack, t, Live, field)
  BY <1>2, <1>3, <1>5, <1>6 DEF Built, Firm
<1>8. Grip(t, Live, field)
  <2>1. n \in 1..n /\ n >= k
    BY <1>2
  <2>2. t[n].kind \in {"frame", "var"}
    BY <1>2, <1>4, <2>1
  <2> QED
    BY <1>3, <2>2, LooseGrip DEF Loose, Borrowed
<1> QED
  BY <1>1, <1>7, <1>8, RunStep DEF t

LEMMA EndCallSafe ==
    ASSUME SafeInv, CountInv', EndCall
    PROVE  SafeInv'
<1> DEFINE c == Expr(IF Top.own # None THEN Top.own ELSE ret)
           n == Len(stack)
<1>1. /\ mode = "unwind" /\ n > 0 /\ Top.kind = "frame"
      /\ stack' = Push(Pop(stack), c) /\ ret' = None /\ mode' = "run"
      /\ UNCHANGED <<rc, state, field>>
  BY DEF EndCall, TopIs
<1>2. n \in Nat /\ n \in 1..n /\ Top = stack[n] /\ ret \in Obj \cup {None}
      /\ Top.own \in Obj \cup {None}
  BY <1>1, SafeStack, SafeCell DEF Top, TypeInv, TypeOK
<1>3. \A s : Suits(s, c)
  BY <1>2, ResultCells
<1>4. c.kind \notin Borrowed
  BY <1>2, ResultCells
<1> HIDE DEF c
<1>5. /\ Pop(stack) \in Seq(Cell) /\ Firm(Pop(stack), Live, field)
      /\ Len(Pop(stack)) = n - 1 /\ \A i \in 1..(n - 1) : Pop(stack)[i] = stack[i]
  BY <1>1, SafeStack, FirmPop, PopFacts
<1>6. /\ Firm(stack', Live, field) /\ Loose(stack')
      /\ \A o : Builds(Pop(stack), o) => Builds(stack', o)
  BY <1>1, <1>3, <1>4, <1>5, FirmPush
<1>7. ASSUME NEW o \in Obj, Incomplete(o)
      PROVE  rc'[o] = 1 /\ Builds(stack', o)
  <2>1. rc[o] = 1
    BY <1>7 DEF SafeInv, Safe, Building
  <2>2. PICK i \in 1..n : stack[i].kind \in Entered /\ stack[i].own = o
    BY <1>7 DEF SafeInv, Safe, Building, Builds
  <2>3. i # n
    <3> SUFFICES ASSUME i = n PROVE FALSE
      OBVIOUS
    <3>1. stack[n].kind = "frame" /\ stack[n].own = o /\ o # None
      BY <1>1, <1>2, <2>2, NoneAssumption
    <3>2. \A j \in (n + 1)..n : stack[j].kind # "frame"
      BY <1>2
    <3> QED
      BY <1>1, <1>2, <1>7, <3>1, <3>2 DEF SafeInv, Safe, Finished
  <2>4. i \in 1..(n - 1)
    BY <1>2, <2>2, <2>3
  <2>5. Builds(Pop(stack), o)
    BY <1>5, <2>2, <2>4 DEF Builds
  <2> QED
    BY <1>1, <1>6, <2>1, <2>5
<1>8. Dying'
  BY <1>1, NoneDying DEF Dying
<1>9. Finished' /\ Ended'
  BY <1>1 DEF Finished, Ended
<1> QED
  BY <1>1, <1>6, <1>7, <1>8, <1>9, LooseGrip, StackSafe

LEMMA EndMethodSafe ==
    ASSUME SafeInv, CountInv', EndMethod
    PROVE  SafeInv'
<1>1. /\ mode = "run" /\ TopIs(ValueKind) /\ UnderIs(ValueKind)
      /\ Len(stack) > 1 /\ Len(stack) > 0 /\ Under.kind \in ValueKind /\ Top.kind \in ValueKind
  BY DEF EndMethod, TopIs, UnderIs
<1>2. Released(Under) /\ Destroyed(Under) = Under.own
  <2>1. Waits(stack, Len(stack) - 1) /\ Len(stack) \in Nat
    BY <1>1, SafeStack DEF CountInv, Neat
  <2>2. Released(Under)
    BY <1>1, <2>1 DEF Waits, Top, Under, ValueKind
  <2> QED
    BY <2>2 DEF Released, Destroyed
<1>3. (IF Under.own = None THEN LoadTouches(Under) ELSE {}) \subseteq Live
  BY <1>2 DEF Released, LoadTouches
<1>4. /\ stack' = Push(Push(Pop2, Top), Drop(Under.own))
      /\ UNCHANGED <<rc, state, field, ret, mode>>
  BY <1>2, <1>3 DEF EndMethod, Touch
<1>5. Under.own \in Obj \cup {None}
  BY <1>1, SafeStack, PopPlace
<1>6. Built(stack, Pop2, Live, field) /\ Top.kind \in {"expr", "int"}
  <2>1. UnderIs(ValueKind \cup {"lhs", "cond", "rhs"})
    BY <1>1 DEF UnderIs
  <2> QED
    BY <1>1, <2>1, UsePlace
<1>7. Suits(Pop2, Top) /\ Top.kind \notin Borrowed
  BY <1>1, <1>6, SafeStack, TopFacts DEF Suits, Borrowed
<1>8. Built(stack, stack', Live, field) /\ Loose(stack')
  BY <1>4, <1>5, <1>6, <1>7, BuiltCell
<1> QED
  BY <1>1, <1>4, <1>6, <1>8, LooseGrip, RunStep

LEMMA CallSafe ==
    ASSUME SafeInv, CountInv', Forms = {}, Call
    PROVE  SafeInv'
  BY BeginCallSafe, BeginCtorSafe, BeginMethodSafe, PassSafe, EnterCallSafe, EndCallSafe,
     EndMethodSafe DEF Call

-----------------------------------------------------------------------------
(* Statements *)

LEMMA StmtTop ==
    ASSUME SafeInv, StmtValue
    PROVE  HasValue /\ Body(Pop(stack)) /\ Open(Pop(stack)) /\ Loose(Pop(stack))
<1>1. HasValue /\ Under.kind \in StmtPlace
  BY DEF StmtValue, UnderIs
<1> QED
  BY <1>1, UseTop DEF Body

LEMMA ExprStmtSafe ==
    ASSUME SafeInv, CountInv', Forms = {}, ExprStmt
    PROVE  SafeInv'
<1>1. StmtValue /\ HasValue /\ Released(Top)
  BY DEF ExprStmt, StmtValue, SafeDestroy, Released
<1>2. Destroyed(Top) = Top.own /\ (Top.own = None => LoadTouches(Top) = {})
  BY <1>1 DEF Released, Destroyed, LoadTouches
<1>3. /\ stack' = Push(Pop(stack), Drop(Top.own))
      /\ UNCHANGED <<rc, state, field, ret, mode>>
  BY <1>2 DEF ExprStmt, Touch
<1>4. Built(stack, Pop(stack), Live, field) /\ Loose(Pop(stack)) /\ Top.own \in Obj \cup {None}
  BY <1>1, UseTop, UseOwn
<1>5. Built(stack, stack', Live, field) /\ Grip(stack', Live, field)
  BY <1>3, <1>4, BuiltDrop, LooseGrip
<1> QED
  BY <1>1, <1>3, <1>5, UseStep

LEMMA BodyCells ==
    ASSUME NEW o \in Obj \cup {None}, NEW s, Body(s)
    PROVE  /\ Suits(s, Var(o)) /\ Var(o).kind \notin Borrowed
           /\ Suits(s, Scope(o)) /\ Scope(o).kind \notin Borrowed
           /\ Suits(s, MkCell("rhs", o, None, 0))
           /\ MkCell("rhs", o, None, 0).kind \notin Borrowed
<1>1. ASSUME NEW k \in InBody \cup {"rhs"}
      PROVE  Suits(s, MkCell(k, o, None, 0)) /\ MkCell(k, o, None, 0).kind \notin Borrowed
  <2> DEFINE c == MkCell(k, o, None, 0)
  <2>1. c \in Cell /\ c.kind = k
    BY DEF MkCell, Cell, ExprPlace, StmtPlace, InBody
  <2> HIDE DEF c
  <2>2. c.kind \notin Borrowed
    BY <2>1 DEF Borrowed, InBody
  <2>3. Suits(s, c)
    BY <2>1 DEF Suits
  <2> QED
    BY <2>2, <2>3 DEF c
<1> QED
  BY <1>1 DEF Var, Scope, InBody

LEMMA DeclareSafe ==
    ASSUME SafeInv, CountInv', Forms = {}, VisitVariable \/ AssignRhs
    PROVE  SafeInv'
<1>1. StmtValue /\ HasValue /\ SafeCopy(Top)
  BY DEF VisitVariable, AssignRhs, StmtValue
<1>2. CopyTouches(Top) \subseteq Live /\ Body(Pop(stack))
  BY <1>1, UseAlive, StmtTop
<1>3. Loaded(Top) \in Obj \cup {None} /\ BaseOf(Top) \in Obj \cup {None}
  BY <1>1, UseOwn
<1>4. \E c \in {Var(Loaded(Top)), MkCell("rhs", Loaded(Top), None, 0)} :
        /\ stack' = Push(Push(Pop(stack), c), Drop(BaseOf(Top)))
        /\ rc' = Copied(Top) /\ UNCHANGED <<state, field, ret, mode>>
  BY <1>2 DEF VisitVariable, AssignRhs, Touch
<1>5. PICK c \in {Var(Loaded(Top)), MkCell("rhs", Loaded(Top), None, 0)} :
        /\ stack' = Push(Push(Pop(stack), c), Drop(BaseOf(Top)))
        /\ rc' = Copied(Top) /\ UNCHANGED <<state, field, ret, mode>>
  BY <1>4
<1>6. Suits(Pop(stack), c) /\ c.kind \notin Borrowed
  <2> DEFINE o == Loaded(Top)
  <2> HIDE DEF o
  <2>1. o \in Obj \cup {None} /\ c \in {Var(o), MkCell("rhs", o, None, 0)}
    BY <1>3 DEF o
  <2> QED
    BY <1>2, <2>1, BodyCells
<1> QED
  BY <1>1, <1>3, <1>5, <1>6, ReplaceSafe

LEMMA EnterSafe ==
    ASSUME SafeInv, CountInv', EnterIf \/ EnterBlock
    PROVE  SafeInv'
<1>1. CASE EnterIf
  <2> DEFINE c == Scope(Top.own)
  <2>1. StmtValue /\ HasValue
    BY <1>1 DEF EnterIf, StmtValue
  <2>2. stack' = Push(Pop(stack), c) /\ UNCHANGED <<rc, state, field, ret, mode>>
    BY <1>1 DEF EnterIf
  <2>3. Top.own \in Obj \cup {None} /\ Body(Pop(stack))
    BY <2>1, UseOwn, StmtTop
  <2>4. Suits(Pop(stack), c) /\ c.kind \notin Borrowed
    BY <2>3, BodyCells
  <2> HIDE DEF c
  <2> QED
    BY <2>1, <2>2, <2>4, NoneCell, ReplaceSafe
<1>2. CASE EnterBlock
  <2> DEFINE c == Scope(None)
  <2>1. /\ mode = "run" /\ Len(stack) > 0 /\ Top.kind \in StmtPlace
        /\ stack' = Push(stack, c) /\ UNCHANGED <<rc, state, field, ret, mode>>
    BY <1>2 DEF EnterBlock, CanEval, TopIs
  <2>2. Body(stack) /\ Top.kind \notin {"drop", "free"}
    BY <2>1 DEF Body, Top, StmtPlace
  <2>3. Suits(stack, c) /\ c.kind \notin Borrowed
    BY <2>2, NoneCell, BodyCells
  <2> HIDE DEF c
  <2>4. Built(stack, stack', Live, field) /\ Grip(stack', Live, field)
    BY <2>1, <2>3, SafeStack, BuiltPush, LooseGrip
  <2> QED
    BY <2>1, <2>2, <2>4, RunStep
<1> QED
  BY <1>1, <1>2

LEMMA AssignIntSafe ==
    ASSUME SafeInv, CountInv', AssignInt
    PROVE  SafeInv'
<1>1. /\ HasValue /\ UnderIs({"lhs", "cond", "rhs"})
      /\ stack' = Push(Pop2, Drop(Top.own)) /\ UNCHANGED <<rc, state, field, ret, mode>>
  BY DEF AssignInt, UnderIs
<1>2. Top.own \in Obj \cup {None}
  BY <1>1, UseOwn
<1>3. Int_(None) \in Cell /\ Int_(None).kind \in {"expr", "int"}
  BY NoneCell, ResultCells
<1> QED
  BY <1>1, <1>2, <1>3, NoneCell, ReplacePlaceSafe

\* A variable that is assigned is not the one a waiting receiver was loaded from:
\* the running body sees its own variables and the globals only.
LEMMA AssignVarSafe ==
    ASSUME SafeInv, CountInv', AssignVar
    PROVE  SafeInv'
<1> DEFINE k == Top.idx
           p == Pop2
           s == [p EXCEPT ![k].own = Under.own]
           n == Len(stack)
<1>1. /\ HasValue /\ mode = "run" /\ Top.kind = "ident" /\ n > 1 /\ Under.kind = "rhs"
      /\ stack' = Push(s, Drop(Loaded(Top))) /\ UNCHANGED <<rc, state, field, ret, mode>>
  BY DEF AssignVar, UnderIs, HasValue
<1>2. /\ k \in 1..Len(p) /\ Loaded(Top) \in Obj \cup {None}
      /\ p[k].kind = "var" /\ s \in Seq(Cell) /\ Len(s) = Len(p)
      /\ \A j \in 1..Len(s) : /\ s[j].kind = p[j].kind
                              /\ s[j].at = p[j].at
                              /\ s[j].idx = p[j].idx
                              /\ j # k => s[j] = p[j]
  BY <1>1, SafeStack, AssignVarShape DEF Shaped
<1>3. /\ Built(stack, p, Live, field) /\ Loose(p)
      /\ Len(p) = n - 2 /\ \A j \in 1..Len(p) : p[j] = stack[j]
      /\ n \in Nat /\ n - 1 \in 1..n
  <2>1. /\ Under.kind \in ValueKind \cup {"lhs", "cond", "rhs"} /\ Top.kind \in ValueKind
        /\ TopIs(ValueKind) /\ UnderIs(ValueKind \cup {"lhs", "cond", "rhs"})
    BY <1>1 DEF HasValue, TopIs, UnderIs
  <2>2. Built(stack, p, Live, field) /\ Loose(p)
    BY <1>1, <2>1, UsePlace
  <2>3. Len(p) = n - 2 /\ \A j \in 1..Len(p) : p[j] = stack[j]
    BY <1>1, <2>1, SafeStack, PlacePops
  <2> QED
    BY <1>1, <2>2, <2>3, SafeStack
<1>4. /\ stack[n - 1].kind = "rhs" /\ Based(stack, n - 1) /\ Grip(stack, Live, field)
      /\ stack[n].kind = "ident" /\ stack[n].idx = k
  BY <1>1, <1>3, SafeCell DEF SafeInv, Safe, Top, Under
<1>5. PICK b \in 1..(n - 2) : /\ stack[b].kind = "frame"
                              /\ \A m \in (b + 1)..(n - 2) : stack[m].kind \in InBody
  BY <1>3, <1>4 DEF Based
<1>6. \/ \A j \in (k + 1)..n : stack[j].kind # "frame"
      \/ \A j \in 2..k : stack[j].kind # "frame"
  BY <1>1, <1>4 DEF Grip
<1> HIDE DEF s, p, k, n
<1>7. ASSUME NEW i \in 1..Len(s)
      PROVE  Based(s, i) /\ Covers(s, i) /\ First(s, i) /\ Anchored(s, i, Live, field)
  <2>1. /\ Based(p, i) /\ Covers(p, i) /\ First(p, i) /\ Anchored(p, i, Live, field)
        /\ i \in Nat /\ i \in 1..Len(p) /\ Len(s) \in Nat
    BY <1>2, <1>3, LenProperties DEF Built, Firm
  <2>2. \A j \in 1..i : s[j].kind = p[j].kind
    BY <1>2, <2>1
  <2>3. Based(s, i)
    <3>1. s[i].kind = p[i].kind
      BY <2>1, <2>2
    <3>2. ASSUME p[i].kind \in InBody \cup {"rhs"}
          PROVE  \E j \in 1..(i - 1) : /\ s[j].kind = "frame"
                                       /\ \A m \in (j + 1)..(i - 1) : s[m].kind \in InBody
      <4>1. PICK j \in 1..(i - 1) : /\ p[j].kind = "frame"
                                    /\ \A m \in (j + 1)..(i - 1) : p[m].kind \in InBody
        BY <2>1, <3>2 DEF Based
      <4>2. \A m \in (j + 1)..(i - 1) : s[m].kind = p[m].kind
        BY <2>1, <2>2
      <4>3. j \in 1..i /\ s[j].kind = "frame"
        BY <2>1, <2>2, <4>1
      <4>4. \A m \in (j + 1)..(i - 1) : s[m].kind \in InBody
        BY <4>1, <4>2
      <4> QED
        BY <4>3, <4>4, <4>1
    <3> QED
      BY <3>1, <3>2 DEF Based
  <2>4. Covers(s, i) /\ First(s, i)
    <3>1. /\ s[i].kind = p[i].kind /\ s[i].idx = p[i].idx
          /\ i > 1 => s[i - 1].kind = p[i - 1].kind
          /\ \A j \in 2..(i - 1) : s[j].kind = p[j].kind
      BY <1>2, <2>1, <2>2
    <3> QED
      BY <2>1, <3>1 DEF Covers, First
  <2>5. Anchored(s, i, Live, field)
    <3> SUFFICES ASSUME p[i].kind \in Entered, s[i].at # None
                 PROVE  Anchored(s, i, Live, field)
      BY <1>2, <2>1 DEF Anchored
    <3>1. i # k /\ s[i] = p[i]
      BY <1>2, <2>1 DEF Entered
    <3>2. i > 1 /\ p[i - 1].kind \in ValueKind => s[i - 1] = p[i - 1]
      BY <1>2, <2>1 DEF ValueKind
    <3>3. ASSUME i > 1, p[i - 1].kind = "ident", p[i - 1].idx \in 1..(i - 2),
                 \E j \in 2..p[i - 1].idx : p[j].kind = "frame"
          PROVE  /\ s[p[i - 1].idx] = p[p[i - 1].idx]
                 /\ \E j \in 2..p[i - 1].idx : s[j].kind = "frame"
      <4> DEFINE x == p[i - 1].idx
      <4>1. x \in 1..(i - 2) /\ x \in Nat
        BY <3>3
      <4> HIDE DEF x
      <4>2. PICK j \in 2..x : p[j].kind = "frame"
        BY <3>3 DEF x
      <4>3. stack[j].kind = "frame" /\ stack[i].kind \in Entered
        BY <1>3, <2>1, <4>1, <4>2
      <4>4. i <= b
        <5>1. i \in 1..(n - 2) /\ stack[i].kind \notin InBody
          BY <1>3, <2>1, <4>3 DEF Entered, InBody
        <5> QED
          BY <1>3, <1>5, <5>1
      <4>5. x # k
        <5> SUFFICES ASSUME x = k PROVE FALSE
          OBVIOUS
        <5>1. b \in (k + 1)..n /\ j \in 2..k
          BY <1>3, <1>5, <2>1, <4>1, <4>2, <4>4
        <5> QED
          BY <1>5, <1>6, <4>3, <5>1
      <4>6. s[x] = p[x] /\ s[j].kind = p[j].kind
        BY <1>2, <2>1, <4>1, <4>2, <4>5
      <4> QED
        BY <4>2, <4>6 DEF x
    <3> QED
      BY <2>1, <3>1, <3>2, <3>3 DEF Anchored, ValueKind
  <2> QED
    BY <2>3, <2>4, <2>5
<1>8. \A o : Builds(p, o) => Builds(s, o)
  <2> SUFFICES ASSUME NEW o, NEW i \in 1..Len(p), p[i].kind \in Entered, p[i].own = o
               PROVE  Builds(s, o)
    BY DEF Builds
  <2>1. i # k /\ s[i] = p[i] /\ i \in 1..Len(s)
    BY <1>2 DEF Entered
  <2> QED
    BY <2>1 DEF Builds
<1>9. Built(stack, s, Live, field) /\ Loose(s)
  <2>1. Firm(s, Live, field)
    BY <1>7 DEF Firm
  <2>2. Loose(s)
    <3>1. Len(s) > 0 => Len(s) \in 1..Len(s)
      BY <1>2, LenProperties
    <3> QED
      BY <1>2, <1>3, <3>1 DEF Loose
  <2> QED
    BY <1>2, <1>3, <1>8, <2>1, <2>2 DEF Built
<1>10. Built(stack, stack', Live, field) /\ Grip(stack', Live, field)
  BY <1>1, <1>2, <1>9, BuiltDrop, LooseGrip
<1> QED
  BY <1>1, <1>10, UseStep

\* The object whose field is set is still being built: nothing reaches it, so
\* no borrower loses its owner and no cycle closes.
LEMMA AssignFieldSafe ==
    ASSUME SafeInv, CountInv', Forms = {}, AssignField
    PROVE  SafeInv'
<1> DEFINE a == Top.at
           u == Under.own
           n == Len(stack)
<1>1. /\ HasValue /\ mode = "run" /\ Top.kind = "field" /\ n > 1 /\ n > 0
      /\ Under.kind = "rhs" /\ u # None /\ field[a] = None
      /\ UnderIs(ValueKind \cup {"lhs", "cond", "rhs"}) /\ TopIs(ValueKind)
      /\ ClassOf[u] = FieldClass[ClassOf[a]]
  BY DEF AssignField, UnderIs, HasValue
<1>2. a \in Live /\ a \in Obj
  BY <1>1, UseAlive, SafeStack DEF LoadTouches
<1>3. /\ field' = [field EXCEPT ![a] = u] /\ stack' = Push(Pop2, Drop(Top.own))
      /\ UNCHANGED <<rc, state, ret, mode>>
  BY <1>2 DEF AssignField, Touch
<1>4. /\ u \in Obj /\ Top.own \in Obj \cup {None} /\ n \in Nat /\ n - 1 \in 1..n
      /\ Under = stack[n - 1] /\ field \in [Obj -> Obj \cup {None}]
  BY <1>1, SafeStack, PopPlace DEF Under, TypeInv, TypeOK
<1>5. Incomplete(a)
  BY <1>1, <1>2, <1>4, ClassAssumption, NoneAssumption DEF Incomplete
<1>6. /\ \A p \in Live : field[p] # a
      /\ u # a
  <2>1. rc[a] = 1 /\ Builds(stack, a)
    BY <1>2, <1>5 DEF SafeInv, Safe, Building
  <2>2. PICK i \in 1..n : stack[i].kind \in Entered /\ stack[i].own = a
    BY <2>1 DEF Builds
  <2>3. /\ \A j \in 1..n : stack[j].own = a => j = i
        /\ \A p \in Live : field[p] # a
    BY <1>2, <2>1, <2>2, SafeStack, SoleOwner
  <2> QED
    BY <1>1, <1>4, <2>2, <2>3 DEF Entered
<1>7. Live' = Live /\ field'[a] = u /\ \A o \in Obj : o # a => field'[o] = field[o]
  BY <1>2, <1>3, <1>4 DEF Live
<1> HIDE DEF a, u, n
<1>8. Built(stack, Pop2, Live, field') /\ Loose(Pop2)
  <2>1. Built(stack, Pop2, Live, field) /\ Loose(Pop2)
    BY <1>1, UsePlace
  <2>2. \A x, b : Reach(Live, field, x, b) => Reach(Live, field', x, b)
    <3>1. \A o \in Live : o # a => field'[o] = field[o]
      BY <1>7, SafeStack
    <3> QED
      BY <1>1, <3>1, ReachSet
  <2>3. Firm(Pop2, Live, field')
    BY <2>1, <2>2, FirmHeap, LenProperties DEF Built
  <2> QED
    BY <2>1, <2>3 DEF Built
<1>9. Built(stack, stack', Live, field') /\ Loose(stack')
  BY <1>3, <1>4, <1>8, BuiltDrop
<1>10. Building'
  <2> SUFFICES ASSUME NEW o \in Obj, Incomplete(o)'
               PROVE  rc'[o] = 1 /\ Builds(stack', o)
    BY DEF Building
  <2>1. o # a
    BY <1>1, <1>7 DEF Incomplete
  <2>2. Incomplete(o)
    BY <1>7, <2>1 DEF Incomplete
  <2> QED
    BY <1>3, <1>9, <2>2 DEF SafeInv, Safe, Building, Built
<1>11. Acyclic'
  <2> SUFFICES ASSUME NEW S \in SUBSET Live, S # {}
               PROVE  \E o \in S : \A p \in S : field'[p] # o
    BY <1>7 DEF Acyclic
  <2>1. CASE a \in S
    BY <1>6, <1>7, <2>1, SafeStack
  <2>2. CASE a \notin S
    <3>1. PICK o \in S : \A p \in S : field[p] # o
      BY DEF SafeInv, Safe, Acyclic
    <3> QED
      BY <1>7, <2>2, <3>1, SafeStack
  <2> QED
    BY <2>1, <2>2
<1>12. Dying'
  <2>1. Top.kind \notin {"drop", "free"} /\ Len(stack) > 0
    BY <1>1 DEF n
  <2> QED
    BY <1>3, <2>1, NoneDying DEF Dying
<1>13. Finished' /\ Ended' /\ mode' = "run"
  BY <1>1, <1>3 DEF Finished, Ended
<1>14. Firm(stack', Live', field') /\ Grip(stack', Live', field')
  BY <1>7, <1>9, LooseGrip DEF Built
<1> QED
  BY <1>10, <1>11, <1>12, <1>13, <1>14 DEF SafeInv, Safe

-----------------------------------------------------------------------------
(* Steps that keep the frames *)

\* s and t have the same frames.
SameFrames(s, t) == \A i \in Nat :
    /\ i \in 1..Len(s) /\ s[i].kind = "frame" <=> i \in 1..Len(t) /\ t[i].kind = "frame"
    /\ i \in 1..Len(s) /\ s[i].kind = "frame" => t[i].own = s[i].own

\* t is what destruction leaves of s.
Cleans(s, t, L, f) == Built(s, t, L, f) /\ SameFrames(s, t) /\ Loose(t)

LEMMA FramesPush ==
    ASSUME NEW s, NEW t \in Seq(Cell), NEW c \in Cell, c.kind # "frame", SameFrames(s, t)
    PROVE  SameFrames(s, Push(t, c))
<1> DEFINE u == Push(t, c)
<1>1. /\ Len(t) \in Nat /\ Len(u) = Len(t) + 1 /\ u[Len(t) + 1] = c
      /\ \A i \in 1..Len(t) : u[i] = t[i]
  BY PushFacts, LenProperties
<1> HIDE DEF u
<1>2. \A i \in Nat : i \in 1..Len(u) /\ u[i].kind = "frame" <=> i \in 1..Len(t) /\ t[i].kind = "frame"
  BY <1>1
<1> QED
  BY <1>1, <1>2 DEF SameFrames, u

LEMMA FramesPop ==
    ASSUME NEW s \in Seq(Cell), Len(s) > 0, s[Len(s)].kind # "frame"
    PROVE  SameFrames(s, Pop(s))
<1> DEFINE p == Pop(s)
<1>1. /\ Len(s) \in Nat /\ Len(p) = Len(s) - 1
      /\ \A i \in 1..(Len(s) - 1) : p[i] = s[i]
  BY PopFacts, LenProperties
<1> HIDE DEF p
<1>2. \A i \in Nat : i \in 1..Len(s) /\ s[i].kind = "frame" <=> i \in 1..Len(p) /\ p[i].kind = "frame"
  BY <1>1
<1> QED
  BY <1>1, <1>2 DEF SameFrames, p

\* With the frames the running function stays the same.
LEMMA FramesKept ==
    ASSUME SafeInv, CountInv', SameFrames(stack, stack'),
           \A o \in Obj : Incomplete(o)' => Incomplete(o)
    PROVE  /\ mode = "unwind" => Finished'
           /\ ~InProgram => ~InProgram'
<1> stack' \in Seq(Cell) /\ Len(stack') \in Nat /\ stack \in Seq(Cell) /\ Len(stack) \in Nat
      /\ DOMAIN stack = 1..Len(stack) /\ DOMAIN stack' = 1..Len(stack')
  BY SafeStack, LenProperties DEF CountInv, Neat
<1>1. ASSUME mode = "unwind", NEW i \in 1..Len(stack'), stack'[i].kind = "frame",
             \A j \in (i + 1)..Len(stack') : stack'[j].kind # "frame",
             stack'[i].own # None
      PROVE  ~Incomplete(stack[i].own)'
  <2>1. i \in Nat /\ i \in 1..Len(stack) /\ stack[i].kind = "frame"
        /\ stack[i].own = stack'[i].own
    BY <1>1 DEF SameFrames
  <2>2. \A j \in (i + 1)..Len(stack) : stack[j].kind # "frame"
    <3> SUFFICES ASSUME NEW j \in (i + 1)..Len(stack), stack[j].kind = "frame" PROVE FALSE
      OBVIOUS
    <3>1. j \in Nat /\ j \in 1..Len(stack)
      BY <2>1
    <3>2. j \in 1..Len(stack') /\ stack'[j].kind = "frame"
      BY <3>1 DEF SameFrames
    <3> QED
      BY <1>1, <2>1, <3>1, <3>2
  <2>3. stack[i].own \in Obj /\ ~Incomplete(stack[i].own)
    BY <1>1, <2>1, <2>2, SafeCell DEF SafeInv, Safe, Finished
  <2>4. PICK o \in Obj : o = stack[i].own
    BY <2>3
  <2>5. ~Incomplete(o)
    BY <2>3, <2>4
  <2>6. ~Incomplete(o)' /\ o = stack'[i].own
    BY <2>1, <2>4, <2>5
  <2> QED
    BY <2>6 DEF Incomplete
<1>2. ASSUME ~InProgram PROVE ~InProgram'
  <2>1. PICK i \in 1..Len(stack) : stack[i].kind = "frame" /\ i # 1
    BY <1>2 DEF InProgram
  <2>2. i \in 1..Len(stack') /\ stack'[i].kind = "frame"
    BY <2>1 DEF SameFrames
  <2> QED
    BY <2>1, <2>2 DEF InProgram
<1> QED
  BY <1>1, <1>2 DEF Finished

\* A constructor does not start to return before its field is set.
LEMMA ReturnSafe ==
    ASSUME SafeInv, CountInv', Forms = {}, SafeReturn, ~InProgram, mode = "run",
           mode' = "unwind", UNCHANGED <<state, field>>, SameFrames(stack, stack'),
           Len(stack) > 0, Top.kind \notin {"drop", "free"},
           Built(stack, stack', Live, field),
           \A o \in Obj : Incomplete(o) => rc'[o] = rc[o]
    PROVE  SafeInv'
<1> /\ Len(stack) \in Nat /\ Len(stack') \in Nat /\ DOMAIN stack' = 1..Len(stack')
    /\ DOMAIN stack = 1..Len(stack)
  BY SafeStack, LenProperties DEF Built
<1>1. ASSUME NEW i \in 1..Len(stack'), stack'[i].kind = "frame",
             \A j \in (i + 1)..Len(stack') : stack'[j].kind # "frame",
             stack'[i].own # None
      PROVE  ~Incomplete(stack[i].own)'
  <2> DEFINE c == CurFrame
  <2>1. /\ c \in 1..Len(stack) /\ stack[c].kind = "frame"
        /\ \A j \in 1..Len(stack) : stack[j].kind = "frame" => j <= c
    BY SafeStack, CurFrameFacts
  <2>2. /\ stack[c].own # None /\ FieldClass[ClassOf[stack[c].own]] # None
           => field[stack[c].own] # None
    BY DEF SafeReturn
  <2> HIDE DEF c
  <2>3. i = c
    <3>1. c \in Nat /\ c \in 1..Len(stack') /\ stack'[c].kind = "frame"
      BY <2>1 DEF SameFrames
    <3>2. i \in Nat /\ i \in 1..Len(stack) /\ stack[i].kind = "frame"
      BY <1>1 DEF SameFrames
    <3> QED
      BY <1>1, <2>1, <3>1, <3>2
  <2>4. stack'[i].own = stack[c].own
    BY <1>1, <2>1, <2>3 DEF SameFrames
  <2> QED
    BY <1>1, <2>2, <2>4 DEF Incomplete
<1>2. Finished'
  BY <1>1 DEF Finished
<1>3. Ended'
  <2>1. PICK i \in 1..Len(stack) : stack[i].kind = "frame" /\ i # 1
    BY DEF InProgram
  <2>2. i \in 1..Len(stack') /\ stack'[i].kind = "frame"
    BY <2>1 DEF SameFrames
  <2> QED
    BY <2>1, <2>2 DEF Ended, InProgram
<1>4. Dying'
  BY NoneDying DEF Dying
<1>5. \A o \in Obj : Incomplete(o) => rc'[o] = 1 /\ Builds(stack', o)
  BY DEF SafeInv, Safe, Building, Built
<1>6. Firm(stack', Live, field)
  BY DEF Built
<1> QED
  BY <1>2, <1>3, <1>4, <1>5, <1>6, StackSafe

LEMMA LeaveSafe ==
    ASSUME SafeInv, CountInv', Forms = {}, LeaveScope \/ ReturnVoid
    PROVE  SafeInv'
<1>1. /\ mode = "run" /\ Len(stack) > 0 /\ Top.kind \in StmtPlace
      /\ UNCHANGED <<stack, rc, state, field, ret>>
  BY DEF LeaveScope, ReturnVoid, TopIs
<1>2. Top.kind \notin {"drop", "free"} /\ Loose(stack) /\ Built(stack, stack', Live, field)
  BY <1>1, SafeStack DEF StmtPlace, Loose, Borrowed, Top
<1>3. CASE LeaveScope
  BY <1>1, <1>2, <1>3, LooseGrip, RunStep DEF LeaveScope
<1>4. CASE ReturnVoid
  <2>1. SameFrames(stack, stack')
    BY <1>1 DEF SameFrames
  <2> QED
    BY <1>1, <1>2, <1>4, <2>1, ReturnSafe DEF ReturnVoid
<1> QED
  BY <1>3, <1>4

LEMMA ReturnValueSafe ==
    ASSUME SafeInv, CountInv', Forms = {}, ReturnValue
    PROVE  SafeInv'
<1>1. /\ HasValue /\ SafeCopy(Top) /\ SafeReturn /\ ~InProgram /\ mode = "run"
      /\ StmtValue
  BY DEF ReturnValue, StmtValue, HasValue
<1>2. CopyTouches(Top) \subseteq Live
  BY <1>1, UseAlive
<1>3. /\ stack' = Push(Pop(stack), Drop(BaseOf(Top)))
      /\ rc' = Copied(Top) /\ mode' = "unwind" /\ UNCHANGED <<state, field>>
  BY <1>2 DEF ReturnValue, Touch
<1>4. /\ Built(stack, Pop(stack), Live, field) /\ Loose(Pop(stack)) /\ Len(stack) > 0
      /\ Top.kind \in ValueKind /\ BaseOf(Top) \in Obj \cup {None}
  BY <1>1, UseTop, UseOwn, SafeStack
<1>5. Drop(BaseOf(Top)) \in Cell /\ Drop(BaseOf(Top)).kind = "drop"
  BY <1>4 DEF Drop, MkCell, Cell
<1>6. SameFrames(stack, stack')
  <2>1. SameFrames(stack, Pop(stack))
    BY <1>4, SafeStack, FramesPop DEF Top, ValueKind
  <2> QED
    BY <1>3, <1>4, <1>5, <2>1, FramesPush DEF Built
<1>7. Built(stack, stack', Live, field)
  BY <1>3, <1>4, BuiltDrop
<1>8. \A o \in Obj : Incomplete(o) => rc'[o] = rc[o]
  BY <1>1, <1>3, CopyIncomplete
<1>9. Top.kind \notin {"drop", "free"}
  BY <1>4 DEF ValueKind
<1> QED
  BY <1>1, <1>3, <1>4, <1>6, <1>7, <1>8, <1>9, ReturnSafe

LEMMA StatementSafe ==
    ASSUME SafeInv, CountInv', Forms = {}, Statement
    PROVE  SafeInv'
  BY ExprStmtSafe, DeclareSafe, EnterSafe, AssignIntSafe, AssignVarSafe, AssignFieldSafe,
     LeaveSafe, ReturnValueSafe DEF Statement

-----------------------------------------------------------------------------
(* Destruction *)

LEMMA CleansPop ==
    ASSUME SafeInv, Len(stack) > 0, Top.kind \in {"var", "scope", "drop", "free"}
    PROVE  Cleans(stack, Pop(stack), Live, field)
<1>1. Built(stack, Pop(stack), Live, field) /\ Loose(Pop(stack))
  BY SafeStack, FirmPop DEF Built, Top, Entered
<1>2. SameFrames(stack, Pop(stack))
  BY SafeStack, FramesPop DEF Top
<1> QED
  BY <1>1, <1>2 DEF Cleans

LEMMA DropCell ==
    ASSUME NEW p \in Obj \cup {None}
    PROVE  Drop(p) \in Cell /\ Drop(p).kind = "drop" /\ Drop(p).own = p
  BY DEF Drop, MkCell, Cell

LEMMA CleansPush ==
    ASSUME NEW s, NEW t, NEW L, NEW f, Cleans(s, t, L, f), NEW c \in Cell,
           c.kind \in {"drop", "free"}
    PROVE  Cleans(s, Push(t, c), L, f)
<1>1. Suits(t, c) /\ c.kind \notin Borrowed
  BY DEF Cleans, Suits, Borrowed
<1>2. Built(s, Push(t, c), L, f) /\ Loose(Push(t, c))
  BY <1>1, BuiltPush DEF Cleans
<1>3. SameFrames(s, Push(t, c))
  BY FramesPush DEF Cleans, Built
<1> QED
  BY <1>2, <1>3 DEF Cleans

LEMMA CleansDrop ==
    ASSUME NEW s, NEW t, NEW L, NEW f, Cleans(s, t, L, f), NEW p \in Obj \cup {None}
    PROVE  Cleans(s, Push(t, Drop(p)), L, f)
<1> QED
  BY DropCell, CleansPush

\* Destruction that starts no new one.
LEMMA CleanStep ==
    ASSUME SafeInv, CountInv', Running, ret' = ret,
           mode' = mode \/ (mode = "leave" /\ mode' = "run"),
           Cleans(stack, stack', Live', field'), Dying', Acyclic',
           \A o \in Obj : Incomplete(o)' => Incomplete(o) /\ rc'[o] = rc[o]
    PROVE  SafeInv'
<1>1. Firm(stack', Live', field') /\ Grip(stack', Live', field')
  BY LooseGrip DEF Cleans, Built
<1>2. Building'
  BY DEF Building, SafeInv, Safe, Cleans, Built
<1>3. SameFrames(stack, stack')
  BY DEF Cleans
<1>4. (mode = "unwind" => Finished') /\ (~InProgram => ~InProgram')
  BY <1>3, FramesKept
<1>5. Finished' /\ Ended'
  BY <1>4 DEF Running, Finished, Ended, SafeInv, Safe
<1> QED
  BY <1>1, <1>2, <1>5 DEF SafeInv, Safe, Running

\* Below the top lies the cell that frees a dying object, unless the top does.
LEMMA FreesPop ==
    ASSUME SafeInv, Len(stack) > 0, NEW o \in Obj, state[o] = "dying",
           ~(Top.kind = "free" /\ Top.at = o)
    PROVE  \E i \in 1..Len(Pop(stack)) : Pop(stack)[i].kind = "free" /\ Pop(stack)[i].at = o
<1>1. PICK i \in 1..Len(stack) : stack[i].kind = "free" /\ stack[i].at = o
  BY DEF SafeInv, Safe, Dying
<1>2. /\ Len(stack) \in Nat /\ Len(Pop(stack)) = Len(stack) - 1
      /\ \A j \in 1..(Len(stack) - 1) : Pop(stack)[j] = stack[j]
  BY SafeStack, PopFacts
<1>3. i \in 1..(Len(stack) - 1)
  BY <1>1, <1>2 DEF Top
<1> QED
  BY <1>1, <1>2, <1>3

LEMMA SameAcyclic ==
    ASSUME SafeInv, field' = field, Live' \subseteq Live
    PROVE  Acyclic'
<1>1. \A S \in SUBSET Live : S # {} => \E o \in S : \A p \in S : field[p] # o
  BY DEF SafeInv, Safe, Acyclic
<1> QED
  BY <1>1 DEF Acyclic

\* Destruction that leaves the objects alone.
LEMMA SimpleClean ==
    ASSUME SafeInv, CountInv', Running, UNCHANGED <<rc, state, field, ret>>,
           mode' = mode \/ (mode = "leave" /\ mode' = "run"),
           Cleans(stack, stack', Live, field), Dying'
    PROVE  SafeInv'
<1>1. Live' = Live
  BY DEF Live
<1>2. Cleans(stack, stack', Live', field') /\ Acyclic'
  BY <1>1, SameAcyclic
<1>3. \A o \in Obj : Incomplete(o)' => Incomplete(o) /\ rc'[o] = rc[o]
  BY <1>1 DEF Incomplete
<1> QED
  BY <1>2, <1>3, CleanStep

LEMMA PopSafe ==
    ASSUME SafeInv, CountInv', PopVar \/ PopScope \/ DropNothing
    PROVE  SafeInv'
<1>1. /\ Len(stack) > 0 /\ Top.kind \in {"var", "scope", "drop"} /\ Running
      /\ UNCHANGED <<rc, state, field, ret>>
  BY DEF PopVar, PopScope, DropNothing, TopIs, Running
<1>2. Cleans(stack, Pop(stack), Live, field) /\ Top.own \in Obj \cup {None}
      /\ Top.at \in Obj \cup {None}
  BY <1>1, CleansPop, SafeStack, TopFacts DEF Cell
<1>3. CASE PopVar
  <2>1. stack' = Push(Push(Pop(stack), Drop(Top.at)), Drop(Top.own)) /\ mode' = mode
    BY <1>3 DEF PopVar
  <2>2. Cleans(stack, stack', Live, field)
    <3>1. Cleans(stack, Push(Pop(stack), Drop(Top.at)), Live, field)
      BY <1>2, CleansDrop
    <3> QED
      BY <1>2, <2>1, <3>1, CleansDrop
  <2>3. Dying'
    BY <1>1, <1>3, NoneDying DEF Dying, PopVar, TopIs
  <2> QED
    BY <1>1, <2>1, <2>2, <2>3, SimpleClean
<1>4. CASE PopScope
  <2>1. /\ stack' \in {Pop(stack), Push(Pop(stack), Drop(Top.own))}
        /\ mode' = mode \/ (mode = "leave" /\ mode' = "run")
    BY <1>4 DEF PopScope
  <2>2. Cleans(stack, stack', Live, field)
    BY <1>2, <2>1, CleansDrop
  <2>3. Dying'
    BY <1>1, <1>4, NoneDying DEF Dying, PopScope, TopIs
  <2> QED
    BY <1>1, <2>1, <2>2, <2>3, SimpleClean
<1>5. CASE DropNothing
  <2>1. stack' = Pop(stack) /\ mode' = mode /\ Top.kind = "drop"
    BY <1>5 DEF DropNothing, TopIs
  <2>2. Dying'
    BY <1>1, <2>1, FreesPop DEF Dying
  <2> QED
    BY <1>1, <1>2, <2>1, <2>2, SimpleClean
<1> QED
  BY <1>3, <1>4, <1>5

LEMMA DtorSafe ==
    ASSUME SafeInv, CountInv', Dtor
    PROVE  SafeInv'
<1> DEFINE d == Top.own
           n == Len(stack)
           s == Pop(stack)
<1>1. n > 0 /\ Top.kind = "drop" /\ d # None /\ Running
  BY DEF Dtor, TopIs
<1>2. /\ n \in Nat /\ n \in 1..n /\ stack[n].own = d /\ stack[n].kind = "drop" /\ d \in Obj
      /\ rc \in [Obj -> Nat] /\ state \in [Obj -> {"free", "live", "dying"}]
      /\ field \in [Obj -> Obj \cup {None}]
  BY <1>1, SafeStack, TopFacts DEF Cell, Top, TypeInv, TypeOK
<1>3. d \in Live
  BY <1>2, SafeStack, OwnedLive
<1>4. Cleans(stack, s, Live, field)
  BY <1>1, CleansPop
<1>5. CASE rc[d] - 1 # 0
  <2>1. /\ rc' = [rc EXCEPT ![d] = @ - 1] /\ stack' = s
        /\ UNCHANGED <<state, field, ret, mode>>
    BY <1>3, <1>5 DEF Dtor, Touch
  <2>2. Live' = Live
    BY <2>1 DEF Live
  <2>3. ASSUME NEW o \in Obj, Incomplete(o)'
        PROVE  Incomplete(o) /\ rc'[o] = rc[o]
    <3>1. Incomplete(o)
      BY <2>1, <2>2, <2>3 DEF Incomplete
    <3>2. rc[o] = 1
      BY <3>1 DEF SafeInv, Safe, Building
    <3>3. o # d
      BY <1>5, <3>2
    <3> QED
      BY <1>2, <2>1, <3>1, <3>3
  <2>4. Dying'
    BY <1>1, <2>1, FreesPop DEF Dying
  <2>5. Acyclic'
    BY <2>1, <2>2, SameAcyclic
  <2> QED
    BY <1>1, <1>4, <2>1, <2>2, <2>3, <2>4, <2>5, CleanStep
<1>6. CASE rc[d] - 1 = 0
  <2> DEFINE f == MkCell("free", None, d, 0)
             t == Push(s, f)
             q == field[d]
  <2>1. rc[d] = 1
    BY <1>2, <1>6
  <2>2. /\ \A j \in 1..n : stack[j].own = d => j = n
        /\ \A p \in Live : field[p] # d
    BY <1>2, <1>3, <2>1, SafeStack, SoleOwner
  <2>3. ~Incomplete(d)
    <3> SUFFICES ASSUME Incomplete(d) PROVE FALSE
      OBVIOUS
    <3>1. PICK i \in 1..n : stack[i].kind \in Entered /\ stack[i].own = d
      BY <1>2 DEF SafeInv, Safe, Building, Builds
    <3> QED
      BY <1>2, <2>2, <3>1 DEF Entered
  <2>4. /\ state' = [state EXCEPT ![d] = "dying"]
        /\ stack' = Push(t, Drop(q)) /\ UNCHANGED <<rc, field, ret, mode>>
    BY <1>3, <1>6, <2>3 DEF Dtor, Touch, Incomplete
  <2>5. Live' = Live \ {d}
    BY <1>2, <2>4 DEF Live
  <2>6. f \in Cell /\ f.kind = "free" /\ f.at = d /\ q \in Obj \cup {None}
    BY <1>2 DEF MkCell, Cell
  <2>7. /\ s \in Seq(Cell) /\ Len(s) = n - 1 /\ \A i \in 1..(n - 1) : s[i] = stack[i]
    BY <1>1, SafeStack, PopFacts
  <2> HIDE DEF f, q, s, d, n
  <2>8. Cleans(stack, s, Live', field')
    <3>1. Firm(s, Live, field) /\ Len(s) \in Nat
      BY <1>4, LenProperties DEF Cleans, Built
    <3>2. ASSUME NEW i \in 1..Len(s), s[i].own # None, NEW b, Reach(Live, field, s[i].own, b)
          PROVE  Reach(Live \ {d}, field, s[i].own, b)
      <4>1. s[i].own # d
        BY <1>2, <2>2, <2>7
      <4> QED
        BY <2>2, <3>2, <4>1, ReachDeath
    <3>3. Firm(s, Live \ {d}, field)
      BY <3>1, <3>2, FirmHeap
    <3> QED
      BY <1>4, <2>4, <2>5, <3>3 DEF Cleans, Built
  <2>9. Cleans(stack, t, Live', field')
    BY <2>6, <2>8, CleansPush
  <2>10. Cleans(stack, stack', Live', field')
    BY <2>4, <2>6, <2>9, CleansDrop
  <2>11. /\ Len(t) = Len(s) + 1 /\ t[Len(s) + 1] = f
         /\ \A i \in 1..Len(s) : t[i] = s[i]
         /\ t \in Seq(Cell) /\ Len(s) \in Nat
    BY <2>6, <2>7, PushFacts, LenProperties
  <2> HIDE DEF t
  <2>12. Len(stack') = Len(t) + 1 /\ \A i \in 1..Len(t) : stack'[i] = t[i]
    BY <2>4, <2>6, <2>11, DropCell, PushFacts
  <2>13. Dying'
    <3> SUFFICES ASSUME NEW o \in Obj, state'[o] = "dying"
                 PROVE  \E i \in 1..Len(stack') : stack'[i].kind = "free" /\ stack'[i].at = o
      BY DEF Dying
    <3>1. CASE o = d
      <4>1. Len(s) + 1 \in 1..Len(stack') /\ stack'[Len(s) + 1] = f
        BY <2>11, <2>12
      <4> QED
        BY <2>6, <3>1, <4>1
    <3>2. CASE o # d
      <4>1. state[o] = "dying"
        BY <1>2, <2>4, <3>2
      <4>2. PICK i \in 1..Len(s) : s[i].kind = "free" /\ s[i].at = o
        BY <1>1, <4>1, FreesPop DEF s, n
      <4>3. i \in 1..Len(stack') /\ stack'[i] = s[i]
        BY <2>11, <2>12
      <4> QED
        BY <4>2, <4>3
    <3> QED
      BY <3>1, <3>2
  <2>14. Acyclic'
    BY <2>4, <2>5, SameAcyclic
  <2>15. \A o \in Obj : Incomplete(o)' => Incomplete(o) /\ rc'[o] = rc[o]
    BY <2>4, <2>5 DEF Incomplete
  <2> QED
    BY <1>1, <2>4, <2>10, <2>13, <2>14, <2>15, CleanStep
<1> QED
  BY <1>5, <1>6

LEMMA FreeSafe ==
    ASSUME SafeInv, CountInv', Free
    PROVE  SafeInv'
<1>1. /\ Len(stack) > 0 /\ Top.kind = "free" /\ stack' = Pop(stack) /\ Running
      /\ state' = [state EXCEPT ![Top.at] = "free"] /\ UNCHANGED <<rc, field, ret, mode>>
  BY DEF Free, TopIs
<1>2. /\ Top.at \notin Live /\ state \in [Obj -> {"free", "live", "dying"}]
  BY <1>1, SafeStack, CleanFacts DEF Tidy, TypeInv, TypeOK
<1>3. Live' = Live
  BY <1>1, <1>2 DEF Live
<1>4. Dying'
  <2> SUFFICES ASSUME NEW o \in Obj, state'[o] = "dying"
               PROVE  \E i \in 1..Len(stack') : stack'[i].kind = "free" /\ stack'[i].at = o
    BY DEF Dying
  <2>1. state[o] = "dying" /\ o # Top.at
    BY <1>1, <1>2
  <2> QED
    BY <1>1, <2>1, FreesPop
<1>5. Cleans(stack, stack', Live', field') /\ Acyclic'
  BY <1>1, <1>3, CleansPop, SameAcyclic
<1>6. \A o \in Obj : Incomplete(o)' => Incomplete(o) /\ rc'[o] = rc[o]
  BY <1>1, <1>3 DEF Incomplete
<1> QED
  BY <1>1, <1>4, <1>5, <1>6, CleanStep

LEMMA DestructionSafe ==
    ASSUME SafeInv, CountInv', Destruction
    PROVE  SafeInv'
  BY PopSafe, DtorSafe, FreeSafe DEF Destruction

-----------------------------------------------------------------------------
(* The program's own steps *)

LEMMA CallMainSafe ==
    ASSUME SafeInv, CountInv', CallMain
    PROVE  SafeInv'
<1> DEFINE c == MkCell("frame", None, None, 1)
<1>1. /\ mode = "run" /\ InProgram /\ Len(stack) > 0 /\ Top.kind \in {"frame", "var"}
      /\ stack' = Push(stack, c) /\ UNCHANGED <<rc, state, field, ret, mode>>
  BY DEF CallMain, TopIs
<1>2. c \in Cell /\ c.kind = "frame" /\ c.at = None
  BY DEF MkCell, Cell, ExprPlace, StmtPlace
<1> HIDE DEF c
<1>3. \A j \in 2..Len(stack) : stack[j].kind # "frame"
  BY <1>1, SafeStack, LenProperties DEF InProgram
<1>4. Suits(stack, c) /\ c.kind \notin Borrowed
  BY <1>2, <1>3 DEF Suits, Entered, Borrowed
<1>5. Built(stack, stack', Live, field) /\ Loose(stack')
  BY <1>1, <1>4, SafeStack, BuiltPush
<1> QED
  BY <1>1, <1>5, LooseGrip, RunStep

LEMMA EndMainSafe ==
    ASSUME SafeInv, CountInv', EndMain
    PROVE  SafeInv'
<1> DEFINE n == Len(stack)
<1>1. /\ mode = "unwind" /\ n > 0 /\ Top.kind = "frame" /\ Top.idx = 1
      /\ stack' = Pop(stack) /\ UNCHANGED <<rc, state, field, ret, mode>>
  BY DEF EndMain, TopIs
<1>2. /\ n \in Nat /\ n \in 1..n /\ Top = stack[n] /\ stack[1].own = None
      /\ Top.own = None
  BY <1>1, SafeStack, TopFacts, CleanFacts DEF Top, Base, MkCell, Tidy
<1>3. /\ Firm(stack', Live, field) /\ Len(stack') = n - 1
      /\ \A i \in 1..(n - 1) : stack'[i] = stack[i]
  BY <1>1, SafeStack, FirmPop, PopFacts
<1> HIDE DEF n
<1>4. Finished'
  <2>1. \A j \in 2..(n - 1) : stack[j].kind # "frame"
    BY <1>1, <1>2, SafeCell DEF First, n
  <2>2. \A i \in 1..Len(stack') : stack'[i].kind = "frame" => stack'[i].own = None
    BY <1>2, <1>3, <2>1
  <2> QED
    BY <2>2 DEF Finished
<1>5. Ended'
  <2>1. ret = None
    <3> SUFFICES ASSUME ret # None PROVE FALSE
      OBVIOUS
    <3>1. PICK i \in 1..n :
             /\ stack[i].idx # 1
             /\ \A j \in (i + 1)..n : stack[j].kind # "frame"
      BY <1>1, SafeStack DEF CountInv, Moded, Unwinds, n
    <3> QED
      BY <1>1, <1>2, <3>1
  <2> QED
    BY <1>1, <2>1 DEF Ended
<1>6. ASSUME NEW o \in Obj, Incomplete(o)
      PROVE  rc'[o] = 1 /\ Builds(stack', o)
  <2>1. rc[o] = 1 /\ Builds(stack, o)
    BY <1>6 DEF SafeInv, Safe, Building
  <2>2. PICK i \in 1..n : stack[i].kind \in Entered /\ stack[i].own = o
    BY <2>1 DEF Builds, n
  <2>3. i \in 1..(n - 1)
    BY <1>2, <2>2, NoneAssumption
  <2>4. i \in 1..Len(stack') /\ stack'[i] = stack[i]
    BY <1>3, <2>3
  <2> QED
    BY <1>1, <2>1, <2>2, <2>4 DEF Builds
<1>7. Dying'
  BY <1>1, NoneDying DEF Dying, n
<1> QED
  BY <1>1, <1>3, <1>4, <1>5, <1>6, <1>7, StackSafe

LEMMA ExitSafe ==
    ASSUME SafeInv, CountInv', Exit
    PROVE  SafeInv'
<1>1. /\ mode = "unwind" /\ Top.kind = "frame" /\ Len(stack) = 1
      /\ stack' = <<>> /\ mode' = "done" /\ UNCHANGED <<rc, state, field, ret>>
  BY DEF Exit, TopIs
<1>2. stack[1].own = None
  BY <1>1, SafeStack, TopFacts DEF Base, MkCell
<1>3. ret = None
  BY <1>1, SafeStack, LenProperties DEF SafeInv, Safe, Ended, InProgram
<1>4. \A o \in Obj : ~Incomplete(o)
  BY <1>1, <1>2, NoneAssumption DEF SafeInv, Safe, Building, Builds
<1>5. Firm(stack', Live, field)
  BY <1>1 DEF Firm
<1>6. Dying' /\ Finished' /\ Ended'
  BY <1>1, <1>3, NoneDying DEF Dying, Finished, Ended
<1> QED
  BY <1>1, <1>4, <1>5, <1>6, StackSafe

LEMMA ProgramSafe ==
    ASSUME SafeInv, CountInv', Program
    PROVE  SafeInv'
<1>1. CASE OutOfMemory
  <2>1. /\ mode = "run" /\ mode' = "oom" /\ UNCHANGED <<stack, rc, state, field, ret>>
        /\ Len(stack) > 0 /\ Top.kind \in ExprPlace \cup ValueKind
    BY <1>1 DEF OutOfMemory, TopIs
  <2>2. Top.kind \notin {"drop", "free"} /\ Built(stack, stack', Live, field)
    BY <2>1, SafeStack DEF ExprPlace, StmtPlace, ValueKind
  <2>3. Grip(stack', Live, field)
    BY <2>1 DEF SafeInv, Safe
  <2> QED
    BY <2>1, <2>2, <2>3, RunStep
<1> QED
  BY <1>1, CallMainSafe, EndMainSafe, ExitSafe DEF Program

-----------------------------------------------------------------------------
(* The machine's promises *)

LEMMA SafeStep == SafeInv /\ Forms = {} /\ [Next]_vars => SafeInv'
<1> SUFFICES ASSUME SafeInv, Forms = {}, [Next]_vars PROVE SafeInv'
  OBVIOUS
<1>1. CountInv'
  BY CountStep DEF SafeInv
<1>2. CASE UNCHANGED vars
  <2>1. Live' = Live
    BY <1>2 DEF vars, Live
  <2>2. /\ (\A o \in Obj : Incomplete(o)' <=> Incomplete(o))
        /\ InProgram' <=> InProgram
    BY <1>2, <2>1 DEF vars, Incomplete, InProgram
  <2>3. Firm(stack', Live', field') /\ Building' /\ Dying' /\ Acyclic' /\ Ended'
    BY <1>2, <2>1, <2>2 DEF vars, SafeInv, Safe, Building, Dying, Acyclic, Ended
  <2>4. Finished'
    BY <1>2, <2>1 DEF vars, SafeInv, Safe, Finished, Incomplete
  <2>5. mode' # "fault" /\ (mode' = "run" => Grip(stack', Live', field'))
    BY <1>2, <2>1 DEF vars, SafeInv, Safe
  <2> QED
    BY <1>1, <2>3, <2>4, <2>5 DEF SafeInv, Safe
<1> QED
  BY <1>1, <1>2, ExpressionSafe, CallSafe, StatementSafe, DestructionSafe, ProgramSafe
     DEF Next, Stopped

LEMMA SafeInit == Init => SafeInv
<1> SUFFICES ASSUME Init PROVE SafeInv
  OBVIOUS
<1>1. /\ stack = <<Base>> /\ Base.kind = "frame" /\ Base.own = None /\ Base.at = None
      /\ Base.idx = 0 /\ mode = "run" /\ ret = None /\ \A o \in Obj : state[o] = "free"
  BY DEF Init, Base, MkCell
<1> HIDE DEF Base
<1>2. Len(stack) = 1 /\ stack[1] = Base /\ Live = {}
  BY <1>1 DEF Live
<1>3. Firm(stack, Live, field)
  BY <1>1, <1>2 DEF Firm, Based, Covers, First, Anchored, InBody
<1>4. Grip(stack, Live, field)
  BY <1>1, <1>2 DEF Grip
<1>5. Building /\ Finished /\ Dying /\ Acyclic /\ Ended
  BY <1>1, <1>2 DEF Building, Incomplete, Finished, Dying, Acyclic, Ended
<1> QED
  BY <1>1, <1>3, <1>4, <1>5, CountInit DEF SafeInv, Safe

LEMMA AlwaysSafe == Forms = {} => (Spec => []SafeInv)
<1> SUFFICES ASSUME Forms = {} PROVE Spec => []SafeInv
  OBVIOUS
<1>1. Init => SafeInv
  BY SafeInit
<1>2. SafeInv /\ [Next]_vars => SafeInv'
  BY SafeStep
<1> QED
  BY <1>1, <1>2, PTL DEF Spec

\* No load, store, increment or destructor call that the visitors emit touches an
\* object that was destroyed or a field that was never set, in any program that
\* uses none of the unsafe forms: NoUseAfterFree.
THEOREM NothingFreedIsUsed == Forms = {} => (Spec => []NoUseAfterFree)
<1>1. SafeInv => NoUseAfterFree
  BY DEF SafeInv, Safe, NoUseAfterFree
<1> QED
  BY <1>1, AlwaysSafe, PTL

\* The receiver of every running method, which visitMethodCall loads but does not
\* count, and the object of every running constructor are alive: SelfAlive.
THEOREM ReceiversOutlive == Forms = {} => (Spec => []SelfAlive)
<1>1. SafeInv => SelfAlive
  BY FrameAlive, SafeStack, LenProperties DEF SelfAlive, Entered
<1> QED
  BY <1>1, AlwaysSafe, PTL

\* Once the program has ended no cell holds a reference and no field chain of live
\* objects closes, so nothing is left that a count could still keep: NoLeak.
THEOREM NothingLeaks == Forms = {} => (Spec => []NoLeak)
<1>1. ASSUME SafeInv, mode = "done", NEW o \in Obj, state[o] # "free"
      PROVE  FALSE
  <2>1. stack = <<>> /\ ret = None
    BY <1>1 DEF SafeInv, Safe, Ended
  <2>2. Len(stack) = 0
    BY <2>1
  <2>3. o \in Live
    BY <1>1, <2>2 DEF SafeInv, Safe, Dying, CountInv, TypeInv, TypeOK, Live
  <2>4. PICK p \in Live : \A q \in Live : field[q] # p
    BY <1>1, <2>3 DEF SafeInv, Safe, Acyclic
  <2>5. p \in Obj /\ p # None
    BY NoneAssumption DEF Live
  <2>6. Owners(p) = 0
    <3>1. CellsOf(p) = {}
      BY <1>1, <2>2, SafeStack, LenProperties DEF CellsOf
    <3>2. FieldsOf(p) = {}
      BY <2>4 DEF FieldsOf
    <3> QED
      BY <2>1, <2>5, <3>1, <3>2, FS_EmptySet DEF Owners
  <2>7. rc[p] >= 1 /\ rc[p] = 0 /\ rc[p] \in Nat
    BY <1>1, <2>4, <2>5, <2>6
       DEF SafeInv, CountInv, TypeInv, TypeOK, Counted, CountExact
  <2> QED
    BY <2>7
<1>2. SafeInv => NoLeak
  BY <1>1 DEF NoLeak
<1> QED
  BY <1>2, AlwaysSafe, PTL
=============================================================================
