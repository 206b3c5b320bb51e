--------------------------- MODULE RefCountCounts ---------------------------
(***************************************************************************)
(* The stored counts are exact: proofs for any heap, any classes and any   *)
(* stack bound, for programs that use none of the unsafe source forms.     *)
(*                                                                         *)
(* Every step is classified by what it does to the owners of objects: it   *)
(* moves references around (Quiet), or makes one (Makes), duplicates one   *)
(* (Shares) or ends one (Ends).  Exactness of the counts, what destroys an *)
(* object and the refinement of Ownership all follow from the class.       *)
(***************************************************************************)
EXTENDS RefCountProofs

-----------------------------------------------------------------------------
(* How many cells of a stack hold a reference to an object *)

Is(p, o) == IF p = o THEN 1 ELSE 0

Held(s, o) == Cardinality({i \in DOMAIN s : s[i].own = o})

LEMMA HeldSplit ==
    ASSUME NEW s \in Seq(Cell), NEW k \in 1..Len(s), NEW o
    PROVE  /\ Cardinality({i \in 1..Len(s) : i # k /\ s[i].own = o}) \in Nat
           /\ Held(s, o) = Cardinality({i \in 1..Len(s) : i # k /\ s[i].own = o})
                           + Is(s[k].own, o)
<1> DEFINE R == {i \in 1..Len(s) : i # k /\ s[i].own = o}
           S == {i \in DOMAIN s : s[i].own = o}
<1>1. DOMAIN s = 1..Len(s) /\ Len(s) \in Nat
  BY LenProperties
<1>2. IsFiniteSet(1..Len(s))
  BY <1>1, FS_Interval
<1>3. IsFiniteSet(R)
  BY <1>2, FS_Subset
<1>4. Cardinality(R) \in Nat
  BY <1>3, FS_CardinalityType
<1>5. CASE s[k].own = o
  <2>1. S = R \cup {k} /\ k \notin R
    BY <1>1, <1>5
  <2>2. Cardinality(S) = Cardinality(R) + 1
    BY <1>3, <2>1, FS_AddElement
  <2> QED
    BY <1>4, <1>5, <2>2 DEF Held, Is
<1>6. CASE s[k].own # o
  <2>1. S = R
    BY <1>1, <1>6
  <2>2. Cardinality(S) = Cardinality(R)
    BY <2>1, Zenon
  <2>3. Held(s, o) = Cardinality(R)
    BY <2>2, Zenon DEF Held
  <2> QED
    BY <1>4, <1>6, <2>3 DEF Is
<1> QED
  BY <1>4, <1>5, <1>6

LEMMA HeldType ==
    ASSUME NEW s \in Seq(Cell), NEW o
    PROVE  Held(s, o) \in Nat
<1>1. DOMAIN s = 1..Len(s) /\ Len(s) \in Nat
  BY LenProperties
<1>2. IsFiniteSet(1..Len(s))
  BY <1>1, FS_Interval
<1>3. IsFiniteSet({i \in DOMAIN s : s[i].own = o})
  BY <1>1, <1>2, FS_Subset
<1> QED
  BY <1>3, FS_CardinalityType DEF Held

\* t is s with one more cell on top.
LEMMA HeldExtend ==
    ASSUME NEW s \in Seq(Cell), NEW t \in Seq(Cell), NEW o,
           Len(t) = Len(s) + 1, \A i \in 1..Len(s) : t[i] = s[i]
    PROVE  Held(t, o) = Held(s, o) + Is(t[Len(t)].own, o)
<1> DEFINE R == {i \in 1..Len(t) : i # Len(t) /\ t[i].own = o}
<1>1. DOMAIN s = 1..Len(s) /\ Len(s) \in Nat /\ Len(t) \in 1..Len(t)
  BY LenProperties
<1>2. R = {i \in DOMAIN s : s[i].own = o}
  BY <1>1
<1>3. Held(t, o) = Cardinality(R) + Is(t[Len(t)].own, o)
  BY <1>1, HeldSplit
<1> QED
  BY <1>2, <1>3 DEF Held

LEMMA HeldPush ==
    ASSUME NEW s \in Seq(Cell), NEW c \in Cell, NEW o
    PROVE  Held(Push(s, c), o) = Held(s, o) + Is(c.own, o)
<1> DEFINE t == Push(s, c)
<1>1. /\ t \in Seq(Cell) /\ Len(t) = Len(s) + 1
      /\ \A i \in 1..Len(s) : t[i] = s[i]
      /\ t[Len(t)] = c
  BY PushFacts
<1> HIDE DEF t
<1>2. Held(t, o) = Held(s, o) + Is(c.own, o)
  BY <1>1, HeldExtend
<1> QED
  BY <1>2 DEF t

LEMMA HeldPop ==
    ASSUME NEW s \in Seq(Cell), Len(s) > 0, NEW o
    PROVE  Held(s, o) = Held(Pop(s), o) + Is(s[Len(s)].own, o)
<1> DEFINE p == Pop(s)
<1>1. /\ p \in Seq(Cell) /\ Len(s) = Len(p) + 1 /\ Len(s) \in Nat
      /\ \A i \in 1..Len(p) : s[i] = p[i]
  BY PopFacts, LenProperties
<1> HIDE DEF p
<1>2. Held(s, o) = Held(p, o) + Is(s[Len(s)].own, o)
  BY <1>1, HeldExtend
<1> QED
  BY <1>2 DEF p

\* The cells of two stacks own the same objects, place by place.
LEMMA HeldSame ==
    ASSUME NEW s \in Seq(Cell), NEW t \in Seq(Cell), NEW o,
           Len(t) = Len(s), \A i \in 1..Len(s) : t[i].own = s[i].own
    PROVE  Held(t, o) = Held(s, o)
<1>1. DOMAIN s = 1..Len(s) /\ DOMAIN t = 1..Len(s)
  BY LenProperties
<1>2. {i \in DOMAIN t : t[i].own = o} = {i \in DOMAIN s : s[i].own = o}
  BY <1>1
<1> QED
  BY <1>2 DEF Held

\* One cell of t owns something else than in s.
LEMMA HeldUpdate ==
    ASSUME NEW s \in Seq(Cell), NEW t \in Seq(Cell), NEW o, NEW k \in 1..Len(s),
           Len(t) = Len(s), \A i \in 1..Len(s) : i # k => t[i] = s[i]
    PROVE  Held(t, o) = Held(s, o) - Is(s[k].own, o) + Is(t[k].own, o)
<1> DEFINE R == {i \in 1..Len(s) : i # k /\ s[i].own = o}
           Q == {i \in 1..Len(t) : i # k /\ t[i].own = o}
<1>1. R = Q
  OBVIOUS
<1>2. Cardinality(R) \in Nat /\ Held(s, o) = Cardinality(R) + Is(s[k].own, o)
  BY HeldSplit
<1>3. Held(t, o) = Cardinality(Q) + Is(t[k].own, o)
  BY HeldSplit
<1> HIDE DEF R, Q
<1> QED
  BY <1>1, <1>2, <1>3 DEF Is

-----------------------------------------------------------------------------
(* The strengthening *)

\* A value that destroyValue can take at any later time: it owns what it ends.
Released(v) == v.kind # "self" /\ (v.kind = "field" => v.own # None)

\* An argument in flight and a variable keep no Value for later; main builds no
\* object; what is being freed is not alive (in L).
Tidy(c, L) ==
    /\ c.kind \in {"arg", "var"} => c.at = None
    /\ c.kind = "frame" /\ c.idx = 1 => c.own = None
    /\ c.kind = "free" => c.own = None /\ c.at \notin L

\* A receiver that waits for its method is one that the caller may destroy.
Waits(s, i) == s[i].kind \in ValueKind =>
                   s[i + 1].kind \in {"drop", "free"} \/ Released(s[i])

Neat(s, L) ==
    /\ s \in Seq(Cell)
    /\ \A i \in 1..Len(s) : Tidy(s[i], L)
    /\ \A i \in 1..(Len(s) - 1) : Waits(s, i)

\* Any cell may be pushed on s.
Settled(s) == Len(s) > 0 /\ s[Len(s)].kind \in ValueKind => Released(s[Len(s)])

LEMMA NeatPush ==
    ASSUME NEW s, NEW L, NEW c \in Cell, Neat(s, L), Tidy(c, L),
           c.kind \in {"drop", "free"} \/ Settled(s)
    PROVE  /\ Neat(Push(s, c), L)
           /\ c.kind \notin ValueKind => Settled(Push(s, c))
           /\ \A o : Held(Push(s, c), o) = Held(s, o) + Is(c.own, o)
<1> DEFINE t == Push(s, c)
<1>1. s \in Seq(Cell) /\ Len(s) \in Nat
  BY LenProperties DEF Neat
<1>2. /\ t \in Seq(Cell) /\ Len(t) = Len(s) + 1
      /\ \A i \in 1..Len(s) : t[i] = s[i]
      /\ t[Len(s) + 1] = c
  BY <1>1, PushFacts
<1>3. \A o : Held(Push(s, c), o) = Held(s, o) + Is(c.own, o)
  BY <1>1, HeldPush
<1> HIDE DEF t
<1>4. \A i \in 1..Len(t) : Tidy(t[i], L)
  BY <1>1, <1>2 DEF Neat
<1>5. ASSUME NEW i \in 1..(Len(t) - 1)
      PROVE  Waits(t, i)
  <2>1. CASE i < Len(s)
    <3>1. i \in 1..(Len(s) - 1) /\ i \in 1..Len(s) /\ i + 1 \in 1..Len(s)
      BY <1>1, <1>2, <2>1
    <3>2. Waits(s, i) /\ t[i] = s[i] /\ t[i + 1] = s[i + 1]
      BY <1>2, <3>1 DEF Neat
    <3> QED
      BY <3>2 DEF Waits
  <2>2. CASE i = Len(s)
    <3>1. t[i] = s[Len(s)] /\ t[i + 1] = c /\ Len(s) > 0
      BY <1>1, <1>2, <2>2
    <3> QED
      BY <3>1 DEF Waits, Settled
  <2> QED
    BY <1>1, <1>2, <2>1, <2>2
<1>6. Neat(t, L)
  BY <1>2, <1>4, <1>5 DEF Neat
<1>7. c.kind \notin ValueKind => Settled(t)
  BY <1>2 DEF Settled
<1> QED
  BY <1>3, <1>6, <1>7 DEF t

LEMMA NeatPop ==
    ASSUME NEW s, NEW L, Neat(s, L), Len(s) > 0
    PROVE  /\ Neat(Pop(s), L)
           /\ s[Len(s)].kind \notin {"drop", "free"} => Settled(Pop(s))
           /\ \A o : Held(Pop(s), o) = Held(s, o) - Is(s[Len(s)].own, o)
<1> DEFINE p == Pop(s)
<1>1. s \in Seq(Cell) /\ Len(s) \in Nat
  BY LenProperties DEF Neat
<1>2. /\ p \in Seq(Cell) /\ Len(p) = Len(s) - 1
      /\ \A i \in 1..Len(p) : p[i] = s[i]
  BY <1>1, PopFacts
<1>3. ASSUME NEW o
      PROVE  Held(p, o) = Held(s, o) - Is(s[Len(s)].own, o)
  <2>1. Held(s, o) = Held(p, o) + Is(s[Len(s)].own, o)
    BY <1>1, HeldPop
  <2>2. Held(p, o) \in Nat /\ Is(s[Len(s)].own, o) \in Nat
    BY <1>2, HeldType DEF Is
  <2> QED
    BY <2>1, <2>2
<1> HIDE DEF p
<1>4. \A i \in 1..Len(p) : Tidy(p[i], L)
  BY <1>1, <1>2 DEF Neat
<1>5. \A i \in 1..(Len(p) - 1) : Waits(p, i)
  BY <1>1, <1>2 DEF Neat, Waits
<1>6. s[Len(s)].kind \notin {"drop", "free"} => Settled(p)
  <2> SUFFICES ASSUME s[Len(s)].kind \notin {"drop", "free"}, Len(p) > 0 PROVE Settled(p)
    BY DEF Settled
  <2>1. Len(p) \in 1..(Len(s) - 1) /\ Len(p) + 1 = Len(s) /\ p[Len(p)] = s[Len(p)]
    BY <1>1, <1>2
  <2>2. Waits(s, Len(p))
    BY <2>1 DEF Neat
  <2> QED
    BY <2>1, <2>2 DEF Waits, Settled
<1> QED
  BY <1>2, <1>3, <1>4, <1>5, <1>6 DEF Neat, p

LEMMA NeatDrop ==
    ASSUME NEW s, NEW L, NEW p \in Obj \cup {None}, Neat(s, L)
    PROVE  /\ Neat(Push(s, Drop(p)), L)
           /\ \A o : Held(Push(s, Drop(p)), o) = Held(s, o) + Is(p, o)
<1>1. Drop(p) \in Cell /\ Drop(p).kind = "drop" /\ Drop(p).own = p
  BY CellFacts, NoneAssumption DEF Drop
<1>2. Tidy(Drop(p), L)
  BY <1>1 DEF Tidy
<1> QED
  BY <1>1, <1>2, NeatPush

\* What a return in progress relies on: the references it drops with the scopes
\* it leaves are none, and no constructor carries a value out.
Unwinds(s, r) ==
    /\ \A i \in 1..Len(s) : s[i].kind = "scope" /\ s[i].own # None =>
           \E j \in (i + 1)..Len(s) : s[j].kind = "frame"
    /\ r # None => \E i \in 1..Len(s) :
           /\ s[i].kind = "frame" /\ s[i].own = None /\ s[i].idx # 1
           /\ \A j \in (i + 1)..Len(s) : s[j].kind # "frame"

Moded == /\ mode \in {"run", "leave"} => ret = None
         /\ mode = "unwind" => Unwinds(stack, ret)

CountInv == TypeInv /\ Neat(stack, Live) /\ Moded /\ CountExact

-----------------------------------------------------------------------------
(* What a step does to the owners of objects *)

Quiet == /\ Live' = Live /\ rc' = rc
         /\ \A o \in Obj : Owners(o)' = Owners(o)

Shares(l) == /\ l \in Live /\ Live' = Live
             /\ rc' = [rc EXCEPT ![l] = @ + 1]
             /\ \A o \in Obj : Owners(o)' = Owners(o) + Is(l, o)

Makes(n) == /\ n \notin Live /\ Live' = Live \cup {n}
            /\ rc' = [rc EXCEPT ![n] = 1]
            /\ \A o \in Obj : Owners(o)' = Owners(o) + Is(n, o)

Ends(d) == /\ d \in Live /\ Top.own = d
           /\ \/ rc[d] = 1 /\ Live' = Live \ {d} /\ rc' = rc
              \/ rc[d] # 1 /\ Live' = Live /\ rc' = [rc EXCEPT ![d] = @ - 1]
           /\ \A o \in Obj : Owners(o)' = Owners(o) - Is(d, o)

Effect == Quiet \/ \E o \in Obj : Shares(o) \/ Makes(o) \/ Ends(o)

\* What has to be shown of every step.
Kept == Neat(stack', Live') /\ Moded' /\ Effect

LEMMA OwnersSum ==
    ASSUME TypeInv, NEW o \in Obj
    PROVE  /\ IsFiniteSet(FieldsOf(o))
           /\ Held(stack, o) \in Nat /\ Cardinality(FieldsOf(o)) \in Nat
           /\ Owners(o) = Held(stack, o) + Cardinality(FieldsOf(o)) + Is(ret, o)
           /\ Owners(o) \in Nat
<1>1. Held(stack, o) \in Nat
  BY HeldType DEF TypeInv, TypeOK
<1>2. IsFiniteSet(Live)
  BY ObjAssumption, FS_Subset DEF Live
<1>3. IsFiniteSet(FieldsOf(o))
  BY <1>2, FS_Subset DEF FieldsOf
<1>4. Cardinality(FieldsOf(o)) \in Nat
  BY <1>3, FS_CardinalityType
<1>5. Owners(o) = Held(stack, o) + Cardinality(FieldsOf(o)) + Is(ret, o)
  BY DEF Owners, CellsOf, Held, Is
<1> QED
  BY <1>1, <1>3, <1>4, <1>5 DEF Is

\* A step on the stack alone changes the owners as it changes the cells and
\* the value being returned.
LEMMA StackOwners ==
    ASSUME TypeInv, UNCHANGED <<state, field>>, NEW o \in Obj
    PROVE  /\ Live' = Live
           /\ Owners(o)' = Held(stack', o) + Cardinality(FieldsOf(o)) + Is(ret', o)
<1>1. Live' = Live
  BY DEF Live
<1>2. FieldsOf(o)' = FieldsOf(o)
  BY <1>1 DEF FieldsOf
<1>3. Owners(o)' = Held(stack', o) + Cardinality(FieldsOf(o)') + Is(ret', o)
  BY DEF Owners, CellsOf, Held, Is
<1> QED
  BY <1>1, <1>2, <1>3

LEMMA MovesQuietly ==
    ASSUME TypeInv, UNCHANGED <<rc, state, field>>,
           \A o \in Obj : Held(stack', o) + Is(ret', o) = Held(stack, o) + Is(ret, o),
           \A o \in Obj : Held(stack', o) \in Nat
    PROVE  Quiet
<1>1. Live' = Live
  BY DEF Live
<1>2. ASSUME NEW o \in Obj
      PROVE  Owners(o)' = Owners(o)
  <2>1. Owners(o) = Held(stack, o) + Cardinality(FieldsOf(o)) + Is(ret, o)
        /\ Held(stack, o) \in Nat /\ Cardinality(FieldsOf(o)) \in Nat
    BY OwnersSum
  <2>2. Owners(o)' = Held(stack', o) + Cardinality(FieldsOf(o)) + Is(ret', o)
    BY StackOwners
  <2>3. Is(ret', o) \in Nat /\ Is(ret, o) \in Nat
    BY DEF Is
  <2> QED
    BY <2>1, <2>2, <2>3
<1> QED
  BY <1>1, <1>2 DEF Quiet

LEMMA SharesOne ==
    ASSUME TypeInv, UNCHANGED <<state, field>>, NEW l \in Live,
           rc' = [rc EXCEPT ![l] = @ + 1],
           \A o \in Obj : Held(stack', o) + Is(ret', o)
                           = Held(stack, o) + Is(ret, o) + Is(l, o),
           \A o \in Obj : Held(stack', o) \in Nat
    PROVE  Shares(l)
<1>1. Live' = Live
  BY DEF Live
<1>2. ASSUME NEW o \in Obj
      PROVE  Owners(o)' = Owners(o) + Is(l, o)
  <2>1. Owners(o) = Held(stack, o) + Cardinality(FieldsOf(o)) + Is(ret, o)
        /\ Held(stack, o) \in Nat /\ Cardinality(FieldsOf(o)) \in Nat
    BY OwnersSum
  <2>2. Owners(o)' = Held(stack', o) + Cardinality(FieldsOf(o)) + Is(ret', o)
    BY StackOwners
  <2>3. Is(ret', o) \in Nat /\ Is(ret, o) \in Nat /\ Is(l, o) \in Nat
    BY DEF Is
  <2> QED
    BY <2>1, <2>2, <2>3
<1> QED
  BY <1>1, <1>2 DEF Shares

\* copyValue: an object read from a variable or a field gains an owner, what a
\* temporary owned goes to its new place.
LEMMA CopyEffect ==
    ASSUME TypeInv, Forms = {}, HasValue, SafeCopy(Top), CopyTouches(Top) \subseteq Live,
           rc' = Copied(Top), UNCHANGED <<state, field>>,
           \A o \in Obj : Held(stack', o) + Is(ret', o)
                           = Held(stack, o) + Is(ret, o) - Is(Top.own, o)
                             + Is(Loaded(Top), o) + Is(BaseOf(Top), o),
           \A o \in Obj : Held(stack', o) \in Nat
    PROVE  Effect
<1>1. /\ Top.kind \in ValueKind /\ Top.kind # "self" /\ Len(stack) > 0
      /\ Shape(stack, Len(stack))
  BY TopFacts DEF HasValue, TopIs, SafeCopy
<1>2. \A o \in Obj : Is(None, o) = 0
  BY NoneAssumption DEF Is
<1>3. \A o \in Obj : Held(stack, o) \in Nat
  BY HeldType DEF TypeInv, TypeOK
<1>4. \A o \in Obj : \A p : Is(p, o) \in {0, 1}
  BY DEF Is
<1>5. CASE Top.kind \in {"expr", "int"}
  <2>1. rc' = rc
    BY <1>5 DEF Copied
  <2>2. \/ Loaded(Top) = Top.own /\ BaseOf(Top) = None
        \/ Loaded(Top) = None /\ BaseOf(Top) = Top.own
    BY <1>5 DEF Loaded, BaseOf
  <2>3. \A o \in Obj : Held(stack', o) + Is(ret', o) = Held(stack, o) + Is(ret, o)
    BY <1>2, <1>3, <1>4, <2>2
  <2> QED
    BY <2>1, <2>3, MovesQuietly DEF Effect
<1>6. CASE Top.kind \in {"ident", "field"}
  <2>1. /\ rc' = [rc EXCEPT ![Loaded(Top)] = @ + 1]
        /\ Loaded(Top) \in Live
    BY <1>6 DEF Copied, CopyTouches
  <2>2. Top.own = BaseOf(Top)
    BY <1>1, <1>6 DEF BaseOf, Shape, Top
  <2>3. \A o \in Obj : Held(stack', o) + Is(ret', o)
                        = Held(stack, o) + Is(ret, o) + Is(Loaded(Top), o)
    BY <1>3, <1>4, <2>2
  <2>4. Shares(Loaded(Top))
    BY <2>1, <2>3, SharesOne
  <2>5. Loaded(Top) \in Obj
    BY <2>1 DEF Live
  <2> QED
    BY <2>4, <2>5 DEF Effect
<1> QED
  BY <1>1, <1>5, <1>6 DEF ValueKind

-----------------------------------------------------------------------------
(* Steps that run, as against steps that unwind *)

LEMMA ModedRun ==
    ASSUME CountInv, mode \in {"run", "leave"}, ret' = ret, mode' # "unwind"
    PROVE  Moded'
  BY DEF CountInv, Moded

LEMMA RunKept ==
    ASSUME CountInv, mode \in {"run", "leave"}, mode' # "unwind",
           UNCHANGED <<rc, state, field, ret>>, Neat(stack', Live),
           \A o \in Obj : Held(stack', o) = Held(stack, o)
    PROVE  Kept
<1>1. Moded' /\ Live' = Live
  BY ModedRun DEF Live
<1>2. \A o \in Obj : Held(stack', o) \in Nat
  BY HeldType DEF Neat
<1>3. Quiet
  BY <1>2, MovesQuietly DEF CountInv
<1> QED
  BY <1>1, <1>3 DEF Kept, Effect

LEMMA CopyKept ==
    ASSUME CountInv, Forms = {}, HasValue, SafeCopy(Top), CopyTouches(Top) \subseteq Live,
           rc' = Copied(Top), UNCHANGED <<state, field, ret, mode>>, Neat(stack', Live),
           \A o \in Obj : Held(stack', o) = Held(stack, o) - Is(Top.own, o)
                                          + Is(Loaded(Top), o) + Is(BaseOf(Top), o)
    PROVE  Kept
<1>1. Moded' /\ Live' = Live
  BY ModedRun DEF Live, HasValue
<1>2. \A o \in Obj : Held(stack', o) \in Nat /\ Held(stack, o) \in Nat
  BY HeldType DEF Neat, CountInv
<1>3. \A o \in Obj : \A p : Is(p, o) \in {0, 1}
  BY DEF Is
<1>4. \A o \in Obj : Held(stack', o) + Is(ret', o)
                      = Held(stack, o) + Is(ret, o) - Is(Top.own, o)
                        + Is(Loaded(Top), o) + Is(BaseOf(Top), o)
  BY <1>2, <1>3
<1>5. Effect
  BY <1>2, <1>4, CopyEffect DEF CountInv
<1> QED
  BY <1>1, <1>5 DEF Kept

LEMMA FaultKept ==
    ASSUME CountInv, mode' = "fault", UNCHANGED <<stack, rc, state, field, ret>>
    PROVE  Kept
<1>1. Moded' /\ Live' = Live /\ Neat(stack', Live')
  BY DEF Moded, Live, CountInv
<1>2. \A o \in Obj : Held(stack', o) \in Nat
  BY HeldType DEF Neat, CountInv
<1>3. Quiet
  BY <1>2, MovesQuietly DEF CountInv
<1> QED
  BY <1>1, <1>3 DEF Kept, Effect

-----------------------------------------------------------------------------
(* The stack when a Value is used *)

\* Cells that may take the place of a Value's cell.
Fresh(c) == /\ c \in Cell /\ c.kind \notin {"free", "frame"}
            /\ c.kind \in {"arg", "var"} => c.at = None

LEMMA FreshTidy ==
    ASSUME NEW c, Fresh(c), NEW L
    PROVE  c \in Cell /\ Tidy(c, L)
  BY DEF Fresh, Tidy

LEMMA NeatPopTop ==
    ASSUME CountInv, Len(stack) > 0
    PROVE  /\ Neat(Pop(stack), Live)
           /\ Top.kind \notin {"drop", "free"} => Settled(Pop(stack))
           /\ \A o : Held(Pop(stack), o) = Held(stack, o) - Is(Top.own, o)
<1>1. Neat(stack, Live) /\ Top = stack[Len(stack)]
  BY DEF CountInv, Top
<1>2. /\ Neat(Pop(stack), Live)
      /\ stack[Len(stack)].kind \notin {"drop", "free"} => Settled(Pop(stack))
      /\ \A o : Held(Pop(stack), o) = Held(stack, o) - Is(stack[Len(stack)].own, o)
  BY <1>1, NeatPop
<1> QED
  BY <1>1, <1>2

LEMMA PopValue ==
    ASSUME CountInv, HasValue
    PROVE  /\ mode = "run" /\ Len(stack) > 1 /\ Top.own \in Obj \cup {None}
           /\ Neat(Pop(stack), Live) /\ Settled(Pop(stack))
           /\ \A o : Held(Pop(stack), o) = Held(stack, o) - Is(Top.own, o)
           /\ \A o : Held(stack, o) \in Nat
           /\ \A o, p : Is(p, o) \in {0, 1}
<1>1. mode = "run" /\ Len(stack) > 1 /\ Top.kind \in ValueKind
  BY ValuePops DEF HasValue, TopIs, CountInv
<1>2. Neat(stack, Live) /\ Top.kind \notin {"drop", "free"} /\ Top.own \in Obj \cup {None}
  BY <1>1, TopValue DEF CountInv, ValueKind
<1>3. /\ Neat(Pop(stack), Live) /\ Settled(Pop(stack))
      /\ \A o : Held(Pop(stack), o) = Held(stack, o) - Is(Top.own, o)
  BY <1>1, <1>2, NeatPopTop
<1> QED
  BY <1>1, <1>2, <1>3, HeldType DEF Is, Neat

\* A Value's cell is replaced by another, and a destructor call.
LEMMA ValueToCell ==
    ASSUME CountInv, HasValue, NEW c, Fresh(c), NEW p \in Obj \cup {None}
    PROVE  /\ Neat(Push(Pop(stack), c), Live)
           /\ Neat(Push(Push(Pop(stack), c), Drop(p)), Live)
           /\ \A o : Held(Push(Pop(stack), c), o)
                     = Held(stack, o) - Is(Top.own, o) + Is(c.own, o)
           /\ \A o : Held(Push(Push(Pop(stack), c), Drop(p)), o)
                     = Held(stack, o) - Is(Top.own, o) + Is(c.own, o) + Is(p, o)
<1> DEFINE s == Pop(stack)
           t == Push(s, c)
<1>1. /\ Neat(s, Live) /\ Settled(s)
      /\ \A o : Held(s, o) = Held(stack, o) - Is(Top.own, o)
  BY PopValue
<1> HIDE DEF s
<1>2. Neat(t, Live) /\ \A o : Held(t, o) = Held(s, o) + Is(c.own, o)
  BY <1>1, FreshTidy, NeatPush
<1> HIDE DEF t
<1>3. /\ Neat(Push(t, Drop(p)), Live)
      /\ \A o : Held(Push(t, Drop(p)), o) = Held(t, o) + Is(p, o)
  BY <1>2, NeatDrop
<1>4. /\ \A o : Held(t, o) = Held(stack, o) - Is(Top.own, o) + Is(c.own, o)
      /\ \A o : Held(Push(t, Drop(p)), o)
                = Held(stack, o) - Is(Top.own, o) + Is(c.own, o) + Is(p, o)
  BY <1>1, <1>2, <1>3
<1> QED
  BY <1>2, <1>3, <1>4 DEF t, s

\* A Value ends as a destructor call, or as nothing.
LEMMA ValueToDrop ==
    ASSUME CountInv, HasValue, NEW p \in Obj \cup {None}
    PROVE  /\ Neat(Push(Pop(stack), Drop(p)), Live)
           /\ \A o : Held(Push(Pop(stack), Drop(p)), o)
                     = Held(stack, o) - Is(Top.own, o) + Is(p, o)
<1> DEFINE s == Pop(stack)
<1>1. Neat(s, Live) /\ \A o : Held(s, o) = Held(stack, o) - Is(Top.own, o)
  BY PopValue
<1> HIDE DEF s
<1>2. /\ Neat(Push(s, Drop(p)), Live)
      /\ \A o : Held(Push(s, Drop(p)), o) = Held(s, o) + Is(p, o)
  BY <1>1, NeatDrop
<1> QED
  BY <1>1, <1>2 DEF s

\* A Value and the cell under it that waited for it.
LEMMA PopPlace ==
    ASSUME CountInv, HasValue \/ (mode = "run" /\ TopIs(ValueKind)),
           Len(stack) > 1, Under.kind \in ValueKind \cup {"lhs", "cond", "rhs"}
    PROVE  /\ Neat(Pop2, Live) /\ Settled(Pop2)
           /\ Under.own \in Obj \cup {None} /\ Top.own \in Obj \cup {None}
           /\ \A o : Held(Pop2, o) = Held(stack, o) - Is(Top.own, o) - Is(Under.own, o)
           /\ \A o : Held(stack, o) \in Nat
           /\ \A o, p : Is(p, o) \in {0, 1}
<1> DEFINE s == Pop(stack)
<1>1. mode = "run" /\ Len(stack) > 0 /\ Top.kind \in ValueKind
  BY DEF HasValue, TopIs
<1>2. Neat(stack, Live) /\ Top.kind \notin {"drop", "free"}
  BY <1>1 DEF CountInv, ValueKind
<1>3. Under \in Cell /\ Top \in Cell /\ stack \in Seq(Cell) /\ Len(stack) \in Nat
  BY UnderFacts, TopFacts DEF CountInv
<1>4. /\ Neat(s, Live) /\ Len(s) = Len(stack) - 1 /\ s[Len(stack) - 1] = Under
      /\ \A o : Held(s, o) = Held(stack, o) - Is(Top.own, o)
  BY <1>1, <1>2, <1>3, NeatPopTop, PopFacts DEF Under
<1> HIDE DEF s
<1>5. Len(s) > 0 /\ s[Len(s)] = Under /\ Under.kind \notin {"drop", "free"}
  BY <1>3, <1>4 DEF ValueKind
<1>6. /\ Neat(Pop(s), Live) /\ Settled(Pop(s))
      /\ \A o : Held(Pop(s), o) = Held(s, o) - Is(Under.own, o)
  BY <1>4, <1>5, NeatPop
<1>7. Pop(s) = Pop2
  BY DEF Pop2, s
<1>8. \A o : Held(Pop2, o) = Held(stack, o) - Is(Top.own, o) - Is(Under.own, o)
  BY <1>4, <1>6, <1>7
<1> QED
  BY <1>3, <1>6, <1>7, <1>8, HeldType DEF Cell, Is, Neat

LEMMA PlaceToDrop ==
    ASSUME CountInv, HasValue, Len(stack) > 1, Under.kind \in {"lhs", "cond", "rhs"},
           NEW p \in Obj \cup {None}
    PROVE  /\ Neat(Push(Pop2, Drop(p)), Live)
           /\ \A o : Held(Push(Pop2, Drop(p)), o)
                     = Held(stack, o) - Is(Top.own, o) - Is(Under.own, o) + Is(p, o)
<1>1. /\ Neat(Pop2, Live)
      /\ \A o : Held(Pop2, o) = Held(stack, o) - Is(Top.own, o) - Is(Under.own, o)
  BY PopPlace
<1>2. /\ Neat(Push(Pop2, Drop(p)), Live)
      /\ \A o : Held(Push(Pop2, Drop(p)), o) = Held(Pop2, o) + Is(p, o)
  BY <1>1, NeatDrop
<1> QED
  BY <1>1, <1>2

LEMMA PlaceToCell ==
    ASSUME CountInv, HasValue \/ (mode = "run" /\ TopIs(ValueKind)),
           Len(stack) > 1, Under.kind \in ValueKind \cup {"lhs", "cond", "rhs"},
           NEW c, Fresh(c), NEW p \in Obj \cup {None}, NEW q \in Obj \cup {None}
    PROVE  /\ Neat(Push(Push(Pop2, c), Drop(p)), Live)
           /\ Neat(Push(Push(Push(Pop2, c), Drop(p)), Drop(q)), Live)
           /\ \A o : Held(Push(Push(Pop2, c), Drop(p)), o)
                     = Held(stack, o) - Is(Top.own, o) - Is(Under.own, o)
                       + Is(c.own, o) + Is(p, o)
           /\ \A o : Held(Push(Push(Push(Pop2, c), Drop(p)), Drop(q)), o)
                     = Held(stack, o) - Is(Top.own, o) - Is(Under.own, o)
                       + Is(c.own, o) + Is(p, o) + Is(q, o)
<1> DEFINE t == Push(Pop2, c)
           u == Push(t, Drop(p))
           w == Push(u, Drop(q))
<1>1. /\ Neat(Pop2, Live) /\ Settled(Pop2)
      /\ \A o : Held(Pop2, o) = Held(stack, o) - Is(Top.own, o) - Is(Under.own, o)
  BY PopPlace
<1>2. Neat(t, Live) /\ \A o : Held(t, o) = Held(Pop2, o) + Is(c.own, o)
  BY <1>1, FreshTidy, NeatPush
<1> HIDE DEF t
<1>3. Neat(u, Live) /\ \A o : Held(u, o) = Held(t, o) + Is(p, o)
  BY <1>2, NeatDrop
<1> HIDE DEF u
<1>4. Neat(w, Live) /\ \A o : Held(w, o) = Held(u, o) + Is(q, o)
  BY <1>3, NeatDrop
<1> HIDE DEF w
<1>5. /\ \A o : Held(u, o) = Held(stack, o) - Is(Top.own, o) - Is(Under.own, o)
                             + Is(c.own, o) + Is(p, o)
      /\ \A o : Held(w, o) = Held(stack, o) - Is(Top.own, o) - Is(Under.own, o)
                             + Is(c.own, o) + Is(p, o) + Is(q, o)
  BY <1>1, <1>2, <1>3, <1>4
<1> QED
  BY <1>3, <1>4, <1>5 DEF t, u, w

LEMMA FreshCells ==
    ASSUME NEW p \in Obj \cup {None}
    PROVE  /\ Fresh(Int_(p)) /\ Int_(p).own = p
           /\ Fresh(Expr(p)) /\ Expr(p).own = p
           /\ Fresh(Var(p)) /\ Var(p).own = p
           /\ Fresh(Scope(p)) /\ Scope(p).own = p
           /\ \A k \in {"lhs", "cond", "rhs"} :
                 Fresh(MkCell(k, p, None, 0)) /\ MkCell(k, p, None, 0).own = p
<1>1. Fresh(Int_(p)) /\ Int_(p).own = p
  BY DEF Fresh, Int_, MkCell, Cell, ValueKind
<1>2. Fresh(Expr(p)) /\ Expr(p).own = p
  BY <1>1 DEF Fresh, Expr, MkCell, Cell, ValueKind
<1>3. Fresh(Var(p)) /\ Var(p).own = p /\ Fresh(Scope(p)) /\ Scope(p).own = p
  BY DEF Fresh, Var, Scope, MkCell, Cell, ExprPlace, StmtPlace
<1>4. \A k \in {"lhs", "cond", "rhs"} :
         Fresh(MkCell(k, p, None, 0)) /\ MkCell(k, p, None, 0).own = p
  BY DEF Fresh, MkCell, Cell, ExprPlace
<1> QED
  BY <1>1, <1>2, <1>3, <1>4

LEMMA IsNone == \A o \in Obj : Is(None, o) = 0
  BY NoneAssumption DEF Is

-----------------------------------------------------------------------------
(* Expressions *)

LEMMA EvalKept ==
    ASSUME CountInv, NEW c, Eval(c), Fresh(c), c.own = None
    PROVE  Kept
<1>1. /\ mode = "run" /\ Len(stack) > 0 /\ Top.kind \in ExprPlace
      /\ stack' = Push(stack, c) /\ UNCHANGED <<rc, state, field, ret, mode>>
  BY DEF Eval, CanEval, TopIs
<1>2. Neat(stack, Live) /\ Settled(stack) /\ c \in Cell /\ Tidy(c, Live)
  BY <1>1, FreshTidy DEF CountInv, Settled, Top, ExprPlace, StmtPlace, ValueKind
<1>3. /\ Neat(stack', Live)
      /\ \A o : Held(stack', o) = Held(stack, o) + Is(c.own, o)
  BY <1>1, <1>2, NeatPush
<1>4. \A o \in Obj : Held(stack, o) \in Nat
  BY HeldType DEF CountInv, Neat
<1>5. \A o \in Obj : Held(stack', o) = Held(stack, o)
  BY <1>3, <1>4, IsNone
<1> QED
  BY <1>1, <1>3, <1>5, RunKept

LEMMA ExpressionKept ==
    ASSUME CountInv, Forms = {}, Expression
    PROVE  Kept
<1> TypeInv
  BY DEF CountInv
<1>1. ASSUME VisitLiteral PROVE Kept
  BY <1>1, FreshCells, NoneCell, EvalKept DEF VisitLiteral
<1>2. ASSUME VisitIdent PROVE Kept
  <2> PICK i \in DOMAIN stack : Eval(MkCell("ident", None, None, i))
    BY <1>2 DEF VisitIdent
  <2>1. i \in Nat
    BY LenProperties DEF TypeInv, TypeOK
  <2>2. Fresh(MkCell("ident", None, None, i)) /\ MkCell("ident", None, None, i).own = None
    BY <2>1 DEF Fresh, MkCell, Cell, ValueKind
  <2> QED
    BY <2>2, EvalKept
<1>3. ASSUME VisitSelf PROVE Kept
  <2> DEFINE c == MkCell("self", None, stack[CurFrame].at, 0)
  <2>1. Eval(c) /\ Len(stack) > 0
    BY <1>3 DEF VisitSelf, Eval, CanEval, TopIs
  <2>2. stack[CurFrame].at \in Obj \cup {None}
    BY <2>1, CurFrameFacts, ValueFacts DEF Cell
  <2>3. Fresh(c) /\ c.own = None
    BY <2>2, CellFacts DEF Fresh, ValueKind
  <2> QED
    BY <2>1, <2>3, EvalKept
<1>4. ASSUME VisitFieldAccess PROVE Kept
  <2> DEFINE c == MkCell("field", Top.own, Loaded(Top), 0)
  <2>1. HasValue /\ Loaded(Top) \in Obj /\ Top.own \in Obj \cup {None} /\ mode = "run"
    BY <1>4, PopValue DEF VisitFieldAccess
  <2>2. CASE LoadTouches(Top) \subseteq Live
    <3>1. Fresh(c) /\ c.own = Top.own
      BY <2>1, CellFacts DEF Fresh, ValueKind
    <3>2. stack' = Push(Pop(stack), c) /\ UNCHANGED <<rc, state, field, ret, mode>>
      BY <1>4, <2>2 DEF VisitFieldAccess, Touch
    <3> HIDE DEF c
    <3>3. /\ Neat(stack', Live)
          /\ \A o : Held(stack', o) = Held(stack, o) - Is(Top.own, o) + Is(Top.own, o)
      BY <2>1, <3>1, <3>2, NoneCell, ValueToCell
    <3>4. \A o \in Obj : Held(stack', o) = Held(stack, o)
      BY <2>1, <3>3, PopValue
    <3> QED
      BY <2>1, <3>2, <3>3, <3>4, RunKept
  <2>3. CASE ~(LoadTouches(Top) \subseteq Live)
    BY <1>4, <2>3, FaultKept DEF VisitFieldAccess, Touch
  <2> QED
    BY <2>2, <2>3
<1>5. ASSUME VisitIntField PROVE Kept
  <2> DEFINE c == Int_(Top.own)
  <2>1. HasValue /\ Top.own \in Obj \cup {None} /\ mode = "run"
    BY <1>5, PopValue DEF VisitIntField
  <2>2. CASE LoadTouches(Top) \cup {Loaded(Top)} \subseteq Live
    <3>1. Fresh(c) /\ c.own = Top.own
      BY <2>1, FreshCells
    <3>2. stack' = Push(Pop(stack), c) /\ UNCHANGED <<rc, state, field, ret, mode>>
      BY <1>5, <2>2 DEF VisitIntField, Touch
    <3> HIDE DEF c
    <3>3. /\ Neat(stack', Live)
          /\ \A o : Held(stack', o) = Held(stack, o) - Is(Top.own, o) + Is(Top.own, o)
      BY <2>1, <3>1, <3>2, NoneCell, ValueToCell
    <3>4. \A o \in Obj : Held(stack', o) = Held(stack, o)
      BY <2>1, <3>3, PopValue
    <3> QED
      BY <2>1, <3>2, <3>3, <3>4, RunKept
  <2>3. CASE ~(LoadTouches(Top) \cup {Loaded(Top)} \subseteq Live)
    BY <1>5, <2>3, FaultKept DEF VisitIntField, Touch
  <2> QED
    BY <2>2, <2>3
<1>6. ASSUME Unary PROVE Kept
  <2>1. /\ HasValue /\ Top.own \in Obj \cup {None} /\ mode = "run"
        /\ stack' = Push(Push(Pop(stack), Int_(None)), Drop(Top.own))
        /\ UNCHANGED <<rc, state, field, ret, mode>>
    BY <1>6, PopValue DEF Unary
  <2>2. /\ Neat(stack', Live)
        /\ \A o : Held(stack', o) = Held(stack, o) - Is(Top.own, o)
                                     + Is(Int_(None).own, o) + Is(Top.own, o)
    BY <2>1, NoneCell, FreshCells, ValueToCell
  <2>3. \A o \in Obj : Held(stack', o) = Held(stack, o)
    BY <2>1, <2>2, NoneCell, FreshCells, IsNone, PopValue
  <2> QED
    BY <2>1, <2>2, <2>3, RunKept
<1>7. ASSUME NEW k \in {"lhs", "cond"}, HoldOperand(k) PROVE Kept
  <2> DEFINE c == MkCell(k, Top.own, None, 0)
  <2>1. /\ HasValue /\ Top.own \in Obj \cup {None} /\ mode = "run"
        /\ stack' = Push(Pop(stack), c) /\ UNCHANGED <<rc, state, field, ret, mode>>
    BY <1>7, PopValue DEF HoldOperand
  <2>2. Fresh(c) /\ c.own = Top.own
    BY <2>1, FreshCells
  <2> HIDE DEF c
  <2>3. /\ Neat(stack', Live)
        /\ \A o : Held(stack', o) = Held(stack, o) - Is(Top.own, o) + Is(Top.own, o)
    BY <2>1, <2>2, NoneCell, ValueToCell
  <2>4. \A o \in Obj : Held(stack', o) = Held(stack, o)
    BY <2>1, <2>3, PopValue
  <2> QED
    BY <2>1, <2>3, <2>4, RunKept
<1>8. ASSUME Binary PROVE Kept
  <2>1. /\ HasValue /\ Len(stack) > 1 /\ Under.kind = "lhs" /\ mode = "run"
        /\ stack' = Push(Push(Push(Pop2, Int_(None)), Drop(Top.own)), Drop(Under.own))
        /\ UNCHANGED <<rc, state, field, ret, mode>>
    BY <1>8, PopValue DEF Binary, UnderIs
  <2>2. Top.own \in Obj \cup {None} /\ Under.own \in Obj \cup {None}
    BY <2>1, PopPlace
  <2>3. /\ Neat(stack', Live)
        /\ \A o : Held(stack', o) = Held(stack, o) - Is(Top.own, o) - Is(Under.own, o)
                       + Is(Int_(None).own, o) + Is(Top.own, o) + Is(Under.own, o)
    BY <2>1, <2>2, NoneCell, FreshCells, PlaceToCell
  <2>4. \A o \in Obj : Held(stack', o) = Held(stack, o)
    BY <2>1, <2>3, NoneCell, FreshCells, IsNone, PopValue
  <2> QED
    BY <2>1, <2>3, <2>4, RunKept
<1>9. ASSUME Ternary PROVE Kept
  <2> DEFINE c == Expr(Loaded(Top))
  <2>1. HasValue /\ Len(stack) > 1 /\ Under.kind = "cond" /\ mode = "run" /\ SafeCopy(Top)
    BY <1>9, PopValue DEF Ternary, UnderIs
  <2>2. CASE CopyTouches(Top) \subseteq Live
    <3>1. Loaded(Top) \in Obj \cup {None} /\ BaseOf(Top) \in Obj \cup {None}
      BY <2>1, TopValue
    <3>2. Under.own \in Obj \cup {None}
      BY <2>1, PopPlace
    <3>3. Fresh(c) /\ c.own = Loaded(Top)
      BY <3>1, FreshCells
    <3>4. /\ stack' = Push(Push(Push(Pop2, c), Drop(Under.own)), Drop(BaseOf(Top)))
          /\ rc' = Copied(Top) /\ UNCHANGED <<state, field, ret, mode>>
      BY <1>9, <2>2 DEF Ternary, Touch
    <3> HIDE DEF c
    <3>5. /\ Neat(stack', Live)
          /\ \A o : Held(stack', o)
                    = Held(stack, o) - Is(Top.own, o) - Is(Under.own, o)
                      + Is(Loaded(Top), o) + Is(Under.own, o) + Is(BaseOf(Top), o)
      BY <2>1, <3>1, <3>2, <3>3, <3>4, PlaceToCell
    <3>6. \A o \in Obj : Held(stack', o) = Held(stack, o) - Is(Top.own, o)
                                          + Is(Loaded(Top), o) + Is(BaseOf(Top), o)
      BY <2>1, <3>5, PopValue
    <3> QED
      BY <2>1, <2>2, <3>4, <3>5, <3>6, CopyKept
  <2>3. CASE ~(CopyTouches(Top) \subseteq Live)
    BY <1>9, <2>3, FaultKept DEF Ternary, Touch
  <2> QED
    BY <2>2, <2>3
<1> QED
  BY <1>1, <1>2, <1>3, <1>4, <1>5, <1>6, <1>7, <1>8, <1>9
     DEF Expression, BinaryLhs, TernaryCond

-----------------------------------------------------------------------------
(* Calls *)

LEMMA BeginCtorKept ==
    ASSUME CountInv, BeginCtor
    PROVE  Kept
<1> PICK n \in Obj :
       /\ CanEval /\ state[n] = "free"
       /\ stack' = Push(stack, MkCell("call", n, n, 0))
       /\ rc' = [rc EXCEPT ![n] = 1]
       /\ state' = [state EXCEPT ![n] = "live"]
       /\ field' = [field EXCEPT ![n] = None]
       /\ UNCHANGED <<ret, mode>>
  BY DEF BeginCtor
<1> DEFINE c == MkCell("call", n, n, 0)
<1>1. mode = "run" /\ Len(stack) > 0 /\ NoFree(stack) /\ Top.kind \in ExprPlace
  BY ExprPlaceNoFree DEF CanEval, TopIs, CountInv
<1>2. c \in Cell /\ c.kind = "call" /\ c.own = n
  BY DEF MkCell, Cell, ExprPlace
<1>3. stack' = Push(stack, c)
  OBVIOUS
<1> HIDE DEF c
<1>4. Live' = Live \cup {n} /\ n \notin Live
  BY DEF Live, CountInv, TypeInv, TypeOK
<1>5. Neat(stack, Live') /\ Tidy(c, Live') /\ Settled(stack)
  BY <1>1, <1>2 DEF CountInv, Neat, NoFree, Tidy, Settled, Top, ExprPlace, StmtPlace, ValueKind
<1>6. /\ Neat(stack', Live')
      /\ \A o : Held(stack', o) = Held(stack, o) + Is(n, o)
  BY <1>2, <1>3, <1>5, NeatPush
<1>7. ASSUME NEW o \in Obj
      PROVE  Owners(o)' = Owners(o) + Is(n, o)
  <2>1. FieldsOf(o)' = FieldsOf(o)
    <3>1. \A p \in Obj : field'[p] = IF p = n THEN None ELSE field[p]
      BY DEF CountInv, TypeInv, TypeOK
    <3> QED
      BY <1>4, <3>1, NoneAssumption DEF FieldsOf, Live
  <2>2. Owners(o)' = Held(stack', o) + Cardinality(FieldsOf(o)') + Is(ret', o)
    BY DEF Owners, CellsOf, Held, Is
  <2>3. /\ Owners(o) = Held(stack, o) + Cardinality(FieldsOf(o)) + Is(ret, o)
        /\ Held(stack, o) \in Nat /\ Cardinality(FieldsOf(o)) \in Nat
    BY OwnersSum DEF CountInv
  <2>4. Is(ret, o) \in Nat /\ Is(n, o) \in Nat
    BY DEF Is
  <2> QED
    BY <1>6, <2>1, <2>2, <2>3, <2>4
<1>8. Makes(n)
  BY <1>4, <1>7 DEF Makes
<1>9. Moded'
  BY <1>1, ModedRun
<1> QED
  BY <1>6, <1>8, <1>9 DEF Kept, Effect

LEMMA BeginMethodKept ==
    ASSUME CountInv, Forms = {}, BeginMethod
    PROVE  Kept
<1> DEFINE c == MkCell("call", None, Loaded(Top), 0)
<1>1. HasValue /\ mode = "run" /\ Loaded(Top) \in Obj \cup {None} /\ Len(stack) > 0
  BY PopValue, TopValue DEF BeginMethod, CountInv
<1>2. c \in Cell /\ c.own = None /\ Tidy(c, Live)
  BY <1>1 DEF Tidy, MkCell, Cell, ExprPlace
<1>3. Settled(stack) /\ Neat(stack, Live)
  BY DEF BeginMethod, SafeReceiver, SafeDestroy, Settled, Released, Top, CountInv
<1>4. CASE LoadTouches(Top) \subseteq Live
  <2>1. stack' = Push(stack, c) /\ UNCHANGED <<rc, state, field, ret, mode>>
    BY <1>4 DEF BeginMethod, Touch
  <2> HIDE DEF c
  <2>2. /\ Neat(stack', Live)
        /\ \A o : Held(stack', o) = Held(stack, o) + Is(None, o)
    BY <1>2, <1>3, <2>1, NeatPush
  <2>3. \A o \in Obj : Held(stack', o) = Held(stack, o)
    BY <1>1, <2>2, IsNone, PopValue
  <2> QED
    BY <1>1, <2>1, <2>2, <2>3, RunKept
<1>5. CASE ~(LoadTouches(Top) \subseteq Live)
  BY <1>5, FaultKept DEF BeginMethod, Touch
<1> QED
  BY <1>4, <1>5

LEMMA PassKept ==
    ASSUME CountInv, Forms = {}, PassInt \/ PassArg
    PROVE  Kept
<1> HasValue /\ mode = "run"
  BY DEF PassInt, PassArg, HasValue
<1>1. CASE PassInt
  <2>1. Top.own = None /\ stack' = Pop(stack) /\ UNCHANGED <<rc, state, field, ret, mode>>
    BY <1>1 DEF PassInt
  <2>2. \A o \in Obj : Held(stack', o) = Held(stack, o)
    BY <2>1, IsNone, PopValue
  <2> QED
    BY <2>1, <2>2, PopValue, RunKept
<1>2. CASE PassArg
  <2> DEFINE c == MkCell("arg", Loaded(Top), Destroyed(Top), 0)
  <2>1. SafeCopy(Top) /\ Top.kind \in {"ident", "int"} /\ (Top.kind = "int" => Top.own = None)
    BY <1>2 DEF PassArg, SafeArg, SafeCopy, HasValue, TopIs, ValueKind
  <2>2. Top.own = None
    BY <2>1, TopFacts DEF CountInv, Shape, Top, HasValue, TopIs
  <2>3. Destroyed(Top) = None
    BY <2>1, <2>2 DEF Destroyed
  <2>4. Loaded(Top) \in Obj \cup {None} /\ BaseOf(Top) \in Obj \cup {None}
    BY TopValue DEF CountInv
  <2>5. Fresh(c) /\ c.own = Loaded(Top)
    BY <2>3, <2>4 DEF Fresh, MkCell, Cell, ExprPlace
  <2>6. CASE CopyTouches(Top) \subseteq Live
    <3>1. /\ stack' = Push(Push(Pop(stack), c), Drop(BaseOf(Top)))
          /\ rc' = Copied(Top) /\ UNCHANGED <<state, field, ret, mode>>
      BY <1>2, <2>6 DEF PassArg, Touch
    <3> HIDE DEF c
    <3>2. /\ Neat(stack', Live)
          /\ \A o : Held(stack', o) = Held(stack, o) - Is(Top.own, o)
                                       + Is(Loaded(Top), o) + Is(BaseOf(Top), o)
      BY <2>4, <2>5, <3>1, ValueToCell
    <3> QED
      BY <2>1, <2>6, <3>1, <3>2, CopyKept
  <2>7. CASE ~(CopyTouches(Top) \subseteq Live)
    BY <1>2, <2>7, FaultKept DEF PassArg, Touch
  <2> QED
    BY <2>6, <2>7
<1> QED
  BY <1>1, <1>2

LEMMA EnterCallKept ==
    ASSUME CountInv, TypeInv', EnterCall
    PROVE  Kept
<1> PICK k \in DOMAIN stack :
       /\ stack[k].kind = "call"
       /\ \A i \in DOMAIN stack : i > k => stack[i].kind = "arg"
       /\ stack' = [i \in DOMAIN stack |->
                      IF i < k THEN stack[i]
                      ELSE [stack[i] EXCEPT !.kind = IF i = k THEN "frame" ELSE "var"]]
  BY DEF EnterCall
<1>1. mode = "run" /\ UNCHANGED <<rc, state, field, ret, mode>>
  BY DEF EnterCall
<1>2. /\ stack \in Seq(Cell) /\ stack' \in Seq(Cell) /\ Neat(stack, Live)
      /\ DOMAIN stack = 1..Len(stack) /\ DOMAIN stack' = 1..Len(stack')
      /\ Len(stack) \in Nat /\ Len(stack') \in Nat
  BY LenProperties DEF CountInv, Neat, TypeInv, TypeOK
<1>3. Len(stack') = Len(stack)
  BY <1>2
<1>4. ASSUME NEW i \in 1..Len(stack)
      PROVE  /\ stack'[i].own = stack[i].own /\ stack'[i].at = stack[i].at
             /\ stack'[i].idx = stack[i].idx
             /\ i < k => stack'[i] = stack[i]
             /\ i = k => stack'[i].kind = "frame"
             /\ i > k => stack'[i].kind = "var" /\ stack[i].kind = "arg"
  <2>1. stack[i] \in Cell
    BY <1>2, ElementOfSeq
  <2> QED
    BY <1>2, <2>1 DEF Cell
<1>5. stack[k].idx = 0
  BY <1>2 DEF CountInv, TypeInv, Shaped, Shape
<1>6. ASSUME NEW i \in 1..Len(stack')
      PROVE  Tidy(stack'[i], Live)
  <2>1. Tidy(stack[i], Live) /\ i \in 1..Len(stack) /\ k \in Nat
    BY <1>2, <1>3 DEF Neat
  <2>2. CASE i < k
    BY <1>4, <2>1, <2>2
  <2>3. CASE i = k
    BY <1>4, <1>5, <2>1, <2>3 DEF Tidy
  <2>4. CASE i > k
    BY <1>4, <2>1, <2>4 DEF Tidy
  <2> QED
    BY <1>2, <2>1, <2>2, <2>3, <2>4
<1>7. ASSUME NEW i \in 1..(Len(stack') - 1)
      PROVE  Waits(stack', i)
  <2>1. /\ Waits(stack, i) /\ i \in 1..Len(stack) /\ i + 1 \in 1..Len(stack)
        /\ k \in 1..Len(stack)
    BY <1>2, <1>3 DEF Neat
  <2>2. CASE i < k
    <3>1. CASE i + 1 < k
      BY <1>4, <2>1, <2>2, <3>1 DEF Waits
    <3>2. CASE i + 1 = k
      BY <1>4, <2>1, <2>2, <3>2 DEF Waits
    <3> QED
      BY <2>1, <2>2, <3>1, <3>2
  <2>3. CASE i >= k
    BY <1>4, <2>1, <2>3 DEF Waits, ValueKind
  <2> QED
    BY <2>1, <2>2, <2>3
<1>8. Neat(stack', Live)
  BY <1>2, <1>6, <1>7 DEF Neat
<1>9. ASSUME NEW o \in Obj
      PROVE  Held(stack', o) = Held(stack, o)
  <2>1. \A i \in 1..Len(stack) : stack'[i].own = stack[i].own
    BY <1>4, Zenon
  <2> DEFINE t == stack'
  <2>2. t \in Seq(Cell) /\ Len(t) = Len(stack) /\ \A i \in 1..Len(stack) : t[i].own = stack[i].own
    BY <1>2, <1>3, <2>1
  <2> HIDE DEF t
  <2>3. Held(t, o) = Held(stack, o)
    BY ONLY <1>2, <2>2, HeldSame
  <2> QED
    BY <2>3 DEF t
<1> QED
  BY <1>1, <1>8, <1>9, RunKept

LEMMA EndCallKept ==
    ASSUME CountInv, EndCall
    PROVE  Kept
<1> DEFINE x == IF Top.own # None THEN Top.own ELSE ret
           c == Expr(x)
<1>1. /\ mode = "unwind" /\ Len(stack) > 0 /\ Top.kind = "frame"
      /\ stack' = Push(Pop(stack), c) /\ ret' = None /\ mode' = "run"
      /\ UNCHANGED <<rc, state, field>>
  BY DEF EndCall, TopIs
<1>2. /\ Top.own \in Obj \cup {None} /\ ret \in Obj \cup {None}
      /\ Len(stack) \in 1..Len(stack) /\ Len(stack) \in Nat
  BY <1>1, TopFacts DEF CountInv, TypeInv, TypeOK, Cell
<1>3. ret # None => Top.own = None
  <2> SUFFICES ASSUME ret # None PROVE Top.own = None
    OBVIOUS
  <2>1. PICK i \in 1..Len(stack) :
           /\ stack[i].own = None
           /\ \A j \in (i + 1)..Len(stack) : stack[j].kind # "frame"
    BY <1>1 DEF CountInv, Moded, Unwinds
  <2>2. i = Len(stack)
    BY <1>1, <1>2, <2>1 DEF Top
  <2> QED
    BY <2>1, <2>2 DEF Top
<1>4. Fresh(c) /\ c.own = x
  BY <1>2, FreshCells
<1>5. /\ Neat(Pop(stack), Live) /\ Settled(Pop(stack))
      /\ \A o : Held(Pop(stack), o) = Held(stack, o) - Is(Top.own, o)
  BY <1>1, NeatPopTop
<1> HIDE DEF c, x
<1>6. /\ Neat(stack', Live)
      /\ \A o : Held(stack', o) = Held(Pop(stack), o) + Is(x, o)
  <2>1. c \in Cell /\ Tidy(c, Live)
    BY <1>4, FreshTidy
  <2>2. /\ Neat(Push(Pop(stack), c), Live)
        /\ \A o : Held(Push(Pop(stack), c), o) = Held(Pop(stack), o) + Is(c.own, o)
    BY <1>5, <2>1, NeatPush
  <2> QED
    BY <1>1, <1>4, <2>2
<1>7. \A o \in Obj : Held(stack', o) \in Nat /\ Held(stack, o) \in Nat
  BY <1>6, HeldType DEF Neat, CountInv
<1>8. \A o \in Obj : Held(stack', o) + Is(ret', o) = Held(stack, o) + Is(ret, o)
  <2> SUFFICES ASSUME NEW o \in Obj
               PROVE  Held(stack', o) + Is(ret', o) = Held(stack, o) + Is(ret, o)
    OBVIOUS
  <2>1. Held(stack', o) = Held(stack, o) - Is(Top.own, o) + Is(x, o)
    BY <1>5, <1>6
  <2>2. Is(ret', o) = 0 /\ Is(None, o) = 0
    BY <1>1, IsNone
  <2>3. CASE Top.own = None
    BY <1>7, <2>1, <2>2, <2>3 DEF Is, x
  <2>4. CASE Top.own # None
    BY <1>3, <1>7, <2>1, <2>2, <2>4 DEF Is, x
  <2> QED
    BY <2>3, <2>4
<1>9. Effect
  BY <1>1, <1>7, <1>8, MovesQuietly DEF Effect, CountInv
<1> QED
  BY <1>1, <1>6, <1>9 DEF Kept, Moded, Live

LEMMA EndMethodKept ==
    ASSUME CountInv, EndMethod
    PROVE  Kept
<1>1. /\ mode = "run" /\ Len(stack) > 1 /\ TopIs(ValueKind)
      /\ Top.kind \in ValueKind /\ Under.kind \in ValueKind
  BY DEF EndMethod, TopIs, UnderIs
<1>2. /\ Len(stack) \in Nat /\ Len(stack) - 1 \in 1..Len(stack) /\ Top \in Cell
  BY <1>1, TopFacts, UnderFacts DEF CountInv
<1>3. Fresh(Top)
  BY <1>1, <1>2 DEF Fresh, ValueKind
<1>4. Destroyed(Under) = Under.own
  <2>1. Waits(stack, Len(stack) - 1)
    BY <1>1, <1>2 DEF CountInv, Neat
  <2>2. Released(Under)
    BY <1>1, <1>2, <2>1 DEF Waits, Top, Under, ValueKind
  <2> QED
    BY <2>2 DEF Released, Destroyed
<1>5. Under.own \in Obj \cup {None}
  BY <1>1, PopPlace
<1> DEFINE touched == IF Under.own = None THEN LoadTouches(Under) ELSE {}
<1>6. CASE touched \subseteq Live
  <2>1. /\ stack' = Push(Push(Pop2, Top), Drop(Under.own))
        /\ UNCHANGED <<rc, state, field, ret, mode>>
    BY <1>4, <1>6 DEF EndMethod, Touch
  <2>2. /\ Neat(stack', Live)
        /\ \A o : Held(stack', o) = Held(stack, o) - Is(Top.own, o) - Is(Under.own, o)
                                     + Is(Top.own, o) + Is(Under.own, o)
    BY <1>1, <1>3, <1>5, <2>1, NoneCell, PlaceToCell
  <2>3. \A o \in Obj : Held(stack', o) = Held(stack, o)
    BY <1>1, <2>2, PopPlace
  <2> QED
    BY <1>1, <2>1, <2>2, <2>3, RunKept
<1>7. CASE ~(touched \subseteq Live)
  BY <1>7, FaultKept DEF EndMethod, Touch
<1> QED
  BY <1>6, <1>7

LEMMA CallKept ==
    ASSUME CountInv, TypeInv', Forms = {}, Call
    PROVE  Kept
<1>1. ASSUME BeginCall PROVE Kept
  <2>1. Fresh(MkCell("call", None, None, 0)) /\ MkCell("call", None, None, 0).own = None
    BY DEF Fresh, MkCell, Cell, ExprPlace
  <2> QED
    BY <1>1, <2>1, EvalKept DEF BeginCall
<1> QED
  BY <1>1, BeginCtorKept, BeginMethodKept, PassKept, EnterCallKept, EndCallKept,
     EndMethodKept DEF Call

-----------------------------------------------------------------------------
(* Statements *)

LEMMA ValueStatementKept ==
    ASSUME CountInv, Forms = {}, ExprStmt \/ EnterIf \/ AssignInt
    PROVE  Kept
<1>1. /\ HasValue /\ mode = "run" /\ Top.own \in Obj \cup {None}
      /\ \A o : Held(stack, o) \in Nat
      /\ \A o, p : Is(p, o) \in {0, 1}
  BY PopValue DEF ExprStmt, EnterIf, AssignInt, StmtValue
<1>2. CASE ExprStmt
  <2>1. Destroyed(Top) = Top.own
    BY <1>2 DEF ExprStmt, SafeDestroy, Destroyed
  <2> DEFINE touched == IF Top.own = None THEN LoadTouches(Top) ELSE {}
  <2>2. CASE touched \subseteq Live
    <3>1. /\ stack' = Push(Pop(stack), Drop(Top.own))
          /\ UNCHANGED <<rc, state, field, ret, mode>>
      BY <1>2, <2>1, <2>2 DEF ExprStmt, Touch
    <3>2. /\ Neat(stack', Live)
          /\ \A o : Held(stack', o) = Held(stack, o) - Is(Top.own, o) + Is(Top.own, o)
      BY <1>1, <3>1, ValueToDrop
    <3>3. \A o \in Obj : Held(stack', o) = Held(stack, o)
      BY <1>1, <3>2
    <3> QED
      BY <1>1, <3>1, <3>2, <3>3, RunKept
  <2>3. CASE ~(touched \subseteq Live)
    BY <1>2, <2>3, FaultKept DEF ExprStmt, Touch
  <2> QED
    BY <2>2, <2>3
<1>3. CASE EnterIf
  <2> DEFINE c == Scope(Top.own)
  <2>1. stack' = Push(Pop(stack), c) /\ UNCHANGED <<rc, state, field, ret, mode>>
    BY <1>3 DEF EnterIf
  <2>2. Fresh(c) /\ c.own = Top.own
    BY <1>1, FreshCells
  <2> HIDE DEF c
  <2>3. /\ Neat(stack', Live)
        /\ \A o : Held(stack', o) = Held(stack, o) - Is(Top.own, o) + Is(Top.own, o)
    BY <1>1, <2>1, <2>2, NoneCell, ValueToCell
  <2>4. \A o \in Obj : Held(stack', o) = Held(stack, o)
    BY <1>1, <2>3
  <2> QED
    BY <1>1, <2>1, <2>3, <2>4, RunKept
<1>4. CASE AssignInt
  <2>1. /\ Len(stack) > 1 /\ Under.kind = "rhs" /\ Under.own = None
        /\ stack' = Push(Pop2, Drop(Top.own))
        /\ UNCHANGED <<rc, state, field, ret, mode>>
    BY <1>4 DEF AssignInt, UnderIs
  <2>2. /\ Neat(stack', Live)
        /\ \A o : Held(stack', o) = Held(stack, o) - Is(Top.own, o) - Is(Under.own, o)
                                     + Is(Top.own, o)
    BY <1>1, <2>1, PlaceToDrop
  <2>3. \A o \in Obj : Held(stack', o) = Held(stack, o)
    BY <1>1, <2>1, <2>2, IsNone
  <2> QED
    BY <1>1, <2>1, <2>2, <2>3, RunKept
<1> QED
  BY <1>2, <1>3, <1>4

LEMMA CopyStatementKept ==
    ASSUME CountInv, Forms = {}, VisitVariable \/ AssignRhs
    PROVE  Kept
<1>1. /\ HasValue /\ SafeCopy(Top) /\ Loaded(Top) \in Obj \cup {None}
      /\ BaseOf(Top) \in Obj \cup {None}
  BY TopValue DEF VisitVariable, AssignRhs, StmtValue, CountInv
<1>2. ASSUME NEW c, Fresh(c), c.own = Loaded(Top),
             Touch(CopyTouches(Top),
                   /\ stack' = Push(Push(Pop(stack), c), Drop(BaseOf(Top)))
                   /\ rc' = Copied(Top)
                   /\ UNCHANGED <<state, field, ret, mode>>)
      PROVE  Kept
  <2>1. CASE CopyTouches(Top) \subseteq Live
    <3>1. /\ stack' = Push(Push(Pop(stack), c), Drop(BaseOf(Top)))
          /\ rc' = Copied(Top) /\ UNCHANGED <<state, field, ret, mode>>
      BY <1>2, <2>1 DEF Touch
    <3>2. /\ Neat(stack', Live)
          /\ \A o : Held(stack', o) = Held(stack, o) - Is(Top.own, o)
                                       + Is(Loaded(Top), o) + Is(BaseOf(Top), o)
      BY <1>1, <1>2, <3>1, ValueToCell
    <3> QED
      BY <1>1, <2>1, <3>1, <3>2, CopyKept
  <2>2. CASE ~(CopyTouches(Top) \subseteq Live)
    BY <1>2, <2>2, FaultKept DEF Touch
  <2> QED
    BY <2>1, <2>2
<1>3. CASE VisitVariable
  BY <1>1, <1>2, <1>3, FreshCells DEF VisitVariable
<1>4. CASE AssignRhs
  BY <1>1, <1>2, <1>4, FreshCells DEF AssignRhs
<1> QED
  BY <1>3, <1>4

LEMMA AssignFieldKept ==
    ASSUME CountInv, Forms = {}, AssignField
    PROVE  Kept
<1> DEFINE a == Top.at
           u == Under.own
<1>1. /\ HasValue /\ mode = "run" /\ Len(stack) > 1 /\ Under.kind = "rhs"
      /\ u # None /\ field[a] = None
  BY DEF AssignField, UnderIs, HasValue
<1>2. u \in Obj /\ Top.own \in Obj \cup {None} /\ field \in [Obj -> Obj \cup {None}]
  BY <1>1, PopPlace DEF CountInv, TypeInv, TypeOK
<1>3. CASE a \in Live
  <2>1. /\ field' = [field EXCEPT ![a] = u]
        /\ stack' = Push(Pop2, Drop(Top.own))
        /\ UNCHANGED <<rc, state, ret, mode>>
    BY <1>3 DEF AssignField, Touch
  <2>2. /\ Neat(stack', Live)
        /\ \A o : Held(stack', o) = Held(stack, o) - Is(Top.own, o) - Is(u, o)
                                     + Is(Top.own, o)
    BY <1>1, <1>2, <2>1, PlaceToDrop
  <2>3. Live' = Live
    BY <2>1 DEF Live
  <2>4. ASSUME NEW o \in Obj
        PROVE  Owners(o)' = Owners(o)
    <3>1. /\ Owners(o) = Held(stack, o) + Cardinality(FieldsOf(o)) + Is(ret, o)
          /\ Held(stack, o) \in Nat /\ Cardinality(FieldsOf(o)) \in Nat
          /\ IsFiniteSet(FieldsOf(o))
      BY OwnersSum DEF CountInv
    <3>2. Owners(o)' = Held(stack', o) + Cardinality(FieldsOf(o)') + Is(ret, o)
      BY <2>1 DEF Owners, CellsOf, Held, Is
    <3>3. Cardinality(FieldsOf(o)') = Cardinality(FieldsOf(o)) + Is(u, o)
      <4>1. \A p \in Obj : field'[p] = IF p = a THEN u ELSE field[p]
        BY <1>2, <2>1
      <4>2. CASE u = o
        <5>1. FieldsOf(o)' = FieldsOf(o) \cup {a} /\ a \notin FieldsOf(o)
          BY <1>1, <1>2, <1>3, <2>3, <4>1, <4>2, NoneAssumption DEF FieldsOf, Live
        <5>2. Cardinality(FieldsOf(o) \cup {a}) = Cardinality(FieldsOf(o)) + 1
          BY <3>1, <5>1, FS_AddElement
        <5> QED
          BY <4>2, <5>1, <5>2 DEF Is
      <4>3. CASE u # o
        <5>1. FieldsOf(o)' = FieldsOf(o)
          BY <1>1, <1>2, <1>3, <2>3, <4>1, <4>3, NoneAssumption DEF FieldsOf, Live
        <5> QED
          BY <3>1, <4>3, <5>1 DEF Is
      <4> QED
        BY <4>2, <4>3
    <3>4. Is(Top.own, o) \in Nat /\ Is(u, o) \in Nat /\ Is(ret, o) \in Nat
      BY DEF Is
    <3> HIDE DEF a, u
    <3> QED
      BY <2>2, <3>1, <3>2, <3>3, <3>4
  <2>5. Quiet
    BY <2>1, <2>3, <2>4 DEF Quiet
  <2>6. Moded'
    BY <1>1, <2>1, ModedRun
  <2> QED
    BY <2>2, <2>3, <2>5, <2>6 DEF Kept, Effect
<1>4. CASE a \notin Live
  BY <1>4, FaultKept DEF AssignField, Touch
<1> QED
  BY <1>3, <1>4

LEMMA AssignVarKept ==
    ASSUME CountInv, AssignVar
    PROVE  Kept
<1> DEFINE i == Top.idx
           s == [Pop2 EXCEPT ![i].own = Under.own]
<1>1. /\ HasValue /\ mode = "run" /\ Top.kind = "ident" /\ Len(stack) > 1
      /\ Under.kind = "rhs"
      /\ stack' = Push(s, Drop(Loaded(Top))) /\ UNCHANGED <<rc, state, field, ret, mode>>
  BY DEF AssignVar, UnderIs, HasValue
<1>2. Top.own = None
  BY <1>1, TopFacts DEF CountInv, Shape, Top
<1>3. /\ i \in 1..Len(Pop2) /\ Loaded(Top) = Pop2[i].own
      /\ Pop2[i].own \in Obj \cup {None} /\ Pop2[i].kind = "var"
      /\ s \in Seq(Cell) /\ Len(s) = Len(Pop2) /\ s[i].own = Under.own
      /\ \A j \in 1..Len(s) : /\ s[j].kind = Pop2[j].kind
                              /\ s[j].at = Pop2[j].at
                              /\ s[j].idx = Pop2[j].idx
                              /\ j # i => s[j] = Pop2[j]
  BY AssignVarShape DEF CountInv, Shaped
<1>4. /\ Neat(Pop2, Live) /\ Pop2 \in Seq(Cell) /\ Len(Pop2) \in Nat
      /\ \A o : Held(Pop2, o) = Held(stack, o) - Is(Top.own, o) - Is(Under.own, o)
      /\ \A o : Held(stack, o) \in Nat
      /\ \A o, p : Is(p, o) \in {0, 1}
  BY <1>1, PopPlace, LenProperties DEF Neat
<1> HIDE DEF s, i
<1>5. Neat(s, Live)
  <2>1. ASSUME NEW j \in 1..Len(s)
        PROVE  Tidy(s[j], Live)
    <3>1. Tidy(Pop2[j], Live)
      BY <1>3, <1>4 DEF Neat
    <3> QED
      BY <1>3, <3>1 DEF Tidy
  <2>2. ASSUME NEW j \in 1..(Len(s) - 1)
        PROVE  Waits(s, j)
    <3>1. Waits(Pop2, j) /\ j \in 1..Len(s) /\ j + 1 \in 1..Len(s)
      BY <1>3, <1>4 DEF Neat
    <3>2. CASE j = i
      BY <1>3, <3>1, <3>2 DEF Waits, ValueKind
    <3>3. CASE j # i
      BY <1>3, <3>1, <3>3 DEF Waits
    <3> QED
      BY <3>2, <3>3
  <2> QED
    BY <1>3, <2>1, <2>2 DEF Neat
<1>6. \A o : Held(s, o) = Held(Pop2, o) - Is(Loaded(Top), o) + Is(Under.own, o)
  <2> DEFINE p == Pop2
  <2>1. /\ p \in Seq(Cell) /\ i \in 1..Len(p) /\ Len(s) = Len(p) /\ s \in Seq(Cell)
        /\ \A j \in 1..Len(p) : j # i => s[j] = p[j]
        /\ p[i].own = Loaded(Top) /\ s[i].own = Under.own
    BY <1>3, <1>4
  <2> HIDE DEF p
  <2>2. \A o : Held(s, o) = Held(p, o) - Is(p[i].own, o) + Is(s[i].own, o)
    BY <2>1, HeldUpdate
  <2> QED
    BY <2>1, <2>2 DEF p
<1>7. /\ Neat(stack', Live)
      /\ \A o : Held(stack', o) = Held(s, o) + Is(Loaded(Top), o)
  BY <1>1, <1>3, <1>5, NeatDrop
<1>8. \A o \in Obj : Held(stack', o) = Held(stack, o)
  BY <1>2, <1>4, <1>6, <1>7, IsNone
<1> QED
  BY <1>1, <1>7, <1>8, RunKept

LEMMA LeaveKept ==
    ASSUME CountInv, Forms = {}, LeaveScope \/ ReturnVoid
    PROVE  Kept
<1>1. /\ mode = "run" /\ Len(stack) > 0 /\ ret = None /\ Neat(stack, Live)
      /\ UNCHANGED <<stack, rc, state, field, ret>>
  BY DEF LeaveScope, ReturnVoid, TopIs, CountInv, Moded
<1>2. CASE LeaveScope
  BY <1>1, <1>2, RunKept DEF LeaveScope
<1>3. CASE ReturnVoid
  <2>1. /\ CurFrame \in 1..Len(stack) /\ stack[CurFrame].kind = "frame"
        /\ Len(stack) \in Nat /\ DOMAIN stack = 1..Len(stack)
    BY <1>1, CurFrameFacts, TopFacts, LenProperties DEF CountInv
  <2>2. \A i \in DOMAIN stack : ~(i > CurFrame /\ stack[i].kind = "scope" /\ stack[i].own # None)
    BY <1>3 DEF ReturnVoid, SafeReturn
  <2>3. Unwinds(stack, ret)
    <3> SUFFICES ASSUME NEW i \in 1..Len(stack), stack[i].kind = "scope", stack[i].own # None
                 PROVE  \E j \in (i + 1)..Len(stack) : stack[j].kind = "frame"
      BY <1>1 DEF Unwinds
    <3>1. CurFrame \in (i + 1)..Len(stack)
      BY <2>1, <2>2
    <3> QED
      BY <2>1, <3>1
  <2>4. Moded'
    BY <1>1, <1>3, <2>3 DEF Moded, Unwinds, ReturnVoid
  <2>5. \A o \in Obj : Held(stack', o) \in Nat
    BY <1>1, HeldType DEF Neat
  <2>6. Quiet /\ Live' = Live
    BY <1>1, <2>5, MovesQuietly DEF CountInv, Live
  <2> QED
    BY <1>1, <2>4, <2>6 DEF Kept, Effect
<1> QED
  BY <1>2, <1>3

LEMMA ReturnValueKept ==
    ASSUME CountInv, Forms = {}, ReturnValue
    PROVE  Kept
<1>1. /\ HasValue /\ SafeCopy(Top) /\ SafeReturn /\ mode = "run" /\ ret = None
      /\ stack[CurFrame].own = None /\ (stack[CurFrame].idx = 1 => Top.kind = "int")
  BY DEF ReturnValue, StmtValue, HasValue, CountInv, Moded
<1>2. CASE CopyTouches(Top) \subseteq Live
  <2>1. /\ stack' = Push(Pop(stack), Drop(BaseOf(Top)))
        /\ rc' = Copied(Top) /\ ret' = Loaded(Top) /\ mode' = "unwind"
        /\ UNCHANGED <<state, field>>
    BY <1>2 DEF ReturnValue, Touch
  <2>2. BaseOf(Top) \in Obj \cup {None}
    BY <1>1, TopValue DEF CountInv
  <2>3. /\ Neat(stack', Live)
        /\ \A o : Held(stack', o) = Held(stack, o) - Is(Top.own, o) + Is(BaseOf(Top), o)
    BY <1>1, <2>1, <2>2, ValueToDrop
  <2>4. /\ \A o \in Obj : Held(stack', o) \in Nat /\ Held(stack, o) \in Nat
        /\ \A o, p : Is(p, o) \in {0, 1}
    BY <2>3, HeldType DEF Neat, CountInv, Is
  <2>5. \A o \in Obj : Held(stack', o) + Is(ret', o)
                        = Held(stack, o) + Is(ret, o) - Is(Top.own, o)
                          + Is(Loaded(Top), o) + Is(BaseOf(Top), o)
    BY <1>1, <2>1, <2>3, <2>4, IsNone
  <2>6. Effect /\ Live' = Live
    BY <1>1, <1>2, <2>1, <2>4, <2>5, CopyEffect DEF CountInv, Live
  <2>7. /\ CurFrame \in 1..Len(stack) /\ stack[CurFrame].kind = "frame"
        /\ \A j \in 1..Len(stack) : stack[j].kind = "frame" => j <= CurFrame
        /\ Len(stack) \in Nat /\ DOMAIN stack = 1..Len(stack) /\ stack \in Seq(Cell)
        /\ Len(stack) > 0 /\ Top.kind \notin {"frame", "scope"}
    BY <1>1, CurFrameFacts, TopFacts, LenProperties DEF CountInv, HasValue, TopIs, ValueKind
  <2>8. /\ Len(stack') = Len(stack)
        /\ \A j \in 1..(Len(stack) - 1) : stack'[j] = stack[j]
        /\ stack'[Len(stack)].kind = "drop"
    <3> DEFINE p == Pop(stack)
               d == Drop(BaseOf(Top))
    <3>1. d \in Cell /\ d.kind = "drop"
      BY <2>2, CellFacts, NoneAssumption DEF Drop
    <3>2. /\ p \in Seq(Cell) /\ Len(p) = Len(stack) - 1
          /\ \A j \in 1..(Len(stack) - 1) : p[j] = stack[j]
      BY <2>7, PopFacts
    <3> HIDE DEF p, d
    <3>3. /\ Len(Push(p, d)) = Len(p) + 1 /\ Push(p, d)[Len(p) + 1] = d
          /\ \A j \in 1..Len(p) : Push(p, d)[j] = p[j]
      BY <3>1, <3>2, PushFacts
    <3>4. Len(p) + 1 = Len(stack)
      BY <2>7, <3>2
    <3>5. /\ Len(Push(p, d)) = Len(stack)
          /\ \A j \in 1..(Len(stack) - 1) : Push(p, d)[j] = stack[j]
          /\ Push(p, d)[Len(stack)].kind = "drop"
      BY <3>1, <3>2, <3>3, <3>4
    <3> QED
      BY <2>1, <3>5 DEF p, d
  <2>9. CurFrame \in 1..(Len(stack) - 1)
    BY <2>7 DEF Top
  <2>10. ASSUME NEW i \in 1..Len(stack'), stack'[i].kind = "scope", stack'[i].own # None
         PROVE  \E j \in (i + 1)..Len(stack') : stack'[j].kind = "frame"
    <3>1. i \in 1..(Len(stack) - 1) /\ stack'[i] = stack[i]
      BY <2>7, <2>8, <2>10
    <3>2. ~(i > CurFrame)
      BY <1>1, <2>7, <2>10, <3>1 DEF SafeReturn
    <3>3. CurFrame \in (i + 1)..Len(stack')
      BY <2>7, <2>8, <2>9, <2>10, <3>1, <3>2
    <3> QED
      BY <2>7, <2>8, <2>9, <3>3
  <2>11. ASSUME ret' # None
         PROVE  \E i \in 1..Len(stack') :
                  /\ stack'[i].kind = "frame" /\ stack'[i].own = None /\ stack'[i].idx # 1
                  /\ \A j \in (i + 1)..Len(stack') : stack'[j].kind # "frame"
    <3>1. stack[CurFrame].idx # 1
      BY <1>1, <2>1, <2>11 DEF Loaded
    <3>2. \A j \in (CurFrame + 1)..Len(stack') : stack'[j].kind # "frame"
      BY <2>7, <2>8, <2>9
    <3>3. stack'[CurFrame] = stack[CurFrame] /\ CurFrame \in 1..Len(stack')
      BY <2>7, <2>8, <2>9
    <3> QED
      BY <1>1, <2>7, <3>1, <3>2, <3>3
  <2>12. Moded'
    BY <2>1, <2>10, <2>11 DEF Moded, Unwinds
  <2> QED
    BY <2>3, <2>6, <2>12 DEF Kept
<1>3. CASE ~(CopyTouches(Top) \subseteq Live)
  BY <1>3, FaultKept DEF ReturnValue, Touch
<1> QED
  BY <1>2, <1>3

LEMMA StatementKept ==
    ASSUME CountInv, Forms = {}, Statement
    PROVE  Kept
<1>1. ASSUME EnterBlock PROVE Kept
  <2>1. Fresh(Scope(None)) /\ Scope(None).own = None
    BY NoneCell, FreshCells
  <2>2. Eval(Scope(None))
    BY <1>1 DEF EnterBlock, Eval
  <2> QED
    BY <2>1, <2>2, EvalKept
<1> QED
  BY <1>1, ValueStatementKept, CopyStatementKept, AssignFieldKept, AssignVarKept,
     LeaveKept, ReturnValueKept DEF Statement

-----------------------------------------------------------------------------
(* Destruction *)

LEMMA UnwindsPop ==
    ASSUME NEW s \in Seq(Cell), NEW r, Len(s) > 0, s[Len(s)].kind # "frame", Unwinds(s, r)
    PROVE  Unwinds(Pop(s), r)
<1> DEFINE p == Pop(s)
<1>1. /\ p \in Seq(Cell) /\ Len(s) \in Nat /\ Len(p) = Len(s) - 1
      /\ \A i \in 1..Len(p) : p[i] = s[i]
  BY PopFacts, LenProperties
<1> HIDE DEF p
<1>2. ASSUME NEW i \in 1..Len(p), p[i].kind = "scope", p[i].own # None
      PROVE  \E j \in (i + 1)..Len(p) : p[j].kind = "frame"
  <2>1. PICK j \in (i + 1)..Len(s) : s[j].kind = "frame"
    BY <1>1, <1>2 DEF Unwinds
  <2>2. j # Len(s)
    BY <2>1
  <2>3. j \in (i + 1)..Len(p) /\ j \in 1..Len(p)
    BY <1>1, <2>1, <2>2
  <2> QED
    BY <1>1, <2>1, <2>3
<1>3. ASSUME r # None
      PROVE  \E i \in 1..Len(p) : /\ p[i].kind = "frame" /\ p[i].own = None /\ p[i].idx # 1
                                 /\ \A j \in (i + 1)..Len(p) : p[j].kind # "frame"
  <2>1. PICK i \in 1..Len(s) : /\ s[i].kind = "frame" /\ s[i].own = None /\ s[i].idx # 1
                              /\ \A j \in (i + 1)..Len(s) : s[j].kind # "frame"
    BY <1>3 DEF Unwinds
  <2>2. i # Len(s)
    BY <2>1
  <2>3. i \in 1..Len(p)
    BY <1>1, <2>2
  <2>4. \A j \in (i + 1)..Len(p) : p[j].kind # "frame"
    BY <1>1, <2>1
  <2> QED
    BY <1>1, <2>1, <2>3, <2>4
<1>4. Unwinds(p, r)
  BY <1>2, <1>3 DEF Unwinds
<1> QED
  BY <1>4 DEF p

LEMMA UnwindsPush ==
    ASSUME NEW s \in Seq(Cell), NEW r, NEW c \in Cell, c.kind \in {"drop", "free"},
           Unwinds(s, r)
    PROVE  Unwinds(Push(s, c), r)
<1> DEFINE t == Push(s, c)
<1>1. /\ t \in Seq(Cell) /\ Len(s) \in Nat /\ Len(t) = Len(s) + 1
      /\ t[Len(s) + 1] = c /\ \A i \in 1..Len(s) : t[i] = s[i]
  BY PushFacts, LenProperties
<1> HIDE DEF t
<1>2. ASSUME NEW i \in 1..Len(t), t[i].kind = "scope", t[i].own # None
      PROVE  \E j \in (i + 1)..Len(t) : t[j].kind = "frame"
  <2>1. i \in 1..Len(s)
    BY <1>1, <1>2
  <2>2. PICK j \in (i + 1)..Len(s) : s[j].kind = "frame"
    BY <1>1, <1>2, <2>1 DEF Unwinds
  <2>3. j \in (i + 1)..Len(t) /\ j \in 1..Len(s)
    BY <1>1, <2>1, <2>2
  <2> QED
    BY <1>1, <2>2, <2>3
<1>3. ASSUME r # None
      PROVE  \E i \in 1..Len(t) : /\ t[i].kind = "frame" /\ t[i].own = None /\ t[i].idx # 1
                                 /\ \A j \in (i + 1)..Len(t) : t[j].kind # "frame"
  <2>1. PICK i \in 1..Len(s) : /\ s[i].kind = "frame" /\ s[i].own = None /\ s[i].idx # 1
                              /\ \A j \in (i + 1)..Len(s) : s[j].kind # "frame"
    BY <1>3 DEF Unwinds
  <2>2. i \in 1..Len(t) /\ t[i] = s[i]
    BY <1>1
  <2>3. \A j \in (i + 1)..Len(t) : t[j].kind # "frame"
    BY <1>1, <2>1
  <2> QED
    BY <2>1, <2>2, <2>3
<1>4. Unwinds(t, r)
  BY <1>2, <1>3 DEF Unwinds
<1> QED
  BY <1>4 DEF t

LEMMA UnwindsDrop ==
    ASSUME NEW s \in Seq(Cell), NEW r, NEW p \in Obj \cup {None}, Unwinds(s, r)
    PROVE  Unwinds(Push(s, Drop(p)), r) /\ Push(s, Drop(p)) \in Seq(Cell)
<1>1. Drop(p) \in Cell /\ Drop(p).kind = "drop"
  BY DEF Drop, MkCell, Cell
<1> QED
  BY <1>1, UnwindsPush, PushFacts

\* Destruction keeps the mode, or stops the machine, or a scope's end is reached.
LEMMA ModedClean ==
    ASSUME CountInv, ret' = ret,
           mode' \in {mode, "fault"} \/ (mode = "leave" /\ mode' = "run"),
           mode = "unwind" => Unwinds(stack', ret)
    PROVE  Moded'
<1>1. mode' = "unwind" => Unwinds(stack', ret')
  BY DEF CountInv, Moded
<1>2. mode' \in {"run", "leave"} => ret' = None
  BY DEF CountInv, Moded
<1> QED
  BY <1>1, <1>2 DEF Moded, Unwinds

LEMMA CleanKept ==
    ASSUME CountInv, UNCHANGED <<rc, state, field, ret>>,
           mode' \in {mode, "fault"} \/ (mode = "leave" /\ mode' = "run"),
           mode = "unwind" => Unwinds(stack', ret),
           Neat(stack', Live), \A o \in Obj : Held(stack', o) = Held(stack, o)
    PROVE  Kept
<1>1. Moded' /\ Live' = Live
  BY ModedClean DEF Live
<1>2. \A o \in Obj : Held(stack', o) \in Nat
  BY HeldType DEF Neat
<1>3. Quiet
  BY <1>2, MovesQuietly DEF CountInv
<1> QED
  BY <1>1, <1>3 DEF Kept, Effect

LEMMA CleanFacts ==
    ASSUME CountInv, Len(stack) > 0
    PROVE  /\ stack \in Seq(Cell) /\ Pop(stack) \in Seq(Cell) /\ Len(stack) \in Nat
           /\ Top \in Cell /\ Top.own \in Obj \cup {None} /\ Tidy(Top, Live)
           /\ Neat(Pop(stack), Live)
           /\ \A o : Held(Pop(stack), o) = Held(stack, o) - Is(Top.own, o)
           /\ \A o : Held(stack, o) \in Nat
           /\ \A o, p : Is(p, o) \in {0, 1}
           /\ mode = "unwind" /\ Top.kind # "frame" => Unwinds(Pop(stack), ret)
<1>1. stack \in Seq(Cell) /\ Len(stack) \in Nat /\ Len(stack) \in 1..Len(stack) /\ Top \in Cell
  BY TopFacts DEF CountInv
<1>2. Tidy(Top, Live)
  BY <1>1 DEF CountInv, Neat, Top
<1>3. mode = "unwind" /\ Top.kind # "frame" => Unwinds(Pop(stack), ret)
  BY <1>1, UnwindsPop DEF CountInv, Moded, Top
<1> QED
  BY <1>1, <1>2, <1>3, NeatPopTop, PopFacts, HeldType DEF Cell, Is

LEMMA PopKept ==
    ASSUME CountInv, PopVar \/ PopScope \/ DropNothing
    PROVE  Kept
<1> DEFINE s == Pop(stack)
<1>1. Len(stack) > 0 /\ Top.kind \in {"var", "scope", "drop"} /\ UNCHANGED <<rc, state, field, ret>>
  BY DEF PopVar, PopScope, DropNothing, TopIs
<1>2. /\ s \in Seq(Cell) /\ Neat(s, Live) /\ Top.own \in Obj \cup {None}
      /\ Tidy(Top, Live)
      /\ \A o : Held(s, o) = Held(stack, o) - Is(Top.own, o)
      /\ \A o : Held(stack, o) \in Nat
      /\ \A o, p : Is(p, o) \in {0, 1}
      /\ mode = "unwind" => Unwinds(s, ret)
  BY <1>1, CleanFacts
<1>3. CASE PopVar
  <2> DEFINE t == Push(s, Drop(None))
  <2>1. Top.at = None
    BY <1>2, <1>3 DEF PopVar, TopIs, Tidy
  <2>2. stack' = Push(t, Drop(Top.own)) /\ mode' = mode
    BY <1>3, <2>1 DEF PopVar
  <2> HIDE DEF s
  <2>3. /\ Neat(t, Live) /\ \A o : Held(t, o) = Held(s, o) + Is(None, o)
        /\ mode = "unwind" => Unwinds(t, ret)
        /\ t \in Seq(Cell)
    BY <1>2, NoneCell, NeatDrop, UnwindsDrop DEF Neat
  <2> HIDE DEF t
  <2> DEFINE w == Push(t, Drop(Top.own))
  <2>4. /\ Neat(w, Live) /\ \A o : Held(w, o) = Held(t, o) + Is(Top.own, o)
        /\ mode = "unwind" => Unwinds(w, ret)
    BY <1>2, <2>3, NeatDrop, UnwindsDrop
  <2>5. \A o \in Obj : Held(stack', o) = Held(stack, o)
    BY <1>2, <2>2, <2>3, <2>4, IsNone
  <2> QED
    BY <1>1, <2>2, <2>4, <2>5, CleanKept
<1>4. CASE PopScope /\ mode = "leave"
  <2>1. stack' = Push(s, Drop(Top.own)) /\ mode' = "run"
    BY <1>4 DEF PopScope
  <2> HIDE DEF s
  <2>2. Neat(stack', Live) /\ \A o : Held(stack', o) = Held(s, o) + Is(Top.own, o)
    BY <1>2, <2>1, NeatDrop
  <2>3. \A o \in Obj : Held(stack', o) = Held(stack, o)
    BY <1>2, <2>2
  <2> QED
    BY <1>1, <1>4, <2>1, <2>2, <2>3, CleanKept
<1>5. CASE PopScope /\ mode = "unwind"
  <2>1. stack' = s /\ mode' = mode /\ Top.kind = "scope"
    BY <1>5 DEF PopScope, TopIs
  <2>2. Top.own = None
    <3> SUFFICES ASSUME Top.own # None PROVE FALSE
      OBVIOUS
    <3>1. Len(stack) \in 1..Len(stack) /\ Len(stack) \in Nat
      BY <1>1, TopFacts DEF CountInv
    <3>2. \E j \in (Len(stack) + 1)..Len(stack) : stack[j].kind = "frame"
      BY <1>5, <2>1, <3>1 DEF CountInv, Moded, Unwinds, Top
    <3> QED
      BY <3>1, <3>2
  <2>3. \A o \in Obj : Held(stack', o) = Held(stack, o)
    BY <1>2, <2>1, <2>2, IsNone
  <2> QED
    BY <1>1, <1>2, <1>5, <2>1, <2>3, CleanKept
<1>6. CASE DropNothing
  <2>1. stack' = s /\ mode' = mode /\ Top.own = None
    BY <1>6 DEF DropNothing
  <2>2. \A o \in Obj : Held(stack', o) = Held(stack, o)
    BY <1>2, <2>1, IsNone
  <2> QED
    BY <1>1, <1>2, <2>1, <2>2, CleanKept
<1> QED
  BY <1>3, <1>4, <1>5, <1>6 DEF PopScope

LEMMA NeatShrinks ==
    ASSUME NEW s, NEW L, NEW M, Neat(s, L), M \subseteq L
    PROVE  Neat(s, M)
  BY DEF Neat, Tidy

LEMMA DtorKept ==
    ASSUME CountInv, Dtor
    PROVE  Kept
<1> DEFINE d == Top.own
           s == Pop(stack)
<1>1. Len(stack) > 0 /\ Top.kind = "drop" /\ d # None
  BY DEF Dtor, TopIs
<1>2. /\ s \in Seq(Cell) /\ Neat(s, Live) /\ d \in Obj
      /\ \A o : Held(s, o) = Held(stack, o) - Is(d, o)
      /\ \A o : Held(stack, o) \in Nat
      /\ \A o, p : Is(p, o) \in {0, 1}
      /\ mode = "unwind" => Unwinds(s, ret)
  BY <1>1, CleanFacts
<1>3. /\ rc \in [Obj -> Nat] /\ state \in [Obj -> {"free", "live", "dying"}]
      /\ field \in [Obj -> Obj \cup {None}]
  BY DEF CountInv, TypeInv, TypeOK
<1>4. CASE d \notin Live
  BY <1>4, FaultKept DEF Dtor, Touch
<1>5. CASE d \in Live /\ rc[d] - 1 # 0
  <2>1. /\ rc' = [rc EXCEPT ![d] = @ - 1] /\ stack' = s
        /\ UNCHANGED <<state, field, ret, mode>>
    BY <1>5 DEF Dtor, Touch
  <2>2. Live' = Live
    BY <2>1 DEF Live
  <2>3. Moded'
    BY <1>2, <2>1, ModedClean
  <2>4. ASSUME NEW o \in Obj
        PROVE  Owners(o)' = Owners(o) - Is(d, o)
    <3>1. /\ Owners(o) = Held(stack, o) + Cardinality(FieldsOf(o)) + Is(ret, o)
          /\ Cardinality(FieldsOf(o)) \in Nat
      BY OwnersSum DEF CountInv
    <3>2. Owners(o)' = Held(stack', o) + Cardinality(FieldsOf(o)) + Is(ret', o)
      BY <2>1, StackOwners DEF CountInv
    <3>3. Held(stack', o) = Held(stack, o) - Is(d, o) /\ Is(ret', o) = Is(ret, o)
      BY <1>2, <2>1
    <3> HIDE DEF d, s
    <3> QED
      BY <1>2, <3>1, <3>2, <3>3
  <2>5. rc[d] # 1
    BY <1>2, <1>3, <1>5
  <2>6. Ends(d)
    BY <1>5, <2>1, <2>2, <2>4, <2>5 DEF Ends
  <2>7. Neat(stack', Live')
    BY <1>2, <2>1, <2>2
  <2> QED
    BY <1>2, <2>3, <2>6, <2>7 DEF Kept, Effect
<1>6. CASE d \in Live /\ rc[d] - 1 = 0
  <2> DEFINE f == MkCell("free", None, d, 0)
             t == Push(s, f)
             q == field[d]
             M == Live \ {d}
  <2>1. /\ state' = [state EXCEPT ![d] = "dying"]
        /\ stack' = Push(t, Drop(q))
        /\ mode' \in {"fault", mode}
        /\ UNCHANGED <<rc, field, ret>>
    BY <1>6 DEF Dtor, Touch
  <2>2. Live' = M
    BY <1>2, <1>3, <2>1 DEF Live
  <2>3. f \in Cell /\ f.kind = "free" /\ f.own = None /\ f.at = d /\ q \in Obj \cup {None}
    BY <1>2, <1>3 DEF MkCell, Cell
  <2>4. Tidy(f, M)
    BY <2>3 DEF Tidy
  <2> HIDE DEF f, s, q, d
  <2>5. Neat(s, M)
    BY <1>2, NeatShrinks
  <2> HIDE DEF M
  <2>6. /\ Neat(t, M) /\ t \in Seq(Cell)
        /\ \A o : Held(t, o) = Held(s, o) + Is(None, o)
        /\ mode = "unwind" => Unwinds(t, ret)
    BY <1>2, <2>3, <2>4, <2>5, NeatPush, UnwindsPush DEF Neat
  <2> HIDE DEF t
  <2> DEFINE w == Push(t, Drop(q))
  <2>7. /\ Neat(w, M)
        /\ \A o : Held(w, o) = Held(t, o) + Is(q, o)
        /\ mode = "unwind" => Unwinds(w, ret)
    <3>1. Neat(w, M) /\ \A o : Held(w, o) = Held(t, o) + Is(q, o)
      BY <2>3, <2>6, NeatDrop
    <3>2. mode = "unwind" => Unwinds(w, ret)
      BY <2>3, <2>6, UnwindsDrop
    <3> QED
      BY <3>1, <3>2
  <2>8. \A o \in Obj : Held(stack', o) = Held(stack, o) - Is(d, o) + Is(q, o)
    BY <1>2, <2>1, <2>6, <2>7, IsNone
  <2>9. Moded'
    BY <2>1, <2>7, ModedClean
  <2>10. ASSUME NEW o \in Obj
         PROVE  Owners(o)' = Owners(o) - Is(d, o)
    <3>1. /\ Owners(o) = Held(stack, o) + Cardinality(FieldsOf(o)) + Is(ret, o)
          /\ Cardinality(FieldsOf(o)) \in Nat /\ IsFiniteSet(FieldsOf(o))
      BY OwnersSum DEF CountInv
    <3>2. Owners(o)' = Held(stack', o) + Cardinality(FieldsOf(o)') + Is(ret, o)
      BY <2>1 DEF Owners, CellsOf, Held, Is
    <3>3. FieldsOf(o)' = FieldsOf(o) \ {d}
      BY <2>1, <2>2 DEF FieldsOf, M
    <3>4. Cardinality(FieldsOf(o) \ {d})
            = IF d \in FieldsOf(o) THEN Cardinality(FieldsOf(o)) - 1
                                   ELSE Cardinality(FieldsOf(o))
      BY <3>1, FS_RemoveElement
    <3>5. d \in FieldsOf(o) <=> q = o
      BY <1>6 DEF FieldsOf, q
    <3>6. Cardinality(FieldsOf(o)') = Cardinality(FieldsOf(o)) - Is(q, o)
      BY <3>1, <3>3, <3>4, <3>5 DEF Is
    <3> QED
      BY <1>2, <2>8, <3>1, <3>2, <3>6
  <2>11. rc[d] = 1
    BY <1>2, <1>3, <1>6
  <2>12. Ends(d)
    BY <1>6, <2>1, <2>2, <2>10, <2>11 DEF Ends, M, d
  <2> QED
    BY <1>2, <2>1, <2>2, <2>7, <2>9, <2>12 DEF Kept, Effect
<1> QED
  BY <1>4, <1>5, <1>6

LEMMA FreeKept ==
    ASSUME CountInv, Free
    PROVE  Kept
<1>1. /\ Len(stack) > 0 /\ Top.kind = "free" /\ stack' = Pop(stack)
      /\ state' = [state EXCEPT ![Top.at] = "free"] /\ UNCHANGED <<rc, field, ret, mode>>
  BY DEF Free, TopIs
<1>2. /\ Neat(Pop(stack), Live) /\ Tidy(Top, Live)
      /\ \A o : Held(Pop(stack), o) = Held(stack, o) - Is(Top.own, o)
      /\ \A o : Held(stack, o) \in Nat
      /\ \A o, p : Is(p, o) \in {0, 1}
      /\ mode = "unwind" => Unwinds(Pop(stack), ret)
  BY <1>1, CleanFacts
<1>3. Top.own = None /\ Top.at \notin Live
  BY <1>1, <1>2 DEF Tidy
<1>4. Live' = Live
  BY <1>1, <1>3 DEF Live, CountInv, TypeInv, TypeOK
<1>5. Moded'
  BY <1>1, <1>2, ModedClean
<1>6. ASSUME NEW o \in Obj
      PROVE  Owners(o)' = Owners(o)
  <2>1. /\ Owners(o) = Held(stack, o) + Cardinality(FieldsOf(o)) + Is(ret, o)
    BY OwnersSum DEF CountInv
  <2>2. Owners(o)' = Held(stack', o) + Cardinality(FieldsOf(o)') + Is(ret, o)
    BY <1>1 DEF Owners, CellsOf, Held, Is
  <2>3. FieldsOf(o)' = FieldsOf(o)
    BY <1>1, <1>4 DEF FieldsOf
  <2>4. Held(stack', o) = Held(stack, o)
    BY <1>1, <1>2, <1>3, IsNone
  <2> QED
    BY <2>1, <2>2, <2>3, <2>4
<1>7. Quiet
  BY <1>1, <1>4, <1>6 DEF Quiet
<1>8. Neat(stack', Live')
  BY <1>1, <1>2, <1>4
<1> QED
  BY <1>5, <1>7, <1>8 DEF Kept, Effect

-----------------------------------------------------------------------------
(* The program's own steps *)

LEMMA EndMainKept ==
    ASSUME CountInv, EndMain
    PROVE  Kept
<1>1. /\ mode = "unwind" /\ mode' = mode /\ Len(stack) > 0 /\ Top.kind = "frame" /\ Top.idx = 1
      /\ stack' = Pop(stack) /\ UNCHANGED <<rc, state, field, ret>>
  BY DEF EndMain, TopIs
<1>2. /\ stack \in Seq(Cell) /\ Len(stack) \in Nat /\ Neat(Pop(stack), Live) /\ Tidy(Top, Live)
      /\ \A o : Held(Pop(stack), o) = Held(stack, o) - Is(Top.own, o)
      /\ \A o : Held(stack, o) \in Nat
  BY <1>1, CleanFacts
<1>3. Top.own = None
  BY <1>1, <1>2 DEF Tidy
<1>4. ret = None
  <2> SUFFICES ASSUME ret # None PROVE FALSE
    OBVIOUS
  <2>1. PICK i \in 1..Len(stack) :
           /\ stack[i].idx # 1
           /\ \A j \in (i + 1)..Len(stack) : stack[j].kind # "frame"
    BY <1>1 DEF CountInv, Moded, Unwinds
  <2>2. i = Len(stack)
    BY <1>1, <1>2, <2>1 DEF Top
  <2> QED
    BY <1>1, <2>1, <2>2 DEF Top
<1>5. \A j \in 1..(Len(stack) - 1) : stack[j].kind # "scope"
  BY <1>1, TopFacts DEF CountInv, Shape, Top
<1>6. Unwinds(stack', ret)
  <2> DEFINE p == Pop(stack)
  <2>1. Len(p) = Len(stack) - 1 /\ \A j \in 1..(Len(stack) - 1) : p[j] = stack[j]
    BY <1>1, <1>2, PopFacts
  <2> HIDE DEF p
  <2>2. Unwinds(p, ret)
    BY <1>4, <1>5, <2>1 DEF Unwinds
  <2> QED
    BY <1>1, <2>2 DEF p
<1>7. \A o \in Obj : Held(stack', o) = Held(stack, o)
  BY <1>1, <1>2, <1>3, IsNone
<1>8. Neat(stack', Live)
  BY <1>1, <1>2
<1> QED
  BY <1>1, <1>6, <1>7, <1>8, CleanKept

LEMMA ExitKept ==
    ASSUME CountInv, Exit
    PROVE  Kept
<1>1. /\ Len(stack) = 1 /\ stack' = <<>> /\ mode' = "done"
      /\ UNCHANGED <<rc, state, field, ret>>
  BY DEF Exit
<1>2. /\ stack \in Seq(Cell) /\ Top.own = None
  BY <1>1, TopFacts DEF CountInv, Base, MkCell, Top
<1>3. Pop(stack) = <<>>
  BY <1>1, <1>2, PopFacts, EmptySeq
<1>4. /\ Neat(stack', Live)
      /\ \A o : Held(stack', o) = Held(stack, o) - Is(None, o)
  BY <1>1, <1>2, <1>3, NeatPopTop
<1>5. \A o \in Obj : Held(stack', o) \in Nat /\ Held(stack, o) \in Nat
  BY <1>4, HeldType DEF Neat, CountInv
<1>6. \A o \in Obj : Held(stack', o) + Is(ret', o) = Held(stack, o) + Is(ret, o)
  BY <1>1, <1>4, <1>5, IsNone
<1>7. Quiet
  BY <1>1, <1>5, <1>6, MovesQuietly DEF CountInv
<1>8. Moded' /\ Live' = Live
  BY <1>1 DEF Moded, Live
<1> QED
  BY <1>4, <1>7, <1>8 DEF Kept, Effect

LEMMA ProgramKept ==
    ASSUME CountInv, Program
    PROVE  Kept
<1>1. ASSUME CallMain PROVE Kept
  <2> DEFINE c == MkCell("frame", None, None, 1)
  <2>1. /\ mode = "run" /\ Len(stack) > 0 /\ Top.kind \in {"frame", "var"}
        /\ stack' = Push(stack, c) /\ UNCHANGED <<rc, state, field, ret, mode>>
    BY <1>1 DEF CallMain, TopIs
  <2>2. c \in Cell /\ c.own = None /\ Tidy(c, Live)
    BY DEF Tidy, MkCell, Cell, ExprPlace, StmtPlace
  <2>3. Settled(stack) /\ Neat(stack, Live)
    BY <2>1 DEF Settled, Top, ValueKind, CountInv
  <2> HIDE DEF c
  <2>4. Neat(stack', Live) /\ \A o : Held(stack', o) = Held(stack, o) + Is(None, o)
    BY <2>1, <2>2, <2>3, NeatPush
  <2>5. \A o \in Obj : Held(stack', o) = Held(stack, o)
    BY <2>1, <2>4, IsNone, CleanFacts
  <2> QED
    BY <2>1, <2>4, <2>5, RunKept
<1>2. ASSUME OutOfMemory PROVE Kept
  <2>1. mode = "run" /\ mode' = "oom" /\ UNCHANGED <<stack, rc, state, field, ret>>
    BY <1>2 DEF OutOfMemory
  <2> QED
    BY <2>1, RunKept DEF CountInv
<1> QED
  BY <1>1, <1>2, EndMainKept, ExitKept DEF Program

-----------------------------------------------------------------------------
(* The counts are exact *)

LEMMA NextKept ==
    ASSUME CountInv, TypeInv', Forms = {}, [Next]_vars
    PROVE  Kept
<1>1. ASSUME Destruction PROVE Kept
  BY <1>1, PopKept, DtorKept, FreeKept DEF Destruction
<1>2. ASSUME Stopped \/ UNCHANGED vars PROVE Kept
  <2>1. UNCHANGED <<stack, rc, state, field, ret, mode>>
    BY <1>2 DEF Stopped, vars
  <2>2. mode = "unwind" => Unwinds(stack', ret)
    BY <2>1 DEF CountInv, Moded
  <2> QED
    BY <2>1, <2>2, CleanKept DEF CountInv
<1> QED
  BY <1>1, <1>2, ExpressionKept, CallKept, StatementKept, ProgramKept DEF Next

\* Whatever a step does to owners, it does to the stored counts.
LEMMA ExactStep ==
    ASSUME TypeInv, CountExact, Effect
    PROVE  CountExact'
<1> rc \in [Obj -> Nat] /\ Live \subseteq Obj
  BY DEF TypeInv, TypeOK, Live
<1> SUFFICES ASSUME NEW o \in Obj
             PROVE  Owners(o)' = IF o \in Live' THEN rc'[o] ELSE 0
  BY DEF CountExact
<1>1. Owners(o) = IF o \in Live THEN rc[o] ELSE 0
  BY DEF CountExact
<1>2. CASE Quiet
  BY <1>1, <1>2 DEF Quiet
<1>3. ASSUME NEW l \in Obj, Shares(l) \/ Makes(l) \/ Ends(l)
      PROVE  Owners(o)' = IF o \in Live' THEN rc'[o] ELSE 0
  <2>1. CASE o = l
    <3>1. Is(l, o) = 1
      BY <2>1 DEF Is
    <3>2. CASE Shares(l)
      BY <1>1, <2>1, <3>1, <3>2 DEF Shares
    <3>3. CASE Makes(l)
      BY <1>1, <2>1, <3>1, <3>3 DEF Makes
    <3>4. CASE Ends(l)
      BY <1>1, <2>1, <3>1, <3>4 DEF Ends
    <3> QED
      BY <1>3, <3>2, <3>3, <3>4
  <2>2. CASE o # l
    <3>1. Is(l, o) = 0 /\ Owners(o) \in Nat
      BY <1>1, <2>2 DEF Is
    <3>2. Owners(o)' = Owners(o) /\ (o \in Live' <=> o \in Live) /\ rc'[o] = rc[o]
      BY <1>3, <2>2, <3>1 DEF Shares, Makes, Ends
    <3> QED
      BY <1>1, <3>2
  <2> QED
    BY <2>1, <2>2
<1> QED
  BY <1>2, <1>3 DEF Effect

LEMMA CountStep == CountInv /\ Forms = {} /\ [Next]_vars => CountInv' /\ Effect
<1> SUFFICES ASSUME CountInv, Forms = {}, [Next]_vars PROVE CountInv' /\ Effect
  OBVIOUS
<1>1. TypeInv'
  BY TypeStep DEF CountInv
<1>2. Kept
  BY <1>1, NextKept
<1>3. Neat(stack, Live)'
  BY <1>2 DEF Kept, Neat, Tidy, Waits, Released
<1>4. CountExact'
  BY <1>2, ExactStep DEF Kept, CountInv
<1> QED
  BY <1>1, <1>2, <1>3, <1>4 DEF Kept, CountInv

LEMMA CountInit == Init => CountInv /\ \A o \in Obj : Owners(o) = 0
<1> SUFFICES ASSUME Init PROVE CountInv /\ \A o \in Obj : Owners(o) = 0
  OBVIOUS
<1>1. TypeInv
  BY TypeInit
<1>2. /\ stack = <<Base>> /\ Base.own = None /\ Base.kind = "frame" /\ Base.idx = 0
      /\ ret = None /\ mode = "run" /\ Live = {}
  BY DEF Init, Base, MkCell, Live
<1>3. stack \in Seq(Cell) /\ Len(stack) = 1 /\ stack[1] = Base
  BY <1>1, <1>2 DEF TypeInv, TypeOK
<1>4. Neat(stack, Live)
  BY <1>2, <1>3 DEF Neat, Tidy
<1>5. ASSUME NEW o \in Obj
      PROVE  Owners(o) = 0
  <2>1. CellsOf(o) = {} /\ FieldsOf(o) = {}
    BY <1>2, <1>3, NoneAssumption DEF CellsOf, FieldsOf
  <2> QED
    BY <1>2, <2>1, FS_EmptySet, NoneAssumption DEF Owners
<1>6. CountExact
  BY <1>2, <1>5 DEF CountExact
<1> QED
  BY <1>1, <1>2, <1>4, <1>5, <1>6 DEF CountInv, Moded

\* In every reachable state of every program without unsafe forms, the count
\* stored in a live object is the number of places that owe it a destructor
\* call, and nothing owes one to an object that is gone: what copyValue, the
\* destructor and the destroy functions do on all paths of all visitors agrees.
THEOREM CountsAreExact == Forms = {} => (Spec => []CountExact)
<1>1. CountInv => CountExact
  BY DEF CountInv
<1>2. Init => CountInv
  BY CountInit
<1>3. Forms = {} /\ CountInv /\ [Next]_vars => CountInv'
  BY CountStep
<1>4. SUFFICES ASSUME Forms = {} PROVE Spec => []CountExact
  OBVIOUS
<1>5. CountInv /\ [Next]_vars => CountInv'
  BY <1>3, <1>4
<1> QED
  BY <1>1, <1>2, <1>5, PTL DEF Spec

LEMMA LastOwnerStep ==
    CountInv /\ Effect => \A o \in Live \ Live' : Owners(o) = 1 /\ Top.own = o
<1> SUFFICES ASSUME CountInv, Effect, NEW o \in Live, o \notin Live'
             PROVE  Owners(o) = 1 /\ Top.own = o
  OBVIOUS
<1>1. PICK d \in Obj : Ends(d)
  BY DEF Effect, Quiet, Shares, Makes
<1>2. o = d /\ rc[d] = 1 /\ Top.own = d
  BY <1>1 DEF Ends
<1>3. o \in Obj
  BY DEF Live
<1> QED
  BY <1>2, <1>3 DEF CountInv, CountExact

\* An object stops being alive only in its destructor, and only when that ends
\* its last reference: the destructor's test of the count is right on every path.
THEOREM LastOwnerRule == Forms = {} => (Spec => LastOwnerDestroys)
<1>1. Init => CountInv
  BY CountInit
<1>2. Forms = {} /\ CountInv /\ [Next]_vars => CountInv' /\ Effect
  BY CountStep
<1>3. SUFFICES ASSUME Forms = {} PROVE Spec => LastOwnerDestroys
  OBVIOUS
<1>4. CountInv /\ [Next]_vars
        => /\ CountInv'
           /\ [\A o \in Live \ Live' : Owners(o) = 1 /\ Top.own = o]_vars
  BY <1>2, <1>3, LastOwnerStep
<1> QED
  BY <1>1, <1>4, PTL DEF Spec, LastOwnerDestroys

-----------------------------------------------------------------------------
(* RefCount implements Ownership *)

LEMMA PromiseStep ==
    CountInv /\ Effect => [Promise!Next]_<<[o \in Obj |-> Owners(o)], Live>>
<1> SUFFICES ASSUME CountInv, Effect
             PROVE  [Promise!Next]_<<[o \in Obj |-> Owners(o)], Live>>
  OBVIOUS
<1> DEFINE own == [o \in Obj |-> Owners(o)]
<1>1. own \in [Obj -> Nat] /\ \A o \in Obj : own[o] = Owners(o)
  BY OwnersSum DEF CountInv
<1>2. own' = [o \in Obj |-> Owners(o)']
  OBVIOUS
<1>3. CASE Quiet
  <2>1. own' = own /\ Live' = Live
    BY <1>2, <1>3 DEF Quiet
  <2> QED
    BY <2>1
<1>4. ASSUME NEW l \in Obj, Shares(l)
      PROVE  Promise!Next
  <2>1. own' = [own EXCEPT ![l] = @ + 1]
    <3>1. \A o \in Obj : Owners(o)' = [own EXCEPT ![l] = @ + 1][o]
      BY <1>1, <1>4 DEF Shares, Is
    <3> QED
      BY <1>1, <1>2, <3>1
  <2>2. Promise!Share(l)
    BY <1>4, <2>1 DEF Promise!Share, Shares
  <2> QED
    BY <2>2 DEF Promise!Next
<1>5. ASSUME NEW n \in Obj, Makes(n)
      PROVE  Promise!Next
  <2>1. own[n] = 0
    BY <1>1, <1>5 DEF Makes, CountInv, CountExact
  <2>2. own' = [own EXCEPT ![n] = 1]
    <3>1. \A o \in Obj : Owners(o)' = [own EXCEPT ![n] = 1][o]
      BY <1>1, <1>5, <2>1 DEF Makes, Is
    <3> QED
      BY <1>1, <1>2, <3>1
  <2>3. Promise!New(n)
    BY <1>5, <2>1, <2>2 DEF Promise!New, Makes
  <2> QED
    BY <2>3 DEF Promise!Next
<1>6. ASSUME NEW d \in Obj, Ends(d)
      PROVE  Promise!Next
  <2>1. own' = [own EXCEPT ![d] = @ - 1]
    <3>1. \A o \in Obj : Owners(o)' = [own EXCEPT ![d] = @ - 1][o]
      BY <1>1, <1>6 DEF Ends, Is
    <3> QED
      BY <1>1, <1>2, <3>1
  <2>2. own[d] = rc[d]
    BY <1>1, <1>6 DEF Ends, CountInv, CountExact
  <2>3. Promise!Release(d)
    BY <1>6, <2>1, <2>2 DEF Promise!Release, Ends
  <2> QED
    BY <2>3 DEF Promise!Next
<1> QED
  BY <1>3, <1>4, <1>5, <1>6 DEF Effect

\* The emitted code implements the promise of reference counting: seen only
\* through who owns what and what is alive, every run of every program without
\* unsafe forms is one where owners come and go singly and an object is alive
\* exactly while it has one.
THEOREM KeepsItsPromise == Forms = {} => (Spec => KeepsPromise)
<1>1. Init => CountInv /\ Promise!Init
  <2> SUFFICES ASSUME Init PROVE CountInv /\ Promise!Init
    OBVIOUS
  <2>1. CountInv /\ \A o \in Obj : Owners(o) = 0
    BY CountInit
  <2>2. Live = {}
    BY DEF Init, Live
  <2> QED
    BY <2>1, <2>2 DEF Promise!Init
<1>2. Forms = {} /\ CountInv /\ [Next]_vars => CountInv' /\ Effect
  BY CountStep
<1>3. SUFFICES ASSUME Forms = {} PROVE Spec => KeepsPromise
  OBVIOUS
<1>4. CountInv /\ [Next]_vars
        => CountInv' /\ [Promise!Next]_<<[o \in Obj |-> Owners(o)], Live>>
  BY <1>2, <1>3, PromiseStep
<1> QED
  BY <1>1, <1>4, PTL DEF Spec, KeepsPromise, Promise!Spec

=============================================================================
