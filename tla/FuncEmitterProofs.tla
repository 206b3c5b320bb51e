------------------------- MODULE FuncEmitterProofs -------------------------
(***************************************************************************)
(* What is proved about FuncEmitter for functions of any size.             *)
(*                                                                         *)
(* The invariant EmitterInv relates each activation of a visitor to what   *)
(* is below it, to its scopes, to the blocks it has made and not inserted  *)
(* and to what the branches to them hold (Good). A visitor can do anything *)
(* on top of an activation but what the ones below rely on, so that lemmas *)
(* about the stack (EnterGood, LeaveGood, NextGood) leave each visitor to  *)
(* show what it does itself. The last section has the theorems.            *)
(***************************************************************************)
EXTENDS FuncEmitter, FiniteSetTheorems, SequenceTheorems, WellFoundedInduction, TLAPS

FaultName == {"late", "twice", "leak", "join", "phi", "rettype", "null", "assert", "pop"}

Jump == [from : Blocks, held : SUBSET Items]

Code == [cur    : Blocks \cup {0},
         open   : SUBSET Blocks,
         loose  : SUBSET Blocks,
         held   : SUBSET Items,
         edges  : [Blocks -> SUBSET Jump],
         alloca : BOOLEAN,
         faults : SUBSET FaultName]

-----------------------------------------------------------------------------
(* Types *)

LEMMA FaultType ==
    ASSUME NEW c \in Code, NEW f \in FaultName
    PROVE  Fault(c, f) \in Code
  BY DEF Fault, Code

LEMMA EmitType ==
    ASSUME NEW c \in Code
    PROVE  Emit(c) \in Code
  BY FaultType DEF Emit, FaultName

LEMMA ReleaseType ==
    ASSUME NEW c \in Code, NEW S
    PROVE  Release(c, S) \in Code
<1>1. [c EXCEPT !.held = @ \ S] \in Code
  BY DEF Code
<1> QED
  BY <1>1, FaultType DEF Release, FaultName

LEMMA DestroyType ==
    ASSUME NEW c \in Code, NEW v
    PROVE  DestroyValue(c, v) \in Code
  BY ReleaseType DEF DestroyValue

LEMMA CopyType ==
    ASSUME NEW c \in Code, NEW v, NEW x \in Items \cup {0}
    PROVE  CopyValue(c, v, x) \in Code
<1>1. [c EXCEPT !.held = (@ \ {v.item}) \cup ({x} \ {0})] \in Code
  BY DEF Code
<1>2. [c EXCEPT !.held = @ \cup ({x} \ {0})] \in Code
  BY DEF Code
<1>3. CASE v.k = "intfield"
  BY <1>3, ReleaseType DEF CopyValue
<1>4. CASE v.k \in {"var", "field"} /\ c.cur \in c.open
  BY <1>2, <1>4 DEF CopyValue
<1>5. CASE v.k = "temp" /\ v.item \in c.held /\ c.cur \in c.open
  BY <1>1, <1>5 DEF CopyValue
<1>6. CASE /\ v.k # "intfield" /\ ~(v.k \in {"var", "field"} /\ c.cur \in c.open)
           /\ ~(v.k = "temp" /\ v.item \in c.held /\ c.cur \in c.open)
  <2>1. CopyValue(c, v, x) = IF v.k \in {"null", "self", "func"} THEN c ELSE Emit(c)
    BY <1>6 DEF CopyValue
  <2> QED
    BY <2>1, EmitType
<1> QED
  BY <1>3, <1>4, <1>5, <1>6

LEMMA EdgeType ==
    ASSUME NEW c \in Code, c.cur # 0
    PROVE  Edge(c) \in Jump
  BY DEF Code, Jump, Edge

LEMMA BranchType ==
    ASSUME NEW c \in Code, NEW t
    PROVE  BranchTo(c, t) \in Code
<1>1. CASE c.cur \in c.open
  <2>1. c.cur # 0
    BY <1>1, NamesAssumption DEF Code
  <2>2. Edge(c) \in Jump
    BY <2>1, EdgeType
  <2>3. [c.edges EXCEPT ![t] = @ \cup {Edge(c)}] \in [Blocks -> SUBSET Jump]
    BY <2>2 DEF Code
  <2> QED
    BY <1>1, <2>3 DEF BranchTo, Code
<1> QED
  BY <1>1 DEF BranchTo

LEMMA CondBrType ==
    ASSUME NEW c \in Code, NEW t, NEW e
    PROVE  CondBr(c, t, e) \in Code
<1>1. CASE c.cur # 0
  <2>1. Edge(c) \in Jump
    BY <1>1, EdgeType
  <2>2. [b \in Blocks |-> IF b \in {t, e} THEN c.edges[b] \cup {Edge(c)} ELSE c.edges[b]]
        \in [Blocks -> SUBSET Jump]
    BY <2>1 DEF Code
  <2> QED
    BY <1>1, <2>2, FaultType DEF CondBr, Code, FaultName
<1> QED
  BY <1>1, FaultType DEF CondBr, FaultName

LEMMA RetType ==
    ASSUME NEW c \in Code
    PROVE  Ret(c) \in Code /\ Unreachable(c) \in Code
  BY FaultType DEF Ret, Unreachable, Code, FaultName

LEMMA CreateType ==
    ASSUME NEW c \in Code, NEW bs, bs \subseteq Blocks
    PROVE  Create(c, bs) \in Code
  BY DEF Create, Code

LEMMA InsertType ==
    ASSUME NEW c \in Code, NEW b \in Blocks
    PROVE  Insert(c, b) \in Code
<1>1. UNION {e.held : e \in c.edges[b]} \in SUBSET Items
  BY DEF Code, Jump
<1>2. [c.edges EXCEPT ![b] = {}] \in [Blocks -> SUBSET Jump]
  BY DEF Code
<1> QED
  BY <1>1, <1>2 DEF Insert, Code, FaultName

LEMMA ClearType ==
    ASSUME NEW c \in Code, NEW b
    PROVE  Clear(c) \in Code /\ Delete(c, b) \in Code
  BY DEF Clear, Delete, Code

LEMMA AllocaType ==
    ASSUME NEW c \in Code
    PROVE  EntryAlloca(c) \in Code
  BY FaultType DEF EntryAlloca, Code, FaultName

LEMMA CodeTypes ==
    /\ \A c \in Code, f \in FaultName : Fault(c, f) \in Code
    /\ \A c \in Code : /\ Emit(c) \in Code /\ Ret(c) \in Code /\ Unreachable(c) \in Code
                       /\ Clear(c) \in Code /\ EntryAlloca(c) \in Code
    /\ \A c \in Code : \A S : Release(c, S) \in Code /\ DestroyValue(c, S) \in Code
                              /\ BranchTo(c, S) \in Code /\ Delete(c, S) \in Code
    /\ \A c \in Code, x \in Items \cup {0} : \A v : CopyValue(c, v, x) \in Code
    /\ \A c \in Code, b \in Blocks : Insert(c, b) \in Code
    /\ \A c \in Code : \A t, e : CondBr(c, t, e) \in Code
    /\ \A c \in Code, bs \in SUBSET Blocks : Create(c, bs) \in Code
  BY FaultType, EmitType, ReleaseType, DestroyType, CopyType, BranchType, CondBrType, RetType,
     CreateType, InsertType, ClearType, AllocaType


-----------------------------------------------------------------------------
(* Numbers: every set that is not empty has a least one *)

LEMMA LeastNat ==
    ASSUME NEW S, S \subseteq Nat, S # {}
    PROVE  \E x \in S : \A y \in S : x <= y
<1>1. PICK R : IsWellFoundedOn(R, Nat) /\ R = {ss \in Nat \X Nat : ss[1] < ss[2]}
  BY NatLessThanWellFounded DEF OpToRel
<1>2. PICK x \in S : \A y \in S : ~ (<<y, x>> \in R)
  BY <1>1, WFMin
<1>3. ASSUME NEW y \in S, y < x
      PROVE  FALSE
  <2>1. <<y, x>> \in Nat \X Nat /\ <<y, x>>[1] < <<y, x>>[2]
    BY <1>3
  <2> QED
    BY <1>1, <1>2, <2>1
<1>4. \A y \in S : x <= y
  BY <1>3
<1> QED
  BY <1>4

LEMMA LeastIn ==
    ASSUME NEW S, S \subseteq Nat, S # {}
    PROVE  Least(S) \in S
  BY LeastNat DEF Least

LEMMA LeastItem == Least(Items) \in Items
  BY LeastIn, NamesAssumption

LEMMA SpareItem ==
    ASSUME SpareItems # {}
    PROVE  Least(SpareItems) \in SpareItems /\ Least(SpareItems) \in Items
  BY LeastIn, NamesAssumption DEF SpareItems

LEMMA SpareFinite == IsFiniteSet(SpareBlocks) /\ SpareBlocks \subseteq Blocks
  BY NamesAssumption, FS_Subset DEF SpareBlocks

LEMMA TwoSpare ==
    ASSUME Cardinality(SpareBlocks) >= 2
    PROVE  Block1 \in SpareBlocks /\ Block2 \in SpareBlocks /\ Block1 # Block2
<1>1. SpareBlocks # {}
  BY SpareFinite, FS_EmptySet
<1>2. Block1 \in SpareBlocks
  BY <1>1, SpareFinite, LeastIn, NamesAssumption DEF Block1
<1>3. Cardinality(SpareBlocks \ {Block1}) = Cardinality(SpareBlocks) - 1
      /\ IsFiniteSet(SpareBlocks \ {Block1})
  BY <1>2, SpareFinite, FS_RemoveElement
<1>4. SpareBlocks \ {Block1} # {}
  <2>1. SUFFICES ASSUME SpareBlocks \ {Block1} = {}
                 PROVE  FALSE
    OBVIOUS
  <2>2. Cardinality(SpareBlocks \ {Block1}) = 0
    BY <2>1, FS_EmptySet
  <2>3. Cardinality(SpareBlocks) \in Nat
    BY SpareFinite, FS_CardinalityType
  <2> QED
    BY <1>3, <2>2, <2>3
<1>5. Block2 \in SpareBlocks \ {Block1}
  BY <1>4, SpareFinite, LeastIn, NamesAssumption DEF Block2
<1> QED
  BY <1>2, <1>5

LEMMA ThreeSpare ==
    ASSUME Cardinality(SpareBlocks) >= 3
    PROVE  /\ Block1 \in SpareBlocks /\ Block2 \in SpareBlocks /\ Block3 \in SpareBlocks
           /\ Block1 # Block2 /\ Block1 # Block3 /\ Block2 # Block3
<1>1. Cardinality(SpareBlocks) \in Nat
  BY SpareFinite, FS_CardinalityType
<1>2. Block1 \in SpareBlocks /\ Block2 \in SpareBlocks /\ Block1 # Block2
  BY <1>1, TwoSpare
<1>3. Cardinality(SpareBlocks \ {Block1}) = Cardinality(SpareBlocks) - 1
      /\ IsFiniteSet(SpareBlocks \ {Block1})
  BY <1>2, SpareFinite, FS_RemoveElement
<1>4. Cardinality((SpareBlocks \ {Block1}) \ {Block2}) = Cardinality(SpareBlocks) - 2
  <2>1. Block2 \in SpareBlocks \ {Block1}
    BY <1>2
  <2>2. Cardinality((SpareBlocks \ {Block1}) \ {Block2}) = Cardinality(SpareBlocks \ {Block1}) - 1
    BY <1>3, <2>1, FS_RemoveElement
  <2> QED
    BY <1>1, <1>3, <2>2
<1>5. SpareBlocks \ {Block1, Block2} = (SpareBlocks \ {Block1}) \ {Block2}
  OBVIOUS
<1>6. SpareBlocks \ {Block1, Block2} # {}
  <2>1. SUFFICES ASSUME SpareBlocks \ {Block1, Block2} = {}
                 PROVE  FALSE
    OBVIOUS
  <2>2. Cardinality((SpareBlocks \ {Block1}) \ {Block2}) = 0
    BY <1>5, <2>1, FS_EmptySet
  <2> QED
    BY <1>1, <1>4, <2>2
<1>7. Block3 \in SpareBlocks \ {Block1, Block2}
  BY <1>6, SpareFinite, LeastIn, NamesAssumption DEF Block3
<1> QED
  BY <1>2, <1>7

-----------------------------------------------------------------------------
(* The stack of activations *)

LEMMA PushFacts ==
    ASSUME NEW T, NEW s \in Seq(T), NEW a \in T
    PROVE  /\ Append(s, a) \in Seq(T) /\ Len(Append(s, a)) = Len(s) + 1
           /\ Append(s, a)[Len(s) + 1] = a
           /\ \A i \in 1..Len(s) : Append(s, a)[i] = s[i]
  OBVIOUS

LEMMA OuterFacts ==
    ASSUME NEW T, NEW s \in Seq(T), Len(s) > 0
    PROVE  /\ Outer(s) \in Seq(T) /\ Len(Outer(s)) = Len(s) - 1
           /\ \A i \in 1..(Len(s) - 1) : Outer(s)[i] = s[i]
<1> DEFINE n == Len(s) - 1
<1>1. Len(s) \in Nat /\ n \in Nat
  OBVIOUS
<1>2. \A i \in 1..n : s[i] \in T
  BY <1>1, ElementOfSeq
<1> HIDE DEF n
<1>3. /\ SubSeq(s, 1, n) \in Seq(T)
      /\ Len(SubSeq(s, 1, n)) = IF 1 <= n THEN n - 1 + 1 ELSE 0
      /\ \A i \in 1..(n - 1 + 1) : SubSeq(s, 1, n)[i] = s[1 + i - 1]
  BY <1>1, <1>2, SubSeqProperties
<1>4. Len(SubSeq(s, 1, n)) = n /\ \A i \in 1..n : SubSeq(s, 1, n)[i] = s[i]
  BY <1>1, <1>3
<1> QED
  BY <1>3, <1>4 DEF Outer, n

LEMMA OuterType ==
    ASSUME NEW T, NEW s \in Seq(T)
    PROVE  Outer(s) \in Seq(T)
<1>1. CASE Len(s) > 0
  BY <1>1, OuterFacts
<1>2. CASE Len(s) = 0
  <2>1. s = <<>>
    BY <1>2
  <2>2. Outer(s) = <<>>
    BY <2>1 DEF Outer
  <2> QED
    BY <2>2
<1>3. Len(s) \in Nat
  OBVIOUS
<1> QED
  BY <1>1, <1>2, <1>3

LEMMA TopFacts ==
    ASSUME NEW T, NEW s \in Seq(T), s # <<>>
    PROVE  Len(s) \in Nat /\ Len(s) > 0 /\ Len(s) \in 1..Len(s) /\ s[Len(s)] \in T
<1>1. Len(s) \in Nat /\ Len(s) # 0
  OBVIOUS
<1>2. Len(s) > 0 /\ Len(s) \in 1..Len(s)
  BY <1>1
<1> QED
  BY <1>1, <1>2, ElementOfSeq

LEMMA BecomeFacts ==
    ASSUME NEW T, NEW s \in Seq(T), NEW a \in T, Len(s) > 0
    PROVE  /\ [s EXCEPT ![Len(s)] = a] \in Seq(T) /\ Len([s EXCEPT ![Len(s)] = a]) = Len(s)
           /\ [s EXCEPT ![Len(s)] = a][Len(s)] = a
           /\ \A i \in 1..(Len(s) - 1) : [s EXCEPT ![Len(s)] = a][i] = s[i]
<1>1. PICK n \in 1..Len(s) : n = Len(s)
  OBVIOUS
<1>2. /\ [s EXCEPT ![n] = a] \in Seq(T) /\ Len([s EXCEPT ![n] = a]) = Len(s)
      /\ \A j \in 1..Len(s) : [s EXCEPT ![n] = a][j] = IF j = n THEN a ELSE s[j]
  BY ExceptSeq
<1>3. [s EXCEPT ![n] = a][n] = a
  BY <1>2
<1>4. \A j \in 1..(n - 1) : j \in 1..Len(s) /\ j # n
  BY <1>1
<1>5. \A j \in 1..(n - 1) : [s EXCEPT ![n] = a][j] = s[j]
  BY <1>2, <1>4
<1> QED
  BY <1>1, <1>2, <1>3, <1>5, Zenon

LEMMA BecomeType ==
    ASSUME NEW T, NEW s \in Seq(T), NEW a \in T
    PROVE  [s EXCEPT ![Len(s)] = a] \in Seq(T)
<1>1. CASE Len(s) > 0
  BY <1>1, BecomeFacts
<1>2. CASE Len(s) = 0
  <2>1. s = <<>>
    BY <1>2
  <2>2. [s EXCEPT ![Len(s)] = a] = <<>>
    BY <2>1
  <2>3. <<>> \in Seq(T)
    OBVIOUS
  <2> QED
    BY <2>2, <2>3, Zenon
<1>3. Len(s) \in Nat
  OBVIOUS
<1> QED
  BY <1>1, <1>2, <1>3


-----------------------------------------------------------------------------
(* Type correctness *)

\* An activation that has the blocks and the variable its visitor goes on with.
Proper == {a \in Activation :
             /\ a.k = "tthen" => a.el # 0
             /\ a.k \in {"tthen", "telse", "lrhs", "ifthen", "ifelse"} => a.end # 0
             /\ a.k = "let" => a.p # 0}

TypeInv == /\ ctl \in Seq(Proper)
           /\ scopes \in Seq(SUBSET Items)
           /\ result \in Value
           /\ code \in Code
           /\ pc \in {"top", "visit", "done", "return"}
           /\ failed \in BOOLEAN

LEMMA TypeInvType == TypeInv => TypeOK
<1>1. Seq(Proper) \subseteq Seq(Activation)
  BY DEF Proper
<1> QED
  BY <1>1 DEF TypeInv, TypeOK, Code, Jump, FaultName

Want == {"int", "obj", "func", "void", "any"}

LEMMA ActType ==
    ASSUME NEW k \in StmtKind \cup ExprKind, NEW w \in Want
    PROVE  /\ Act(k, w) \in Activation
           /\ Act(k, w).k = k /\ Act(k, w).want = w /\ Act(k, w).v = NoValue
           /\ Act(k, w).p = 0 /\ Act(k, w).el = 0 /\ Act(k, w).end = 0
           /\ Act(k, w).from = 0 /\ Act(k, w).flag = FALSE
  BY DEF Act, Activation, NoValue, Val, Value, Want

LEMMA ValType ==
    /\ NoValue \in Value /\ Val("int", 0) \in Value
    /\ \A i \in Items \cup {0} : Val("temp", i) \in Value
  BY DEF NoValue, Val, Value

LEMMA TopType ==
    ASSUME TypeInv, ctl # <<>>
    PROVE  Top \in Proper /\ Len(ctl) > 0
  BY TopFacts DEF TypeInv, Top

\* A visitor that is entered.
LEMMA EnterType ==
    ASSUME TypeInv, NEW a \in Proper, Enter(a),
           UNCHANGED <<result, code, failed>>, scopes' \in Seq(SUBSET Items)
    PROVE  TypeInv'
  BY PushFacts DEF TypeInv, Enter, Push

\* A visitor that returns.
LEMMA LeaveType ==
    ASSUME TypeInv, ctl' = Outer(ctl), result' \in Value, code' \in Code,
           scopes' \in Seq(SUBSET Items), pc' \in {"done", "return"}, failed' \in BOOLEAN
    PROVE  TypeInv'
  BY OuterType DEF TypeInv

\* A visitor that goes on to its next child.
LEMMA BecomeTypeInv ==
    ASSUME TypeInv, NEW a \in Proper, ctl' = Become(a), result' \in Value, code' \in Code,
           scopes' \in Seq(SUBSET Items), pc' = "visit", failed' \in BOOLEAN
    PROVE  TypeInv'
  BY BecomeType DEF TypeInv, Become

LEMMA ProperActs ==
    /\ \A k \in {"unary", "blhs", "llhs", "ifcond"} : Act(k, "int") \in Proper
    /\ \A k \in {"block", "ret"} : Act(k, "any") \in Proper
    /\ \A p \in Items : /\ [Act("let", "any") EXCEPT !.p = p] \in Proper
                        /\ [Act("asgrhs", "any") EXCEPT !.p = p] \in Proper
                        /\ [Act("tcond", "int") EXCEPT !.p = p] \in Proper
    /\ \A void \in BOOLEAN : [Act("func", "any") EXCEPT !.flag = void] \in Proper
  BY NamesAssumption DEF Proper, Act, Activation, NoValue, Val, Value, StmtKind, ExprKind

LEMMA EnterTypes ==
    ASSUME TypeInv, VisitUnary \/ VisitBinary \/ VisitTernary \/ VisitLogic \/ VisitAssign
                    \/ VisitVariable \/ VisitBlock \/ VisitIf \/ VisitReturn
    PROVE  TypeInv'
<1>1. Append(scopes, {}) \in Seq(SUBSET Items)
  BY DEF TypeInv
<1>2. scopes \in Seq(SUBSET Items)
  BY DEF TypeInv
<1>3. CASE VisitUnary
  BY <1>2, <1>3, ProperActs, EnterType DEF VisitUnary
<1>4. CASE VisitBinary
  BY <1>2, <1>4, ProperActs, EnterType DEF VisitBinary
<1>5. CASE VisitTernary
  BY <1>2, <1>5, ProperActs, EnterType, SpareItem DEF VisitTernary
<1>6. CASE VisitLogic
  BY <1>2, <1>6, ProperActs, EnterType DEF VisitLogic
<1>7. CASE VisitAssign
  BY <1>2, <1>7, ProperActs, EnterType, SpareItem DEF VisitAssign
<1>8. CASE VisitVariable
  <2>1. [Act("let", "any") EXCEPT !.p = Least(SpareItems)] \in Proper
    BY <1>8, ProperActs, SpareItem DEF VisitVariable
  <2>2. code' \in Code
    BY <1>8, CodeTypes DEF VisitVariable, TypeInv, FaultName
  <2>3. /\ ctl' = Push([Act("let", "any") EXCEPT !.p = Least(SpareItems)]) /\ pc' = "visit"
        /\ scopes' = scopes /\ result' = result /\ failed' = failed
    BY <1>8 DEF VisitVariable, Enter
  <2> QED
    BY <2>1, <2>2, <2>3, PushFacts DEF TypeInv, Push
<1>9. CASE VisitBlock
  BY <1>1, <1>9, ProperActs, EnterType DEF VisitBlock
<1>10. CASE VisitIf
  BY <1>1, <1>10, ProperActs, EnterType DEF VisitIf
<1>11. CASE VisitReturn
  BY <1>2, <1>11, ProperActs, EnterType DEF VisitReturn
<1> QED
  BY <1>3, <1>4, <1>5, <1>6, <1>7, <1>8, <1>9, <1>10, <1>11

LEMMA LeafTypes ==
    ASSUME TypeInv, VisitLeaf \/ VisitBadExpr \/ VisitEmpty \/ ReturnVoid
    PROVE  TypeInv'
<1>1. CASE VisitLeaf
  <2>1. PICK v \in Value : /\ result' = v
                           /\ code' = IF v.item # 0 /\ code.cur \in code.open
                                      THEN [code EXCEPT !.held = @ \cup {v.item}]
                                      ELSE IF v.k \in {"var", "self", "func"} THEN code
                                      ELSE Emit(code)
    BY <1>1 DEF VisitLeaf
  <2>2. v.item # 0 => [code EXCEPT !.held = @ \cup {v.item}] \in Code
    BY DEF TypeInv, Code, Value
  <2>3. code' \in Code
    BY <2>1, <2>2, CodeTypes DEF TypeInv
  <2> QED
    BY <1>1, <2>1, <2>3 DEF VisitLeaf, TypeInv
<1>2. CASE VisitBadExpr
  BY <1>2, ValType DEF VisitBadExpr, Diagnose, TypeInv
<1>3. CASE VisitEmpty
  BY <1>3, ValType DEF VisitEmpty, TypeInv
<1>4. CASE ReturnVoid
  <2>1. Ret(Release(code, AllVars)) \in Code
    BY CodeTypes DEF TypeInv
  <2>2. code' \in Code
    BY <1>4, <2>1, CodeTypes DEF ReturnVoid, FaultName
  <2> QED
    BY <1>4, <2>2 DEF ReturnVoid, TypeInv
<1> QED
  BY <1>1, <1>2, <1>3, <1>4

LEMMA BackFacts ==
    ASSUME TypeInv, NEW k, Back(k)
    PROVE  /\ Top \in Proper /\ Top.k = k /\ Len(ctl) > 0 /\ ctl # <<>> /\ pc \in {"done", "return"}
           /\ Top.v \in Value /\ Top.p \in Items \cup {0} /\ Top.el \in Blocks \cup {0}
           /\ Top.end \in Blocks \cup {0} /\ Top.from \in Blocks \cup {0} /\ Top.want \in Want
           /\ Top.flag \in BOOLEAN
<1>1. Top \in Proper /\ Top.k = k /\ Len(ctl) > 0 /\ ctl # <<>> /\ pc \in {"done", "return"}
  BY TopType DEF Back
<1> QED
  BY <1>1 DEF Proper, Activation, Want

LEMMA OperatorTypes ==
    ASSUME TypeInv, Unary \/ BinaryLhs \/ BinaryRhs
    PROVE  TypeInv'
<1>1. scopes \in Seq(SUBSET Items) /\ code \in Code /\ result \in Value /\ failed \in BOOLEAN
  BY DEF TypeInv
<1>2. CASE Unary
  <2>1. code' \in Code
    BY <1>1, <1>2, CodeTypes DEF Unary
  <2>2. /\ ctl' = Outer(ctl) /\ pc' = "done" /\ result' \in Value /\ failed' \in BOOLEAN
        /\ scopes' = scopes
    BY <1>1, <1>2, ValType DEF Unary, Leave, Diagnose
  <2> QED
    BY <1>1, <2>1, <2>2, LeaveType
<1>3. CASE BinaryLhs
  <2>1. CASE result.k = "null"
    <3>1. /\ ctl' = Outer(ctl) /\ pc' = "done" /\ result' = NoValue /\ failed' = failed
          /\ scopes' = scopes /\ code' = code
      BY <1>3, <2>1 DEF BinaryLhs, Leave
    <3> QED
      BY <1>1, <3>1, LeaveType, ValType
  <2>2. CASE result.k # "null"
    <3>1. [Act("brhs", "int") EXCEPT !.v = result] \in Proper
      BY <1>1 DEF Proper, Act, Activation, StmtKind, ExprKind
    <3>2. /\ ctl' = Become([Act("brhs", "int") EXCEPT !.v = result]) /\ pc' = "visit"
          /\ result' = result /\ failed' = failed /\ scopes' = scopes /\ code' = Emit(code)
      BY <1>3, <2>2 DEF BinaryLhs
    <3> QED
      BY <1>1, <3>1, <3>2, BecomeTypeInv, CodeTypes
  <2> QED
    BY <2>1, <2>2
<1>4. CASE BinaryRhs
  <2>1. code' \in Code
    BY <1>1, <1>4, CodeTypes DEF BinaryRhs
  <2>2. /\ ctl' = Outer(ctl) /\ pc' = "done" /\ result' \in Value /\ failed' \in BOOLEAN
        /\ scopes' = scopes
    BY <1>1, <1>4, ValType DEF BinaryRhs, Leave, Diagnose
  <2> QED
    BY <1>1, <2>1, <2>2, LeaveType
<1> QED
  BY <1>2, <1>3, <1>4

LEMMA CondTypes ==
    ASSUME TypeInv, TernaryCond \/ LogicLhs
    PROVE  TypeInv'
<1>1. scopes \in Seq(SUBSET Items) /\ code \in Code /\ result \in Value /\ failed \in BOOLEAN
  BY DEF TypeInv
<1>2. \A c \in Code : \A bs \in SUBSET Blocks : \A t, e : \A b \in Blocks :
          Insert(CondBr(Create(c, bs), t, e), b) \in Code
  BY CodeTypes
<1>3. CASE TernaryCond
  <2>1. CASE ctl' = Outer(ctl)
             /\ (TernaryCond /\ (failed' = failed \/ Diagnose) /\ Leave(result) /\ code' = code)
    BY <1>1, <2>1, LeaveType DEF TernaryCond, Leave, Diagnose
  <2>2. CASE Cardinality(SpareBlocks) >= 3
             /\ ctl' = Become([Act("tthen", TernaryWant) EXCEPT
                                !.v = result, !.p = Top.p, !.el = Block2, !.end = Block3])
             /\ code' = Insert(CondBr(Create(code, {Block1, Block2, Block3}),
                                      Block1, Block2), Block1)
             /\ pc' = "visit" /\ result' = result /\ failed' = failed
    <3>1. Block1 \in Blocks /\ Block2 \in Blocks \ {0} /\ Block3 \in Blocks \ {0}
      BY <2>2, ThreeSpare, SpareFinite, NamesAssumption
    <3>2. TernaryWant \in Want
      <4>1. CASE Len(ctl) > 1
        <5>1. Len(ctl) - 1 \in 1..Len(ctl)
          BY <4>1 DEF TypeInv
        <5>2. ctl[Len(ctl) - 1] \in Proper
          BY <5>1, ElementOfSeq DEF TypeInv
        <5> QED
          BY <4>1, <5>2 DEF TernaryWant, Proper, Activation, Want
      <4> QED
        BY <4>1 DEF TernaryWant, Want
    <3>3. Top.p \in Items \cup {0}
      BY <1>3, BackFacts DEF TernaryCond
    <3>4. [Act("tthen", TernaryWant) EXCEPT
              !.v = result, !.p = Top.p, !.el = Block2, !.end = Block3] \in Proper
      BY <1>1, <3>1, <3>2, <3>3 DEF Proper, Act, Activation, StmtKind, ExprKind, Want
    <3>5. code' \in Code
      BY <1>1, <1>2, <2>2, <3>1
    <3> QED
      BY <1>1, <1>3, <2>2, <3>4, <3>5, BecomeTypeInv DEF TernaryCond
  <2> QED
    BY <1>3, <2>1, <2>2 DEF TernaryCond, Leave
<1>4. CASE LogicLhs
  <2>1. CASE ctl' = Outer(ctl)
             /\ (failed' = failed \/ Diagnose) /\ Leave(NoValue)
             /\ code' = DestroyValue(code, result)
    BY <1>1, <1>4, <2>1, LeaveType, CodeTypes, ValType DEF LogicLhs, Leave, Diagnose
  <2>2. CASE Cardinality(SpareBlocks) >= 2
             /\ ctl' = Become([Act("lrhs", "int") EXCEPT
                              !.v = result, !.from = code.cur, !.el = Block1, !.end = Block2])
             /\ code' = Insert(CondBr(Create(code, {Block1, Block2}), Block1, Block2), Block1)
             /\ pc' = "visit" /\ result' = result /\ failed' = failed
    <3>1. Block1 \in Blocks /\ Block2 \in Blocks \ {0}
      BY <2>2, TwoSpare, SpareFinite, NamesAssumption
    <3>2. code.cur \in Blocks \cup {0}
      BY <1>1 DEF Code
    <3>3. [Act("lrhs", "int") EXCEPT
              !.v = result, !.from = code.cur, !.el = Block1, !.end = Block2] \in Proper
      BY <1>1, <3>1, <3>2 DEF Proper, Act, Activation, StmtKind, ExprKind
    <3>4. code' \in Code
      BY <1>1, <1>2, <2>2, <3>1
    <3> QED
      BY <1>1, <1>4, <2>2, <3>3, <3>4, BecomeTypeInv DEF LogicLhs
  <2> QED
    BY <1>4, <2>1, <2>2 DEF LogicLhs, Leave
<1> QED
  BY <1>3, <1>4

LEMMA TernaryTypes ==
    ASSUME TypeInv, TernaryThen \/ TernaryElse
    PROVE  TypeInv'
<1>1. scopes \in Seq(SUBSET Items) /\ code \in Code /\ result \in Value /\ failed \in BOOLEAN
  BY DEF TypeInv
<1>2. CASE TernaryThen
  <2>1. Top \in Proper /\ Top.k = "tthen" /\ Top.p \in Items \cup {0}
        /\ Top.el \in Blocks \cup {0} /\ Top.el # 0
    BY <1>2, BackFacts DEF TernaryThen, Proper
  <2>2. CASE result.k = "null"
    <3>1. code' = [code EXCEPT !.loose = @ \ {Top.end}] /\ Leave(NoValue) /\ failed' = failed
          /\ scopes' = scopes
      BY <1>2, <2>2 DEF TernaryThen
    <3>2. code' \in Code
      BY <1>1, <3>1 DEF Code
    <3> QED
      BY <1>1, <3>1, <3>2, LeaveType, ValType DEF Leave
  <2>3. CASE result.k # "null"
    <3> DEFINE c == BranchTo(CopyValue(code, result, Top.p), Top.end)
               a == [Top EXCEPT !.k = "telse", !.el = 0, !.from = code.cur,
                                             !.p = IF IsObj(result) THEN @ ELSE 0,
                                             !.want = TypeOf(result)]
    <3>1. /\ ctl' = Become(a) /\ code' = Insert(c, Top.el) /\ pc' = "visit" /\ result' = result
          /\ scopes' = scopes /\ failed' = failed
      BY <1>2, <2>3 DEF TernaryThen
    <3>2. c \in Code
      BY <1>1, <2>1, CodeTypes
    <3>3. a \in Proper
      <4>1. TypeOf(result) \in {"int", "obj", "func", "void", "any"}
        BY DEF TypeOf
      <4> QED
        BY <1>1, <2>1, <4>1 DEF Proper, Activation, StmtKind, ExprKind, Code
    <3> HIDE DEF c, a
    <3> QED
      BY <1>1, <2>1, <3>1, <3>2, <3>3, CodeTypes, BecomeTypeInv
  <2> QED
    BY <2>2, <2>3
<1>3. CASE TernaryElse
  <2>1. Top \in Proper /\ Top.k = "telse" /\ Top.p \in Items \cup {0} /\ Top.end \in Blocks
    BY <1>3, BackFacts DEF TernaryElse, Proper
  <2>2. code' \in Code
    <3>1. CASE result.k = "null"
      BY <1>1, <1>3, <3>1 DEF TernaryElse
    <3>2. CASE result.k # "null"
      <4> DEFINE joined == BranchTo(CopyValue(code, result, Top.p), Top.end)
                 phi == Insert(joined, Top.end)
                 fixed == IF /\ Preds(joined, Top.end) = {Top.from, code.cur}
                             /\ result.k # "void"
                          THEN phi ELSE Fault(phi, "phi")
      <4>1. phi \in Code /\ fixed \in Code
        BY <1>1, <2>1, CodeTypes DEF FaultName
      <4>2. code' = DestroyValue(fixed, Top.v) \/ code' = phi
        BY <1>3, <3>2 DEF TernaryElse
      <4> HIDE DEF fixed, phi
      <4> QED
        BY <4>1, <4>2, CodeTypes
    <3> QED
      BY <3>1, <3>2
  <2>3. /\ ctl' = Outer(ctl) /\ pc' = "done" /\ result' \in Value /\ failed' \in BOOLEAN
        /\ scopes' = scopes
    BY <1>1, <1>3, <2>1, ValType DEF TernaryElse, Leave, Diagnose
  <2> QED
    BY <1>1, <2>2, <2>3, LeaveType
<1> QED
  BY <1>2, <1>3

LEMMA LogicRhsTypes ==
    ASSUME TypeInv, LogicRhs
    PROVE  TypeInv'
<1>1. scopes \in Seq(SUBSET Items) /\ code \in Code /\ result \in Value /\ failed \in BOOLEAN
  BY DEF TypeInv
<1>2. Top \in Proper /\ Top.k = "lrhs" /\ Top.end \in Blocks
  BY BackFacts DEF LogicRhs, Proper
<1>3. code' \in Code
  <2>1. CASE result.k = "null"
    BY <1>1, <2>1, CodeTypes DEF LogicRhs
  <2>2. CASE result.k # "null"
    <3> DEFINE joined == BranchTo(Emit(code), Top.end)
               cont == Insert(joined, Top.end)
               phi == IF Preds(joined, Top.end) = {Top.from, Top.el}
                      THEN cont ELSE Fault(cont, "phi")
    <3>1. cont \in Code /\ phi \in Code
      BY <1>1, <1>2, CodeTypes DEF FaultName
    <3>2. \/ code' = DestroyValue(DestroyValue(phi, Top.v), result)
          \/ code' = DestroyValue(DestroyValue(cont, Top.v), result)
      BY <2>2 DEF LogicRhs
    <3> HIDE DEF cont, phi
    <3> QED
      BY <3>1, <3>2, CodeTypes
  <2> QED
    BY <2>1, <2>2
<1>4. /\ ctl' = Outer(ctl) /\ pc' = "done" /\ result' \in Value /\ failed' \in BOOLEAN
      /\ scopes' = scopes
  BY <1>1, ValType DEF LogicRhs, Leave, Diagnose
<1> QED
  BY <1>1, <1>3, <1>4, LeaveType

LEMMA AssignTypes ==
    ASSUME TypeInv, AssignRhs \/ AssignLhs
    PROVE  TypeInv'
<1>1. scopes \in Seq(SUBSET Items) /\ code \in Code /\ result \in Value /\ failed \in BOOLEAN
  BY DEF TypeInv
<1>2. CASE AssignRhs
  <2>1. Top.p \in Items \cup {0}
    BY <1>2, BackFacts DEF AssignRhs
  <2> DEFINE v == Copied(result, Top.p)
             a == [Act("asglhs", IF IsObj(result) THEN "obj" ELSE "int") EXCEPT !.v = v]
  <2>2. v \in Value
    BY <1>1, <2>1, ValType DEF Copied
  <2>3. ctl' = Become(a) /\ code' = CopyValue(code, result, Top.p) /\ result' = NoValue
        /\ pc' = "visit" /\ scopes' = scopes /\ failed' = failed
    BY <1>2 DEF AssignRhs
  <2> HIDE DEF v
  <2>4. a \in Proper
    BY <2>2 DEF Proper, Act, Activation, StmtKind, ExprKind
  <2> HIDE DEF a
  <2> QED
    BY <1>1, <2>1, <2>3, <2>4, BecomeTypeInv, CodeTypes, ValType
<1>3. CASE AssignLhs
  <2>1. code' \in Code
    <3>1. AllVars \subseteq Items
      BY <1>1 DEF AllVars
    <3>2. CASE code' = code
      BY <1>1, <3>2
    <3>3. CASE code' = Release(CopyValue(code, Top.v, 0), {result.item} \ {0})
      BY <1>1, <3>3, CodeTypes
    <3>4. CASE \E x \in AllVars : code' = CopyValue(Release(code, {x}), Top.v, x)
      BY <1>1, <3>1, <3>4, CodeTypes
    <3> QED
      BY <1>3, <3>2, <3>3, <3>4 DEF AssignLhs
  <2>2. /\ ctl' = Outer(ctl) /\ pc' = "done" /\ result' = NoValue /\ failed' \in BOOLEAN
        /\ scopes' = scopes
    BY <1>1, <1>3, ValType DEF AssignLhs, Leave, Diagnose
  <2> QED
    BY <1>1, <2>1, <2>2, LeaveType, ValType
<1> QED
  BY <1>2, <1>3

LEMMA DeclareTypes ==
    ASSUME TypeInv, DeclareVariable
    PROVE  TypeInv'
<1>1. scopes \in Seq(SUBSET Items) /\ code \in Code /\ result \in Value /\ failed \in BOOLEAN
  BY DEF TypeInv
<1>2. Top.p \in Items /\ ctl # <<>>
  BY BackFacts DEF DeclareVariable, Proper
<1>3. code' \in Code
  <2>1. CopyValue(code, result, Top.p) \in Code
    BY <1>1, <1>2, CodeTypes
  <2>2. EntryAlloca(CopyValue(code, result, Top.p)) \in Code
    BY <2>1, CodeTypes
  <2>3. Fault(EntryAlloca(CopyValue(code, result, Top.p)), "assert") \in Code
    BY <2>2, CodeTypes DEF FaultName
  <2> QED
    BY <2>1, <2>2, <2>3 DEF DeclareVariable
<1>4. scopes' \in Seq(SUBSET Items)
  <2>1. CASE scopes' = scopes
    BY <1>1, <2>1
  <2> DEFINE S == IF IsObj(result) THEN scopes[Len(scopes)] \cup {Top.p} ELSE scopes[Len(scopes)]
  <2>2. CASE scopes' = [scopes EXCEPT ![Len(scopes)] = S]
    <3>1. CASE scopes = <<>>
      <4>1. [scopes EXCEPT ![Len(scopes)] = S] = <<>>
        BY <3>1
      <4>2. <<>> \in Seq(SUBSET Items)
        OBVIOUS
      <4> QED
        BY <2>2, <4>1, <4>2, Zenon
    <3>2. CASE scopes # <<>>
      <4>1. S \in SUBSET Items
        BY <1>1, <1>2, <3>2, TopFacts
      <4> HIDE DEF S
      <4> QED
        BY <1>1, <2>2, <4>1, BecomeType
    <3> QED
      BY <3>1, <3>2
  <2> QED
    BY <2>1, <2>2 DEF DeclareVariable
<1>5. ctl' = Outer(ctl) /\ pc' = "done" /\ result' = NoValue /\ failed' \in BOOLEAN
  BY <1>1 DEF DeclareVariable, Leave, Diagnose
<1> QED
  BY <1>3, <1>4, <1>5, LeaveType, ValType

LEMMA BlockTypes ==
    ASSUME TypeInv, NextStmt \/ LeaveBlock
    PROVE  TypeInv'
<1>1. scopes \in Seq(SUBSET Items) /\ code \in Code /\ result \in Value /\ failed \in BOOLEAN
  BY DEF TypeInv
<1>2. CASE NextStmt
  <2>1. Top \in Proper
    BY <1>2, BackFacts DEF NextStmt
  <2>2. [Top EXCEPT !.flag = (pc = "return")] \in Proper
    BY <2>1 DEF Proper, Activation
  <2> QED
    BY <1>1, <1>2, <2>2, BecomeTypeInv, CodeTypes DEF NextStmt
<1>3. CASE LeaveBlock
  <2>1. code' \in Code
    BY <1>1, <1>3, CodeTypes DEF LeaveBlock
  <2>2. Outer(scopes) \in Seq(SUBSET Items)
    BY <1>1, OuterType
  <2> QED
    BY <1>1, <1>3, <2>1, <2>2, LeaveType, ValType DEF LeaveBlock, Leave
<1> QED
  BY <1>2, <1>3

LEMMA IfCondTypes ==
    ASSUME TypeInv, IfCond
    PROVE  TypeInv'
<1>1. scopes \in Seq(SUBSET Items) /\ code \in Code /\ result \in Value /\ failed \in BOOLEAN
  BY DEF TypeInv
<1>2. CASE result.k = "null"
  BY <1>1, <1>2, LeaveType, ValType DEF IfCond, Leave
<1>3. CASE result.k # "null"
  <2>1. PICK hasElse \in BOOLEAN :
          LET el == IF hasElse THEN Block3 ELSE Block2
          IN  /\ Cardinality(SpareBlocks) >= IF hasElse THEN 3 ELSE 2
              /\ ctl' = Become([Act("ifthen", "any") EXCEPT
                                !.v = result, !.end = Block2,
                                !.el = IF hasElse THEN Block3 ELSE 0])
              /\ code' = Insert(CondBr(Create(code, {Block1, Block2, el}), Block1, el), Block1)
              /\ scopes' = Append(scopes, {})
              /\ pc' = "visit" /\ UNCHANGED result
    BY <1>3 DEF IfCond
  <2> DEFINE a == [Act("ifthen", "any") EXCEPT !.v = result, !.end = Block2,
                                               !.el = IF hasElse THEN Block3 ELSE 0]
             el == IF hasElse THEN Block3 ELSE Block2
  <2>2. Cardinality(SpareBlocks) \in Nat
    BY SpareFinite, FS_CardinalityType
  <2>3. Block1 \in Blocks /\ Block2 \in Blocks \ {0} /\ (hasElse => Block3 \in Blocks)
    BY <2>1, <2>2, TwoSpare, ThreeSpare, SpareFinite, NamesAssumption
  <2>4. a \in Proper
    BY <1>1, <2>3 DEF Proper, Act, Activation, StmtKind, ExprKind
  <2>5. el \in Blocks
    BY <2>3
  <2>6. code' = Insert(CondBr(Create(code, {Block1, Block2, el}), Block1, el), Block1)
        /\ ctl' = Become(a)
    BY <2>1
  <2> HIDE DEF a, el
  <2>7. code' \in Code
    BY <1>1, <2>3, <2>5, <2>6, CodeTypes
  <2>8. scopes' = Append(scopes, {}) /\ result' = result /\ failed' = failed /\ pc' = "visit"
    BY <2>1, Zenon DEF IfCond
  <2>9. scopes' \in Seq(SUBSET Items)
    BY <1>1, <2>8
  <2> QED
    BY <1>1, <2>4, <2>6, <2>7, <2>8, <2>9, BecomeTypeInv
<1> QED
  BY <1>2, <1>3

LEMMA CaseTypes ==
    ASSUME TypeInv, Top.end \in Blocks
    PROVE  /\ EndCase(code) \in Code
           /\ EndIf(EndCase(code)) \in Code
<1>1. EndCase(code) \in Code
  BY CodeTypes DEF EndCase, TypeInv
<1>2. \A c \in Code : EndIf(c) \in Code
  BY CodeTypes DEF EndIf
<1> QED
  BY <1>1, <1>2

LEMMA IfTypes ==
    ASSUME TypeInv, IfThen \/ IfElse
    PROVE  TypeInv'
<1>1. scopes \in Seq(SUBSET Items) /\ code \in Code /\ result \in Value /\ failed \in BOOLEAN
  BY DEF TypeInv
<1>2. Top \in Proper /\ Top.end \in Blocks /\ Top.el \in Blocks \cup {0}
      /\ (IfThen => Top.k = "ifthen") /\ (IfElse => Top.k = "ifelse")
  BY BackFacts DEF IfThen, IfElse, Proper
<1>3. EndCase(code) \in Code /\ EndIf(EndCase(code)) \in Code
  BY <1>2, CaseTypes
<1>4. Outer(scopes) \in Seq(SUBSET Items) /\ Outer(Outer(scopes)) \in Seq(SUBSET Items)
  BY <1>1, OuterType
<1>5. CASE IfThen /\ Top.el # 0
  <2>1. [Top EXCEPT !.k = "ifelse", !.el = 0] \in Proper
    BY <1>2, <1>5 DEF Proper, Activation, StmtKind, ExprKind
  <2>2. Insert(EndCase(code), Top.el) \in Code
    BY <1>2, <1>3, <1>5, CodeTypes
  <2>3. Append(Outer(scopes), {}) \in Seq(SUBSET Items)
    BY <1>4
  <2> QED
    BY <1>1, <1>5, <2>1, <2>2, <2>3, BecomeTypeInv DEF IfThen
<1>6. CASE (IfThen /\ Top.el = 0) \/ IfElse
  BY <1>1, <1>3, <1>4, <1>6, LeaveType, ValType DEF IfThen, IfElse, Leave
<1> QED
  BY <1>5, <1>6

LEMMA ReturnTypes ==
    ASSUME TypeInv, ReturnValue
    PROVE  TypeInv'
<1>1. scopes \in Seq(SUBSET Items) /\ code \in Code /\ result \in Value /\ failed \in BOOLEAN
  BY DEF TypeInv
<1>2. code' \in Code
  BY <1>1, CodeTypes DEF ReturnValue
<1> QED
  BY <1>1, <1>2, LeaveType, ValType DEF ReturnValue, Diagnose

LEMMA FunctionTypes ==
    ASSUME TypeInv, Function
    PROVE  TypeInv'
<1>1. scopes \in Seq(SUBSET Items) /\ code \in Code /\ result \in Value /\ failed \in BOOLEAN
      /\ ctl \in Seq(Proper)
  BY DEF TypeInv
<1>2. \A void \in BOOLEAN : <<[Act("func", "any") EXCEPT !.flag = void], Act("block", "any")>>
                            \in Seq(Proper)
  BY ProperActs
<1>3. CASE BeginFunction
  <2>1. PICK params \in {{}, {Least(Items)}}, void \in BOOLEAN :
         /\ scopes' = <<params, {}>>
         /\ ctl' = <<[Act("func", "any") EXCEPT !.flag = void], Act("block", "any")>>
         /\ code' = [code EXCEPT !.cur = 1, !.open = {1}, !.loose = {}, !.held = params,
                                 !.edges = [b \in Blocks |-> {}],
                                 !.alloca = (params # {})]
    BY <1>3 DEF BeginFunction
  <2>2. params \in SUBSET Items
    BY LeastItem
  <2>3. code' \in Code
    BY <1>1, <2>1, <2>2, NamesAssumption DEF Code
  <2>4. scopes' \in Seq(SUBSET Items)
    BY <2>1, <2>2
  <2> QED
    BY <1>1, <1>2, <1>3, <2>1, <2>3, <2>4 DEF BeginFunction, TypeInv
<1>4. CASE BeginFunctionAssert
  <2>1. code' \in Code
    BY <1>1, <1>4, CodeTypes DEF BeginFunctionAssert, FaultName
  <2> QED
    BY <1>4, <2>1 DEF BeginFunctionAssert, TypeInv
<1>5. CASE BeginDuplicate
  <2>1. PICK void \in BOOLEAN, at \in {0, 1} :
         /\ ctl' = <<[Act("func", "any") EXCEPT !.flag = void], Act("block", "any")>>
         /\ code' = [code EXCEPT !.cur = at]
    BY <1>5 DEF BeginDuplicate
  <2>2. code' \in Code
    BY <1>1, <2>1, NamesAssumption DEF Code
  <2>3. scopes' \in Seq(SUBSET Items)
    BY <1>1, <1>5 DEF BeginDuplicate
  <2> QED
    BY <1>1, <1>2, <1>5, <2>1, <2>2, <2>3 DEF BeginDuplicate, TypeInv
<1>6. CASE EndFunction
  <2> DEFINE waiting == code.cur \in code.open
             ended == IF ~waiting THEN code
                      ELSE IF ReturnsVoid THEN Ret(Release(code, AllVars))
                           ELSE Unreachable(Release(code, AllVars))
  <2>1. ended \in Code
    BY <1>1, CodeTypes
  <2>2. code' = IF scopes = <<>> THEN Fault(Clear(ended), "pop")
                ELSE [Clear(ended) EXCEPT !.alloca = FALSE]
    BY <1>6 DEF EndFunction
  <2> HIDE DEF ended
  <2>3. Clear(ended) \in Code
    BY <2>1, CodeTypes
  <2>4. [Clear(ended) EXCEPT !.alloca = FALSE] \in Code
    BY <2>3 DEF Code
  <2>5. code' \in Code
    BY <2>2, <2>3, <2>4, CodeTypes DEF FaultName
  <2>6. scopes' \in Seq(SUBSET Items)
    BY <1>1, <1>6, OuterType DEF EndFunction
  <2>7. <<>> \in Seq(Proper)
    OBVIOUS
  <2>8. failed' \in BOOLEAN
    BY <1>6, Zenon DEF EndFunction
  <2> QED
    BY <1>1, <1>6, <2>5, <2>6, <2>7, <2>8, ValType DEF EndFunction, TypeInv
<1> QED
  BY <1>3, <1>4, <1>5, <1>6 DEF Function

LEMMA InitType == Init => TypeInv
<1> SUFFICES ASSUME Init PROVE TypeInv
  OBVIOUS
<1>1. code \in Code
  BY DEF Init, Code
<1>2. ctl \in Seq(Proper) /\ scopes \in Seq(SUBSET Items)
  BY DEF Init
<1> QED
  BY <1>1, <1>2, ValType DEF Init, TypeInv

LEMMA NextType == TypeInv /\ [Next]_vars => TypeInv'
<1> SUFFICES ASSUME TypeInv, [Next]_vars
             PROVE  TypeInv'
  OBVIOUS
<1>1. CASE Expression
  BY <1>1, LeafTypes, EnterTypes, OperatorTypes, CondTypes, TernaryTypes, LogicRhsTypes,
     AssignTypes DEF Expression
<1>2. CASE Statement
  BY <1>2, LeafTypes, EnterTypes, DeclareTypes, BlockTypes, IfCondTypes, IfTypes, ReturnTypes
     DEF Statement
<1>3. CASE Function
  BY <1>3, FunctionTypes
<1>4. CASE UNCHANGED vars
  BY <1>4 DEF vars, TypeInv
<1> QED
  BY <1>1, <1>2, <1>3, <1>4 DEF Next, Halted

\* Whatever forms a program uses, each variable of the emitter and of its visitors has its
\* type: a visitor that goes on has the blocks and the name that it left itself.
THEOREM TypesAreRight == Spec => []TypeOK
<1>1. Spec => []TypeInv
  BY InitType, NextType, PTL DEF Spec
<1> QED
  BY <1>1, TypeInvType, PTL

-----------------------------------------------------------------------------
(* What the visitors rely on, of activations ct, scopes sc, result re, code co *)
(* and program counter p, as long as no diagnostic has been printed            *)

\* Statements, and what a statement is made of: no expression waits below them.
OnStmt == {"block", "ifthen", "ifelse", "ifcond", "let", "ret", "asgrhs", "asglhs"}
Cases  == {"ifthen", "ifelse"}
IntOp  == {"unary", "blhs", "brhs", "llhs", "lrhs"}

\* An Int or an object that its visitor may copy, keep and destroy.
Suits(v, want) == /\ v.k \in {"int", "intfield", "temp", "var", "field"}
                  /\ (want = "int" => ~IsObj(v)) /\ (want = "obj" => IsObj(v))

WellFormed(v) == v.k \in {"intfield", "temp"} <=> v.item # 0

\* What an activation keeps, by its kind.
Fit(a) ==
    /\ WellFormed(a.v) /\ a.want \in {"int", "obj", "any"}
    /\ a.k \notin {"tthen", "telse", "lrhs", "brhs", "asglhs"} \cup Cases => a.v = NoValue
    /\ a.k \in {"tthen", "telse", "lrhs", "brhs"} \cup Cases => Suits(a.v, "int")
    /\ a.k = "asglhs" => \/ a.v.k = "temp" /\ a.want = "obj"
                         \/ a.v.k = "int" /\ a.want = "int"
    /\ a.k \in {"tcond", "tthen", "asgrhs", "let"} => a.p # 0
    /\ a.k = "telse" => (a.p # 0 <=> a.want = "obj") /\ a.want # "any"
    /\ a.k \notin {"tcond", "tthen", "telse", "asgrhs", "let"} => a.p = 0
    /\ a.k \in {"tthen", "lrhs"} => a.el # 0
    /\ a.k \in {"tthen", "lrhs", "ifthen"} => a.el # a.end
    /\ a.k \in {"tthen", "telse", "lrhs", "ifthen", "ifelse"} => a.end # 0
    /\ a.k \in IntOp \cup {"tcond", "ifcond"} => a.want = "int"
    /\ a.flag => a.k \in {"func", "block"}

\* A return leaves nothing behind, and its block is not left by another block's end.
Returnable(ct, n) == /\ \A i \in 1..n : ct[i].v.item = 0
                     /\ n > 1 /\ ct[n].k = "block" => ct[n - 1].k # "block"

\* What may be above what.
Stands(ct, j) ==
    /\ ct[j].k = "ret" => Returnable(ct, j - 1)
    /\ j = 1 <=> ct[j].k = "func"
    /\ j = 2 => ct[j].k = "block"
    /\ ct[j].k \in OnStmt => \A i \in 1..(j - 1) : ct[i].k \in StmtKind
    /\ \A i \in 1..(j - 1) : ct[i].k = "lrhs" => ct[j].k \in {"unary", "blhs", "brhs"}
    /\ j > 1 => /\ ct[j].k \in IntOp => ct[j - 1].want # "obj"
                /\ ct[j].k = "tthen" => ct[j].want = ct[j - 1].want
                /\ ct[j].k = "telse" => ct[j - 1].want \in {"any", ct[j].want}

\* Only the block on top may have returned.
Nested(ct, p) ==
    /\ p = "top" <=> ct = <<>>
    /\ Len(ct) = 1 => p = "done"
    /\ \A j \in 1..Len(ct) : Fit(ct[j]) /\ Stands(ct, j)
    /\ \A j \in 2..Len(ct) :
          ct[j].flag => j = Len(ct) /\ p = "visit" /\ ct[j - 1].k # "block"
    /\ p = "return" => /\ ct[Len(ct)].k \in {"block"} \cup Cases
                       /\ ct[Len(ct)].k = "block" => ct[Len(ct) - 1].k # "block"

\* How many scopes belong to activations below i.
Below(ct, i) == Cardinality({x \in (1..(i - 1)) \X (1..2) : x[2] <= ScopesOf(ct[x[1]].k)})

Flowing(co) == co.cur \in co.open

\* The scope of an if has no variables, that of a case only one just declared.
Scoped(ct, sc, co, p) ==
    /\ Len(sc) = Below(ct, Len(ct) + 1)
    /\ \A i \in 1..Len(ct) :
          /\ ct[i].k \in Cases \cup {"ifcond"} => sc[Below(ct, i) + 1] = {}
          /\ ct[i].k \in Cases /\ (i < Len(ct) \/ p = "visit" \/ ~Flowing(co))
                => sc[Below(ct, i) + 2] = {}
    /\ \A i, j \in 1..Len(sc) : i # j => sc[i] \cap sc[j] = {}

\* Every reference has one owner.
OwnedBy(a) == {a.v.item, a.p} \ {0}
Vars(sc)   == UNION {sc[i] : i \in 1..Len(sc)}

Apart(ct, sc, re, p) ==
    /\ \A i \in 1..Len(ct) : /\ ct[i].v.item # 0 => ct[i].v.item # ct[i].p
                             /\ OwnedBy(ct[i]) \cap Vars(sc) = {}
    /\ \A i, j \in 1..Len(ct) : i # j => OwnedBy(ct[i]) \cap OwnedBy(ct[j]) = {}
    /\ p = "done" => /\ re.item \notin Vars(sc)
                     /\ \A i \in 1..Len(ct) : re.item \notin OwnedBy(ct[i])

\* The blocks that have been made and not inserted belong to one activation each.
AwaitedBy(a) == CASE a.k = "tthen"                       -> {a.el, a.end}
                  [] a.k = "ifthen"                      -> {a.el, a.end} \ {0}
                  [] a.k \in {"telse", "lrhs", "ifelse"} -> {a.end}
                  [] OTHER                               -> {}

Laid(ct, co) ==
    /\ co.loose = UNION {AwaitedBy(ct[i]) : i \in 1..Len(ct)}
    /\ \A i, j \in 1..Len(ct) : i # j => AwaitedBy(ct[i]) \cap AwaitedBy(ct[j]) = {}
    /\ co.cur \notin co.loose /\ co.open \subseteq {co.cur}
    /\ \A b \in Blocks : b \notin co.loose => co.edges[b] = {}
    /\ \A i \in 1..Len(ct) : ct[i].k = "lrhs" => co.cur = ct[i].el

\* What was alive when the visitor of activation i branched.
Base(ct, sc, i) == (UNION {sc[j] : j \in 1..Below(ct, i)})
                   \cup ({ct[j].v.item : j \in 1..i} \ {0})

OneJump(es, S) == \E f \in Blocks : es = {[from |-> f, held |-> S]}

\* The jumps to the blocks of an activation, by what they hold.
JumpsTo(a, S, edges) ==
    /\ a.k = "tthen" => OneJump(edges[a.el], S) /\ edges[a.end] = {}
    /\ a.k = "telse" => edges[a.end] = {[from |-> a.from, held |-> S \cup ({a.p} \ {0})]}
    /\ a.k = "lrhs" => edges[a.end] = {[from |-> a.from, held |-> S]}
    /\ a.k = "ifthen" /\ a.el # 0 => OneJump(edges[a.el], S) /\ edges[a.end] = {}
    /\ a.k = "ifthen" /\ a.el = 0 => OneJump(edges[a.end], S)
    /\ a.k = "ifelse" => \A e \in edges[a.end] : e.held = S

Edged(ct, sc, co) == \A i \in 1..Len(ct) : JumpsTo(ct[i], Base(ct, sc, i), co.edges)

\* The reference behind a Value, if it has one.
Temp(v) == {v.item} \ {0}

\* The references that the emitter counts as alive.
Kept(ct)     == {ct[i].v.item : i \in 1..Len(ct)} \ {0}
Fresh(re, p) == IF p = "done" THEN {re.item} \ {0} ELSE {}

Matched(ct, sc, re, co, p) ==
    co.held = IF Flowing(co) THEN Vars(sc) \cup Kept(ct) \cup Fresh(re, p) ELSE {}

\* When the block at the insertion point has its terminator, or there is none.
Flows(ct, re, co, p) ==
    /\ p \in {"top", "return"} => ~Flowing(co)
    /\ p = "visit" /\ ct[Len(ct)].flag => ~Flowing(co)
    /\ p = "visit" /\ ~Flowing(co) =>
          ct[Len(ct)].k = "block" /\ (ct[Len(ct)].flag \/ co.cur = 0)
    /\ p = "done" /\ ~Flowing(co) =>
          /\ ct[Len(ct)].k \in StmtKind /\ re.item = 0
          /\ ct[Len(ct)].k = "block" => co.cur = 0
    /\ p = "top" => co.cur = 0

\* What a visitor finds in result.  A statement's is destroyed, so it borrows nothing.
Found(ct, re, p) ==
    /\ p = "return" => re.item = 0
    /\ (ct = <<>> \/ ct[Len(ct)].k \in StmtKind) => re.k \notin {"field", "self"}
    /\ p = "done" => /\ WellFormed(re)
                     /\ ct[Len(ct)].k \in ExprKind => Suits(re, ct[Len(ct)].want)
                     /\ ct[Len(ct)].k \in {"lrhs", "func"} => re.item = 0

Good(ct, sc, re, co, p) ==
    /\ Nested(ct, p) /\ Scoped(ct, sc, co, p) /\ Apart(ct, sc, re, p)
    /\ Laid(ct, co) /\ Edged(ct, sc, co) /\ Matched(ct, sc, re, co, p)
    /\ Flows(ct, re, co, p) /\ Found(ct, re, p)
    /\ co.faults = {}

EmitterInv == TypeInv /\ (~failed => Good(ctl, scopes, result, code, pc))

-----------------------------------------------------------------------------
(* The scopes below an activation *)

\* The scopes of activations below i, one pair for each.
Held(ct, i) == {x \in (1..(i - 1)) \X (1..2) : x[2] <= ScopesOf(ct[x[1]].k)}

LEMMA HeldFinite ==
    ASSUME NEW ct, NEW i \in Nat
    PROVE  IsFiniteSet(Held(ct, i)) /\ Below(ct, i) = Cardinality(Held(ct, i))
           /\ Below(ct, i) \in Nat
<1>1. PICK n \in Int : n = i - 1
  OBVIOUS
<1>2. IsFiniteSet(1..(i - 1)) /\ IsFiniteSet(1..2)
  <2>1. 1 \in Int /\ 2 \in Int
    OBVIOUS
  <2>2. IsFiniteSet(1..n)
    BY <2>1, FS_Interval
  <2>3. IsFiniteSet(1..2)
    BY <2>1, FS_Interval
  <2> QED
    BY <1>1, <2>2, <2>3
<1>3. IsFiniteSet((1..(i - 1)) \X (1..2))
  BY <1>2, FS_Product
<1>4. IsFiniteSet(Held(ct, i))
  BY <1>3, FS_Subset DEF Held
<1>5. Below(ct, i) = Cardinality(Held(ct, i))
  BY DEF Below, Held
<1> QED
  BY <1>4, <1>5, FS_CardinalityType

LEMMA BelowOne == \A ct : Below(ct, 1) = 0
<1> SUFFICES ASSUME NEW ct PROVE Below(ct, 1) = 0
  OBVIOUS
<1>1. Held(ct, 1) = {}
  BY DEF Held
<1> QED
  BY <1>1, HeldFinite, FS_EmptySet

LEMMA ScopesOfType == \A k : ScopesOf(k) \in 0..2
  BY DEF ScopesOf

LEMMA BelowNext ==
    ASSUME NEW ct, NEW i \in Nat \ {0}
    PROVE  Below(ct, i + 1) = Below(ct, i) + ScopesOf(ct[i].k)
<1> DEFINE n == ScopesOf(ct[i].k)
<1> DEFINE New == {i} \X (1..n)
<1>1. n \in 0..2
  BY ScopesOfType
<1>2. Held(ct, i + 1) = Held(ct, i) \cup New
  <2>1. ASSUME NEW x
        PROVE  x \in Held(ct, i + 1) <=> x \in Held(ct, i) \cup New
    <3>1. x \in New <=> x \in (1..i) \X (1..2) /\ x[1] = i /\ x[2] <= n
      BY <1>1
    <3>2. x \in Held(ct, i) <=> x \in (1..i) \X (1..2) /\ x[1] # i
                                /\ x[2] <= ScopesOf(ct[x[1]].k)
      BY DEF Held
    <3>3. x \in Held(ct, i + 1) <=> x \in (1..i) \X (1..2) /\ x[2] <= ScopesOf(ct[x[1]].k)
      BY DEF Held
    <3> QED
      BY <3>1, <3>2, <3>3
  <2> QED
    BY <2>1
<1>3. Held(ct, i) \cap New = {}
  BY DEF Held
<1>4. IsFiniteSet({i}) /\ Cardinality({i}) = 1
  BY FS_Singleton
<1>5. IsFiniteSet(1..n) /\ Cardinality(1..n) = n
  BY <1>1, FS_Interval
<1> HIDE DEF n
<1>6. IsFiniteSet(New) /\ Cardinality(New) = 1 * n
  BY <1>4, <1>5, FS_Product
<1>7. IsFiniteSet(Held(ct, i)) /\ IsFiniteSet(Held(ct, i + 1))
      /\ Below(ct, i) = Cardinality(Held(ct, i)) /\ Below(ct, i + 1) = Cardinality(Held(ct, i + 1))
      /\ Below(ct, i) \in Nat
  BY HeldFinite
<1>8. Cardinality(Held(ct, i) \cup New)
      = Cardinality(Held(ct, i)) + Cardinality(New) - Cardinality(Held(ct, i) \cap New)
  BY <1>6, <1>7, FS_Union
<1>9. Cardinality(Held(ct, i) \cap New) = 0
  BY <1>3, FS_EmptySet
<1> HIDE DEF New
<1>10. Below(ct, i + 1) = Below(ct, i) + n
  <2>1. PICK h, h2, m : h = Held(ct, i) /\ h2 = Held(ct, i + 1) /\ m = Cardinality(New)
    OBVIOUS
  <2>2. h2 = h \cup New
    BY <1>2, <2>1
  <2>3. Cardinality(h2) = Cardinality(h) + m - 0
    BY <1>8, <1>9, <2>1, <2>2
  <2>4. m = n
    BY <1>1, <1>6, <2>1
  <2>5. Below(ct, i) = Cardinality(h) /\ Below(ct, i + 1) = Cardinality(h2)
        /\ Below(ct, i) \in Nat
    BY <1>7, <2>1
  <2> QED
    BY <1>1, <2>3, <2>4, <2>5
<1> QED
  BY <1>10 DEF n

LEMMA BelowSame ==
    ASSUME NEW ct, NEW ct2, NEW i \in Nat, \A j \in 1..(i - 1) : ct2[j].k = ct[j].k
    PROVE  Below(ct2, i) = Below(ct, i)
<1>1. Held(ct2, i) = Held(ct, i)
  BY DEF Held
<1> QED
  BY <1>1, HeldFinite

LEMMA BelowUp ==
    ASSUME NEW ct, NEW i \in Nat, NEW j \in Nat, i <= j
    PROVE  Below(ct, i) <= Below(ct, j)
<1>1. Held(ct, i) \subseteq Held(ct, j)
  BY DEF Held
<1> QED
  BY <1>1, HeldFinite, FS_Subset

\* The scopes of activation i lie below those of the ones above it.
LEMMA BelowRange ==
    ASSUME NEW ct, NEW i \in Nat \ {0}, NEW j \in Nat, i < j
    PROVE  /\ Below(ct, i) \in Nat /\ Below(ct, j) \in Nat
           /\ Below(ct, i) + ScopesOf(ct[i].k) <= Below(ct, j)
<1>1. Below(ct, i) \in Nat /\ Below(ct, j) \in Nat
  BY HeldFinite
<1>2. Below(ct, i + 1) <= Below(ct, j)
  <2>1. i + 1 \in Nat /\ i + 1 <= j
    OBVIOUS
  <2> QED
    BY <2>1, BelowUp
<1> QED
  BY <1>1, <1>2, BelowNext

-----------------------------------------------------------------------------
(* A step keeps m activations *)

Shares(ct, ct2, m) ==
    /\ ct \in Seq(Proper) /\ ct2 \in Seq(Proper)
    /\ m \in 0..Len(ct) /\ m <= Len(ct2) /\ Len(ct2) <= m + 1 /\ Len(ct) <= m + 1
    /\ \A i \in 1..m : ct2[i] = ct[i]

LEMMA SharesBelow ==
    ASSUME NEW ct, NEW ct2, NEW m, Shares(ct, ct2, m), NEW i \in 1..(m + 1)
    PROVE  Below(ct2, i) = Below(ct, i) /\ Below(ct, i) \in Nat
<1>1. i \in Nat /\ \A j \in 1..(i - 1) : ct2[j].k = ct[j].k
  BY DEF Shares
<1> QED
  BY <1>1, BelowSame, HeldFinite

\* Two sequences have the same first n elements.
Agree(sc, sc2, n) == \A j \in 1..n : sc2[j] = sc[j]

LEMMA SharesBase ==
    ASSUME NEW ct, NEW ct2, NEW sc, NEW sc2, NEW m, Shares(ct, ct2, m), NEW i \in 1..m,
           Agree(sc, sc2, Below(ct, i))
    PROVE  Base(ct2, sc2, i) = Base(ct, sc, i)
<1>1. Below(ct2, i) = Below(ct, i)
  <2>1. i \in 1..(m + 1)
    BY DEF Shares
  <2> QED
    BY <2>1, SharesBelow
<1>2. {ct2[j].v.item : j \in 1..i} = {ct[j].v.item : j \in 1..i}
  <2>1. \A j \in 1..i : ct2[j] = ct[j]
    BY DEF Shares
  <2> QED
    BY <2>1
<1>3. {sc2[j] : j \in 1..Below(ct, i)} = {sc[j] : j \in 1..Below(ct, i)}
  BY DEF Agree
<1> QED
  BY <1>1, <1>2, <1>3 DEF Base

LEMMA SharesType ==
    ASSUME NEW ct, NEW ct2, NEW m, Shares(ct, ct2, m)
    PROVE  /\ m \in Nat /\ Len(ct) \in Nat /\ Len(ct2) \in Nat
           /\ Len(ct) \in {m, m + 1} /\ Len(ct2) \in {m, m + 1}
           /\ ct \in Seq(Proper) /\ ct2 \in Seq(Proper)
           /\ \A i \in 1..m : i \in 1..Len(ct) /\ i \in 1..Len(ct2) /\ ct2[i] = ct[i]
  BY DEF Shares

LEMMA StepNested ==
    ASSUME NEW ct, NEW ct2, NEW m, NEW p, NEW p2, Shares(ct, ct2, m), Nested(ct, p),
           p2 = "top" <=> ct2 = <<>>,
           Len(ct2) = 1 => p2 = "done",
           Len(ct2) = m + 1 => Fit(ct2[m + 1]) /\ Stands(ct2, m + 1),
           m = Len(ct) /\ m >= 2 => ~ct[m].flag,
           Len(ct2) = m + 1 /\ m >= 1 /\ ct2[m + 1].flag => p2 = "visit" /\ ct2[m].k # "block",
           p2 = "return" => /\ ct2[Len(ct2)].k \in {"block"} \cup Cases
                            /\ ct2[Len(ct2)].k = "block" => ct2[Len(ct2) - 1].k # "block"
    PROVE  Nested(ct2, p2)
<1>1. \A j \in 1..m : Fit(ct2[j]) /\ Stands(ct2, j)
  <2> SUFFICES ASSUME NEW j \in 1..m
               PROVE  Fit(ct2[j]) /\ Stands(ct2, j)
    OBVIOUS
  <2>1. \A i \in 1..j : ct2[i] = ct[i]
    BY SharesType
  <2>2. Fit(ct[j]) /\ Stands(ct, j) /\ ct2[j] = ct[j]
    BY SharesType DEF Nested
  <2>3. j > 1 => ct2[j - 1] = ct[j - 1]
    BY <2>1
  <2>4. \A i \in 1..(j - 1) : ct2[i] = ct[i]
    BY <2>1
  <2>5. Returnable(ct, j - 1) => Returnable(ct2, j - 1)
    BY <2>1 DEF Returnable
  <2> QED
    BY <2>2, <2>3, <2>4, <2>5 DEF Stands
<1>2. \A j \in 1..Len(ct2) : Fit(ct2[j]) /\ Stands(ct2, j)
  BY <1>1, SharesType
<1>3. ASSUME NEW j \in 2..Len(ct2), ct2[j].flag
      PROVE  j = Len(ct2) /\ p2 = "visit" /\ ct2[j - 1].k # "block"
  <2>1. CASE j = m + 1
    <3>1. Len(ct2) = m + 1 /\ m >= 1 /\ j - 1 = m
      BY <2>1, SharesType
    <3>2. ct2[m + 1].flag
      BY <1>3, <2>1
    <3> QED
      BY <2>1, <3>1, <3>2
  <2>2. CASE j # m + 1
    <3>1. j \in 2..m /\ j \in 2..Len(ct) /\ ct2[j] = ct[j]
      BY <2>2, SharesType
    <3>2. j = Len(ct)
      BY <1>3, <3>1 DEF Nested
    <3>3. m = Len(ct) /\ m >= 2 /\ j = m
      BY <3>1, <3>2, SharesType
    <3> QED
      BY <1>3, <3>1, <3>3
  <2> QED
    BY <2>1, <2>2
<1> QED
  BY <1>2, <1>3 DEF Nested

\* The scopes below the changed activation stay; what is new is empty.
LEMMA StepScoped ==
    ASSUME NEW ct, NEW ct2, NEW m, NEW sc \in Seq(SUBSET Items), NEW sc2 \in Seq(SUBSET Items),
           NEW co, NEW co2, NEW p, NEW p2, NEW k, Shares(ct, ct2, m), Scoped(ct, sc, co, p),
           k = Below(ct, m + 1),
           Len(sc2) = Below(ct2, Len(ct2) + 1),
           \A j \in 1..k : sc2[j] = sc[j],
           \A j \in (k + 1)..Len(sc2) : sc2[j] = {} \/ (j <= Len(sc) /\ sc2[j] = sc[j]),
           Len(ct2) = m + 1 /\ ct2[m + 1].k \in Cases \cup {"ifcond"} => sc2[k + 1] = {},
           Len(ct2) = m + 1 /\ ct2[m + 1].k \in Cases => sc2[k + 2] = {},
           m < Len(ct) \/ p = "visit"
    PROVE  Scoped(ct2, sc2, co2, p2)
<1>1. k \in Nat /\ k <= Len(sc) /\ m + 1 \in Nat /\ Below(ct2, m + 1) = k
  <2>1. m + 1 \in Nat /\ m + 1 \in 1..(m + 1) /\ Len(ct) + 1 \in Nat /\ m + 1 <= Len(ct) + 1
    BY SharesType
  <2>2. Below(ct, m + 1) <= Below(ct, Len(ct) + 1)
    BY <2>1, BelowUp
  <2>3. Below(ct2, m + 1) = Below(ct, m + 1) /\ Below(ct, m + 1) \in Nat
    BY <2>1, SharesBelow
  <2> QED
    BY <2>1, <2>2, <2>3 DEF Scoped
<1>2. Len(sc) \in Nat /\ Len(sc2) \in Nat
  OBVIOUS
<1>3. \A i, j \in 1..Len(sc2) : i # j => sc2[i] \cap sc2[j] = {}
  <2>1. \A j \in 1..Len(sc2) : sc2[j] = {} \/ (j \in 1..Len(sc) /\ sc2[j] = sc[j])
    BY <1>1, <1>2
  <2> QED
    BY <2>1 DEF Scoped
<1>4. ASSUME NEW i \in 1..m
      PROVE  /\ ct2[i].k \in Cases \cup {"ifcond"} => sc2[Below(ct2, i) + 1] = {}
             /\ ct2[i].k \in Cases => sc2[Below(ct2, i) + 2] = {}
  <2>1. i \in 1..(m + 1) /\ i \in Nat \ {0} /\ m + 1 \in Nat /\ i < m + 1
    BY SharesType
  <2>2. /\ Below(ct, i) \in Nat /\ Below(ct, i) + ScopesOf(ct[i].k) <= k
        /\ Below(ct2, i) = Below(ct, i)
    BY <2>1, SharesBelow, BelowRange
  <2>3. ct2[i] = ct[i] /\ i \in 1..Len(ct)
    BY SharesType
  <2>4. CASE ct[i].k = "ifcond"
    <3>1. ScopesOf(ct[i].k) = 1
      BY <2>4 DEF ScopesOf
    <3>2. Below(ct, i) + 1 \in 1..k
      BY <1>1, <2>2, <3>1
    <3>3. sc[Below(ct, i) + 1] = {}
      BY <2>3, <2>4 DEF Scoped
    <3> QED
      BY <2>2, <2>3, <2>4, <3>2, <3>3 DEF Cases
  <2>5. CASE ct[i].k \in Cases
    <3>1. ScopesOf(ct[i].k) = 2
      BY <2>5 DEF ScopesOf, Cases
    <3>2. Below(ct, i) + 1 \in 1..k /\ Below(ct, i) + 2 \in 1..k
      BY <1>1, <2>2, <3>1
    <3>3. i < Len(ct) \/ p = "visit"
      BY SharesType
    <3>4. sc[Below(ct, i) + 1] = {} /\ sc[Below(ct, i) + 2] = {}
      BY <2>3, <2>5, <3>3 DEF Scoped
    <3> QED
      BY <2>2, <2>3, <3>2, <3>4
  <2> QED
    BY <2>3, <2>4, <2>5
<1>5. \A i \in 1..Len(ct2) : i \in 1..m \/ (i = m + 1 /\ Len(ct2) = m + 1)
  BY SharesType
<1>6. ASSUME NEW i \in 1..Len(ct2)
      PROVE  /\ ct2[i].k \in Cases \cup {"ifcond"} => sc2[Below(ct2, i) + 1] = {}
             /\ ct2[i].k \in Cases => sc2[Below(ct2, i) + 2] = {}
  BY <1>1, <1>4, <1>5
<1> QED
  BY <1>3, <1>6 DEF Scoped

LEMMA AwaitedType ==
    ASSUME NEW a \in Proper
    PROVE  AwaitedBy(a) \subseteq Blocks
  BY DEF AwaitedBy, Proper, Activation

LEMMA JumpsSame ==
    ASSUME NEW a \in Proper, NEW S, NEW e, NEW e2, \A b \in AwaitedBy(a) : e2[b] = e[b],
           JumpsTo(a, S, e)
    PROVE  JumpsTo(a, S, e2)
<1>1. CASE a.k = "tthen"
  BY <1>1 DEF JumpsTo, AwaitedBy
<1>2. CASE a.k = "telse" \/ a.k = "lrhs" \/ a.k = "ifelse"
  BY <1>2 DEF JumpsTo, AwaitedBy
<1>3. CASE a.k = "ifthen"
  <2>1. a.end \in AwaitedBy(a) /\ (a.el # 0 => a.el \in AwaitedBy(a))
    BY <1>3 DEF AwaitedBy, Proper
  <2> QED
    BY <1>3, <2>1 DEF JumpsTo
<1> QED
  BY <1>1, <1>2, <1>3 DEF JumpsTo

\* The blocks that the changed activation waits for, if it is there.
TopBlocks(ct, m) == IF m < Len(ct) THEN AwaitedBy(ct[m + 1]) ELSE {}
TopItems(ct, m)  == IF m < Len(ct) THEN OwnedBy(ct[m + 1]) ELSE {}

\* A step makes blocks for the new top and inserts blocks of the old one.
Rebuilt(ct, ct2, m, co, co2) ==
    /\ TopBlocks(ct2, m) \cap (co.loose \ TopBlocks(ct, m)) = {}
    /\ co2.loose = (co.loose \ TopBlocks(ct, m)) \cup TopBlocks(ct2, m)
    /\ co2.cur \notin co2.loose /\ co2.open \subseteq {co2.cur}
    /\ \A b \in Blocks :
          /\ b \notin TopBlocks(ct, m) \cup TopBlocks(ct2, m) => co2.edges[b] = co.edges[b]
          /\ b \in TopBlocks(ct, m) \ TopBlocks(ct2, m) => co2.edges[b] = {}
    /\ co2.cur = co.cur \/ \A i \in 1..m : ct[i].k # "lrhs"
    /\ Len(ct2) = m + 1 /\ ct2[m + 1].k = "lrhs" => co2.cur = ct2[m + 1].el

\* What the activations below wait for is not what the top waits for.
LEMMA OtherBlocks ==
    ASSUME NEW ct, NEW ct2, NEW m, NEW co, NEW co2, Shares(ct, ct2, m), Laid(ct, co),
           Rebuilt(ct, ct2, m, co, co2), NEW i \in 1..m
    PROVE  /\ AwaitedBy(ct[i]) \subseteq co.loose \ TopBlocks(ct, m)
           /\ AwaitedBy(ct[i]) \cap TopBlocks(ct2, m) = {}
           /\ \A b \in AwaitedBy(ct[i]) : co2.edges[b] = co.edges[b]
<1>1. i \in 1..Len(ct) /\ ct[i] \in Proper
  <2>1. i \in 1..Len(ct) /\ ct \in Seq(Proper)
    BY SharesType
  <2> QED
    BY <2>1, ElementOfSeq
<1>2. AwaitedBy(ct[i]) \subseteq co.loose
  BY <1>1 DEF Laid
<1>3. AwaitedBy(ct[i]) \cap TopBlocks(ct, m) = {}
  <2>1. CASE m < Len(ct)
    <3>1. m + 1 \in 1..Len(ct) /\ i # m + 1
      BY <2>1, SharesType
    <3>2. AwaitedBy(ct[i]) \cap AwaitedBy(ct[m + 1]) = {}
      BY <1>1, <3>1 DEF Laid
    <3> QED
      BY <2>1, <3>2 DEF TopBlocks
  <2> QED
    BY <2>1 DEF TopBlocks
<1>4. AwaitedBy(ct[i]) \subseteq Blocks
  BY <1>1, AwaitedType
<1> QED
  BY <1>2, <1>3, <1>4 DEF Rebuilt

LEMMA StepLaid ==
    ASSUME NEW ct, NEW ct2, NEW m, NEW co, NEW co2, Shares(ct, ct2, m), Laid(ct, co),
           Rebuilt(ct, ct2, m, co, co2)
    PROVE  Laid(ct2, co2)
<1>1. ASSUME NEW i \in 1..m
      PROVE  /\ AwaitedBy(ct2[i]) = AwaitedBy(ct[i])
             /\ AwaitedBy(ct2[i]) \subseteq co.loose \ TopBlocks(ct, m)
             /\ AwaitedBy(ct2[i]) \cap TopBlocks(ct2, m) = {}
  <2>1. ct2[i] = ct[i]
    BY SharesType
  <2> QED
    BY <2>1, OtherBlocks
<1>2. ASSUME NEW i \in 1..Len(ct2)
      PROVE  i \in 1..m \/ (i = m + 1 /\ m < Len(ct2) /\ AwaitedBy(ct2[i]) = TopBlocks(ct2, m))
  <2>1. i \in 1..m \/ (i = m + 1 /\ m < Len(ct2))
    BY SharesType
  <2> QED
    BY <2>1 DEF TopBlocks
<1>3. co2.loose = UNION {AwaitedBy(ct2[i]) : i \in 1..Len(ct2)}
  <2>1. ASSUME NEW b, b \in co2.loose
        PROVE  \E i \in 1..Len(ct2) : b \in AwaitedBy(ct2[i])
    <3>1. CASE b \in TopBlocks(ct2, m)
      <4>1. m < Len(ct2) /\ m + 1 \in 1..Len(ct2) /\ b \in AwaitedBy(ct2[m + 1])
        BY <3>1, SharesType DEF TopBlocks
      <4> QED
        BY <4>1
    <3>2. CASE b \in co.loose \ TopBlocks(ct, m)
      <4>1. PICK i \in 1..Len(ct) : b \in AwaitedBy(ct[i])
        BY <3>2 DEF Laid
      <4>2. i # m + 1
        BY <3>2, <4>1, SharesType DEF TopBlocks
      <4>3. i \in 1..m /\ i \in 1..Len(ct2)
        BY <4>2, SharesType
      <4> QED
        BY <1>1, <4>1, <4>3
    <3> QED
      BY <2>1, <3>1, <3>2 DEF Rebuilt
  <2>2. ASSUME NEW i \in 1..Len(ct2)
        PROVE  AwaitedBy(ct2[i]) \subseteq co2.loose
    BY <1>1, <1>2 DEF Rebuilt
  <2> QED
    BY <2>1, <2>2
<1>4. ASSUME NEW i \in 1..Len(ct2), NEW j \in 1..Len(ct2), i # j
      PROVE  AwaitedBy(ct2[i]) \cap AwaitedBy(ct2[j]) = {}
  <2>1. CASE i \in 1..m /\ j \in 1..m
    <3>1. \A h \in 1..m : h \in 1..Len(ct) /\ ct2[h] = ct[h]
      BY SharesType
    <3>2. i \in 1..Len(ct) /\ ct2[i] = ct[i]
      BY <2>1, <3>1
    <3>3. j \in 1..Len(ct) /\ ct2[j] = ct[j]
      BY <2>1, <3>1
    <3> QED
      BY <1>4, <3>2, <3>3 DEF Laid
  <2>2. CASE ~(i \in 1..m /\ j \in 1..m)
    BY <1>1, <1>2, <1>4, <2>2
  <2> QED
    BY <2>1, <2>2
<1>5. ASSUME NEW b \in Blocks, b \notin co2.loose
      PROVE  co2.edges[b] = {}
  BY <1>5 DEF Rebuilt, Laid
<1>6. ASSUME NEW i \in 1..Len(ct2), ct2[i].k = "lrhs"
      PROVE  co2.cur = ct2[i].el
  <2>1. CASE i \in 1..m
    <3>1. i \in 1..Len(ct) /\ ct2[i] = ct[i]
      BY <2>1, SharesType
    <3> QED
      BY <1>6, <2>1, <3>1 DEF Rebuilt, Laid
  <2>2. CASE i = m + 1 /\ m < Len(ct2)
    <3>1. Len(ct2) = m + 1
      BY <2>2, SharesType
    <3> QED
      BY <1>6, <2>2, <3>1 DEF Rebuilt
  <2> QED
    BY <1>2, <2>1, <2>2
<1> QED
  BY <1>3, <1>4, <1>5, <1>6 DEF Laid, Rebuilt

LEMMA StepEdged ==
    ASSUME NEW ct, NEW ct2, NEW m, NEW sc, NEW sc2, NEW co, NEW co2, Shares(ct, ct2, m),
           Laid(ct, co), Edged(ct, sc, co), Rebuilt(ct, ct2, m, co, co2),
           Agree(sc, sc2, Below(ct, m)),
           Len(ct2) = m + 1 => JumpsTo(ct2[m + 1], Base(ct2, sc2, m + 1), co2.edges)
    PROVE  Edged(ct2, sc2, co2)
<1>1. ASSUME NEW i \in 1..m
      PROVE  JumpsTo(ct2[i], Base(ct2, sc2, i), co2.edges)
  <2>1. i \in 1..Len(ct) /\ ct2[i] = ct[i] /\ ct \in Seq(Proper)
    BY SharesType
  <2>2. ct[i] \in Proper
    BY <2>1, ElementOfSeq
  <2>3. Below(ct, i) <= Below(ct, m) /\ Below(ct, i) \in Nat /\ Below(ct, m) \in Nat
    <3>1. i \in Nat /\ m \in Nat /\ i <= m
      BY SharesType
    <3> QED
      BY <3>1, BelowUp, HeldFinite
  <2>4. Agree(sc, sc2, Below(ct, i))
    BY <2>3 DEF Agree
  <2>5. Base(ct2, sc2, i) = Base(ct, sc, i)
    BY <2>4, SharesBase
  <2>6. JumpsTo(ct[i], Base(ct, sc, i), co.edges)
    BY <2>1 DEF Edged
  <2>7. PICK S, e, e2 : S = Base(ct, sc, i) /\ e = co.edges /\ e2 = co2.edges
    OBVIOUS
  <2>8. \A b \in AwaitedBy(ct[i]) : e2[b] = e[b]
    BY <2>7, OtherBlocks
  <2>9. JumpsTo(ct[i], S, e)
    BY <2>6, <2>7
  <2>10. JumpsTo(ct[i], S, e2)
    BY <2>2, <2>8, <2>9, JumpsSame
  <2> QED
    BY <2>1, <2>5, <2>7, <2>10
<1>2. \A i \in 1..Len(ct2) : i \in 1..m \/ (i = m + 1 /\ Len(ct2) = m + 1)
  BY SharesType
<1>3. ASSUME NEW i \in 1..Len(ct2)
      PROVE  JumpsTo(ct2[i], Base(ct2, sc2, i), co2.edges)
  <2>1. CASE i \in 1..m
    BY <1>1, <2>1
  <2>2. CASE i = m + 1 /\ Len(ct2) = m + 1
    BY <2>2
  <2> QED
    BY <1>2, <2>1, <2>2
<1> QED
  BY <1>3 DEF Edged

LEMMA TopItemsApart ==
    ASSUME NEW ct, NEW ct2, NEW m, NEW sc, NEW re, NEW p, Shares(ct, ct2, m),
           Apart(ct, sc, re, p)
    PROVE  /\ \A i \in 1..m : /\ TopItems(ct, m) \cap OwnedBy(ct[i]) = {}
                              /\ Fresh(re, p) \cap OwnedBy(ct[i]) = {}
           /\ TopItems(ct, m) \cap Vars(sc) = {} /\ Fresh(re, p) \cap Vars(sc) = {}
           /\ TopItems(ct, m) \cap Fresh(re, p) = {}
           /\ 0 \notin TopItems(ct, m) /\ 0 \notin Fresh(re, p)
<1>1. \A i \in 1..m : i \in 1..Len(ct) /\ i # m + 1
  BY SharesType
<1>2. m < Len(ct) => m + 1 \in 1..Len(ct)
  BY SharesType
<1>3. \A i \in 1..m : TopItems(ct, m) \cap OwnedBy(ct[i]) = {}
  BY <1>1, <1>2 DEF Apart, TopItems
<1>4. \A i \in 1..m : Fresh(re, p) \cap OwnedBy(ct[i]) = {}
  BY <1>1 DEF Apart, Fresh
<1>5. TopItems(ct, m) \cap Vars(sc) = {} /\ Fresh(re, p) \cap Vars(sc) = {}
      /\ TopItems(ct, m) \cap Fresh(re, p) = {}
  BY <1>2 DEF Apart, Fresh, TopItems
<1>6. 0 \notin TopItems(ct, m) /\ 0 \notin Fresh(re, p)
  BY DEF TopItems, Fresh, OwnedBy
<1> QED
  BY <1>3, <1>4, <1>5, <1>6

\* New owners have what the old top had, what was just produced, or unused names.
LEMMA StepApart ==
    ASSUME NEW ct, NEW ct2, NEW m, NEW sc, NEW sc2, NEW re, NEW re2, NEW p, NEW p2, NEW F,
           Shares(ct, ct2, m), Apart(ct, sc, re, p),
           \A i \in 1..m : F \cap OwnedBy(ct[i]) = {},
           Vars(sc2) \subseteq Vars(sc) \cup F,
           TopItems(ct2, m) \subseteq F, TopItems(ct2, m) \cap Vars(sc2) = {},
           Len(ct2) = m + 1 /\ ct2[m + 1].v.item # 0 => ct2[m + 1].v.item # ct2[m + 1].p,
           p2 = "done" => /\ re2.item \in F \cup {0} /\ re2.item \notin Vars(sc2)
                          /\ re2.item \notin TopItems(ct2, m)
    PROVE  Apart(ct2, sc2, re2, p2)
<1>1. ASSUME NEW i \in 1..m
      PROVE  /\ ct2[i] = ct[i] /\ i \in 1..Len(ct)
             /\ OwnedBy(ct2[i]) \cap Vars(sc2) = {}
             /\ OwnedBy(ct2[i]) \cap TopItems(ct2, m) = {}
             /\ p2 = "done" => re2.item \notin OwnedBy(ct2[i])
  <2>1. ct2[i] = ct[i] /\ i \in 1..Len(ct)
    BY SharesType
  <2>2. OwnedBy(ct[i]) \cap Vars(sc) = {}
    BY <2>1 DEF Apart
  <2>3. F \cap OwnedBy(ct[i]) = {} /\ 0 \notin OwnedBy(ct[i])
    BY DEF OwnedBy
  <2> QED
    BY <2>1, <2>2, <2>3
<1>2. ASSUME NEW i \in 1..Len(ct2)
      PROVE  i \in 1..m \/ (i = m + 1 /\ Len(ct2) = m + 1 /\ OwnedBy(ct2[i]) = TopItems(ct2, m))
  <2>1. i \in 1..m \/ (i = m + 1 /\ m < Len(ct2) /\ Len(ct2) = m + 1)
    BY SharesType
  <2> QED
    BY <2>1 DEF TopItems
<1>3. ASSUME NEW i \in 1..Len(ct2)
      PROVE  /\ ct2[i].v.item # 0 => ct2[i].v.item # ct2[i].p
             /\ OwnedBy(ct2[i]) \cap Vars(sc2) = {}
             /\ p2 = "done" => re2.item \notin OwnedBy(ct2[i])
  <2>1. CASE i \in 1..m
    BY <1>1, <2>1 DEF Apart
  <2>2. CASE i = m + 1 /\ Len(ct2) = m + 1 /\ OwnedBy(ct2[i]) = TopItems(ct2, m)
    BY <2>2
  <2> QED
    BY <1>2, <2>1, <2>2
<1>4. ASSUME NEW i \in 1..Len(ct2), NEW j \in 1..Len(ct2), i # j
      PROVE  OwnedBy(ct2[i]) \cap OwnedBy(ct2[j]) = {}
  <2>1. CASE i \in 1..m /\ j \in 1..m
    <3>1. i \in 1..Len(ct) /\ ct2[i] = ct[i]
      BY <1>1, <2>1
    <3>2. j \in 1..Len(ct) /\ ct2[j] = ct[j]
      BY <1>1, <2>1
    <3> QED
      BY <1>4, <3>1, <3>2 DEF Apart
  <2>2. CASE ~(i \in 1..m /\ j \in 1..m)
    BY <1>1, <1>2, <1>4, <2>2
  <2> QED
    BY <2>1, <2>2
<1> QED
  BY <1>3, <1>4 DEF Apart

-----------------------------------------------------------------------------
(* What is alive *)

LEMMA VarsOf ==
    ASSUME NEW s \in Seq(SUBSET Items)
    PROVE  /\ \A x : x \in Vars(s) <=> \E i \in 1..Len(s) : x \in s[i]
           /\ Vars(s) \subseteq Items
<1>1. \A i \in 1..Len(s) : s[i] \in SUBSET Items
  BY ElementOfSeq
<1> QED
  BY <1>1 DEF Vars

LEMMA AllVarsIs ==
    ASSUME TypeInv
    PROVE  AllVars = Vars(scopes)
<1>1. DOMAIN scopes = 1..Len(scopes)
  BY DEF TypeInv
<1> QED
  BY <1>1 DEF AllVars, Vars

LEMMA VarsPush ==
    ASSUME NEW s \in Seq(SUBSET Items)
    PROVE  Vars(Append(s, {})) = Vars(s)
<1>1. /\ Append(s, {}) \in Seq(SUBSET Items) /\ Len(Append(s, {})) = Len(s) + 1
      /\ Append(s, {})[Len(s) + 1] = {} /\ \A i \in 1..Len(s) : Append(s, {})[i] = s[i]
  OBVIOUS
<1>2. PICK t : t = Append(s, {})
  OBVIOUS
<1>3. /\ t \in Seq(SUBSET Items) /\ Len(t) = Len(s) + 1 /\ Len(s) \in Nat
      /\ t[Len(s) + 1] = {} /\ \A i \in 1..Len(s) : t[i] = s[i]
  BY <1>1, <1>2
<1>4. \A x : x \in Vars(t) <=> x \in Vars(s)
  BY <1>3, VarsOf
<1> QED
  BY <1>2, <1>4

LEMMA VarsPop ==
    ASSUME NEW s \in Seq(SUBSET Items), Len(s) > 0,
           \A i, j \in 1..Len(s) : i # j => s[i] \cap s[j] = {}
    PROVE  /\ Outer(s) \in Seq(SUBSET Items) /\ Len(Outer(s)) = Len(s) - 1
           /\ Vars(Outer(s)) = Vars(s) \ s[Len(s)] /\ s[Len(s)] \subseteq Vars(s)
<1>1. PICK t : t = Outer(s)
  OBVIOUS
<1>2. /\ t \in Seq(SUBSET Items) /\ Len(t) = Len(s) - 1 /\ Len(s) \in Nat
      /\ \A i \in 1..(Len(s) - 1) : t[i] = s[i]
  BY <1>1, OuterFacts
<1>3. \A x : x \in Vars(t) => x \in Vars(s) /\ x \notin s[Len(s)]
  <2> SUFFICES ASSUME NEW x, x \in Vars(t)
               PROVE  x \in Vars(s) /\ x \notin s[Len(s)]
    OBVIOUS
  <2>1. PICK i \in 1..Len(t) : x \in t[i]
    BY <1>2, VarsOf
  <2>2. i \in 1..Len(s) /\ i # Len(s) /\ Len(s) \in 1..Len(s) /\ x \in s[i]
    BY <1>2, <2>1
  <2> QED
    BY <2>2, VarsOf
<1>4. \A x : x \in Vars(s) /\ x \notin s[Len(s)] => x \in Vars(t)
  <2> SUFFICES ASSUME NEW x, x \in Vars(s), x \notin s[Len(s)]
               PROVE  x \in Vars(t)
    OBVIOUS
  <2>1. PICK i \in 1..Len(s) : x \in s[i]
    BY VarsOf
  <2>2. i # Len(s)
    BY <2>1
  <2>3. i \in 1..Len(t) /\ x \in t[i]
    BY <1>2, <2>1, <2>2
  <2> QED
    BY <1>2, <2>3, VarsOf
<1>5. s[Len(s)] \subseteq Vars(s)
  <2>1. Len(s) \in 1..Len(s)
    BY <1>2
  <2> QED
    BY <2>1, VarsOf
<1> QED
  BY <1>1, <1>2, <1>3, <1>4, <1>5

TopKept(ct, m) == IF m < Len(ct) THEN {ct[m + 1].v.item} \ {0} ELSE {}

LEMMA KeptStep ==
    ASSUME NEW ct, NEW ct2, NEW m, NEW sc, NEW re, NEW p, Shares(ct, ct2, m),
           Apart(ct, sc, re, p)
    PROVE  /\ Kept(ct2) = (Kept(ct) \ TopKept(ct, m)) \cup TopKept(ct2, m)
           /\ TopKept(ct, m) \subseteq Kept(ct)
<1>1. \A x : x \in Kept(ct) <=> x # 0 /\ \E i \in 1..Len(ct) : x = ct[i].v.item
  BY DEF Kept
<1>2. \A x : x \in Kept(ct2) <=> x # 0 /\ \E i \in 1..Len(ct2) : x = ct2[i].v.item
  BY DEF Kept
<1>3. \A i \in 1..m : ct2[i] = ct[i] /\ i \in 1..Len(ct) /\ i \in 1..Len(ct2)
  BY SharesType
<1>4. \A i \in 1..Len(ct) : i \in 1..m \/ (i = m + 1 /\ m < Len(ct))
  BY SharesType
<1>5. \A i \in 1..Len(ct2) : i \in 1..m \/ (i = m + 1 /\ m < Len(ct2))
  BY SharesType
<1>6. (m < Len(ct) => m + 1 \in 1..Len(ct)) /\ (m < Len(ct2) => m + 1 \in 1..Len(ct2))
  BY SharesType
<1>7. ASSUME NEW i \in 1..m
      PROVE  ct[i].v.item \notin TopKept(ct, m)
  <2>1. TopItems(ct, m) \cap OwnedBy(ct[i]) = {}
    BY TopItemsApart
  <2> QED
    BY <2>1 DEF TopItems, TopKept, OwnedBy
<1>8. \A x : x \in Kept(ct2) => x \in (Kept(ct) \ TopKept(ct, m)) \cup TopKept(ct2, m)
  BY <1>1, <1>2, <1>3, <1>5, <1>7 DEF TopKept
<1>9. \A x : x \in Kept(ct) \ TopKept(ct, m) => x \in Kept(ct2)
  BY <1>1, <1>2, <1>3, <1>4 DEF TopKept
<1>10. TopKept(ct2, m) \subseteq Kept(ct2) /\ TopKept(ct, m) \subseteq Kept(ct)
  BY <1>1, <1>2, <1>6 DEF TopKept
<1> QED
  BY <1>8, <1>9, <1>10

LEMMA BaseExpr ==
    ASSUME NEW ct \in Seq(Proper), NEW sc \in Seq(SUBSET Items), NEW n, n = Len(ct), n > 0,
           Len(sc) = Below(ct, n + 1), ScopesOf(ct[n].k) = 0
    PROVE  Base(ct, sc, n) = Vars(sc) \cup Kept(ct) /\ Below(ct, n) = Len(sc)
<1>1. n \in Nat \ {0}
  OBVIOUS
<1>2. Below(ct, n) = Len(sc)
  <2>1. Below(ct, n) \in Nat
    BY <1>1, HeldFinite
  <2>2. Below(ct, n + 1) = Below(ct, n) + ScopesOf(ct[n].k)
    BY <1>1, BelowNext
  <2> QED
    BY <2>1, <2>2
<1> QED
  BY <1>2 DEF Base, Vars, Kept

LEMMA BaseCase ==
    ASSUME NEW ct \in Seq(Proper), NEW sc \in Seq(SUBSET Items), NEW n, n = Len(ct), n > 0,
           Len(sc) = Below(ct, n + 1), ScopesOf(ct[n].k) = 2, sc[Below(ct, n) + 1] = {},
           \A i, j \in 1..Len(sc) : i # j => sc[i] \cap sc[j] = {}
    PROVE  /\ Len(sc) = Below(ct, n) + 2 /\ Below(ct, n) \in Nat
           /\ Base(ct, sc, n) = (Vars(sc) \ sc[Len(sc)]) \cup Kept(ct)
<1>1. n \in Nat \ {0}
  OBVIOUS
<1>2. Below(ct, n) \in Nat /\ Len(sc) = Below(ct, n) + 2
  <2>1. Below(ct, n) \in Nat
    BY <1>1, HeldFinite
  <2>2. Below(ct, n + 1) = Below(ct, n) + ScopesOf(ct[n].k)
    BY <1>1, BelowNext
  <2> QED
    BY <2>1, <2>2
<1>3. PICK b \in Nat : b = Below(ct, n)
  BY <1>2
<1>4. ASSUME NEW x
      PROVE  (\E i \in 1..b : x \in sc[i]) <=> x \in Vars(sc) \ sc[Len(sc)]
  <2>1. ASSUME NEW i \in 1..b, x \in sc[i]
        PROVE  x \in Vars(sc) \ sc[Len(sc)]
    <3>1. i \in 1..Len(sc) /\ Len(sc) \in 1..Len(sc) /\ i # Len(sc)
      BY <1>2, <1>3
    <3> QED
      BY <2>1, <3>1, VarsOf
  <2>2. ASSUME x \in Vars(sc), x \notin sc[Len(sc)]
        PROVE  \E i \in 1..b : x \in sc[i]
    <3>1. PICK i \in 1..Len(sc) : x \in sc[i]
      BY <2>2, VarsOf
    <3>2. i # Len(sc) /\ i # b + 1
      BY <1>3, <2>2, <3>1
    <3>3. i \in 1..b
      BY <1>2, <1>3, <3>2
    <3> QED
      BY <3>1, <3>3
  <2> QED
    BY <2>1, <2>2
<1>5. UNION {sc[j] : j \in 1..b} = Vars(sc) \ sc[Len(sc)]
  BY <1>4
<1>6. {ct[j].v.item : j \in 1..n} \ {0} = Kept(ct)
  BY DEF Kept
<1> QED
  BY <1>2, <1>3, <1>5, <1>6 DEF Base

-----------------------------------------------------------------------------
(* Four classes of steps *)

LEMMA KeepsItself ==
    ASSUME NEW ct \in Seq(Proper)
    PROVE  /\ Shares(ct, ct, Len(ct)) /\ TopBlocks(ct, Len(ct)) = {}
           /\ TopItems(ct, Len(ct)) = {} /\ TopKept(ct, Len(ct)) = {}
  BY DEF Shares, TopBlocks, TopItems, TopKept

\* An expression, or an empty statement, without activations of its own.
LEMMA StayGood ==
    ASSUME NEW ct \in Seq(Proper), NEW sc \in Seq(SUBSET Items), NEW re, NEW co \in Code,
           NEW re2 \in Value, NEW co2 \in Code,
           Good(ct, sc, re, co, "visit"), Flowing(co), WellFormed(re2),
           co2.cur = co.cur, co2.open = co.open, co2.loose = co.loose, co2.edges = co.edges,
           co2.faults = {}, co2.held = co.held \cup ({re2.item} \ {0}),
           re2.item \notin Vars(sc), \A i \in 1..Len(ct) : re2.item \notin OwnedBy(ct[i]),
           ct[Len(ct)].k \in ExprKind => Suits(re2, ct[Len(ct)].want),
           ct[Len(ct)].k = "lrhs" => re2.item = 0,
           ct[Len(ct)].k \in StmtKind => re2.k \notin {"field", "self"}
    PROVE  Good(ct, sc, re2, co2, "done")
<1> DEFINE n == Len(ct)
<1>1. /\ Nested(ct, "visit") /\ Scoped(ct, sc, co, "visit") /\ Apart(ct, sc, re, "visit")
      /\ Laid(ct, co) /\ Edged(ct, sc, co) /\ Matched(ct, sc, re, co, "visit")
      /\ Flows(ct, re, co, "visit")
  BY DEF Good
<1>2. n \in Nat /\ n >= 2
  <2>1. n # 0 /\ n # 1
    BY <1>1 DEF Nested
  <2>2. n \in Nat
    OBVIOUS
  <2> HIDE DEF n
  <2> QED
    BY <2>1, <2>2
<1>3. ~ct[n].flag
  BY <1>1 DEF Flows
<1>4. Nested(ct, "done")
  BY <1>1, <1>2, <1>3 DEF Nested
<1>5. Scoped(ct, sc, co2, "done")
  BY <1>1 DEF Scoped
<1>6. Apart(ct, sc, re2, "done")
  BY <1>1 DEF Apart
<1>7. Laid(ct, co2) /\ Edged(ct, sc, co2)
  BY <1>1 DEF Laid, Edged
<1>8. Matched(ct, sc, re2, co2, "done")
  BY <1>1 DEF Matched, Flowing, Fresh
<1>9. Flows(ct, re2, co2, "done")
  BY <1>1 DEF Flows, Flowing
<1>10. Found(ct, re2, "done")
  <2>1. n \in 1..Len(ct) /\ n # 1
    BY <1>2
  <2>2. ct[n].k # "func"
    BY <1>1, <2>1 DEF Nested, Stands
  <2>3. ct # <<>>
    BY <1>2
  <2> QED
    BY <2>2, <2>3 DEF Found
<1> QED
  BY <1>4, <1>5, <1>6, <1>7, <1>8, <1>9, <1>10 DEF Good

LEMMA BelowTop ==
    ASSUME NEW ct, NEW ct2, NEW m, Shares(ct, ct2, m), Len(ct2) = m + 1
    PROVE  Below(ct2, Len(ct2) + 1) = Below(ct, m + 1) + ScopesOf(ct2[m + 1].k)
<1>1. PICK i \in Nat \ {0} : i = m + 1
  BY SharesType
<1>2. Below(ct2, i + 1) = Below(ct2, i) + ScopesOf(ct2[i].k)
  BY BelowNext
<1>3. i \in 1..(m + 1)
  BY <1>1, SharesType
<1>4. Below(ct2, i) = Below(ct, i)
  BY <1>3, SharesBelow
<1> QED
  BY <1>1, <1>2, <1>4

\* A visitor is entered.
LEMMA EnterGood ==
    ASSUME NEW ct \in Seq(Proper), NEW sc \in Seq(SUBSET Items), NEW sc2 \in Seq(SUBSET Items),
           NEW re, NEW co \in Code, NEW a \in Proper,
           Good(ct, sc, re, co, "visit"), Flowing(co),
           Fit(a), Stands(Append(ct, a), Len(ct) + 1), a.v = NoValue, ~a.flag,
           a.k \notin {"tthen", "telse", "lrhs"} \cup Cases,
           a.p \notin Vars(sc), \A i \in 1..Len(ct) : a.p \notin OwnedBy(ct[i]),
           sc2 = IF ScopesOf(a.k) = 0 THEN sc ELSE Append(sc, {})
    PROVE  Good(Append(ct, a), sc2, re, co, "visit")
<1>1. /\ Nested(ct, "visit") /\ Scoped(ct, sc, co, "visit") /\ Apart(ct, sc, re, "visit")
      /\ Laid(ct, co) /\ Edged(ct, sc, co) /\ Matched(ct, sc, re, co, "visit")
      /\ Flows(ct, re, co, "visit") /\ co.faults = {}
  BY DEF Good
<1>2. PICK m \in Nat : m = Len(ct)
  OBVIOUS
<1>3. PICK ct2 : ct2 = Append(ct, a)
  OBVIOUS
<1>4. m # 0 /\ m # 1
  BY <1>1, <1>2 DEF Nested
<1>5. ct2 \in Seq(Proper) /\ Len(ct2) = m + 1 /\ ct2[m + 1] = a /\ \A i \in 1..m : ct2[i] = ct[i]
  BY <1>2, <1>3, PushFacts
<1>6. Shares(ct, ct2, m)
  BY <1>2, <1>5 DEF Shares
<1>7. Nested(ct2, "visit")
  <2>1. ~ct[m].flag
    BY <1>1, <1>2 DEF Flows
  <2>2. Fit(ct2[m + 1]) /\ Stands(ct2, m + 1) /\ ~ct2[m + 1].flag
    BY <1>2, <1>3, <1>5
  <2>3. ct2 # <<>> /\ Len(ct2) # 1
    BY <1>4, <1>5
  <2> QED
    BY <1>1, <1>6, <2>1, <2>2, <2>3, StepNested
<1>8. ScopesOf(a.k) \in {0, 1}
  BY DEF ScopesOf, Cases, StmtKind, ExprKind
<1>9. PICK k \in Nat : k = Below(ct, m + 1)
  BY <1>2, HeldFinite
<1>10. /\ Len(sc) = k /\ Len(sc2) = k + ScopesOf(a.k) /\ (\A j \in 1..k : sc2[j] = sc[j])
       /\ \A j \in (k + 1)..Len(sc2) : sc2[j] = {}
  <2>1. Len(sc) = k
    BY <1>1, <1>2, <1>9 DEF Scoped
  <2>2. CASE ScopesOf(a.k) = 0
    BY <2>1, <2>2
  <2>3. CASE ScopesOf(a.k) = 1
    <3>1. sc2 = Append(sc, {}) /\ {} \in SUBSET Items
      BY <2>3
    <3>2. Len(sc2) = k + 1 /\ sc2[k + 1] = {} /\ \A j \in 1..k : sc2[j] = sc[j]
      BY <2>1, <3>1
    <3> QED
      BY <2>1, <2>3, <3>2
  <2> QED
    BY <1>8, <2>2, <2>3, <2>1
<1>11. Below(ct2, m + 1) = k /\ Below(ct2, m + 2) = k + ScopesOf(a.k)
  <2>1. m + 1 \in 1..(m + 1) /\ m + 1 \in Nat \ {0}
    OBVIOUS
  <2>2. Below(ct2, m + 1) = k
    BY <1>6, <1>9, <2>1, SharesBelow
  <2>3. PICK i \in Nat \ {0} : i = m + 1
    BY <2>1
  <2>4. Below(ct2, i + 1) = Below(ct2, i) + ScopesOf(ct2[i].k)
    BY BelowNext
  <2>5. i + 1 = m + 2
    BY <2>3
  <2> QED
    BY <1>5, <2>2, <2>3, <2>4, <2>5
<1>12. Scoped(ct2, sc2, co, "visit")
  <2>1. Len(sc2) = Below(ct2, Len(ct2) + 1)
    BY <1>5, <1>10, <1>11
  <2>2. ct2[m + 1].k \notin Cases
    BY <1>5
  <2>3. ct2[m + 1].k = "ifcond" => sc2[k + 1] = {}
    BY <1>5, <1>10 DEF ScopesOf
  <2> QED
    BY <1>1, <1>6, <1>9, <1>10, <2>1, <2>2, <2>3, StepScoped
<1>13. Vars(sc2) = Vars(sc)
  BY VarsPush
<1>14. TopItems(ct2, m) = {a.p} \ {0} /\ TopKept(ct2, m) = {} /\ TopBlocks(ct2, m) = {}
       /\ TopItems(ct, m) = {} /\ TopKept(ct, m) = {} /\ TopBlocks(ct, m) = {}
  <2>1. a.v.item = 0
    BY DEF NoValue, Val
  <2>2. AwaitedBy(a) = {}
    BY DEF AwaitedBy, Cases
  <2>3. m < m + 1
    OBVIOUS
  <2> QED
    BY <1>2, <1>5, <2>1, <2>2, <2>3 DEF TopItems, TopKept, TopBlocks, OwnedBy
<1>15. Apart(ct2, sc2, re, "visit")
  <2>1. PICK F : F = {a.p} \ {0}
    OBVIOUS
  <2>2. \A i \in 1..m : F \cap OwnedBy(ct[i]) = {}
    BY <1>2, <2>1
  <2>3. TopItems(ct2, m) \subseteq F /\ TopItems(ct2, m) \cap Vars(sc2) = {}
    BY <1>13, <1>14, <2>1
  <2>4. ct2[m + 1].v.item = 0
    BY <1>5 DEF NoValue, Val
  <2> QED
    BY <1>1, <1>6, <1>13, <2>2, <2>3, <2>4, StepApart
<1>16. Rebuilt(ct, ct2, m, co, co)
  <2>1. co.cur \notin co.loose /\ co.open \subseteq {co.cur}
    BY <1>1 DEF Laid
  <2>2. ct2[m + 1].k # "lrhs"
    BY <1>5
  <2> QED
    BY <1>14, <2>1, <2>2 DEF Rebuilt
<1>17. Laid(ct2, co)
  BY <1>1, <1>6, <1>16, StepLaid
<1>18. Edged(ct2, sc2, co)
  <2>1. Agree(sc, sc2, Below(ct, m))
    <3>1. Below(ct, m) \in Nat /\ Below(ct, m) <= k
      BY <1>2, <1>9, HeldFinite, BelowUp
    <3> QED
      BY <1>10, <3>1 DEF Agree
  <2>2. \A S, edges : JumpsTo(a, S, edges)
    BY DEF JumpsTo, Cases
  <2> QED
    BY <1>1, <1>5, <1>6, <1>16, <2>1, <2>2, StepEdged
<1>19. Matched(ct2, sc2, re, co, "visit")
  <2>1. Kept(ct2) = (Kept(ct) \ TopKept(ct, m)) \cup TopKept(ct2, m)
    BY <1>1, <1>6, KeptStep
  <2>2. Kept(ct2) = Kept(ct)
    BY <1>14, <2>1
  <2> QED
    BY <1>1, <1>13, <2>2 DEF Matched, Fresh
<1>20. Flows(ct2, re, co, "visit")
  BY <1>5 DEF Flows
<1>21. Found(ct2, re, "visit")
  <2>1. ct2 # <<>> /\ ct2[Len(ct2)] = a
    BY <1>5
  <2>2. CASE a.k \in StmtKind
    <3>1. m \in 1..m /\ m + 1 \in 1..(m + 1) /\ (m + 1) - 1 = m /\ m + 1 # 1
      BY <1>4
    <3>2. Stands(ct2, m + 1)
      BY <1>2, <1>3
    <3>3. a.k = "block"
      BY <1>5, <2>2, <3>1, <3>2 DEF Stands, StmtKind, Cases
    <3>4. ct2[m].k \in StmtKind
      BY <1>5, <3>1, <3>2, <3>3 DEF Stands, OnStmt
    <3>5. ct[Len(ct)].k \in StmtKind
      BY <1>2, <1>5, <3>1, <3>4
    <3>6. re.k \notin {"field", "self"}
      BY <3>5 DEF Good, Found
    <3> QED
      BY <3>6 DEF Found
  <2>3. CASE a.k \notin StmtKind
    BY <2>1, <2>3 DEF Found
  <2> QED
    BY <2>2, <2>3
<1> QED
  BY <1>1, <1>3, <1>7, <1>12, <1>15, <1>17, <1>18, <1>19, <1>20, <1>21 DEF Good

\* A visitor returns; what its own activation owned is in result, or gone, or in a scope.
LEMMA LeaveAny ==
    ASSUME NEW ct \in Seq(Proper), NEW sc \in Seq(SUBSET Items), NEW sc2 \in Seq(SUBSET Items),
           NEW re, NEW re2 \in Value, NEW co \in Code, NEW co2 \in Code, NEW p,
           NEW m \in Nat, Len(ct) = m + 1, m # 0, Good(ct, sc, re, co, p),
           Scoped(Outer(ct), sc2, co2, "done"), Agree(sc, sc2, Below(ct, m)),
           Vars(sc2) \subseteq Vars(sc) \cup TopItems(ct, m),
           Rebuilt(ct, Outer(ct), m, co, co2), co2.faults = {},
           re2.item \in TopItems(ct, m) \cup {0}, re2.item \notin Vars(sc2), WellFormed(re2),
           re2.k \notin {"field", "self"},
           ct[m].k \in ExprKind => Suits(re2, ct[m].want),
           ct[m].k \in {"lrhs", "func"} => re2.item = 0,
           Flowing(co2) =>
              co2.held = Vars(sc2) \cup (Kept(ct) \ TopKept(ct, m)) \cup ({re2.item} \ {0}),
           ~Flowing(co2) => /\ co2.held = {} /\ ct[m].k \in StmtKind /\ re2.item = 0
                            /\ ct[m].k = "block" => co2.cur = 0
    PROVE  Good(Outer(ct), sc2, re2, co2, "done")
<1>1. /\ Nested(ct, p) /\ Apart(ct, sc, re, p) /\ Laid(ct, co) /\ Edged(ct, sc, co)
  BY DEF Good
<1>2. PICK ct2 : ct2 = Outer(ct)
  OBVIOUS
<1>3. ct2 \in Seq(Proper) /\ Len(ct2) = m /\ \A i \in 1..m : ct2[i] = ct[i]
  BY <1>2, OuterFacts
<1>4. Shares(ct, ct2, m)
  BY <1>3 DEF Shares
<1>5. ct2[m] = ct[m] /\ m \in 1..m /\ ct2 # <<>>
  BY <1>3
<1>6. TopItems(ct2, m) = {} /\ TopKept(ct2, m) = {}
  BY <1>3 DEF TopItems, TopKept
<1>7. Nested(ct2, "done")
  <2>1. Len(ct2) # m + 1 /\ Len(ct) # m
    BY <1>3
  <2> QED
    BY <1>1, <1>4, <1>5, <2>1, StepNested
<1>8. Apart(ct2, sc2, re2, "done")
  <2>1. PICK F : F = TopItems(ct, m)
    OBVIOUS
  <2>2. \A i \in 1..m : F \cap OwnedBy(ct[i]) = {}
    BY <1>1, <1>4, <2>1, TopItemsApart
  <2>3. TopItems(ct2, m) \subseteq F /\ TopItems(ct2, m) \cap Vars(sc2) = {}
        /\ re2.item \notin TopItems(ct2, m)
    BY <1>6
  <2>4. Len(ct2) # m + 1
    BY <1>3
  <2>5. Vars(sc2) \subseteq Vars(sc) \cup F /\ re2.item \in F \cup {0}
    BY <2>1
  <2> QED
    BY <1>1, <1>4, <2>2, <2>3, <2>4, <2>5, StepApart
<1>9. Laid(ct2, co2)
  BY <1>1, <1>2, <1>4, StepLaid
<1>10. Edged(ct2, sc2, co2)
  <2>1. Len(ct2) # m + 1
    BY <1>3
  <2> QED
    BY <1>1, <1>2, <1>4, <2>1, StepEdged
<1>11. Matched(ct2, sc2, re2, co2, "done")
  <2>1. Kept(ct2) = (Kept(ct) \ TopKept(ct, m)) \cup TopKept(ct2, m)
    BY <1>1, <1>4, KeptStep
  <2>2. Kept(ct2) = Kept(ct) \ TopKept(ct, m)
    BY <1>6, <2>1
  <2> QED
    BY <2>2 DEF Matched, Fresh
<1>12. Flows(ct2, re2, co2, "done")
  BY <1>3, <1>5 DEF Flows
<1>13. Found(ct2, re2, "done")
  BY <1>3, <1>5 DEF Found
<1> QED
  BY <1>2, <1>7, <1>8, <1>9, <1>10, <1>11, <1>12, <1>13 DEF Good

\* The same when it has left the scopes that it entered.
LEMMA LeaveGood ==
    ASSUME NEW ct \in Seq(Proper), NEW sc \in Seq(SUBSET Items), NEW sc2 \in Seq(SUBSET Items),
           NEW re, NEW re2 \in Value, NEW co \in Code, NEW co2 \in Code, NEW p,
           NEW m \in Nat, Len(ct) = m + 1, m # 0, Good(ct, sc, re, co, p),
           Len(sc2) = Below(ct, m + 1), \A j \in 1..Len(sc2) : sc2[j] = sc[j],
           Rebuilt(ct, Outer(ct), m, co, co2), co2.faults = {},
           re2.item \in TopItems(ct, m) \cup {0}, WellFormed(re2), re2.k \notin {"field", "self"},
           ct[m].k \in ExprKind => Suits(re2, ct[m].want),
           ct[m].k \in {"lrhs", "func"} => re2.item = 0,
           Flowing(co2) =>
              co2.held = Vars(sc2) \cup (Kept(ct) \ TopKept(ct, m)) \cup ({re2.item} \ {0}),
           ~Flowing(co2) => /\ co2.held = {} /\ ct[m].k \in StmtKind /\ re2.item = 0
                            /\ ct[m].k = "block" => co2.cur = 0
    PROVE  Good(Outer(ct), sc2, re2, co2, "done")
<1>1. Scoped(ct, sc, co, p) /\ Apart(ct, sc, re, p)
  BY DEF Good
<1>2. PICK ct2 : ct2 = Outer(ct)
  OBVIOUS
<1>3. ct2 \in Seq(Proper) /\ Len(ct2) = m /\ \A i \in 1..m : ct2[i] = ct[i]
  BY <1>2, OuterFacts
<1>4. Shares(ct, ct2, m)
  BY <1>3 DEF Shares
<1>5. PICK k \in Nat : k = Below(ct, m + 1)
  BY HeldFinite
<1>6. m + 1 \in 1..(m + 1) /\ m \in Nat /\ m <= m + 1
  OBVIOUS
<1>7. Below(ct2, m + 1) = k
  BY <1>4, <1>5, <1>6, SharesBelow
<1>8. Below(ct, m) \in Nat /\ Below(ct, m) <= k
  BY <1>5, <1>6, HeldFinite, BelowUp
<1>9. Len(sc2) = k /\ Len(sc) \in Nat /\ k <= Len(sc)
  <2>1. Len(sc) = Below(ct, m + 2)
    <3>1. Len(ct) + 1 = m + 2
      OBVIOUS
    <3> QED
      BY <1>1, <3>1 DEF Scoped
  <2>2. m + 1 \in Nat /\ m + 2 \in Nat /\ m + 1 <= m + 2
    OBVIOUS
  <2> QED
    BY <1>5, <2>1, <2>2, BelowUp
<1>10. Scoped(ct2, sc2, co2, "done")
  <2>1. Len(sc2) = Below(ct2, Len(ct2) + 1)
    BY <1>3, <1>7, <1>9
  <2>2. (\A j \in 1..k : sc2[j] = sc[j]) /\ \A j \in (k + 1)..Len(sc2) : sc2[j] = {}
    BY <1>9
  <2>3. Len(ct2) # m + 1 /\ m < Len(ct)
    BY <1>3
  <2> QED
    BY <1>1, <1>4, <1>5, <2>1, <2>2, <2>3, StepScoped
<1>11. Agree(sc, sc2, Below(ct, m))
  BY <1>8, <1>9 DEF Agree
<1>12. Vars(sc2) \subseteq Vars(sc)
  <2>1. ASSUME NEW x, x \in Vars(sc2)
        PROVE  x \in Vars(sc)
    <3>1. PICK i \in 1..Len(sc2) : x \in sc2[i]
      BY <2>1, VarsOf
    <3>2. i \in 1..Len(sc) /\ x \in sc[i]
      BY <1>9, <3>1
    <3> QED
      BY <3>2, VarsOf
  <2> QED
    BY <2>1
<1>13. re2.item \notin Vars(sc2)
  <2>1. TopItems(ct, m) \cap Vars(sc) = {}
    BY <1>1, <1>4, TopItemsApart
  <2>2. 0 \notin Vars(sc)
    BY VarsOf, NamesAssumption
  <2> QED
    BY <1>12, <2>1, <2>2
<1> QED
  BY <1>2, <1>10, <1>11, <1>12, <1>13, LeaveAny

\* The activation on top, which is the (m + 1)-th, becomes a.
Turns(ct, ct2, m, a) ==
    /\ Shares(ct, ct2, m) /\ m # 0 /\ Len(ct) = m + 1 /\ Len(ct2) = m + 1
    /\ ct2[m + 1] = a /\ a \in Proper

\* Of k scopes that stay, new empty ones for an activation of kind kind, or those it had.
Rescoped(sc, sc2, k, kind) ==
    /\ Len(sc2) = k + ScopesOf(kind)
    /\ \A j \in 1..k : sc2[j] = sc[j]
    /\ \A j \in (k + 1)..Len(sc2) :
          sc2[j] = {} \/ (kind \notin Cases \cup {"ifcond"} /\ sc2[j] = sc[j] /\ j <= Len(sc))

\* A visitor goes on to its next child, from ct, sc, re, co, p to ct2, sc2, co2.
Proceeds(ct, sc, re, co, p, ct2, sc2, co2, m, a) ==
    /\ sc \in Seq(SUBSET Items) /\ sc2 \in Seq(SUBSET Items)
    /\ Good(ct, sc, re, co, p) /\ Turns(ct, ct2, m, a) /\ Fit(a) /\ Stands(ct2, m + 1)
    /\ Rescoped(sc, sc2, Below(ct, m + 1), a.k) /\ Rebuilt(ct, ct2, m, co, co2)
    /\ co2.faults = {} /\ JumpsTo(a, Base(ct2, sc2, m + 1), co2.edges)
    /\ OwnedBy(a) \subseteq TopItems(ct, m) \cup Fresh(re, p)
    /\ a.v.item # 0 => a.v.item # a.p
    /\ a.flag => ct[m].k # "block" /\ ~Flowing(co2)
    /\ Flowing(co2) =>
          co2.held = Vars(sc2) \cup (Kept(ct) \ TopKept(ct, m)) \cup Temp(a.v)
    /\ ~Flowing(co2) => co2.held = {} /\ a.k = "block" /\ (a.flag \/ co2.cur = 0)

LEMMA NextGood ==
    ASSUME NEW ct, NEW sc, NEW sc2, NEW re, NEW re2, NEW co, NEW co2, NEW p, NEW a, NEW ct2,
           NEW m, Proceeds(ct, sc, re, co, p, ct2, sc2, co2, m, a),
           a.k \in StmtKind => re2.k \notin {"field", "self"}
    PROVE  Good(ct2, sc2, re2, co2, "visit")
<1> USE DEF Proceeds
<1>1. /\ Nested(ct, p) /\ Scoped(ct, sc, co, p) /\ Apart(ct, sc, re, p)
      /\ Laid(ct, co) /\ Edged(ct, sc, co)
  BY DEF Good
<1>2. ct2 \in Seq(Proper) /\ Len(ct2) = m + 1 /\ ct2[m + 1] = a /\ (\A i \in 1..m : ct2[i] = ct[i])
      /\ ct \in Seq(Proper) /\ Len(ct) = m + 1 /\ m # 0 /\ a \in Proper /\ m \in Nat
  BY DEF Turns, Shares
<1>3. Shares(ct, ct2, m)
  BY DEF Turns
<1>4. PICK k \in Nat : k = Below(ct, m + 1)
  BY <1>2, HeldFinite
<1>5. m + 1 \in 1..(m + 1) /\ m \in Nat /\ m <= m + 1 /\ m + 1 \in Nat \ {0} /\ m \in 1..m
  BY <1>2
<1>6. Below(ct2, m + 1) = k
  BY <1>3, <1>4, <1>5, SharesBelow
<1>7. Below(ct2, Len(ct2) + 1) = k + ScopesOf(a.k)
  <2>1. Below(ct2, Len(ct2) + 1) = Below(ct, m + 1) + ScopesOf(ct2[m + 1].k)
    BY <1>2, <1>3, BelowTop
  <2> QED
    BY <1>2, <1>4, <2>1
<1>8. ScopesOf(a.k) \in 0..2
  BY ScopesOfType
<1>9. /\ Len(sc2) = k + ScopesOf(a.k) /\ \A j \in 1..k : sc2[j] = sc[j]
      /\ \A j \in (k + 1)..Len(sc2) :
           sc2[j] = {} \/ (a.k \notin Cases \cup {"ifcond"} /\ sc2[j] = sc[j] /\ j <= Len(sc))
  BY <1>4 DEF Rescoped
<1>10. Below(ct, m) \in Nat /\ Below(ct, m) <= k
  BY <1>4, <1>5, HeldFinite, BelowUp
<1>11. k <= Len(sc) /\ Len(sc) \in Nat
  <2>1. Len(sc) = Below(ct, m + 2)
    <3>1. Len(ct) + 1 = m + 2
      BY <1>2
    <3> QED
      BY <1>1, <3>1 DEF Scoped
  <2>2. m + 1 \in Nat /\ m + 2 \in Nat /\ m + 1 <= m + 2
    BY <1>2
  <2> QED
    BY <1>4, <2>1, <2>2, BelowUp
<1>12. Nested(ct2, "visit")
  <2>1. ct2 # <<>> /\ Len(ct2) # 1 /\ Len(ct) # m
    BY <1>2
  <2>2. Fit(ct2[m + 1]) /\ Stands(ct2, m + 1) /\ (ct2[m + 1].flag => ct2[m].k # "block")
    BY <1>2, <1>5
  <2> QED
    BY <1>1, <1>2, <1>3, <2>1, <2>2, StepNested
<1>13. Scoped(ct2, sc2, co2, "visit")
  <2>1. Len(sc2) = Below(ct2, Len(ct2) + 1)
    BY <1>7, <1>9
  <2>2. m < Len(ct)
    BY <1>2
  <2>3. Len(ct2) = m + 1 /\ ct2[m + 1].k \in Cases \cup {"ifcond"} => sc2[k + 1] = {}
    <3>1. a.k \in Cases \cup {"ifcond"} => ScopesOf(a.k) \in {1, 2}
      BY DEF ScopesOf, Cases
    <3> QED
      BY <1>2, <1>9, <3>1
  <2>4. Len(ct2) = m + 1 /\ ct2[m + 1].k \in Cases => sc2[k + 2] = {}
    <3>1. a.k \in Cases => ScopesOf(a.k) = 2
      BY DEF ScopesOf, Cases
    <3> QED
      BY <1>2, <1>9, <3>1
  <2>5. \A j \in (k + 1)..Len(sc2) : sc2[j] = {} \/ (j <= Len(sc) /\ sc2[j] = sc[j])
    BY <1>9
  <2> QED
    BY <1>1, <1>3, <1>4, <1>9, <2>1, <2>2, <2>3, <2>4, <2>5, StepScoped
<1>14. Vars(sc2) \subseteq Vars(sc)
  <2>1. ASSUME NEW x, x \in Vars(sc2)
        PROVE  x \in Vars(sc)
    <3>1. PICK i \in 1..Len(sc2) : x \in sc2[i]
      BY <2>1, VarsOf
    <3>2. i \in 1..Len(sc) /\ x \in sc[i]
      BY <1>8, <1>9, <1>11, <3>1
    <3> QED
      BY <3>2, VarsOf
  <2> QED
    BY <2>1
<1>15. TopItems(ct2, m) = OwnedBy(a) /\ TopKept(ct2, m) = {a.v.item} \ {0}
  BY <1>2 DEF TopItems, TopKept
<1>16. Apart(ct2, sc2, re2, "visit")
  <2>1. PICK F : F = TopItems(ct, m) \cup Fresh(re, p)
    BY <1>2
  <2>2. \A i \in 1..m : F \cap OwnedBy(ct[i]) = {}
    BY <1>1, <1>3, <2>1, TopItemsApart
  <2>3. F \cap Vars(sc) = {}
    BY <1>1, <1>3, <2>1, TopItemsApart
  <2>4. TopItems(ct2, m) \subseteq F /\ TopItems(ct2, m) \cap Vars(sc2) = {}
    BY <1>14, <1>15, <2>1, <2>3
  <2>5. ct2[m + 1].v.item # 0 => ct2[m + 1].v.item # ct2[m + 1].p
    BY <1>2
  <2>6. Vars(sc2) \subseteq Vars(sc) \cup F
    BY <1>14
  <2> QED
    BY <1>1, <1>3, <2>2, <2>4, <2>5, <2>6, StepApart
<1>17. Laid(ct2, co2)
  BY <1>1, <1>3, StepLaid
<1>18. Edged(ct2, sc2, co2)
  <2>1. Agree(sc, sc2, Below(ct, m))
    BY <1>9, <1>10 DEF Agree
  <2> QED
    BY <1>1, <1>2, <1>3, <2>1, StepEdged
<1>19. Matched(ct2, sc2, re2, co2, "visit")
  <2>1. Kept(ct2) = (Kept(ct) \ TopKept(ct, m)) \cup TopKept(ct2, m)
    BY <1>1, <1>3, KeptStep
  <2> QED
    BY <1>15, <2>1 DEF Matched, Fresh, Temp
<1>20. Flows(ct2, re2, co2, "visit")
  BY <1>2 DEF Flows
<1>21. Found(ct2, re2, "visit")
  <2>1. ct2 # <<>> /\ ct2[Len(ct2)] = a
    BY <1>2
  <2> QED
    BY <2>1 DEF Found
<1> QED
  BY <1>12, <1>13, <1>16, <1>17, <1>18, <1>19, <1>20, <1>21 DEF Good

-----------------------------------------------------------------------------
(* Visitors that are entered, in a program that may draw diagnostics and uses  *)
(* none of the other forms                                                     *)

Handled == Forms \subseteq {"Errors", "Duplicate"}

LEMMA VisitFacts ==
    ASSUME EmitterInv, ~failed, Handled, AtExpr
    PROVE  /\ Good(ctl, scopes, result, code, "visit") /\ Flowing(code) /\ pc = "visit"
           /\ ctl \in Seq(Proper) /\ scopes \in Seq(SUBSET Items) /\ code \in Code
           /\ result \in Value /\ Top = ctl[Len(ctl)] /\ Top.k \in {"block"} \cup Cases \cup ExprKind
           /\ AtStmt => Top.k \in {"block"} \cup Cases
           /\ ~AtStmt => Top.k \in ExprKind
           /\ \E n \in Nat : n = Len(ctl) /\ n # 0 /\ n # 1
           /\ \A i \in 1..Len(ctl) : Fit(ctl[i]) /\ Stands(ctl, i)
<1>1. pc = "visit" /\ Top.k \in {"block"} \cup Cases \cup ExprKind
      /\ (AtStmt => Top.k \in {"block"} \cup Cases) /\ (~AtStmt => Top.k \in ExprKind)
  BY DEF AtExpr, AtStmt, Cases
<1>2. Good(ctl, scopes, result, code, "visit")
  BY <1>1 DEF EmitterInv
<1>3. ctl \in Seq(Proper) /\ scopes \in Seq(SUBSET Items) /\ code \in Code /\ result \in Value
  BY DEF EmitterInv, TypeInv
<1>4. \A i \in 1..Len(ctl) : Fit(ctl[i]) /\ Stands(ctl, i)
  BY <1>2 DEF Good, Nested
<1>5. Len(ctl) \in Nat /\ Len(ctl) # 0 /\ Len(ctl) # 1
  BY <1>2, <1>3 DEF Good, Nested
<1>6. Flowing(code)
  <2>1. Top.k = "block" => ~Top.flag /\ code.cur # 0
    BY DEF AtExpr, AtStmt, Handled, ExprKind
  <2>2. Flows(ctl, result, code, "visit")
    BY <1>2 DEF Good
  <2> QED
    BY <2>1, <2>2 DEF Flows, Top
<1> QED
  BY <1>1, <1>2, <1>3, <1>4, <1>5, <1>6 DEF Top

LEMMA SpareApart ==
    ASSUME TypeInv, NEW x \in SpareItems
    PROVE  /\ x \in Items /\ x # 0 /\ x \notin Vars(scopes) /\ x # result.item
           /\ \A i \in 1..Len(ctl) : x \notin OwnedBy(ctl[i])
<1>1. x \in Items /\ x \notin UsedItems
  BY DEF SpareItems
<1>2. x # 0
  BY <1>1, NamesAssumption
<1>3. x \notin Vars(scopes) /\ x # result.item
  BY <1>1, AllVarsIs DEF UsedItems
<1>4. ASSUME NEW i \in 1..Len(ctl)
      PROVE  x \notin OwnedBy(ctl[i])
  <2>1. ctl \in Seq(Proper)
    BY DEF TypeInv
  <2>2. i \in DOMAIN ctl
    BY <2>1
  <2>3. x \notin {ctl[i].v.item, ctl[i].p}
    BY <1>1, <2>2 DEF UsedItems
  <2> QED
    BY <2>3 DEF OwnedBy
<1> QED
  BY <1>1, <1>2, <1>3, <1>4

LEMMA EnterStep ==
    ASSUME EmitterInv, ~failed, Handled, AtExpr, NEW w \in {"int", "any"}, NEW x \in Items \cup {0},
           NEW k \in {"unary", "blhs", "tcond", "llhs", "asgrhs", "let", "block", "ifcond", "ret"},
           NEW a, a = [Act(k, w) EXCEPT !.p = x], NEW sc \in Seq(SUBSET Items),
           x # 0 <=> k \in {"tcond", "asgrhs", "let"}, x # 0 => x \in SpareItems,
           k \in {"unary", "blhs", "llhs"} => Top.want # "obj",
           k \in {"unary", "blhs", "llhs", "tcond", "ifcond"} => w = "int",
           k \in OnStmt => AtStmt,
           k \in {"tcond", "llhs"} => \A i \in 1..Len(ctl) : ctl[i].k # "lrhs",
           k = "ret" => Returnable(ctl, Len(ctl)),
           sc = IF k \in {"block", "ifcond"} THEN Append(scopes, {}) ELSE scopes
    PROVE  Good(Push(a), sc, result, code, "visit")
<1>1. /\ Good(ctl, scopes, result, code, "visit") /\ Flowing(code)
      /\ ctl \in Seq(Proper) /\ scopes \in Seq(SUBSET Items) /\ code \in Code
      /\ \A i \in 1..Len(ctl) : Fit(ctl[i]) /\ Stands(ctl, i)
  BY VisitFacts
<1>2. PICK n \in Nat : n = Len(ctl) /\ n # 0 /\ n # 1 /\ Top = ctl[n]
  BY VisitFacts
<1>3. a \in Activation /\ a.k = k /\ a.v = NoValue /\ a.p = x /\ a.el = 0 /\ a.end = 0
      /\ a.want = w /\ a.flag = FALSE
  BY ValType DEF Act, Activation, StmtKind, ExprKind, Want
<1>4. a \in Proper
  BY <1>3 DEF Proper
<1>5. Fit(a)
  <2>1. WellFormed(a.v)
    BY <1>3 DEF WellFormed, NoValue, Val
  <2>2. a.k \notin {"tthen", "telse", "lrhs", "brhs", "asglhs"} \cup Cases
    BY <1>3 DEF Cases
  <2> QED
    BY <1>3, <2>1, <2>2 DEF Fit, Cases, IntOp
<1>6. ASSUME k \in OnStmt
      PROVE  \A i \in 1..n : ctl[i].k \in StmtKind
  <2>1. Top.k \in {"block"} \cup Cases
    BY <1>6, VisitFacts
  <2>2. Top.k \in OnStmt /\ Top.k \in StmtKind
    BY <2>1 DEF OnStmt, StmtKind, Cases
  <2>3. n \in 1..n
    BY <1>2
  <2>4. \A i \in 1..(n - 1) : ctl[i].k \in StmtKind
    BY <1>1, <1>2, <2>2, <2>3 DEF Stands
  <2> QED
    BY <1>2, <2>2, <2>4
<1>7. PICK ct : ct = Append(ctl, a)
  OBVIOUS
<1>8. Len(ct) = n + 1 /\ ct[n + 1] = a /\ \A i \in 1..n : ct[i] = ctl[i]
  BY <1>1, <1>2, <1>4, <1>7, PushFacts
<1>9. Stands(ct, n + 1)
  <2>1. n + 1 # 1 /\ n + 1 # 2 /\ (n + 1) - 1 = n /\ n \in 1..n
    BY <1>2
  <2>2. ct[n + 1].k = k /\ ct[n].want = Top.want
    BY <1>2, <1>3, <1>8, <2>1
  <2>3. k \in OnStmt => \A i \in 1..n : ct[i].k \in StmtKind
    BY <1>6, <1>8
  <2>4. ASSUME NEW i \in 1..n, ct[i].k = "lrhs"
        PROVE  k \in {"unary", "blhs", "brhs"}
    <3>1. ctl[i].k = "lrhs"
      BY <1>8, <2>4
    <3>2. k \notin OnStmt
      BY <1>6, <3>1 DEF StmtKind
    <3> QED
      BY <1>2, <3>1, <3>2 DEF OnStmt
  <2>5. k \in IntOp => Top.want # "obj"
    BY DEF IntOp
  <2>6. k \notin {"func", "tthen", "telse"}
    OBVIOUS
  <2>7. k = "ret" => Returnable(ct, n)
    <3>1. k = "ret" => Returnable(ctl, n)
      BY <1>2
    <3>2. n \in 1..n /\ (n > 1 => n - 1 \in 1..n)
      BY <1>2
    <3>3. ct[n] = ctl[n] /\ (n > 1 => ct[n - 1] = ctl[n - 1])
      BY <1>8, <3>2
    <3> QED
      BY <1>8, <3>1, <3>3 DEF Returnable
  <2> QED
    BY <2>1, <2>2, <2>3, <2>4, <2>5, <2>6, <2>7 DEF Stands
<1>10. a.p \notin Vars(scopes) /\ \A i \in 1..Len(ctl) : a.p \notin OwnedBy(ctl[i])
  <2>1. CASE x = 0
    <3>1. 0 \notin Vars(scopes)
      BY <1>1, VarsOf, NamesAssumption
    <3> QED
      BY <1>3, <2>1, <3>1 DEF OwnedBy
  <2>2. CASE x # 0
    BY <1>3, <2>2, SpareApart DEF EmitterInv
  <2> QED
    BY <2>1, <2>2
<1>11. sc = IF ScopesOf(a.k) = 0 THEN scopes ELSE Append(scopes, {})
  BY <1>3 DEF ScopesOf
<1>12. a.k \notin {"tthen", "telse", "lrhs"} \cup Cases /\ ~a.flag
  BY <1>3 DEF Cases
<1> QED
  BY <1>1, <1>2, <1>3, <1>4, <1>5, <1>7, <1>9, <1>10, <1>11, <1>12, EnterGood DEF Push

\* Where a return may stand, nothing is kept but in variables.
LEMMA MayReturn ==
    ASSUME EmitterInv, ~failed, Handled, AtStmt, SafeReturn
    PROVE  Returnable(ctl, Len(ctl)) /\ Kept(ctl) = {}
<1>1. AtExpr
  BY DEF AtExpr
<1>2. PICK n \in Nat : n = Len(ctl) /\ n # 0 /\ n # 1 /\ Top = ctl[n]
  BY <1>1, VisitFacts
<1>3. (\A i \in 1..n : Fit(ctl[i]) /\ Stands(ctl, i)) /\ Top.k \in {"block"} \cup Cases
  BY <1>1, <1>2, VisitFacts
<1>4. \A i \in 1..(n - 1) : ctl[i].k \in StmtKind
  <2>1. n \in 1..n /\ ctl[n].k \in OnStmt
    BY <1>2, <1>3 DEF OnStmt, Cases
  <2> QED
    BY <1>3, <2>1 DEF Stands
<1>5. "NestedReturn" \notin Forms /\ "CondTemp" \notin Forms
  BY DEF Handled
<1>6. ASSUME NEW i \in 1..n
      PROVE  ctl[i].v.item = 0
  <2>1. ctl[i].k \in StmtKind
    BY <1>2, <1>3, <1>4 DEF StmtKind, Cases
  <2>2. CASE ctl[i].k \in Cases
    <3>1. i \in DOMAIN ctl
      BY <1>2 DEF EmitterInv, TypeInv
    <3> QED
      BY <1>5, <2>2, <3>1 DEF SafeReturn, Cases
  <2>3. CASE ctl[i].k \notin Cases
    <3>1. ctl[i].v = NoValue
      BY <1>3, <2>1, <2>3 DEF Fit, StmtKind, Cases
    <3> QED
      BY <3>1 DEF NoValue, Val
  <2> QED
    BY <2>2, <2>3
<1>7. ctl[n].k = "block" => ctl[n - 1].k # "block"
  BY <1>2, <1>5 DEF SafeReturn
<1> QED
  BY <1>2, <1>6, <1>7 DEF Returnable, Kept

\* What a step has to show, of a program that draws no diagnostic.
Goods == ~failed => Good(ctl, scopes, result, code, pc)

LEMMA EnterSteps ==
    ASSUME EmitterInv, Handled,
           VisitUnary \/ VisitBinary \/ VisitTernary \/ VisitLogic \/ VisitAssign
           \/ VisitVariable \/ VisitBlock \/ VisitIf \/ VisitReturn
    PROVE  Goods'
<1> DEFINE Entered(k, w, x, sc) ==
             /\ ctl' = Push([Act(k, w) EXCEPT !.p = x]) /\ scopes' = sc
             /\ result' = result /\ code' = code /\ pc' = "visit" /\ failed' = failed
<1> SUFFICES ASSUME ~failed
             PROVE  Good(ctl', scopes', result', code', pc')
  BY DEF Goods, VisitUnary, VisitBinary, VisitTernary, VisitLogic, VisitAssign, VisitVariable,
         VisitBlock, VisitIf, VisitReturn
<1>1. scopes \in Seq(SUBSET Items) /\ Append(scopes, {}) \in Seq(SUBSET Items)
  BY DEF EmitterInv, TypeInv
<1>2. ASSUME NEW k \in {"unary", "blhs", "llhs", "block", "ifcond", "ret"}, NEW w \in Want
      PROVE  Act(k, w) = [Act(k, w) EXCEPT !.p = 0]
  <2>1. Act(k, w) \in Activation /\ Act(k, w).p = 0
    BY ActType DEF StmtKind, ExprKind
  <2> QED
    BY <2>1 DEF Activation
<1>3. \A i \in 1..Len(ctl) : i \in DOMAIN ctl
  BY DEF EmitterInv, TypeInv
<1>4. "NestedRhs" \notin Forms /\ "AssignValue" \notin Forms /\ "NoInit" \notin Forms
  BY DEF Handled
<1>5. SpareItems # {} => Least(SpareItems) \in SpareItems /\ Least(SpareItems) \in Items \ {0}
  BY SpareItem, NamesAssumption
<1>6. ASSUME NEW k \in {"unary", "blhs", "tcond", "llhs", "asgrhs", "let", "block", "ifcond", "ret"},
             NEW w \in {"int", "any"}, NEW x \in Items \cup {0}, NEW sc \in Seq(SUBSET Items),
             Entered(k, w, x, sc), AtExpr,
             x # 0 <=> k \in {"tcond", "asgrhs", "let"}, x # 0 => x \in SpareItems,
             k \in {"unary", "blhs", "llhs"} => Top.want # "obj",
             k \in {"unary", "blhs", "llhs", "tcond", "ifcond"} => w = "int",
             k \in OnStmt => AtStmt,
             k \in {"tcond", "llhs"} => \A i \in 1..Len(ctl) : ctl[i].k # "lrhs",
             k = "ret" => Returnable(ctl, Len(ctl)),
             sc = IF k \in {"block", "ifcond"} THEN Append(scopes, {}) ELSE scopes
      PROVE  Good(ctl', scopes', result', code', pc')
  <2>1. PICK a : a = [Act(k, w) EXCEPT !.p = x]
    OBVIOUS
  <2>2. Good(Push(a), sc, result, code, "visit")
    BY <1>6, <2>1, EnterStep
  <2> QED
    BY <1>6, <2>1, <2>2
<1>7. "int" \in {"int", "any"} /\ "any" \in {"int", "any"} /\ "int" \in Want /\ "any" \in Want
      /\ 0 \in Items \cup {0}
  BY DEF Want
<1>8. AtStmt => AtExpr
  BY DEF AtExpr
<1>9. ~({"unary", "blhs", "tcond", "llhs"} \cap OnStmt # {})
  BY DEF OnStmt
<1>10. CASE VisitUnary
  <2>1. Entered("unary", "int", 0, scopes) /\ AtExpr /\ Top.want # "obj"
    BY <1>2, <1>7, <1>10 DEF VisitUnary, Enter
  <2> QED
    BY <1>1, <1>6, <1>7, <1>9, <2>1
<1>11. CASE VisitBinary
  <2>1. Entered("blhs", "int", 0, scopes) /\ AtExpr /\ Top.want # "obj"
    BY <1>2, <1>7, <1>11 DEF VisitBinary, Enter
  <2> QED
    BY <1>1, <1>6, <1>7, <1>9, <2>1
<1>12. CASE VisitTernary
  <2>1. PICK x : x = Least(SpareItems)
    OBVIOUS
  <2>2. Entered("tcond", "int", x, scopes) /\ AtExpr /\ SpareItems # {}
        /\ \A i \in 1..Len(ctl) : ctl[i].k # "lrhs"
    BY <1>3, <1>4, <1>12, <2>1 DEF VisitTernary, Enter
  <2> HIDE DEF Entered
  <2> QED
    BY <1>1, <1>5, <1>6, <1>7, <1>9, <2>1, <2>2
<1>13. CASE VisitLogic
  <2>1. Entered("llhs", "int", 0, scopes) /\ AtExpr /\ Top.want # "obj"
        /\ \A i \in 1..Len(ctl) : ctl[i].k # "lrhs"
    BY <1>2, <1>3, <1>4, <1>7, <1>13 DEF VisitLogic, Enter
  <2> QED
    BY <1>1, <1>6, <1>7, <1>9, <2>1
<1>14. CASE VisitAssign
  <2>1. PICK x : x = Least(SpareItems)
    OBVIOUS
  <2>2. Entered("asgrhs", "any", x, scopes) /\ AtExpr /\ SpareItems # {} /\ AtStmt
    BY <1>4, <1>14, <2>1, VisitFacts DEF VisitAssign, Enter
  <2> HIDE DEF Entered
  <2> QED
    BY <1>1, <1>5, <1>6, <1>7, <2>1, <2>2
<1>15. CASE VisitVariable
  <2>1. PICK x : x = Least(SpareItems)
    OBVIOUS
  <2>2. Entered("let", "any", x, scopes) /\ AtStmt /\ SpareItems # {}
    BY <1>4, <1>15, <2>1 DEF VisitVariable, Enter
  <2> HIDE DEF Entered
  <2> QED
    BY <1>1, <1>5, <1>6, <1>7, <1>8, <2>1, <2>2
<1>16. CASE VisitBlock
  <2>1. Entered("block", "any", 0, Append(scopes, {})) /\ AtStmt
    BY <1>2, <1>7, <1>16 DEF VisitBlock, Enter
  <2> QED
    BY <1>1, <1>6, <1>7, <1>8, <2>1
<1>17. CASE VisitIf
  <2>1. Entered("ifcond", "int", 0, Append(scopes, {})) /\ AtStmt
    BY <1>2, <1>7, <1>17 DEF VisitIf, Enter
  <2> QED
    BY <1>1, <1>6, <1>7, <1>8, <2>1
<1>18. CASE VisitReturn
  <2>1. Entered("ret", "any", 0, scopes) /\ AtStmt /\ SafeReturn
    BY <1>2, <1>7, <1>18 DEF VisitReturn, Enter
  <2>2. Returnable(ctl, Len(ctl))
    BY <1>8, <2>1, MayReturn
  <2> QED
    BY <1>1, <1>6, <1>7, <1>8, <2>1, <2>2
<1> QED
  BY <1>10, <1>11, <1>12, <1>13, <1>14, <1>15, <1>16, <1>17, <1>18

LEMMA LeafSteps ==
    ASSUME EmitterInv, Handled, VisitLeaf \/ VisitBadExpr \/ VisitEmpty
    PROVE  Goods'
<1> SUFFICES ASSUME ~failed, VisitLeaf \/ VisitEmpty
             PROVE  Good(ctl', scopes', result', code', pc')
  BY DEF Goods, VisitLeaf, VisitBadExpr, VisitEmpty, Diagnose
<1>1. AtExpr
  BY DEF VisitLeaf, VisitEmpty, AtExpr
<1>2. /\ Good(ctl, scopes, result, code, "visit") /\ Flowing(code)
      /\ ctl \in Seq(Proper) /\ scopes \in Seq(SUBSET Items) /\ code \in Code
      /\ Top = ctl[Len(ctl)]
  BY <1>1, VisitFacts
<1>3. PICK n \in Nat : n = Len(ctl) /\ n # 0 /\ n # 1
  BY <1>1, VisitFacts
<1>4. ctl' = ctl /\ scopes' = scopes /\ pc' = "done"
  BY DEF VisitLeaf, VisitEmpty
<1>5. 0 \notin Vars(scopes) /\ \A i \in 1..Len(ctl) : 0 \notin OwnedBy(ctl[i])
  BY <1>2, VarsOf, NamesAssumption DEF OwnedBy
<1>6. code.faults = {}
  BY <1>2 DEF Good
<1>7. CASE VisitEmpty
  <2>1. result' = NoValue /\ code' = code /\ Top.k \notin ExprKind
    BY <1>7, <1>1, VisitFacts DEF VisitEmpty, AtStmt, Cases, ExprKind
  <2>2. NoValue \in Value /\ NoValue.item = 0 /\ WellFormed(NoValue)
    BY ValType DEF NoValue, Val, WellFormed
  <2>3. code.held = code.held \cup ({NoValue.item} \ {0})
    BY <2>2
  <2>4. "lrhs" \in ExprKind /\ NoValue.k \notin {"field", "self"}
    BY DEF ExprKind, NoValue, Val
  <2> QED
    BY <1>2, <1>4, <1>5, <1>6, <2>1, <2>2, <2>3, <2>4, StayGood
<1>8. CASE VisitLeaf
  <2>1. PICK v \in Value :
         /\ v.k # "null" /\ (v.k \in {"intfield", "temp"} <=> v.item # 0)
         /\ Usable(v)
         /\ v.item # 0 => v.item \in SpareItems
         /\ result' = v
         /\ code' = IF v.item # 0 /\ code.cur \in code.open
                    THEN [code EXCEPT !.held = @ \cup {v.item}]
                    ELSE IF v.k \in {"var", "self", "func"} THEN code ELSE Emit(code)
    BY <1>8, SpareItem DEF VisitLeaf
  <2>2. Emit(code) = code
    BY <1>2 DEF Emit, Late, Flowing
  <2>3. /\ code'.cur = code.cur /\ code'.open = code.open /\ code'.loose = code.loose
        /\ code'.edges = code.edges /\ code'.faults = {} /\ code' \in Code
        /\ code'.held = code.held \cup ({v.item} \ {0})
    BY <1>2, <1>6, <2>1, <2>2 DEF Code, Flowing, Value
  <2>4. v.item \notin Vars(scopes) /\ \A i \in 1..Len(ctl) : v.item \notin OwnedBy(ctl[i])
    BY <1>5, <2>1, SpareApart DEF EmitterInv
  <2>5. /\ Top.k \in ExprKind => Suits(v, Top.want)
        /\ Top.k \in StmtKind => v.k \notin {"field", "self"}
    <3>1. /\ Top.want # "any" => TypeOf(v) = Top.want
          /\ v.k = "self"  => IF Top.k \in StmtKind THEN "BorrowedValue" \in Forms
                              ELSE Top.k # "asglhs" /\ "SelfValue" \in Forms
          /\ v.k = "field" => ~(Top.k \in StmtKind) \/ "BorrowedValue" \in Forms
          /\ v.k = "func"  => Top.k \in StmtKind \/ "FuncValue" \in Forms
          /\ v.k = "void"  => Top.k \in StmtKind
                              \/ (Top.k \in {"tthen", "telse"} /\ "VoidTernary" \in Forms)
      BY <2>1 DEF Usable
    <3>2. Forms \cap {"BorrowedValue", "SelfValue", "FuncValue", "VoidTernary"} = {}
      BY DEF Handled
    <3>3. Top.k \in ExprKind => Top.k \notin StmtKind
      BY DEF ExprKind, StmtKind
    <3>4. Top.k \in ExprKind => v.k \in {"int", "intfield", "temp", "var", "field"}
      BY <2>1, <3>1, <3>2, <3>3 DEF Value
    <3> QED
      BY <3>1, <3>2, <3>4 DEF Suits, TypeOf
  <2>6. ctl[Len(ctl)].k = "lrhs" => v.item = 0
    <3>1. n \in 1..n /\ Fit(ctl[n])
      BY <1>1, <1>3, VisitFacts
    <3>2. ctl[n].k = "lrhs" => ctl[n].want = "int"
      BY <3>1 DEF Fit, IntOp
    <3>3. ctl[n].k = "lrhs" /\ v.k = "intfield" => "RhsTemp" \in Forms
      BY <1>2, <1>3, <2>1 DEF Usable
    <3>4. ctl[n].k = "lrhs" => v.k # "temp"
      BY <1>2, <1>3, <2>5, <3>2 DEF Suits, IsObj, ExprKind
    <3>5. "RhsTemp" \notin Forms
      BY DEF Handled
    <3> QED
      BY <1>3, <2>1, <3>3, <3>4, <3>5
  <2>7. WellFormed(v)
    BY <2>1 DEF WellFormed
  <2> QED
    BY <1>2, <1>4, <2>1, <2>3, <2>4, <2>5, <2>6, <2>7, StayGood
<1> QED
  BY <1>7, <1>8

-----------------------------------------------------------------------------
(* The builder where code may still be added *)

LEMMA FlowEmit ==
    ASSUME NEW c \in Code, Flowing(c)
    PROVE  Emit(c) = c
  BY DEF Emit, Late, Flowing

LEMMA FlowRelease ==
    ASSUME NEW c \in Code, Flowing(c), NEW S, S \subseteq c.held
    PROVE  /\ Release(c, S) = [c EXCEPT !.held = c.held \ S]
           /\ Release(c, S) \in Code /\ Flowing(Release(c, S))
<1>1. Release(c, S) = [c EXCEPT !.held = c.held \ S]
  <2>1. CASE S = {}
    <3>1. c.held \ S = c.held
      BY <2>1
    <3>2. [c EXCEPT !.held = c.held] = c
      BY DEF Code
    <3> QED
      BY <2>1, <3>1, <3>2 DEF Release
  <2>2. CASE S # {}
    <3>1. c.cur # 0 /\ ~Late(c)
      BY NamesAssumption DEF Late, Flowing, Code
    <3> QED
      BY <2>2, <3>1 DEF Release
  <2> QED
    BY <2>1, <2>2
<1> QED
  BY <1>1 DEF Code, Flowing

LEMMA FlowDestroy ==
    ASSUME NEW c \in Code, Flowing(c), NEW v, v.k \notin {"field", "self"}, Temp(v) \subseteq c.held
    PROVE  /\ DestroyValue(c, v) = [c EXCEPT !.held = c.held \ Temp(v)]
           /\ DestroyValue(c, v) \in Code /\ Flowing(DestroyValue(c, v))
  BY FlowRelease DEF DestroyValue, Temp

LEMMA FlowCopy ==
    ASSUME NEW c \in Code, Flowing(c), NEW v \in Value, WellFormed(v), Temp(v) \subseteq c.held,
           v.k \notin {"self", "func", "void"}, NEW x \in Items \cup {0}
    PROVE  /\ CopyValue(c, v, x) = [c EXCEPT !.held =
                                      (c.held \ Temp(v)) \cup (IF IsObj(v) THEN {x} \ {0} ELSE {})]
           /\ CopyValue(c, v, x) \in Code /\ Flowing(CopyValue(c, v, x))
<1>1. 0 \notin c.held
  BY NamesAssumption DEF Code
<1>2. CopyValue(c, v, x) = [c EXCEPT !.held =
                              (c.held \ Temp(v)) \cup (IF IsObj(v) THEN {x} \ {0} ELSE {})]
  <2>1. CASE v.k = "intfield"
    <3>1. Temp(v) = {v.item} /\ ~IsObj(v)
      BY <2>1 DEF WellFormed, Temp, IsObj
    <3>2. CopyValue(c, v, x) = Release(c, Temp(v))
      BY <2>1, <3>1 DEF CopyValue
    <3>3. Release(c, Temp(v)) = [c EXCEPT !.held = c.held \ Temp(v)]
      BY FlowRelease
    <3> QED
      BY <3>1, <3>2, <3>3
  <2>2. CASE v.k = "temp"
    <3>1. v.item # 0 /\ v.item \in c.held
      BY <2>2 DEF WellFormed, Temp
    <3>2. CopyValue(c, v, x) = [c EXCEPT !.held = (@ \ {v.item}) \cup ({x} \ {0})]
      BY <2>2, <3>1 DEF CopyValue, Flowing
    <3>3. c.held \ {v.item} = c.held \ Temp(v)
      BY <1>1 DEF Temp
    <3> QED
      BY <2>2, <3>2, <3>3 DEF IsObj
  <2>5. CASE v.k \in {"var", "field"}
    <3>1. CopyValue(c, v, x) = [c EXCEPT !.held = @ \cup ({x} \ {0})]
      BY <2>5 DEF CopyValue, Flowing
    <3>2. c.held \ Temp(v) = c.held
      BY <2>5 DEF WellFormed, Temp
    <3> QED
      BY <2>5, <3>1, <3>2 DEF IsObj
  <2>3. CASE v.k \in {"int", "null"}
    <3>1. Temp(v) = {} /\ ~IsObj(v)
      BY <2>3 DEF WellFormed, Temp, IsObj
    <3>2. CopyValue(c, v, x) = c
      BY <2>3, <3>1, FlowEmit DEF CopyValue
    <3>3. c = [c EXCEPT !.held = c.held]
      BY DEF Code
    <3> QED
      BY <3>1, <3>2, <3>3
  <2>4. v.k = "intfield" \/ v.k = "temp" \/ v.k \in {"var", "field"} \/ v.k \in {"int", "null"}
    BY DEF Value
  <2> QED
    BY <2>1, <2>2, <2>3, <2>4, <2>5, Zenon
<1> QED
  BY <1>2, CopyType DEF Code, Flowing

-----------------------------------------------------------------------------
(* Visitors that take over again *)

LEMMA BackGood ==
    ASSUME EmitterInv, ~failed, NEW k, Back(k), k # "func"
    PROVE  /\ Good(ctl, scopes, result, code, pc) /\ pc \in {"done", "return"}
           /\ ctl \in Seq(Proper) /\ scopes \in Seq(SUBSET Items) /\ code \in Code
           /\ result \in Value /\ code.faults = {}
           /\ Top \in Proper /\ Top.k = k /\ Fit(Top)
           /\ \E m \in Nat : Len(ctl) = m + 1 /\ m # 0 /\ Top = ctl[m + 1] /\ Stands(ctl, m + 1)
                             /\ TopItems(ctl, m) = OwnedBy(Top) /\ TopKept(ctl, m) = Temp(Top.v)
                             /\ TopBlocks(ctl, m) = AwaitedBy(Top)
<1>1. /\ Good(ctl, scopes, result, code, pc) /\ ctl \in Seq(Proper)
      /\ scopes \in Seq(SUBSET Items) /\ code \in Code /\ result \in Value
  BY DEF EmitterInv, TypeInv
<1>2. Top \in Proper /\ Top.k = k /\ Len(ctl) > 0 /\ pc \in {"done", "return"}
  BY BackFacts DEF EmitterInv
<1>3. Len(ctl) \in 1..Len(ctl) /\ Len(ctl) \in Nat
  BY <1>1, <1>2
<1>4. Fit(Top) /\ Stands(ctl, Len(ctl))
  BY <1>1, <1>3 DEF Good, Nested, Top
<1>5. Len(ctl) # 1
  BY <1>2, <1>4 DEF Stands, Top
<1>6. PICK m \in Nat : Len(ctl) = m + 1 /\ m # 0
  <2>1. Len(ctl) - 1 \in Nat /\ Len(ctl) = (Len(ctl) - 1) + 1 /\ Len(ctl) - 1 # 0
    BY <1>2, <1>3, <1>5
  <2> QED
    BY <2>1, Zenon
<1>7. Top = ctl[m + 1] /\ Stands(ctl, m + 1)
  BY <1>4, <1>6 DEF Top
<1>8. TopItems(ctl, m) = OwnedBy(Top) /\ TopKept(ctl, m) = Temp(Top.v)
      /\ TopBlocks(ctl, m) = AwaitedBy(Top)
  BY <1>6, <1>7 DEF TopItems, TopKept, TopBlocks, Temp
<1>9. code.faults = {}
  BY <1>1 DEF Good
<1> QED
  BY <1>1, <1>2, <1>4, <1>6, <1>7, <1>8, <1>9

\* What a visitor that waits for an expression finds.
LEMMA ExprBack ==
    ASSUME EmitterInv, ~failed, NEW k \in ExprKind, Back(k)
    PROVE  /\ pc = "done" /\ Flowing(code) /\ WellFormed(result) /\ Suits(result, Top.want)
           /\ code.held = Vars(scopes) \cup Kept(ctl) \cup Temp(result)
           /\ Temp(result) \cap (Vars(scopes) \cup Kept(ctl)) = {}
           /\ Temp(Top.v) \subseteq Kept(ctl) /\ Temp(Top.v) \cap Vars(scopes) = {}
           /\ {Top.p} \cap (Vars(scopes) \cup Kept(ctl) \cup Temp(result)) = {}
           /\ 0 \notin Vars(scopes) /\ 0 \notin Kept(ctl)
           /\ Top.k = "lrhs" => result.item = 0
<1>1. k # "func" /\ k \notin {"block"} \cup Cases /\ k \notin StmtKind
  BY DEF ExprKind, Cases, StmtKind
<1>2. /\ Good(ctl, scopes, result, code, pc) /\ pc \in {"done", "return"}
      /\ ctl \in Seq(Proper) /\ scopes \in Seq(SUBSET Items) /\ Top.k = k
  BY <1>1, BackGood
<1>3. PICK m \in Nat : Len(ctl) = m + 1 /\ Top = ctl[m + 1]
  BY <1>1, BackGood
<1>4. /\ Nested(ctl, pc) /\ Apart(ctl, scopes, result, pc)
      /\ Matched(ctl, scopes, result, code, pc) /\ Flows(ctl, result, code, pc)
      /\ Found(ctl, result, pc)
  BY <1>2 DEF Good
<1>5. ctl[Len(ctl)] = Top /\ m + 1 \in 1..Len(ctl)
  BY <1>3
<1>6. pc = "done"
  BY <1>1, <1>2, <1>4, <1>5 DEF Nested
<1>7. Flowing(code)
  BY <1>1, <1>2, <1>4, <1>5, <1>6 DEF Flows
<1>8. WellFormed(result) /\ Suits(result, Top.want) /\ (Top.k = "lrhs" => result.item = 0)
  BY <1>2, <1>4, <1>5, <1>6 DEF Found
<1>9. code.held = Vars(scopes) \cup Kept(ctl) \cup Temp(result)
  BY <1>4, <1>6, <1>7 DEF Matched, Fresh, Temp
<1>10. 0 \notin Vars(scopes) /\ 0 \notin Kept(ctl)
  BY <1>2, VarsOf, NamesAssumption DEF Kept
<1>11. Temp(result) \cap (Vars(scopes) \cup Kept(ctl)) = {}
  BY <1>4, <1>6 DEF Apart, Temp, Kept, OwnedBy
<1>12. Temp(Top.v) \subseteq Kept(ctl)
  BY <1>3, <1>5 DEF Temp, Kept
<1>13. Temp(Top.v) \cap Vars(scopes) = {} /\ {Top.p} \cap Vars(scopes) = {}
  BY <1>3, <1>4, <1>5, <1>10 DEF Apart, Temp, OwnedBy
<1>14. {Top.p} \cap (Kept(ctl) \cup Temp(result)) = {}
  <2>1. CASE Top.p = 0
    BY <1>10, <2>1 DEF Temp
  <2>2. CASE Top.p # 0
    <3>1. Top.p \in OwnedBy(ctl[m + 1])
      BY <1>3, <2>2 DEF OwnedBy
    <3>2. Top.p # result.item
      BY <1>4, <1>5, <1>6, <3>1 DEF Apart
    <3>3. ASSUME NEW i \in 1..Len(ctl), ctl[i].v.item = Top.p
          PROVE  FALSE
      <4>1. CASE i = m + 1
        <5>1. ctl[i].v.item # ctl[i].p
          BY <1>4, <2>2, <3>3 DEF Apart
        <5> QED
          BY <1>3, <3>3, <4>1, <5>1
      <4>2. CASE i # m + 1
        <5>1. OwnedBy(ctl[i]) \cap OwnedBy(ctl[m + 1]) = {}
          BY <1>4, <1>5, <4>2 DEF Apart
        <5>2. Top.p \in OwnedBy(ctl[i])
          BY <2>2, <3>3 DEF OwnedBy
        <5> QED
          BY <3>1, <5>1, <5>2
      <4> QED
        BY <4>1, <4>2
    <3>4. Top.p \notin Kept(ctl)
      BY <3>3 DEF Kept
    <3> QED
      BY <3>2, <3>4 DEF Temp
  <2> QED
    BY <2>1, <2>2
<1> QED
  BY <1>6, <1>7, <1>8, <1>9, <1>10, <1>11, <1>12, <1>13, <1>14

LEMMA StillGood ==
    ASSUME Next, ~failed'
    PROVE  ~failed /\ ~Diagnose
<1>1. ~Diagnose
  BY DEF Diagnose
<1>2. CASE Expression
  <2>1. VisitLeaf => (failed => failed')
    BY <1>1 DEF VisitLeaf
  <2>2. VisitBadExpr => (failed => failed')
    BY <1>1 DEF VisitBadExpr
  <2>3. VisitUnary => (failed => failed')
    BY <1>1 DEF VisitUnary
  <2>4. Unary => (failed => failed')
    BY <1>1 DEF Unary
  <2>5. VisitBinary => (failed => failed')
    BY <1>1 DEF VisitBinary
  <2>6. BinaryLhs => (failed => failed')
    BY <1>1 DEF BinaryLhs
  <2>7. BinaryRhs => (failed => failed')
    BY <1>1 DEF BinaryRhs
  <2>8. VisitTernary => (failed => failed')
    BY <1>1 DEF VisitTernary
  <2>9. TernaryCond => (failed => failed')
    BY <1>1 DEF TernaryCond
  <2>10. TernaryThen => (failed => failed')
    BY <1>1 DEF TernaryThen
  <2>11. TernaryElse => (failed => failed')
    BY <1>1 DEF TernaryElse
  <2>12. VisitLogic => (failed => failed')
    BY <1>1 DEF VisitLogic
  <2>13. LogicLhs => (failed => failed')
    BY <1>1 DEF LogicLhs
  <2>14. LogicRhs => (failed => failed')
    BY <1>1 DEF LogicRhs
  <2>15. VisitAssign => (failed => failed')
    BY <1>1 DEF VisitAssign
  <2>16. AssignRhs => (failed => failed')
    BY <1>1 DEF AssignRhs
  <2>17. AssignLhs => (failed => failed')
    BY <1>1 DEF AssignLhs
  <2> QED
    BY <1>1, <1>2, <2>1, <2>2, <2>3, <2>4, <2>5, <2>6, <2>7, <2>8, <2>9, <2>10, <2>11,
       <2>12, <2>13, <2>14, <2>15, <2>16, <2>17, Zenon DEF Expression
<1>3. CASE Statement
  <2>1. VisitEmpty => (failed => failed')
    BY <1>1 DEF VisitEmpty
  <2>2. VisitVariable => (failed => failed')
    BY <1>1 DEF VisitVariable
  <2>3. DeclareVariable => (failed => failed')
    BY <1>1 DEF DeclareVariable
  <2>4. VisitBlock => (failed => failed')
    BY <1>1 DEF VisitBlock
  <2>5. NextStmt => (failed => failed')
    BY <1>1 DEF NextStmt
  <2>6. LeaveBlock => (failed => failed')
    BY <1>1 DEF LeaveBlock
  <2>7. VisitIf => (failed => failed')
    BY <1>1 DEF VisitIf
  <2>8. IfCond => (failed => failed')
    BY <1>1 DEF IfCond
  <2>9. IfThen => (failed => failed')
    BY <1>1 DEF IfThen
  <2>10. IfElse => (failed => failed')
    BY <1>1 DEF IfElse
  <2>11. ReturnVoid => (failed => failed')
    BY <1>1 DEF ReturnVoid
  <2>12. VisitReturn => (failed => failed')
    BY <1>1 DEF VisitReturn
  <2>13. ReturnValue => (failed => failed')
    BY <1>1 DEF ReturnValue
  <2> QED
    BY <1>1, <1>3, <2>1, <2>2, <2>3, <2>4, <2>5, <2>6, <2>7, <2>8, <2>9, <2>10, <2>11,
       <2>12, <2>13, Zenon DEF Statement
<1>4. CASE Function
  <2>1. BeginFunction \/ BeginFunctionAssert => (failed => failed')
    BY DEF BeginFunction, BeginFunctionAssert
  <2>2. BeginDuplicate => failed'
    BY DEF BeginDuplicate
  <2>3. EndFunction => (failed => failed')
    BY Zenon DEF EndFunction
  <2> QED
    BY <1>1, <1>4, <2>1, <2>2, <2>3, Zenon DEF Function
<1>5. CASE Halted
  BY <1>1, <1>5 DEF Halted, vars
<1> QED
  BY <1>1, <1>2, <1>3, <1>4, <1>5, Zenon DEF Next

\* A step that changes nothing of the blocks.
LEMMA SameBlocks ==
    ASSUME NEW ct, NEW ct2, NEW m, NEW co \in Code, NEW h, Laid(ct, co),
           TopBlocks(ct, m) = {}, TopBlocks(ct2, m) = {},
           Len(ct2) = m + 1 => ct2[m + 1].k # "lrhs"
    PROVE  Rebuilt(ct, ct2, m, co, [co EXCEPT !.held = h])
  BY DEF Rebuilt, Laid, Code

\* A visitor that waits for an expression returns r.
LEMMA PlainLeave ==
    ASSUME EmitterInv, ~failed, NEW k \in ExprKind, Back(k), AwaitedBy(Top) = {},
           ScopesOf(k) = 0, NEW r \in Value, NEW c,
           c = [code EXCEPT !.held = Vars(scopes) \cup (Kept(ctl) \ Temp(Top.v)) \cup Temp(r)],
           r.item \in OwnedBy(Top) \cup {0}, WellFormed(r), r.k \notin {"field", "self"},
           c \in Code, Flowing(c),
           ctl[Len(ctl) - 1].k \in ExprKind => Suits(r, ctl[Len(ctl) - 1].want),
           ctl[Len(ctl) - 1].k = "lrhs" => r.item = 0
    PROVE  Good(Outer(ctl), scopes, r, c, "done")
<1>1. k # "func"
  BY DEF ExprKind
<1>2. /\ Good(ctl, scopes, result, code, pc) /\ ctl \in Seq(Proper)
      /\ scopes \in Seq(SUBSET Items) /\ code \in Code /\ code.faults = {} /\ Top.k = k
  BY <1>1, BackGood
<1>3. PICK m \in Nat : Len(ctl) = m + 1 /\ m # 0 /\ Top = ctl[m + 1] /\ Stands(ctl, m + 1)
                       /\ TopItems(ctl, m) = OwnedBy(Top) /\ TopKept(ctl, m) = Temp(Top.v)
                       /\ TopBlocks(ctl, m) = AwaitedBy(Top)
  BY <1>1, BackGood
<1>4. Len(scopes) = Below(ctl, m + 1)
  <2>1. Len(scopes) = Below(ctl, Len(ctl) + 1)
    BY <1>2 DEF Good, Scoped
  <2>2. PICK n \in Nat \ {0} : n = m + 1
    BY <1>3
  <2>3. Below(ctl, n + 1) = Below(ctl, n) + ScopesOf(ctl[n].k) /\ Below(ctl, n) \in Nat
    BY BelowNext, HeldFinite
  <2> QED
    BY <1>2, <1>3, <2>1, <2>2, <2>3
<1>5. ctl[Len(ctl) - 1] = ctl[m] /\ ctl[m].k # "func"
  <2>1. m \in 1..Len(ctl) /\ Len(ctl) - 1 = m
    BY <1>3
  <2>2. ctl[m].k = "func" => m = 1
    BY <1>2, <2>1 DEF Good, Nested, Stands
  <2>3. m = 1 => ctl[m + 1].k = "block"
    BY <1>3 DEF Stands
  <2> QED
    BY <1>2, <1>3, <2>1, <2>2, <2>3 DEF ExprKind
<1>6. Rebuilt(ctl, Outer(ctl), m, code, c)
  <2>1. Len(Outer(ctl)) = m
    BY <1>2, <1>3, OuterFacts
  <2>2. TopBlocks(Outer(ctl), m) = {} /\ Len(Outer(ctl)) # m + 1
    BY <2>1 DEF TopBlocks
  <2>3. Laid(ctl, code)
    BY <1>2 DEF Good
  <2> QED
    BY <1>2, <1>3, <2>2, <2>3, SameBlocks
<1>7. c.faults = {} /\ c.held = Vars(scopes) \cup (Kept(ctl) \ TopKept(ctl, m)) \cup ({r.item} \ {0})
  BY <1>2, <1>3 DEF Code, Temp
<1>8. \A j \in 1..Len(scopes) : scopes[j] = scopes[j]
  OBVIOUS
<1> QED
  BY <1>2, <1>3, <1>4, <1>5, <1>6, <1>7, <1>8, LeaveGood

\* The values that a visitor without a block of its own leaves.
LEMMA PlainValues ==
    /\ NoValue \in Value /\ WellFormed(NoValue) /\ NoValue.item = 0 /\ Temp(NoValue) = {}
    /\ Val("int", 0) \in Value /\ WellFormed(Val("int", 0)) /\ Val("int", 0).item = 0
    /\ Temp(Val("int", 0)) = {} /\ NoValue.k = "null" /\ Val("int", 0).k = "int"
    /\ \A w : w # "obj" => Suits(Val("int", 0), w)
  BY ValType DEF NoValue, Val, WellFormed, Suits, IsObj, Temp

\* An operand that is a number was loaded, from a temporary's field at the most.
LEMMA SuitsInt ==
    ASSUME NEW v, Suits(v, "int")
    PROVE  v.k \in {"int", "intfield"}
  BY DEF Suits, IsObj

\* Whose child is a statement's, or whose parent may ask for a number.
LEMMA ParentAsks ==
    ASSUME EmitterInv, ~failed, NEW k \in ExprKind, Back(k)
    PROVE  /\ k \in OnStmt => ctl[Len(ctl) - 1].k \notin ExprKind
           /\ k \in IntOp => ctl[Len(ctl) - 1].want # "obj"
<1>1. k # "func"
  BY DEF ExprKind
<1>2. PICK m \in Nat : Len(ctl) = m + 1 /\ m # 0 /\ Top = ctl[m + 1] /\ Stands(ctl, m + 1)
  BY <1>1, BackGood
<1>3. Top.k = k /\ Len(ctl) - 1 = m /\ m \in 1..((m + 1) - 1) /\ m + 1 > 1 /\ (m + 1) - 1 = m
  BY <1>1, <1>2, BackGood
<1> QED
  BY <1>2, <1>3 DEF Stands, StmtKind, ExprKind

LEMMA OperatorSteps ==
    ASSUME EmitterInv, Unary \/ BinaryRhs \/ AssignLhs
    PROVE  Goods'
<1> SUFFICES ASSUME ~failed'
             PROVE  Good(ctl', scopes', result', code', pc')
  BY DEF Goods
<1>1. ~failed /\ ~Diagnose
  BY StillGood DEF Expression, Next
<1> USE <1>1
<1>2. PICK k \in {"unary", "brhs", "asglhs"} :
        Back(k) /\ ((k = "unary" /\ Unary) \/ (k = "brhs" /\ BinaryRhs) \/ (k = "asglhs" /\ AssignLhs))
  BY DEF Unary, BinaryRhs, AssignLhs
<1>3. k \in ExprKind /\ k # "func"
  BY DEF ExprKind
<1>4. code \in Code /\ scopes \in Seq(SUBSET Items) /\ result \in Value /\ Top.k = k
      /\ Top \in Proper /\ Fit(Top)
  BY <1>2, <1>3, BackGood
<1>5. /\ Flowing(code) /\ WellFormed(result) /\ Suits(result, Top.want)
      /\ code.held = Vars(scopes) \cup Kept(ctl) \cup Temp(result)
      /\ Temp(result) \cap (Vars(scopes) \cup Kept(ctl)) = {}
      /\ Temp(Top.v) \subseteq Kept(ctl) /\ Temp(Top.v) \cap Vars(scopes) = {}
  BY <1>2, <1>3, ExprBack
<1>6. AwaitedBy(Top) = {} /\ ScopesOf(k) = 0
  BY <1>4 DEF AwaitedBy, ScopesOf
<1>7. /\ result.k # "null"
      /\ k \in {"unary", "brhs"} => result.k \notin {"field", "self"} /\ Top.v.k \notin {"field", "self"}
  <2>1. k \in {"unary", "brhs"} => Top.want = "int"
    BY <1>4 DEF Fit, IntOp
  <2>2. Top.v = NoValue \/ Suits(Top.v, "int") \/ k = "asglhs"
    BY <1>2, <1>4 DEF Fit, Cases
  <2> QED
    BY <1>5, <2>1, <2>2, PlainValues DEF Suits, IsObj
<1>8. ASSUME NEW r \in {NoValue, Val("int", 0)},
             code' = [code EXCEPT !.held = Vars(scopes) \cup (Kept(ctl) \ Temp(Top.v))],
             ctl' = Outer(ctl), scopes' = scopes, result' = r, pc' = "done",
             r = NoValue => k \in OnStmt, r = Val("int", 0) => k \in IntOp
      PROVE  Good(ctl', scopes', result', code', pc')
  <2>1. r \in Value /\ r.item = 0 /\ WellFormed(r) /\ Temp(r) = {} /\ r.k \notin {"field", "self"}
    BY PlainValues
  <2>2. code' = [code EXCEPT !.held = Vars(scopes) \cup (Kept(ctl) \ Temp(Top.v)) \cup Temp(r)]
    BY <1>8, <2>1
  <2>3. code' \in Code /\ Flowing(code')
    BY <1>4, <1>5, <1>8 DEF Code, Flowing
  <2>4. ctl[Len(ctl) - 1].k \in ExprKind => Suits(r, ctl[Len(ctl) - 1].want)
    BY <1>2, <1>3, <1>8, ParentAsks, PlainValues
  <2>5. Good(Outer(ctl), scopes, r, code', "done")
    BY <1>2, <1>3, <1>6, <2>1, <2>2, <2>3, <2>4, PlainLeave
  <2> QED
    BY <1>8, <2>5
<1>9. CASE k = "unary"
  <2>1. code' = DestroyValue(Emit(code), result) /\ ctl' = Outer(ctl) /\ scopes' = scopes
        /\ result' = Val("int", 0) /\ pc' = "done"
    BY <1>1, <1>2, <1>7, <1>9 DEF Unary, Leave
  <2>2. Temp(Top.v) = {}
    BY <1>4, <1>9, PlainValues DEF Fit, Cases
  <2>3. Emit(code) = code /\ DestroyValue(code, result) = [code EXCEPT !.held = code.held \ Temp(result)]
    BY <1>4, <1>5, <1>7, <1>9, FlowEmit, FlowDestroy
  <2>4. code.held \ Temp(result) = Vars(scopes) \cup (Kept(ctl) \ Temp(Top.v))
    BY <1>5, <2>2
  <2> QED
    BY <1>8, <1>9, <2>1, <2>3, <2>4 DEF IntOp, NoValue, Val
<1>10. CASE k = "brhs"
  <2>1. code' = DestroyValue(DestroyValue(Emit(code), Top.v), result) /\ ctl' = Outer(ctl)
        /\ scopes' = scopes /\ result' = Val("int", 0) /\ pc' = "done"
    BY <1>1, <1>2, <1>7, <1>10 DEF BinaryRhs, Leave
  <2>2. PICK c : c = DestroyValue(code, Top.v)
    OBVIOUS
  <2>3. c = [code EXCEPT !.held = code.held \ Temp(Top.v)] /\ c \in Code /\ Flowing(c)
    BY <1>4, <1>5, <1>7, <1>10, <2>2, FlowDestroy
  <2>4. c.held = code.held \ Temp(Top.v)
    BY <1>4, <2>3 DEF Code
  <2>5. DestroyValue(c, result) = [c EXCEPT !.held = c.held \ Temp(result)]
    <3>1. Temp(result) \subseteq c.held
      BY <1>5, <2>4
    <3> QED
      BY <1>7, <1>10, <2>3, <3>1, FlowDestroy
  <2>6. Emit(code) = code
    BY <1>4, <1>5, FlowEmit
  <2>7. c.held \ Temp(result) = Vars(scopes) \cup (Kept(ctl) \ Temp(Top.v))
    BY <1>5, <2>4
  <2>8. code' = [code EXCEPT !.held = Vars(scopes) \cup (Kept(ctl) \ Temp(Top.v))]
    BY <1>4, <2>1, <2>2, <2>3, <2>5, <2>6, <2>7 DEF Code
  <2> QED
    BY <1>8, <1>10, <2>1, <2>8 DEF IntOp, NoValue, Val
<1>11. CASE k = "asglhs"
  <2>1. /\ ctl' = Outer(ctl) /\ scopes' = scopes /\ result' = NoValue /\ pc' = "done"
        /\ \/ result.k = "null" \/ Top.v.k = "null"
           \/ code' = Release(CopyValue(code, Top.v, 0), Temp(result))
           \/ \E x \in AllVars : result.k = "var" /\ code' = CopyValue(Release(code, {x}), Top.v, x)
    BY <1>1, <1>2, <1>11 DEF AssignLhs, Leave, Temp
  <2>2. Top.v \in Value /\ WellFormed(Top.v) /\ Top.v.k # "null"
        /\ ((Top.v.k = "temp" /\ Top.want = "obj") \/ (Top.v.k = "int" /\ Top.want = "int"))
    <3>1. Top.v \in Value
      BY <1>4 DEF Proper, Activation
    <3>2. WellFormed(Top.v)
      BY <1>4 DEF Fit
    <3>3. (Top.v.k = "temp" /\ Top.want = "obj") \/ (Top.v.k = "int" /\ Top.want = "int")
      BY <1>4, <1>11 DEF Fit
    <3> QED
      BY <3>1, <3>2, <3>3
  <2>3. CASE code' = Release(CopyValue(code, Top.v, 0), Temp(result))
    <3>1. PICK c : c = CopyValue(code, Top.v, 0)
      OBVIOUS
    <3>2. c = [code EXCEPT !.held = code.held \ Temp(Top.v)] /\ c \in Code /\ Flowing(c)
      <4>1. (code.held \ Temp(Top.v)) \cup (IF IsObj(Top.v) THEN {0} \ {0} ELSE {})
            = code.held \ Temp(Top.v)
        OBVIOUS
      <4>2. Temp(Top.v) \subseteq code.held
        BY <1>5
      <4>3. CopyValue(code, Top.v, 0) = [code EXCEPT !.held =
              (code.held \ Temp(Top.v)) \cup (IF IsObj(Top.v) THEN {0} \ {0} ELSE {})]
            /\ CopyValue(code, Top.v, 0) \in Code /\ Flowing(CopyValue(code, Top.v, 0))
        BY <1>4, <1>5, <2>2, <4>2, FlowCopy
      <4> QED
        BY <3>1, <4>1, <4>3
    <3>3. c.held = code.held \ Temp(Top.v)
      BY <1>4, <3>2 DEF Code
    <3>4. Release(c, Temp(result)) = [c EXCEPT !.held = c.held \ Temp(result)]
      <4>1. Temp(result) \subseteq c.held
        BY <1>5, <3>3
      <4> QED
        BY <3>2, <4>1, FlowRelease
    <3>5. c.held \ Temp(result) = Vars(scopes) \cup (Kept(ctl) \ Temp(Top.v))
      BY <1>5, <3>3
    <3>6. code' = [code EXCEPT !.held = Vars(scopes) \cup (Kept(ctl) \ Temp(Top.v))]
      BY <1>4, <2>3, <3>1, <3>2, <3>4, <3>5 DEF Code
    <3> QED
      BY <1>8, <1>11, <2>1, <3>6 DEF OnStmt, NoValue, Val
  <2>4. CASE \E x \in AllVars : result.k = "var" /\ code' = CopyValue(Release(code, {x}), Top.v, x)
    <3>1. PICK x \in AllVars : result.k = "var" /\ code' = CopyValue(Release(code, {x}), Top.v, x)
      BY <2>4
    <3>2. x \in Vars(scopes) /\ x \in Items /\ x # 0
      <4>1. x \in Vars(scopes)
        BY <3>1, AllVarsIs DEF EmitterInv
      <4> QED
        BY <1>4, <4>1, VarsOf, NamesAssumption
    <3>3. IsObj(Top.v) /\ Temp(result) = {}
      BY <1>5, <2>2, <3>1 DEF Suits, IsObj, WellFormed, Temp
    <3>4. PICK c : c = Release(code, {x})
      OBVIOUS
    <3>5. c = [code EXCEPT !.held = code.held \ {x}] /\ c \in Code /\ Flowing(c)
      <4>1. {x} \subseteq code.held
        BY <1>5, <3>2
      <4> QED
        BY <1>4, <1>5, <3>4, <4>1, FlowRelease
    <3>6. c.held = code.held \ {x}
      BY <1>4, <3>5 DEF Code
    <3>7. CopyValue(c, Top.v, x) = [c EXCEPT !.held = (c.held \ Temp(Top.v)) \cup {x}]
      <4>1. Temp(Top.v) \subseteq c.held
        BY <1>5, <3>2, <3>6
      <4>2. CopyValue(c, Top.v, x) = [c EXCEPT !.held =
              (c.held \ Temp(Top.v)) \cup (IF IsObj(Top.v) THEN {x} \ {0} ELSE {})]
        BY <2>2, <3>2, <3>5, <4>1, FlowCopy
      <4>3. (c.held \ Temp(Top.v)) \cup (IF IsObj(Top.v) THEN {x} \ {0} ELSE {})
            = (c.held \ Temp(Top.v)) \cup {x}
        BY <3>2, <3>3
      <4> QED
        BY <4>2, <4>3
    <3>8. (c.held \ Temp(Top.v)) \cup {x} = Vars(scopes) \cup (Kept(ctl) \ Temp(Top.v))
      BY <1>5, <3>2, <3>3, <3>6
    <3>9. code' = [code EXCEPT !.held = Vars(scopes) \cup (Kept(ctl) \ Temp(Top.v))]
      BY <1>4, <3>1, <3>4, <3>5, <3>7, <3>8 DEF Code
    <3> QED
      BY <1>8, <1>11, <2>1, <3>9 DEF OnStmt, NoValue, Val
  <2> QED
    BY <1>7, <2>1, <2>2, <2>3, <2>4
<1> QED
  BY <1>9, <1>10, <1>11

\* An activation that goes on stays where it stood.
LEMMA StandsNext ==
    ASSUME NEW ct, NEW ct2, NEW m \in Nat, m # 0, \A i \in 1..m : ct2[i] = ct[i],
           Stands(ct, m + 1), NEW a, a = ct2[m + 1], NEW k, k = ct[m + 1].k,
           a.k \notin {"func", "ret"}, k = "block" => a.k = "block", a.k \in OnStmt => k \in OnStmt,
           k \in {"unary", "blhs", "brhs"} => a.k \in {"unary", "blhs", "brhs"},
           a.k \in IntOp => k \in IntOp, a.k = "tthen" => a.want = ct[m].want,
           a.k = "telse" => ct[m].want \in {"any", a.want}
    PROVE  Stands(ct2, m + 1)
<1>1. m + 1 # 1 /\ (m + 1) - 1 = m /\ m \in 1..m /\ m + 1 > 1
  OBVIOUS
<1>2. ct2[m] = ct[m]
  BY <1>1
<1>3. m + 1 = 2 => a.k = "block"
  BY DEF Stands
<1>4. a.k \in OnStmt => \A i \in 1..m : ct2[i].k \in StmtKind
  BY <1>1 DEF Stands
<1>5. \A i \in 1..m : ct2[i].k = "lrhs" => a.k \in {"unary", "blhs", "brhs"}
  BY <1>1 DEF Stands
<1>6. a.k \in IntOp => ct2[m].want # "obj"
  BY <1>1, <1>2 DEF Stands
<1> QED
  BY <1>1, <1>2, <1>3, <1>4, <1>5, <1>6 DEF Stands

\* A visitor that waits for an expression goes on to another.
LEMMA PlainNext ==
    ASSUME EmitterInv, ~failed, NEW k \in ExprKind, Back(k), AwaitedBy(Top) = {},
           ScopesOf(k) = 0, NEW a \in Proper, AwaitedBy(a) = {}, ScopesOf(a.k) = 0,
           NEW c \in Code, NEW re,
           c = [code EXCEPT !.held = Vars(scopes) \cup (Kept(ctl) \ Temp(Top.v)) \cup Temp(a.v)],
           Flowing(c), OwnedBy(a) \subseteq OwnedBy(Top) \cup Temp(result),
           Fit(a), a.v.item # 0 => a.v.item # a.p, ~a.flag,
           a.k \notin {"tthen", "telse", "lrhs", "func", "ret"} \cup Cases, a.k \notin StmtKind,
           k = "block" => a.k = "block", a.k \in OnStmt => k \in OnStmt,
           k \in {"unary", "blhs", "brhs"} => a.k \in {"unary", "blhs", "brhs"},
           a.k \in IntOp => k \in IntOp
    PROVE  Good(Become(a), scopes, re, c, "visit")
<1>1. k # "func"
  BY DEF ExprKind
<1>2. /\ Good(ctl, scopes, result, code, pc) /\ ctl \in Seq(Proper)
      /\ scopes \in Seq(SUBSET Items) /\ code \in Code /\ code.faults = {} /\ Top.k = k
  BY <1>1, BackGood
<1>3. PICK m \in Nat : Len(ctl) = m + 1 /\ m # 0 /\ Top = ctl[m + 1] /\ Stands(ctl, m + 1)
                       /\ TopItems(ctl, m) = OwnedBy(Top) /\ TopKept(ctl, m) = Temp(Top.v)
                       /\ TopBlocks(ctl, m) = AwaitedBy(Top)
  BY <1>1, BackGood
<1>4. PICK ct : ct = Become(a)
  OBVIOUS
<1>5. ct \in Seq(Proper) /\ Len(ct) = m + 1 /\ ct[m + 1] = a /\ \A i \in 1..m : ct[i] = ctl[i]
  <2>1. Len(ctl) > 0 /\ Len(ctl) - 1 = m
    BY <1>3
  <2>2. ct = [ctl EXCEPT ![Len(ctl)] = a]
    BY <1>4 DEF Become
  <2>3. ct \in Seq(Proper) /\ Len(ct) = Len(ctl) /\ ct[Len(ctl)] = a
        /\ \A i \in 1..(Len(ctl) - 1) : ct[i] = ctl[i]
    BY <1>2, <2>1, <2>2, BecomeFacts
  <2> QED
    BY <1>3, <2>1, <2>3
<1>6. PICK h \in Nat : h = Len(scopes) /\ h = Below(ctl, m + 1)
  <2>1. Len(scopes) = Below(ctl, Len(ctl) + 1)
    BY <1>2 DEF Good, Scoped
  <2>2. PICK n \in Nat \ {0} : n = m + 1
    BY <1>3
  <2>3. Below(ctl, n + 1) = Below(ctl, n) + ScopesOf(ctl[n].k) /\ Below(ctl, n) \in Nat
    BY BelowNext, HeldFinite
  <2> QED
    BY <1>2, <1>3, <2>1, <2>2, <2>3
<1>7. Stands(ct, m + 1)
  BY <1>2, <1>3, <1>5, StandsNext
<1>8. Rebuilt(ctl, ct, m, code, c)
  <2>1. TopBlocks(ct, m) = {} /\ Laid(ctl, code)
    BY <1>2, <1>5 DEF TopBlocks, Good
  <2> QED
    BY <1>2, <1>3, <1>5, <2>1, SameBlocks
<1>9. c.faults = {} /\ c.held = Vars(scopes) \cup (Kept(ctl) \ TopKept(ctl, m)) \cup Temp(a.v)
  BY <1>2, <1>3 DEF Code
<1>10. JumpsTo(a, Base(ct, scopes, m + 1), c.edges)
  BY DEF JumpsTo, Cases
<1>11. OwnedBy(a) \subseteq TopItems(ctl, m) \cup Fresh(result, pc)
  <2>1. pc = "done"
    BY ExprBack
  <2> QED
    BY <1>3, <2>1 DEF Fresh, Temp
<1>12. Rescoped(scopes, scopes, Below(ctl, m + 1), a.k)
  BY <1>6 DEF Rescoped
<1>13. (~Flowing(c) => c.held = {} /\ a.k = "block" /\ (a.flag \/ c.cur = 0))
       /\ (a.flag => ctl[m].k # "block") /\ (a.flag => ~Flowing(c))
  OBVIOUS
<1>14. Turns(ctl, ct, m, a)
  BY <1>2, <1>3, <1>5 DEF Turns, Shares
<1>15. Flowing(c) => c.held = Vars(scopes) \cup (Kept(ctl) \ TopKept(ctl, m)) \cup Temp(a.v)
  BY <1>9
<1>16. Good(ct, scopes, re, c, "visit")
  <2>1. Proceeds(ctl, scopes, result, code, pc, ct, scopes, c, m, a)
    BY <1>2, <1>7, <1>8, <1>9, <1>10, <1>11, <1>12, <1>13, <1>14, <1>15 DEF Proceeds
  <2> QED
    BY <2>1, NextGood
<1> QED
  BY <1>4, <1>16

LEMMA OperandSteps ==
    ASSUME EmitterInv, BinaryLhs \/ AssignRhs
    PROVE  Goods'
<1> SUFFICES ASSUME ~failed'
             PROVE  Good(ctl', scopes', result', code', pc')
  BY DEF Goods
<1>1. ~failed /\ ~Diagnose
  BY StillGood DEF Expression, Next
<1> USE <1>1
<1>2. PICK k \in {"blhs", "asgrhs"} :
        Back(k) /\ ((k = "blhs" /\ BinaryLhs) \/ (k = "asgrhs" /\ AssignRhs))
  BY DEF BinaryLhs, AssignRhs
<1>3. k \in ExprKind /\ k # "func"
  BY DEF ExprKind
<1>4. code \in Code /\ scopes \in Seq(SUBSET Items) /\ result \in Value /\ Top.k = k
      /\ Top \in Proper /\ Fit(Top)
  BY <1>2, <1>3, BackGood
<1>5. /\ Flowing(code) /\ WellFormed(result) /\ Suits(result, Top.want)
      /\ code.held = Vars(scopes) \cup Kept(ctl) \cup Temp(result)
      /\ Temp(result) \cap (Vars(scopes) \cup Kept(ctl)) = {}
  BY <1>2, <1>3, ExprBack
<1>6. AwaitedBy(Top) = {} /\ ScopesOf(k) = 0
  BY <1>4 DEF AwaitedBy, ScopesOf
<1>7. result.k \notin {"null", "self", "func", "void"} /\ Temp(Top.v) = {} /\ Top.p \in Items \cup {0}
  <2>1. Top.v = NoValue
    BY <1>4 DEF Fit, Cases
  <2> QED
    BY <1>4, <1>5, <2>1, PlainValues DEF Suits, Proper, Activation
<1>8. CASE k = "blhs"
  <2>1. PICK a : a = [Act("brhs", "int") EXCEPT !.v = result]
    OBVIOUS
  <2>2. a \in Activation /\ a.k = "brhs" /\ a.v = result /\ a.p = 0 /\ a.want = "int" /\ a.flag = FALSE
    BY <1>4, <2>1 DEF Act, Activation, StmtKind, ExprKind
  <2>3. a \in Proper
    BY <2>2 DEF Proper
  <2>4. ctl' = Become(a) /\ scopes' = scopes /\ result' = result /\ code' = code /\ pc' = "visit"
    BY <1>2, <1>4, <1>5, <1>7, <1>8, <2>1, FlowEmit DEF BinaryLhs
  <2>5. Suits(a.v, "int")
    <3>1. Top.want = "int"
      BY <1>4, <1>8 DEF Fit, IntOp
    <3> QED
      BY <1>5, <2>2, <3>1
  <2>6. Fit(a)
    BY <1>5, <2>2, <2>5 DEF Fit, IntOp, Cases
  <2>7. code = [code EXCEPT !.held = Vars(scopes) \cup (Kept(ctl) \ Temp(Top.v)) \cup Temp(a.v)]
    <3>1. code = [code EXCEPT !.held = code.held]
      BY <1>4 DEF Code
    <3>2. code.held = Vars(scopes) \cup (Kept(ctl) \ Temp(Top.v)) \cup Temp(a.v)
      BY <1>5, <1>7, <2>2
    <3> QED
      BY <3>1, <3>2
  <2>8. OwnedBy(a) \subseteq OwnedBy(Top) \cup Temp(result)
    BY <2>2 DEF OwnedBy, Temp
  <2>9. AwaitedBy(a) = {} /\ ScopesOf(a.k) = 0 /\ a.k \notin {"tthen", "telse", "lrhs", "func", "ret"} \cup Cases
        /\ a.k \notin StmtKind /\ a.k \notin OnStmt /\ k \in IntOp
    BY <1>8, <2>2 DEF AwaitedBy, ScopesOf, Cases, StmtKind, OnStmt, IntOp
  <2>10. Good(Become(a), scopes, result, code, "visit")
    BY <1>2, <1>3, <1>4, <1>5, <1>6, <1>8, <2>2, <2>3, <2>6, <2>7, <2>8, <2>9, PlainNext
  <2> QED
    BY <2>4, <2>10
<1>9. CASE k = "asgrhs"
  <2>1. PICK a : a = [Act("asglhs", IF IsObj(result) THEN "obj" ELSE "int") EXCEPT
                         !.v = Copied(result, Top.p)]
    OBVIOUS
  <2>2. Top.p # 0
    BY <1>4, <1>9 DEF Fit
  <2>12. Copied(result, Top.p) = (IF IsObj(result) THEN Val("temp", Top.p) ELSE Val("int", 0))
    <3>1. result = [k |-> result.k, item |-> result.item]
          /\ result.k \in {"int", "intfield", "temp", "var", "field"}
      BY <1>4, <1>5 DEF Value, Suits
    <3>2. result.k = "int" => result.item = 0
      BY <1>5 DEF WellFormed
    <3> QED
      BY <3>1, <3>2 DEF Copied, IsObj, Val
  <2>3. a \in Activation /\ a.k = "asglhs" /\ a.p = 0 /\ a.flag = FALSE
        /\ a.v = (IF IsObj(result) THEN Val("temp", Top.p) ELSE Val("int", 0))
        /\ a.want = (IF IsObj(result) THEN "obj" ELSE "int")
    BY <1>7, <2>1, <2>12, ValType DEF Act, Activation, StmtKind, ExprKind
  <2>4. a \in Proper
    BY <2>3 DEF Proper
  <2>5. ctl' = Become(a) /\ scopes' = scopes /\ result' = NoValue
        /\ code' = CopyValue(code, result, Top.p) /\ pc' = "visit"
    BY <1>2, <1>9, <2>1 DEF AssignRhs
  <2>6. Temp(a.v) = (IF IsObj(result) THEN {Top.p} \ {0} ELSE {}) /\ WellFormed(a.v)
    BY <2>2, <2>3 DEF Val, Temp, WellFormed
  <2>7. Fit(a)
    <3>1. \/ a.v.k = "temp" /\ a.want = "obj"
          \/ a.v.k = "int" /\ a.want = "int"
      BY <2>3 DEF Val
    <3> QED
      BY <2>3, <2>6, <3>1 DEF Fit, IntOp, Cases
  <2>8. code' = [code EXCEPT !.held = Vars(scopes) \cup (Kept(ctl) \ Temp(Top.v)) \cup Temp(a.v)]
        /\ code' \in Code /\ Flowing(code')
    <3>1. Temp(result) \subseteq code.held
      BY <1>5
    <3>2. CopyValue(code, result, Top.p) = [code EXCEPT !.held =
             (code.held \ Temp(result)) \cup (IF IsObj(result) THEN {Top.p} \ {0} ELSE {})]
          /\ CopyValue(code, result, Top.p) \in Code /\ Flowing(CopyValue(code, result, Top.p))
      BY <1>4, <1>5, <1>7, <3>1, FlowCopy
    <3>3. (code.held \ Temp(result)) \cup (IF IsObj(result) THEN {Top.p} \ {0} ELSE {})
          = Vars(scopes) \cup (Kept(ctl) \ Temp(Top.v)) \cup Temp(a.v)
      BY <1>5, <1>7, <2>6
    <3> QED
      BY <2>5, <3>2, <3>3
  <2>9. OwnedBy(a) \subseteq OwnedBy(Top) \cup Temp(result) /\ (a.v.item # 0 => a.v.item # a.p)
    BY <2>3 DEF OwnedBy, Temp, Val
  <2>10. AwaitedBy(a) = {} /\ ScopesOf(a.k) = 0 /\ a.k \notin {"tthen", "telse", "lrhs", "func", "ret"} \cup Cases
         /\ a.k \notin StmtKind /\ k \in OnStmt /\ a.k \notin IntOp
    BY <1>9, <2>3 DEF AwaitedBy, ScopesOf, Cases, StmtKind, OnStmt, IntOp
  <2>11. Good(Become(a), scopes, NoValue, code', "visit")
    BY <1>2, <1>3, <1>6, <1>9, <2>3, <2>4, <2>7, <2>8, <2>9, <2>10, PlainNext
  <2> QED
    BY <2>5, <2>11
<1> QED
  BY <1>2, <1>8, <1>9

\* Variables that join the last scope.
Gains(s, s2, S) ==
    /\ s \in Seq(SUBSET Items) /\ Len(s) > 0 /\ S \in SUBSET Items /\ S \cap Vars(s) = {}
    /\ \A i, j \in 1..Len(s) : i # j => s[i] \cap s[j] = {}
    /\ s2 = [s EXCEPT ![Len(s)] = s[Len(s)] \cup S]

LEMMA ScopeGrows ==
    ASSUME NEW s, NEW s2, NEW S, Gains(s, s2, S)
    PROVE  /\ s2 \in Seq(SUBSET Items) /\ Len(s2) = Len(s) /\ Vars(s2) = Vars(s) \cup S
           /\ \A i \in 1..Len(s) : i # Len(s) => s2[i] = s[i]
           /\ \A i, j \in 1..Len(s) : i # j => s2[i] \cap s2[j] = {}
<1> USE DEF Gains
<1>1. PICK n \in Nat \ {0} : n = Len(s)
  OBVIOUS
<1>2. s[n] \cup S \in SUBSET Items
  BY <1>1
<1>3. /\ s2 \in Seq(SUBSET Items) /\ Len(s2) = n /\ s2[n] = s[n] \cup S
      /\ \A i \in 1..(n - 1) : s2[i] = s[i]
  BY <1>1, <1>2, BecomeFacts
<1>4. \A i \in 1..n : i # n => s2[i] = s[i]
  BY <1>1, <1>3
<1>5. \A i \in 1..n : s[i] \subseteq s2[i] /\ s2[i] \subseteq s[i] \cup S
  BY <1>3, <1>4
<1>6. Vars(s2) = Vars(s) \cup S
  <2>1. n \in 1..n /\ S \subseteq s2[n]
    BY <1>1, <1>3
  <2>2. \A x : x \in Vars(s2) => x \in Vars(s) \cup S
    BY <1>1, <1>3, <1>5, VarsOf
  <2>3. \A x : x \in Vars(s) => x \in Vars(s2)
    BY <1>1, <1>3, <1>5, VarsOf
  <2>4. \A x : x \in S => x \in Vars(s2)
    BY <1>1, <1>3, <2>1, VarsOf
  <2> QED
    BY <2>2, <2>3, <2>4
<1>7. ASSUME NEW i \in 1..n, NEW j \in 1..n, i # j
      PROVE  s2[i] \cap s2[j] = {}
  <2>1. s[i] \cap s[j] = {} /\ s[i] \cap S = {} /\ s[j] \cap S = {}
    BY <1>1, <1>7, VarsOf
  <2>2. (i # n => s2[i] = s[i]) /\ (j # n => s2[j] = s[j])
    BY <1>4
  <2>3. (i = n => s2[i] = s[i] \cup S) /\ (j = n => s2[j] = s[j] \cup S)
    BY <1>3
  <2> QED
    BY <1>7, <2>1, <2>2, <2>3
<1> QED
  BY <1>1, <1>3, <1>4, <1>6, <1>7

\* What the scope of a block or a case gains is below no other activation.
LEMMA GrownScoped ==
    ASSUME NEW ct \in Seq(Proper), NEW sc \in Seq(SUBSET Items), NEW sc2 \in Seq(SUBSET Items),
           NEW co, NEW co2, NEW p, NEW m \in Nat, m # 0, Len(ct) = m + 1, Scoped(ct, sc, co, p),
           ScopesOf(ct[m + 1].k) = 0, ct[m].k \in {"block"} \cup Cases, Flowing(co2),
           Len(sc2) = Len(sc), \A i \in 1..Len(sc) : i # Len(sc) => sc2[i] = sc[i],
           \A i, j \in 1..Len(sc) : i # j => sc2[i] \cap sc2[j] = {}
    PROVE  /\ Scoped(Outer(ct), sc2, co2, "done") /\ Agree(sc, sc2, Below(ct, m))
           /\ Len(sc) > 0
<1>1. PICK ct2 : ct2 = Outer(ct)
  OBVIOUS
<1>2. ct2 \in Seq(Proper) /\ Len(ct2) = m /\ \A i \in 1..m : ct2[i] = ct[i]
  BY <1>1, OuterFacts
<1>3. Shares(ct, ct2, m)
  BY <1>2 DEF Shares
<1>4. PICK n \in Nat \ {0} : n = m + 1
  OBVIOUS
<1>5. PICK q \in Nat \ {0} : q = m
  OBVIOUS
<1>6. ScopesOf(ct[m].k) \in {1, 2} /\ (ct[m].k \in Cases => ScopesOf(ct[m].k) = 2)
  BY DEF ScopesOf, Cases
<1>7. PICK h \in Nat : h = Below(ct, n)
  BY HeldFinite
<1>8. PICK b \in Nat : b = Below(ct, m) /\ h = b + ScopesOf(ct[m].k)
  <2>1. Below(ct, q + 1) = Below(ct, q) + ScopesOf(ct[q].k) /\ Below(ct, q) \in Nat
    BY BelowNext, HeldFinite
  <2> QED
    BY <1>4, <1>5, <1>7, <2>1
<1>9. Len(sc) = h
  <2>1. Below(ct, n + 1) = Below(ct, n) + ScopesOf(ct[n].k)
    BY BelowNext
  <2>2. Len(sc) = Below(ct, n + 1)
    BY <1>4 DEF Scoped
  <2> QED
    BY <1>4, <1>7, <2>1, <2>2
<1>10. Agree(sc, sc2, Below(ct, m)) /\ Len(sc) > 0
  BY <1>6, <1>8, <1>9 DEF Agree
<1>11. \A i \in 1..n : Below(ct2, i) = Below(ct, i)
  BY <1>3, <1>4, SharesBelow
<1>12. Len(sc2) = Below(ct2, Len(ct2) + 1)
  BY <1>2, <1>4, <1>7, <1>9, <1>11
<1>13. ASSUME NEW i \in 1..m
       PROVE  /\ ct2[i].k \in Cases \cup {"ifcond"} => sc2[Below(ct2, i) + 1] = {}
              /\ ct2[i].k \in Cases /\ i < Len(ct2) => sc2[Below(ct2, i) + 2] = {}
  <2>1. ct2[i] = ct[i] /\ i \in 1..n /\ i \in 1..Len(ct) /\ i < Len(ct)
    BY <1>2, <1>4
  <2>2. PICK d \in Nat : d = Below(ct, i) /\ Below(ct2, i) = d
    BY <1>11, <2>1, HeldFinite
  <2>3. /\ ct[i].k \in Cases \cup {"ifcond"} => sc[d + 1] = {}
        /\ ct[i].k \in Cases => sc[d + 2] = {}
    BY <2>1, <2>2 DEF Scoped
  <2>4. CASE i = m
    <3>1. d = b
      BY <1>8, <2>2, <2>4
    <3>2. ct[i].k \in Cases \cup {"ifcond"} => ScopesOf(ct[m].k) = 2
      BY <1>6, <2>4 DEF Cases
    <3>3. ct[i].k \in Cases \cup {"ifcond"} => d + 1 \in 1..Len(sc) /\ d + 1 # Len(sc)
      BY <1>8, <1>9, <3>1, <3>2
    <3> QED
      BY <1>2, <2>1, <2>2, <2>3, <2>4, <3>3
  <2>5. CASE i # m
    <3>1. i \in Nat \ {0} /\ m \in Nat /\ i < m
      BY <2>5
    <3>2. d + ScopesOf(ct[i].k) <= b
      BY <1>8, <2>2, <3>1, BelowRange
    <3>3. ct[i].k \in Cases => ScopesOf(ct[i].k) = 2
      BY DEF ScopesOf, Cases
    <3>4. ct[i].k = "ifcond" => ScopesOf(ct[i].k) = 1
      BY DEF ScopesOf
    <3>5. ct[i].k \in Cases \cup {"ifcond"} => d + 1 \in 1..Len(sc) /\ d + 1 # Len(sc)
      BY <1>6, <1>8, <1>9, <3>2, <3>3, <3>4
    <3>6. ct[i].k \in Cases => d + 2 \in 1..Len(sc) /\ d + 2 # Len(sc)
      BY <1>6, <1>8, <1>9, <3>2, <3>3
    <3> QED
      BY <2>1, <2>2, <2>3, <3>5, <3>6
  <2> QED
    BY <2>4, <2>5
<1>14. Scoped(ct2, sc2, co2, "done")
  BY <1>2, <1>12, <1>13 DEF Scoped
<1> QED
  BY <1>1, <1>10, <1>14

LEMMA DeclareStep ==
    ASSUME EmitterInv, DeclareVariable
    PROVE  Goods'
<1> SUFFICES ASSUME ~failed'
             PROVE  Good(ctl', scopes', result', code', pc')
  BY DEF Goods
<1>1. ~failed /\ ~Diagnose
  BY StillGood DEF Statement, Next
<1> USE <1>1
<1>2. Back("let") /\ "let" \in ExprKind /\ "let" # "func"
  BY DEF DeclareVariable, ExprKind
<1>3. /\ Good(ctl, scopes, result, code, pc) /\ ctl \in Seq(Proper)
      /\ scopes \in Seq(SUBSET Items) /\ code \in Code /\ result \in Value
      /\ code.faults = {} /\ Top.k = "let" /\ Top \in Proper /\ Fit(Top)
  BY <1>2, BackGood
<1>4. PICK m \in Nat : Len(ctl) = m + 1 /\ m # 0 /\ Top = ctl[m + 1] /\ Stands(ctl, m + 1)
                       /\ TopItems(ctl, m) = OwnedBy(Top) /\ TopKept(ctl, m) = Temp(Top.v)
                       /\ TopBlocks(ctl, m) = AwaitedBy(Top)
  BY <1>2, BackGood
<1>5. /\ Flowing(code) /\ WellFormed(result) /\ Suits(result, Top.want)
      /\ code.held = Vars(scopes) \cup Kept(ctl) \cup Temp(result)
      /\ Temp(result) \cap (Vars(scopes) \cup Kept(ctl)) = {}
      /\ {Top.p} \cap (Vars(scopes) \cup Kept(ctl) \cup Temp(result)) = {}
  BY <1>2, ExprBack
<1>6. result.k \notin {"null", "self", "func", "void"} /\ Temp(Top.v) = {} /\ Top.p \in Items
  <2>1. Top.v = NoValue /\ Top.p # 0
    BY <1>3 DEF Fit, Cases
  <2> QED
    BY <1>3, <1>5, <2>1, PlainValues DEF Suits, Proper, Activation
<1>7. PICK S : S = IF IsObj(result) THEN {Top.p} ELSE {}
  OBVIOUS
<1>8. /\ ctl' = Outer(ctl) /\ result' = NoValue /\ pc' = "done"
      /\ scopes' = [scopes EXCEPT ![Len(scopes)] = scopes[Len(scopes)] \cup S]
      /\ code' = EntryAlloca(CopyValue(code, result, Top.p))
  <2>1. (IF IsObj(result) THEN scopes[Len(scopes)] \cup {Top.p} ELSE scopes[Len(scopes)])
        = scopes[Len(scopes)] \cup S
    BY <1>7
  <2> QED
    BY <1>6, <2>1 DEF DeclareVariable, Leave
<1>9. ctl[m].k \in {"block"} \cup Cases /\ ctl[m].k \notin ExprKind
  <2>1. m \in 1..((m + 1) - 1) /\ m \in 1..Len(ctl)
    BY <1>4
  <2>2. ctl[m].k \in StmtKind
    BY <1>3, <1>4, <2>1 DEF Stands, OnStmt
  <2>3. ctl[m].k # "func"
    <3>1. ctl[m].k = "func" => m = 1
      BY <1>3, <2>1 DEF Good, Nested, Stands
    <3>2. m # 1
      BY <1>3, <1>4 DEF Stands
    <3> QED
      BY <3>1, <3>2
  <2> QED
    BY <2>2, <2>3 DEF StmtKind, Cases, ExprKind
<1>10. PICK c : c = CopyValue(code, result, Top.p)
  OBVIOUS
<1>11. c = [code EXCEPT !.held = Vars(scopes) \cup Kept(ctl) \cup S] /\ c \in Code /\ Flowing(c)
  <2>1. Temp(result) \subseteq code.held /\ Top.p \in Items \cup {0}
    BY <1>5, <1>6
  <2>2. c = [code EXCEPT !.held =
             (code.held \ Temp(result)) \cup (IF IsObj(result) THEN {Top.p} \ {0} ELSE {})]
        /\ c \in Code /\ Flowing(c)
    BY <1>3, <1>5, <1>6, <1>10, <2>1, FlowCopy
  <2>3. (code.held \ Temp(result)) \cup (IF IsObj(result) THEN {Top.p} \ {0} ELSE {})
        = Vars(scopes) \cup Kept(ctl) \cup S
    <3>1. Top.p # 0
      BY <1>6, NamesAssumption
    <3> QED
      BY <1>5, <1>7, <3>1
  <2> QED
    BY <2>2, <2>3
<1>12. code' = [c EXCEPT !.alloca = TRUE]
  <2>1. c.cur # 0
    BY <1>11, NamesAssumption DEF Code, Flowing
  <2> QED
    BY <1>8, <1>10, <2>1 DEF EntryAlloca
<1>13. /\ code'.cur = code.cur /\ code'.open = code.open /\ code'.loose = code.loose
       /\ code'.edges = code.edges /\ code'.faults = {} /\ code' \in Code /\ Flowing(code')
       /\ code'.held = Vars(scopes) \cup Kept(ctl) \cup S
  BY <1>3, <1>5, <1>11, <1>12 DEF Code, Flowing
<1>14. Rebuilt(ctl, Outer(ctl), m, code, code')
  <2>1. Len(Outer(ctl)) = m
    BY <1>3, <1>4, OuterFacts
  <2>2. TopBlocks(Outer(ctl), m) = {} /\ TopBlocks(ctl, m) = {} /\ Len(Outer(ctl)) # m + 1
    BY <1>3, <1>4, <2>1 DEF TopBlocks, AwaitedBy
  <2>3. Laid(ctl, code)
    BY <1>3 DEF Good
  <2> QED
    BY <1>13, <2>2, <2>3 DEF Rebuilt, Laid
<1>15. Scoped(ctl, scopes, code, pc) /\ ScopesOf(ctl[m + 1].k) = 0
  BY <1>3, <1>4 DEF Good, ScopesOf
<1>16. Len(scopes) > 0 /\ \A i, j \in 1..Len(scopes) : i # j => scopes[i] \cap scopes[j] = {}
  <2>1. \A i, j \in 1..Len(scopes) : i # j => scopes[i] \cap scopes[j] = {}
    BY <1>15 DEF Scoped
  <2>2. \A i \in 1..Len(scopes) : i # Len(scopes) => scopes[i] = scopes[i]
    OBVIOUS
  <2>3. PICK s \in Seq(SUBSET Items) : s = scopes
    BY <1>3
  <2> QED
    BY <1>3, <1>4, <1>9, <1>13, <1>15, <2>1, <2>2, <2>3, GrownScoped
<1>17. S \in SUBSET Items /\ S \cap Vars(scopes) = {} /\ S \subseteq OwnedBy(Top)
  <2>1. Top.p # 0
    BY <1>6, NamesAssumption
  <2> QED
    BY <1>5, <1>6, <1>7, <2>1 DEF OwnedBy
<1>18. /\ scopes' \in Seq(SUBSET Items) /\ Len(scopes') = Len(scopes)
       /\ Vars(scopes') = Vars(scopes) \cup S
       /\ \A i \in 1..Len(scopes) : i # Len(scopes) => scopes'[i] = scopes[i]
       /\ \A i, j \in 1..Len(scopes) : i # j => scopes'[i] \cap scopes'[j] = {}
  <2>1. PICK s : s = scopes'
    OBVIOUS
  <2>2. s = [scopes EXCEPT ![Len(scopes)] = scopes[Len(scopes)] \cup S]
    BY <1>8, <2>1
  <2>3. Gains(scopes, s, S)
    BY <1>3, <1>16, <1>17, <2>2 DEF Gains
  <2> QED
    BY <2>1, <2>3, ScopeGrows
<1>19. Scoped(Outer(ctl), scopes', code', "done") /\ Agree(scopes, scopes', Below(ctl, m))
  BY <1>3, <1>4, <1>9, <1>13, <1>15, <1>18, GrownScoped
<1>20. /\ NoValue \in Value /\ NoValue.item = 0 /\ WellFormed(NoValue)
       /\ NoValue.item \in TopItems(ctl, m) \cup {0} /\ NoValue.item \notin Vars(scopes')
       /\ NoValue.k \notin {"field", "self"}
  BY <1>18, PlainValues, VarsOf, NamesAssumption
<1>21. Vars(scopes') \subseteq Vars(scopes) \cup TopItems(ctl, m)
  BY <1>4, <1>17, <1>18
<1>22. code'.held = Vars(scopes') \cup (Kept(ctl) \ TopKept(ctl, m)) \cup ({NoValue.item} \ {0})
  BY <1>4, <1>6, <1>13, <1>18, <1>20
<1>23. Good(Outer(ctl), scopes', NoValue, code', "done")
  BY <1>3, <1>4, <1>9, <1>13, <1>14, <1>18, <1>19, <1>20, <1>21, <1>22, LeaveAny
<1> QED
  BY <1>8, <1>23

-----------------------------------------------------------------------------
(* Blocks: visitors that take over again after a statement *)

LEMMA BecomeTurns ==
    ASSUME ctl \in Seq(Proper), NEW m \in Nat, m # 0, Len(ctl) = m + 1, NEW a \in Proper
    PROVE  Turns(ctl, Become(a), m, a) /\ \A i \in 1..m : Become(a)[i] = ctl[i]
<1>1. Len(ctl) > 0 /\ Len(ctl) - 1 = m
  OBVIOUS
<1>2. PICK ct : ct = Become(a)
  OBVIOUS
<1>3. ct = [ctl EXCEPT ![Len(ctl)] = a]
  BY <1>2 DEF Become
<1>4. ct \in Seq(Proper) /\ Len(ct) = Len(ctl) /\ ct[Len(ctl)] = a
      /\ \A i \in 1..(Len(ctl) - 1) : ct[i] = ctl[i]
  BY <1>1, <1>3, BecomeFacts
<1>5. Turns(ctl, ct, m, a) /\ \A i \in 1..m : ct[i] = ctl[i]
  BY <1>1, <1>4 DEF Turns, Shares
<1> QED
  BY <1>2, <1>5

\* What a visitor that waits for a statement finds.
LEMMA StmtBack ==
    ASSUME EmitterInv, ~failed, NEW k \in StmtKind, k # "func", Back(k)
    PROVE  /\ Flowing(code) => /\ pc = "done" /\ WellFormed(result)
                               /\ code.held = Vars(scopes) \cup Kept(ctl) \cup Temp(result)
           /\ ~Flowing(code) => /\ code.held = {} /\ result.item = 0
                                /\ k = "block" /\ pc = "done" => code.cur = 0
           /\ pc = "return" => /\ ~Flowing(code)
                               /\ k = "block" => ctl[Len(ctl) - 1].k # "block"
           /\ Temp(result) \cap (Vars(scopes) \cup Kept(ctl)) = {} /\ result.k \notin {"field", "self"}
           /\ Temp(Top.v) \subseteq Kept(ctl) /\ Temp(Top.v) \cap Vars(scopes) = {}
           /\ 0 \notin Vars(scopes) /\ 0 \notin Kept(ctl)
<1>1. /\ Good(ctl, scopes, result, code, pc) /\ pc \in {"done", "return"}
      /\ ctl \in Seq(Proper) /\ scopes \in Seq(SUBSET Items) /\ Top.k = k
  BY BackGood
<1>2. PICK m \in Nat : Len(ctl) = m + 1 /\ Top = ctl[m + 1]
  BY BackGood
<1>3. /\ Nested(ctl, pc) /\ Apart(ctl, scopes, result, pc)
      /\ Matched(ctl, scopes, result, code, pc) /\ Flows(ctl, result, code, pc)
      /\ Found(ctl, result, pc)
  BY <1>1 DEF Good
<1>4. ctl[Len(ctl)] = Top /\ m + 1 \in 1..Len(ctl)
  BY <1>2
<1>5. pc = "return" => /\ ~Flowing(code) /\ result.item = 0
                       /\ k = "block" => ctl[Len(ctl) - 1].k # "block"
  BY <1>1, <1>3, <1>4 DEF Flows, Found, Nested
<1>6. (pc = "done" => WellFormed(result)) /\ result.k \notin {"field", "self"}
  BY <1>1, <1>3, <1>4 DEF Found
<1>7. pc = "done" /\ Flowing(code) => code.held = Vars(scopes) \cup Kept(ctl) \cup Temp(result)
  BY <1>3 DEF Matched, Fresh, Temp
<1>8. ~Flowing(code) => code.held = {}
  BY <1>3 DEF Matched
<1>9. ~Flowing(code) /\ pc = "done" => result.item = 0 /\ (k = "block" => code.cur = 0)
  BY <1>1, <1>3, <1>4 DEF Flows
<1>10. 0 \notin Vars(scopes) /\ 0 \notin Kept(ctl)
  BY <1>1, VarsOf, NamesAssumption DEF Kept
<1>11. Temp(result) \cap (Vars(scopes) \cup Kept(ctl)) = {}
  <2>1. pc = "done" => Temp(result) \cap (Vars(scopes) \cup Kept(ctl)) = {}
    BY <1>3 DEF Apart, Temp, Kept, OwnedBy
  <2>2. pc = "return" => Temp(result) = {}
    BY <1>5 DEF Temp
  <2> QED
    BY <1>1, <2>1, <2>2
<1>12. Temp(Top.v) \subseteq Kept(ctl)
  BY <1>2, <1>4 DEF Temp, Kept
<1>13. Temp(Top.v) \cap Vars(scopes) = {}
  BY <1>2, <1>3, <1>4, <1>10 DEF Apart, Temp, OwnedBy
<1> QED
  BY <1>1, <1>5, <1>6, <1>7, <1>8, <1>9, <1>10, <1>11, <1>12, <1>13

LEMMA NoRelease == \A c : Release(c, {}) = c
  BY DEF Release

\* The Value of a statement is destroyed.
LEMMA StmtDestroy ==
    ASSUME EmitterInv, ~failed, NEW k \in StmtKind, k # "func", Back(k), NEW c,
           c = DestroyValue(code, result)
    PROVE  /\ c \in Code /\ c.cur = code.cur /\ c.open = code.open /\ c.loose = code.loose
           /\ c.edges = code.edges /\ c.faults = {} /\ (Flowing(c) <=> Flowing(code))
           /\ c.held = IF Flowing(code) THEN Vars(scopes) \cup Kept(ctl) ELSE {}
<1>1. code \in Code /\ code.faults = {} /\ result \in Value
  BY BackGood
<1>2. CASE Flowing(code)
  <2>1. /\ code.held = Vars(scopes) \cup Kept(ctl) \cup Temp(result)
        /\ Temp(result) \cap (Vars(scopes) \cup Kept(ctl)) = {} /\ result.k \notin {"field", "self"}
    BY <1>2, StmtBack
  <2>2. Temp(result) \subseteq code.held
    BY <2>1
  <2>3. c = [code EXCEPT !.held = code.held \ Temp(result)] /\ c \in Code /\ Flowing(c)
    BY <1>1, <1>2, <2>1, <2>2, FlowDestroy
  <2> QED
    BY <1>1, <1>2, <2>1, <2>3 DEF Code
<1>3. CASE ~Flowing(code)
  <2>1. code.held = {} /\ result.item = 0 /\ result.k \notin {"field", "self"}
    BY <1>3, StmtBack
  <2>2. c = code
    BY <2>1, NoRelease DEF DestroyValue
  <2> QED
    BY <1>1, <1>3, <2>1, <2>2
<1> QED
  BY <1>2, <1>3

LEMMA BlockStep ==
    ASSUME EmitterInv, NextStmt
    PROVE  Goods'
<1> SUFFICES ASSUME ~failed'
             PROVE  Good(ctl', scopes', result', code', pc')
  BY DEF Goods
<1>1. ~failed /\ ~Diagnose
  BY StillGood DEF Statement, Next
<1> USE <1>1
<1>2. Back("block") /\ "block" \in StmtKind /\ "block" # "func"
  BY DEF NextStmt, StmtKind
<1>3. /\ Good(ctl, scopes, result, code, pc) /\ ctl \in Seq(Proper)
      /\ scopes \in Seq(SUBSET Items) /\ code \in Code /\ result \in Value
      /\ code.faults = {} /\ Top.k = "block" /\ Top \in Proper /\ Fit(Top)
      /\ pc \in {"done", "return"}
  BY <1>2, BackGood
<1>4. PICK m \in Nat : Len(ctl) = m + 1 /\ m # 0 /\ Top = ctl[m + 1] /\ Stands(ctl, m + 1)
                       /\ TopItems(ctl, m) = OwnedBy(Top) /\ TopKept(ctl, m) = Temp(Top.v)
                       /\ TopBlocks(ctl, m) = AwaitedBy(Top)
  BY <1>2, BackGood
<1>5. PICK a : a = [Top EXCEPT !.flag = (pc = "return")]
  OBVIOUS
<1>6. /\ a \in Proper /\ a.k = "block" /\ a.v = NoValue /\ a.p = 0 /\ a.flag = (pc = "return")
      /\ Fit(a) /\ AwaitedBy(a) = {} /\ AwaitedBy(Top) = {} /\ OwnedBy(a) = {}
  <2>1. Top.v = NoValue /\ Top.p = 0
    BY <1>3 DEF Fit, Cases
  <2>2. a \in Proper /\ a.k = "block" /\ a.v = NoValue /\ a.p = 0 /\ a.flag = (pc = "return")
        /\ a.want = Top.want /\ a.el = Top.el /\ a.end = Top.end
    BY <1>3, <1>5, <2>1 DEF Proper, Activation
  <2> QED
    BY <1>3, <2>1, <2>2, PlainValues DEF Fit, AwaitedBy, OwnedBy, Cases, IntOp
<1>7. PICK c : c = DestroyValue(code, result)
  OBVIOUS
<1>8. /\ c \in Code /\ c.cur = code.cur /\ c.open = code.open /\ c.loose = code.loose
      /\ c.edges = code.edges /\ c.faults = {} /\ (Flowing(c) <=> Flowing(code))
      /\ c.held = IF Flowing(code) THEN Vars(scopes) \cup Kept(ctl) ELSE {}
  BY <1>2, <1>7, StmtDestroy
<1>9. PICK ct : ct = Become(a)
  OBVIOUS
<1>10. Turns(ctl, ct, m, a) /\ \A i \in 1..m : ct[i] = ctl[i]
  BY <1>3, <1>4, <1>6, <1>9, BecomeTurns
<1>11. Stands(ct, m + 1)
  <2>1. a = ct[m + 1] /\ ctl[m + 1].k = "block"
    BY <1>3, <1>4, <1>10 DEF Turns
  <2> QED
    BY <1>4, <1>6, <1>10, <2>1, StandsNext DEF IntOp
<1>12. Rescoped(scopes, scopes, Below(ctl, m + 1), "block")
  <2>1. Len(scopes) = Below(ctl, Len(ctl) + 1)
    BY <1>3 DEF Good, Scoped
  <2>2. PICK n \in Nat \ {0} : n = m + 1
    BY <1>4
  <2>3. Below(ctl, n + 1) = Below(ctl, n) + ScopesOf(ctl[n].k) /\ Below(ctl, n) \in Nat
    BY BelowNext, HeldFinite
  <2>4. Len(scopes) = Below(ctl, m + 1) + ScopesOf("block")
    BY <1>3, <1>4, <2>1, <2>2, <2>3
  <2> QED
    BY <2>4 DEF Rescoped, Cases
<1>13. Rebuilt(ctl, ct, m, code, c)
  <2>1. TopBlocks(ct, m) = {} /\ TopBlocks(ctl, m) = {} /\ ct[m + 1].k # "lrhs"
    BY <1>4, <1>6, <1>10 DEF TopBlocks, Turns
  <2>2. Laid(ctl, code)
    BY <1>3 DEF Good
  <2> QED
    BY <1>8, <2>1, <2>2 DEF Rebuilt, Laid
<1>14. JumpsTo(a, Base(ct, scopes, m + 1), c.edges)
  BY <1>6 DEF JumpsTo
<1>15. Temp(Top.v) = {} /\ Temp(a.v) = {}
  <2>1. Top.v = NoValue
    BY <1>3 DEF Fit, Cases
  <2> QED
    BY <1>6, <2>1, PlainValues
<1>16. a.flag => ctl[m].k # "block" /\ ~Flowing(c)
  <2>1. Len(ctl) - 1 = m
    BY <1>4
  <2> QED
    BY <1>2, <1>6, <1>8, <2>1, StmtBack
<1>17. Flowing(c) => c.held = Vars(scopes) \cup (Kept(ctl) \ TopKept(ctl, m)) \cup Temp(a.v)
  BY <1>4, <1>8, <1>15
<1>18. ~Flowing(c) => c.held = {} /\ (a.flag \/ c.cur = 0)
  BY <1>2, <1>3, <1>6, <1>8, StmtBack
<1>19. OwnedBy(a) \subseteq TopItems(ctl, m) \cup Fresh(result, pc)
       /\ (a.v.item # 0 => a.v.item # a.p)
  BY <1>6, PlainValues
<1>20. Proceeds(ctl, scopes, result, code, pc, ct, scopes, c, m, a)
  BY <1>3, <1>6, <1>8, <1>10, <1>11, <1>12, <1>13, <1>14, <1>16, <1>17, <1>18, <1>19
     DEF Proceeds
<1>21. Good(ct, scopes, result, c, "visit")
  <2>1. result.k \notin {"field", "self"}
    BY <1>2, StmtBack
  <2> QED
    BY <1>20, <2>1, NextGood
<1>22. ctl' = ct /\ scopes' = scopes /\ result' = result /\ code' = c /\ pc' = "visit"
  BY <1>5, <1>7, <1>9 DEF NextStmt
<1> QED
  BY <1>21, <1>22

\* Kept Values and variables of one scope are apart.
LEMMA KeptApart ==
    ASSUME NEW ct, NEW sc \in Seq(SUBSET Items), NEW re, NEW p, Apart(ct, sc, re, p)
    PROVE  Kept(ct) \cap Vars(sc) = {} /\ 0 \notin Vars(sc) /\ 0 \notin Kept(ct)
<1>1. 0 \notin Vars(sc)
  BY VarsOf, NamesAssumption
<1> QED
  BY <1>1 DEF Apart, Kept, OwnedBy

LEMMA LeaveBlockStep ==
    ASSUME EmitterInv, LeaveBlock
    PROVE  Goods'
<1> SUFFICES ASSUME ~failed'
             PROVE  Good(ctl', scopes', result', code', pc')
  BY DEF Goods
<1>1. ~failed /\ ~Diagnose
  BY StillGood DEF Statement, Next
<1> USE <1>1
<1>2. /\ Good(ctl, scopes, result, code, "visit") /\ ctl \in Seq(Proper) /\ pc = "visit"
      /\ scopes \in Seq(SUBSET Items) /\ code \in Code /\ code.faults = {} /\ Top.k = "block"
  BY DEF EmitterInv, TypeInv, LeaveBlock, Going
<1>3. Len(ctl) \in Nat /\ Len(ctl) # 0
  <2>1. ctl # <<>>
    BY <1>2 DEF Good, Nested
  <2> QED
    BY <1>2, <2>1
<1>4. Len(ctl) \in 1..Len(ctl) /\ Fit(Top) /\ Stands(ctl, Len(ctl)) /\ Top = ctl[Len(ctl)]
  BY <1>2, <1>3 DEF Good, Nested, Top
<1>5. PICK m \in Nat : Len(ctl) = m + 1 /\ m # 0
  <2>1. Len(ctl) # 1
    BY <1>2, <1>4 DEF Stands, Top
  <2>2. Len(ctl) - 1 \in Nat /\ Len(ctl) = (Len(ctl) - 1) + 1 /\ Len(ctl) - 1 # 0
    BY <1>3, <2>1
  <2> QED
    BY <2>2, Zenon
<1>6. /\ Top = ctl[m + 1] /\ Stands(ctl, m + 1) /\ m \in 1..((m + 1) - 1) /\ (m + 1) - 1 = m
      /\ m + 1 \in 2..Len(ctl)
  BY <1>4, <1>5
<1>7. /\ ctl[m].k \in StmtKind /\ ctl[m].k \notin ExprKind /\ ctl[m].k # "lrhs"
      /\ Top.flag => ctl[m].k # "block"
  <2>1. ctl[m].k \in StmtKind
    BY <1>2, <1>6 DEF Stands, OnStmt
  <2>2. Top.flag => ctl[m].k # "block"
    BY <1>2, <1>6 DEF Good, Nested
  <2> QED
    BY <2>1, <2>2 DEF StmtKind, ExprKind
<1>8. /\ TopKept(ctl, m) = {} /\ TopBlocks(ctl, m) = {}
      /\ TopBlocks(Outer(ctl), m) = {} /\ Len(Outer(ctl)) = m
  <2>1. Top.v = NoValue
    BY <1>2, <1>4 DEF Fit, Cases
  <2>2. Len(Outer(ctl)) = m
    BY <1>2, <1>5, OuterFacts
  <2> QED
    BY <1>2, <1>5, <1>6, <2>1, <2>2, PlainValues DEF TopKept, TopBlocks, AwaitedBy
<1>9. PICK h \in Nat : h = Below(ctl, m + 1) /\ Len(scopes) = h + 1
  <2>1. Len(scopes) = Below(ctl, Len(ctl) + 1)
    BY <1>2 DEF Good, Scoped
  <2>2. PICK n \in Nat \ {0} : n = m + 1
    BY <1>5
  <2>3. Below(ctl, n + 1) = Below(ctl, n) + ScopesOf(ctl[n].k) /\ Below(ctl, n) \in Nat
    BY BelowNext, HeldFinite
  <2>4. ScopesOf(Top.k) = 1
    BY <1>2 DEF ScopesOf
  <2> QED
    BY <1>5, <1>6, <2>1, <2>2, <2>3, <2>4
<1>10. PICK sc : sc = Outer(scopes)
  OBVIOUS
<1>11. /\ sc \in Seq(SUBSET Items) /\ Len(sc) = h /\ \A j \in 1..h : sc[j] = scopes[j]
       /\ Vars(sc) = Vars(scopes) \ Last(scopes) /\ Last(scopes) \subseteq Vars(scopes)
  <2>1. \A i, j \in 1..Len(scopes) : i # j => scopes[i] \cap scopes[j] = {}
    BY <1>2 DEF Good, Scoped
  <2>2. Len(scopes) > 0 /\ Len(scopes) - 1 = h
    BY <1>9
  <2>3. /\ Outer(scopes) \in Seq(SUBSET Items) /\ Len(Outer(scopes)) = Len(scopes) - 1
        /\ Vars(Outer(scopes)) = Vars(scopes) \ scopes[Len(scopes)]
        /\ scopes[Len(scopes)] \subseteq Vars(scopes)
    BY <1>2, <2>1, <2>2, VarsPop
  <2>4. \A j \in 1..(Len(scopes) - 1) : Outer(scopes)[j] = scopes[j]
    BY <1>2, <2>2, OuterFacts
  <2> QED
    BY <1>10, <2>2, <2>3, <2>4 DEF Last
<1>12. PICK c : c = IF Top.flag THEN code ELSE Release(code, Last(scopes))
  OBVIOUS
<1>13. /\ Flowing(code) => ~Top.flag /\ code.held = Vars(scopes) \cup Kept(ctl)
       /\ ~Flowing(code) => code.held = {} /\ (Top.flag \/ code.cur = 0)
  BY <1>2, <1>4 DEF Good, Matched, Flows, Fresh
<1>14. /\ c \in Code /\ c.cur = code.cur /\ c.open = code.open /\ c.loose = code.loose
       /\ c.edges = code.edges /\ c.faults = {} /\ (Flowing(c) <=> Flowing(code))
       /\ c.held = IF Flowing(code) THEN Vars(sc) \cup Kept(ctl) ELSE {}
  <2>1. CASE Flowing(code)
    <3>1. Last(scopes) \subseteq code.held
      BY <1>11, <1>13, <2>1
    <3>2. c = [code EXCEPT !.held = code.held \ Last(scopes)] /\ c \in Code /\ Flowing(c)
      BY <1>2, <1>12, <1>13, <2>1, <3>1, FlowRelease
    <3>3. Kept(ctl) \cap Last(scopes) = {}
      BY <1>2, <1>11, KeptApart DEF Good
    <3>4. code.held \ Last(scopes) = Vars(sc) \cup Kept(ctl)
      BY <1>11, <1>13, <2>1, <3>3
    <3> QED
      BY <1>2, <2>1, <3>2, <3>4 DEF Code
  <2>2. CASE ~Flowing(code)
    <3>1. c = code
      BY <1>12, <1>13, <2>2 DEF Release
    <3> QED
      BY <1>2, <1>13, <2>2, <3>1
  <2> QED
    BY <2>1, <2>2
<1>15. Rebuilt(ctl, Outer(ctl), m, code, c)
  <2>1. Laid(ctl, code) /\ Len(Outer(ctl)) # m + 1
    BY <1>2, <1>8 DEF Good
  <2> QED
    BY <1>8, <1>14, <2>1 DEF Rebuilt, Laid
<1>16. Flowing(c) =>
         c.held = Vars(sc) \cup (Kept(ctl) \ TopKept(ctl, m)) \cup ({NoValue.item} \ {0})
  BY <1>8, <1>14, PlainValues
<1>17. ~Flowing(c) => /\ c.held = {} /\ ctl[m].k \in StmtKind /\ NoValue.item = 0
                      /\ ctl[m].k = "block" => c.cur = 0
  BY <1>7, <1>13, <1>14, PlainValues
<1>18. Good(Outer(ctl), sc, NoValue, c, "done")
  BY <1>2, <1>5, <1>7, <1>9, <1>11, <1>14, <1>15, <1>16, <1>17, PlainValues, LeaveGood
<1>19. /\ ctl' = Outer(ctl) /\ scopes' = sc /\ result' = NoValue /\ code' = c /\ pc' = "done"
  BY <1>10, <1>12 DEF LeaveBlock, Leave
<1> QED
  BY <1>18, <1>19

-----------------------------------------------------------------------------
(* Returns *)

\* All that the function holds is destroyed, and its block has its terminator.
Returns(ct, sc, re, co, p, ct2, re2, co2, m) ==
    /\ sc \in Seq(SUBSET Items) /\ co \in Code /\ Good(ct, sc, re, co, p)
    /\ Shares(ct, ct2, m) /\ m = Len(ct2) /\ m > 1 /\ (m < Len(ct) \/ p = "visit")
    /\ Len(sc) = Below(ct2, m + 1) /\ TopBlocks(ct, m) = {} /\ re2.item = 0
    /\ re2.k \notin {"field", "self"}
    /\ ct2[m].k \in {"block"} \cup Cases
    /\ ct2[m].k = "block" => ct2[m - 1].k # "block"
    /\ m = Len(ct) => ~ct[m].flag
    /\ co2 = [co EXCEPT !.held = {}, !.open = {}]

LEMMA ReturnGood ==
    ASSUME NEW ct, NEW sc, NEW re, NEW co, NEW p, NEW ct2, NEW re2, NEW co2, NEW m,
           Returns(ct, sc, re, co, p, ct2, re2, co2, m)
    PROVE  Good(ct2, sc, re2, co2, "return")
<1> USE DEF Returns
<1>1. /\ co2.cur = co.cur /\ co2.open = {} /\ co2.loose = co.loose /\ co2.edges = co.edges
      /\ co2.held = {} /\ co2.faults = co.faults /\ ~Flowing(co2)
  BY DEF Code, Flowing
<1>2. m \in Nat /\ ct2 # <<>> /\ Len(ct2) # m + 1 /\ Len(ct2) # 1
  BY SharesType
<1>3. /\ Nested(ct, p) /\ Scoped(ct, sc, co, p) /\ Apart(ct, sc, re, p) /\ Laid(ct, co)
      /\ Edged(ct, sc, co) /\ co.faults = {}
  BY DEF Good
<1>4. Nested(ct2, "return")
  <2>1. PICK q : q = "return"
    OBVIOUS
  <2>2. /\ (q = "top" <=> ct2 = <<>>) /\ (Len(ct2) = 1 => q = "done")
        /\ Len(ct2) = m + 1 => Fit(ct2[m + 1]) /\ Stands(ct2, m + 1)
        /\ m = Len(ct) /\ m >= 2 => ~ct[m].flag
        /\ Len(ct2) = m + 1 /\ m >= 1 /\ ct2[m + 1].flag => q = "visit" /\ ct2[m].k # "block"
    BY <1>2, <2>1
  <2>3. q = "return" => /\ ct2[Len(ct2)].k \in {"block"} \cup Cases
                        /\ ct2[Len(ct2)].k = "block" => ct2[Len(ct2) - 1].k # "block"
    OBVIOUS
  <2>4. Nested(ct2, q)
    BY <1>3, <2>2, <2>3, StepNested
  <2> QED
    BY <2>1, <2>4
<1>5. PICK k : k = Below(ct, m + 1)
  OBVIOUS
<1>6. k \in Nat /\ Len(sc) = k
  <2>1. m + 1 \in 1..(m + 1)
    BY <1>2
  <2> QED
    BY <1>5, <2>1, SharesBelow
<1>7. Scoped(ct2, sc, co2, "return")
  <2>1. \A j \in (k + 1)..Len(sc) : sc[j] = {} \/ (j <= Len(sc) /\ sc[j] = sc[j])
    BY <1>6
  <2>2. Len(sc) = Below(ct2, Len(ct2) + 1) /\ \A j \in 1..k : sc[j] = sc[j]
    OBVIOUS
  <2> QED
    BY <1>2, <1>3, <1>5, <2>1, <2>2, StepScoped
<1>8. TopItems(ct2, m) = {} /\ TopBlocks(ct2, m) = {}
  BY <1>2 DEF TopItems, TopBlocks
<1>9. Apart(ct2, sc, re2, "return")
  <2>1. /\ \A i \in 1..m : {} \cap OwnedBy(ct[i]) = {}
        /\ Vars(sc) \subseteq Vars(sc) \cup {} /\ TopItems(ct2, m) \subseteq {}
        /\ TopItems(ct2, m) \cap Vars(sc) = {}
    BY <1>8
  <2> QED
    BY <1>2, <1>3, <2>1, StepApart
<1>10. Rebuilt(ct, ct2, m, co, co2)
  BY <1>1, <1>2, <1>3, <1>8 DEF Rebuilt, Laid
<1>11. Laid(ct2, co2)
  BY <1>3, <1>10, StepLaid
<1>12. Edged(ct2, sc, co2)
  <2>1. Agree(sc, sc, Below(ct, m))
    BY DEF Agree
  <2> QED
    BY <1>2, <1>3, <1>10, <2>1, StepEdged
<1>13. Matched(ct2, sc, re2, co2, "return") /\ Flows(ct2, re2, co2, "return")
       /\ Found(ct2, re2, "return")
  BY <1>1 DEF Matched, Flows, Found
<1> QED
  BY <1>1, <1>3, <1>4, <1>7, <1>9, <1>11, <1>12, <1>13 DEF Good

\* A return destroys what is held, and ends the block.
LEMMA ReturnCode ==
    ASSUME NEW c \in Code, Flowing(c), c.open \subseteq {c.cur}, NEW S, S = c.held
    PROVE  Ret(Release(c, S)) = [c EXCEPT !.held = {}, !.open = {}]
<1>1. PICK d : d = Release(c, S)
  OBVIOUS
<1>2. d = [c EXCEPT !.held = {}] /\ Flowing(d) /\ d \in Code
  <2>1. S \subseteq c.held /\ c.held \ S = {}
    OBVIOUS
  <2> QED
    BY <1>1, <2>1, FlowRelease
<1>3. d.cur = c.cur /\ d.open = c.open /\ d.held = {} /\ d.faults = c.faults
      /\ d.open \ {d.cur} = {}
  BY <1>2 DEF Code
<1>4. Ret(d) = [d EXCEPT !.open = {}]
  <2>1. ~Late(d)
    BY <1>2 DEF Late, Flowing
  <2>2. Ret(d) = [d EXCEPT !.open = d.open \ {d.cur}, !.faults = d.faults]
    BY <1>3, <2>1 DEF Ret
  <2> QED
    BY <1>2, <1>3, <2>2 DEF Code
<1>5. [d EXCEPT !.open = {}] = [c EXCEPT !.held = {}, !.open = {}]
  BY <1>2 DEF Code
<1> QED
  BY <1>1, <1>4, <1>5

LEMMA ReturnVoidStep ==
    ASSUME EmitterInv, Handled, ReturnVoid
    PROVE  Goods'
<1> SUFFICES ASSUME ~failed'
             PROVE  Good(ctl', scopes', result', code', pc')
  BY DEF Goods
<1>1. ~failed /\ ~Diagnose
  BY StillGood DEF Statement, Next
<1> USE <1>1
<1>2. AtStmt /\ AtExpr /\ SafeReturn
  BY DEF ReturnVoid, AtExpr
<1>3. /\ Good(ctl, scopes, result, code, "visit") /\ Flowing(code) /\ pc = "visit"
      /\ ctl \in Seq(Proper) /\ scopes \in Seq(SUBSET Items) /\ code \in Code
      /\ Top = ctl[Len(ctl)] /\ Top.k \in {"block"} \cup Cases
  BY <1>2, VisitFacts
<1>4. PICK m \in Nat : m = Len(ctl) /\ m # 0 /\ m # 1
  BY <1>2, VisitFacts
<1>5. Returnable(ctl, m) /\ Kept(ctl) = {}
  BY <1>2, <1>4, MayReturn
<1>6. code.held = AllVars /\ code.open \subseteq {code.cur}
  <2>1. code.held = Vars(scopes)
    BY <1>3, <1>5 DEF Good, Matched, Fresh
  <2>2. AllVars = Vars(scopes)
    BY AllVarsIs DEF EmitterInv
  <2> QED
    BY <1>3, <2>1, <2>2 DEF Good, Laid
<1>7. ReturnsVoid /\ result.item = 0 /\ result.k \notin {"field", "self"}
  <2>1. Top.k \in StmtKind
    BY <1>3 DEF StmtKind, Cases
  <2>2. result.k \notin {"field", "self"}
    BY <1>3, <2>1 DEF Good, Found
  <2> QED
    BY <2>2 DEF ReturnVoid, Handled
<1>8. code' = [code EXCEPT !.held = {}, !.open = {}]
  BY <1>3, <1>6, <1>7, ReturnCode DEF ReturnVoid
<1>9. ~ctl[m].flag
  <2>1. Fit(ctl[m])
    BY <1>2, <1>4, VisitFacts
  <2> QED
    BY <1>2, <1>3, <1>4, <2>1 DEF AtStmt, Fit, Cases
<1>10. Shares(ctl, ctl, m) /\ TopBlocks(ctl, m) = {}
  BY <1>3, <1>4, KeepsItself
<1>11. Len(scopes) = Below(ctl, m + 1)
  BY <1>3, <1>4 DEF Good, Scoped
<1>12. m > 1
  BY <1>4
<1>13. Returns(ctl, scopes, result, code, "visit", ctl, result, code', m)
  BY <1>3, <1>4, <1>5, <1>7, <1>8, <1>9, <1>10, <1>11, <1>12 DEF Returns, Returnable
<1>14. Good(ctl, scopes, result, code', "return")
  BY <1>13, ReturnGood
<1> QED
  BY <1>14 DEF ReturnVoid

LEMMA ReturnValueStep ==
    ASSUME EmitterInv, ReturnValue
    PROVE  Goods'
<1> SUFFICES ASSUME ~failed'
             PROVE  Good(ctl', scopes', result', code', pc')
  BY DEF Goods
<1>1. ~failed /\ ~Diagnose
  BY StillGood DEF Statement, Next
<1> USE <1>1
<1>2. Back("ret") /\ "ret" \in ExprKind /\ "ret" # "func"
  BY DEF ReturnValue, ExprKind
<1>3. /\ Good(ctl, scopes, result, code, pc) /\ ctl \in Seq(Proper)
      /\ scopes \in Seq(SUBSET Items) /\ code \in Code /\ result \in Value
      /\ code.faults = {} /\ Top.k = "ret" /\ Fit(Top)
  BY <1>2, BackGood
<1>4. PICK m \in Nat : Len(ctl) = m + 1 /\ m # 0 /\ Top = ctl[m + 1] /\ Stands(ctl, m + 1)
                       /\ TopBlocks(ctl, m) = AwaitedBy(Top)
  BY <1>2, BackGood
<1>5. /\ Flowing(code) /\ WellFormed(result) /\ Suits(result, Top.want)
      /\ code.held = Vars(scopes) \cup Kept(ctl) \cup Temp(result)
      /\ Temp(result) \cap (Vars(scopes) \cup Kept(ctl)) = {}
  BY <1>2, ExprBack
<1>6. Returnable(ctl, m) /\ Kept(ctl) = {}
  <2>1. (m + 1) - 1 = m
    BY <1>4
  <2>2. Returnable(ctl, m)
    BY <1>3, <1>4, <2>1 DEF Stands
  <2>3. ctl[m + 1].v.item = 0
    <3>1. Top.v = NoValue
      BY <1>3 DEF Fit, Cases
    <3> QED
      BY <1>4, <3>1, PlainValues
  <2>4. \A i \in 1..Len(ctl) : i \in 1..m \/ i = m + 1
    BY <1>4
  <2> QED
    BY <2>2, <2>3, <2>4 DEF Returnable, Kept
<1>7. m > 1 /\ ctl[m].k \in {"block"} \cup Cases
  <2>1. m + 1 # 2
    BY <1>3, <1>4 DEF Stands
  <2>2. m \in 1..((m + 1) - 1) /\ m \in 1..Len(ctl) /\ m > 1
    BY <1>4, <2>1
  <2>3. ctl[m].k \in StmtKind
    BY <1>3, <1>4, <2>2 DEF Stands, OnStmt
  <2>4. ctl[m].k # "func"
    BY <1>3, <2>2 DEF Good, Nested, Stands
  <2> QED
    BY <2>2, <2>3, <2>4 DEF StmtKind, Cases
<1>8. PICK c : c = CopyValue(code, result, 0)
  OBVIOUS
<1>9. c = [code EXCEPT !.held = Vars(scopes)] /\ c \in Code /\ Flowing(c)
  <2>1. Temp(result) \subseteq code.held /\ 0 \in Items \cup {0}
    BY <1>5
  <2>2. /\ c = [code EXCEPT !.held = (code.held \ Temp(result))
                                     \cup (IF IsObj(result) THEN {0} \ {0} ELSE {})]
        /\ c \in Code /\ Flowing(c)
    BY <1>3, <1>5, <1>8, <2>1, FlowCopy DEF Suits
  <2>3. (code.held \ Temp(result)) \cup (IF IsObj(result) THEN {0} \ {0} ELSE {}) = Vars(scopes)
    BY <1>5, <1>6
  <2> QED
    BY <2>2, <2>3
<1>10. AllVars = c.held /\ c.open \subseteq {c.cur}
  <2>1. AllVars = Vars(scopes)
    BY AllVarsIs DEF EmitterInv
  <2>2. code.open \subseteq {code.cur}
    BY <1>3 DEF Good, Laid
  <2> QED
    BY <1>3, <1>9, <2>1, <2>2 DEF Code
<1>11. code' = Ret(Release(c, AllVars))
  BY <1>5, <1>8 DEF ReturnValue, Suits
<1>12. code' = [code EXCEPT !.held = {}, !.open = {}]
  <2>1. code' = [c EXCEPT !.held = {}, !.open = {}]
    BY <1>9, <1>10, <1>11, ReturnCode
  <2> QED
    BY <1>3, <1>9, <2>1 DEF Code
<1>13. PICK ct : ct = Outer(ctl)
  OBVIOUS
<1>14. ct \in Seq(Proper) /\ Len(ct) = m /\ \A i \in 1..m : ct[i] = ctl[i]
  <2>1. Len(ctl) > 0 /\ Len(ctl) - 1 = m
    BY <1>4
  <2> QED
    BY <1>3, <1>13, <2>1, OuterFacts
<1>15. Shares(ctl, ct, m)
  BY <1>3, <1>4, <1>14 DEF Shares
<1>16. Len(scopes) = Below(ct, m + 1)
  <2>1. PICK n \in Nat \ {0} : n = m + 1
    BY <1>4
  <2>2. Below(ctl, n + 1) = Below(ctl, n) + ScopesOf(ctl[n].k) /\ Below(ctl, n) \in Nat
    BY BelowNext, HeldFinite
  <2>3. Len(scopes) = Below(ctl, Len(ctl) + 1)
    BY <1>3 DEF Good, Scoped
  <2>4. ScopesOf(Top.k) = 0
    BY <1>3 DEF ScopesOf
  <2>5. m + 1 \in 1..(m + 1)
    BY <1>4
  <2>6. Below(ct, m + 1) = Below(ctl, m + 1)
    BY <1>15, <2>5, SharesBelow
  <2> QED
    BY <1>4, <2>1, <2>2, <2>3, <2>4, <2>6
<1>17. TopBlocks(ctl, m) = {} /\ NoValue.item = 0 /\ m < Len(ctl) /\ m # Len(ctl)
  BY <1>3, <1>4, PlainValues DEF AwaitedBy
<1>18. ct[m] = ctl[m] /\ ct[m - 1] = ctl[m - 1]
  <2>1. m \in 1..m /\ m - 1 \in 1..m
    BY <1>7
  <2> QED
    BY <1>14, <2>1
<1>19. Returns(ctl, scopes, result, code, pc, ct, NoValue, code', m)
  BY <1>3, <1>6, <1>7, <1>12, <1>14, <1>15, <1>16, <1>17, <1>18, PlainValues
     DEF Returns, Returnable
<1>20. Good(ct, scopes, NoValue, code', "return")
  BY <1>19, ReturnGood
<1> QED
  BY <1>13, <1>20 DEF ReturnValue

-----------------------------------------------------------------------------
(* Basic blocks *)

\* Insertion into a block that others branch to with the same references.
LEMMA InsertEffect ==
    ASSUME NEW c \in Code, NEW b \in Blocks, NEW S, c.edges[b] # {},
           \A e \in c.edges[b] : e.held = S, NEW d, d = Insert(c, b)
    PROVE  /\ d \in Code /\ Flowing(d) /\ d.cur = b /\ d.loose = c.loose \ {b}
           /\ d.open = c.open \cup {b} /\ d.held = S /\ d.faults = c.faults
           /\ d.edges[b] = {} /\ \A x \in Blocks : x # b => d.edges[x] = c.edges[x]
<1>1. {e.held : e \in c.edges[b]} = {S}
  OBVIOUS
<1>2. Cardinality({S}) = 1
  BY FS_Singleton
<1>3. UNION {S} = S /\ ~(Cardinality({S}) > 1)
  BY <1>2
<1>4. d = [c EXCEPT !.cur = b, !.loose = c.loose \ {b}, !.open = c.open \cup {b},
                    !.held = S, !.edges = [c.edges EXCEPT ![b] = {}], !.faults = c.faults]
  BY <1>1, <1>3 DEF Insert, Code
<1>5. d \in Code
  BY InsertType
<1> QED
  BY <1>4, <1>5 DEF Code, Flowing

\* A branch from the block that has the insertion point.
LEMMA BranchEffect ==
    ASSUME NEW c \in Code, Flowing(c), c.open \subseteq {c.cur}, NEW b \in Blocks,
           NEW d, d = BranchTo(c, b)
    PROVE  /\ d \in Code /\ d.cur = c.cur /\ d.loose = c.loose /\ d.open = {}
           /\ d.held = c.held /\ d.faults = c.faults
           /\ d.edges[b] = c.edges[b] \cup {[from |-> c.cur, held |-> c.held]}
           /\ \A x \in Blocks : x # b => d.edges[x] = c.edges[x]
<1>1. d = [c EXCEPT !.open = c.open \ {c.cur},
                    !.edges = [c.edges EXCEPT ![b] = c.edges[b] \cup {Edge(c)}]]
  BY DEF BranchTo, Flowing, Code
<1>2. c.open \ {c.cur} = {}
  OBVIOUS
<1>3. d \in Code
  BY BranchType
<1> QED
  BY <1>1, <1>2, <1>3 DEF Code, Edge

\* Two new blocks, one entered at once; the others wait.
Splits(c, bs, t, e) ==
    /\ c \in Code /\ Flowing(c) /\ c.open \subseteq {c.cur} /\ bs \subseteq Blocks
    /\ t \in bs /\ e \in bs /\ t # e /\ c.edges[t] = {} /\ c.edges[e] = {}

LEMMA SplitEffect ==
    ASSUME NEW c, NEW bs, NEW t, NEW e, Splits(c, bs, t, e),
           NEW d, d = Insert(CondBr(Create(c, bs), t, e), t)
    PROVE  /\ d \in Code /\ Flowing(d) /\ d.cur = t /\ d.loose = (c.loose \cup bs) \ {t}
           /\ d.open = {t} /\ d.held = c.held /\ d.faults = c.faults /\ d.edges[t] = {}
           /\ d.edges[e] = {[from |-> c.cur, held |-> c.held]}
           /\ \A x \in Blocks : x # t /\ x # e => d.edges[x] = c.edges[x]
<1> USE DEF Splits
<1>1. PICK f : f = Create(c, bs)
  OBVIOUS
<1>2. /\ f \in Code /\ f.cur = c.cur /\ f.open = c.open /\ f.edges = c.edges /\ f.held = c.held
      /\ f.faults = c.faults /\ f.loose = c.loose \cup bs
  BY <1>1, CreateType DEF Create, Code
<1>3. PICK g : g = CondBr(f, t, e)
  OBVIOUS
<1>4. g \in Code
  BY <1>2, <1>3, CondBrType
<1>5. f.cur # 0 /\ ~Late(f)
  BY <1>2, NamesAssumption DEF Late, Flowing, Code
<1>6. g = [f EXCEPT !.open = f.open \ {f.cur},
                    !.edges = [b \in Blocks |-> IF b \in {t, e} THEN f.edges[b] \cup {Edge(f)}
                                                ELSE f.edges[b]]]
  BY <1>2, <1>3, <1>5 DEF CondBr
<1>7. /\ g.cur = c.cur /\ g.open = {} /\ g.held = c.held /\ g.faults = c.faults
      /\ g.loose = c.loose \cup bs
      /\ g.edges[t] = {[from |-> c.cur, held |-> c.held]}
      /\ g.edges[e] = {[from |-> c.cur, held |-> c.held]}
      /\ \A x \in Blocks : x # t /\ x # e => g.edges[x] = c.edges[x]
  <2>1. /\ g.cur = f.cur /\ g.open = f.open \ {f.cur} /\ g.held = f.held /\ g.faults = f.faults
        /\ g.loose = f.loose
        /\ g.edges = [b \in Blocks |-> IF b \in {t, e} THEN f.edges[b] \cup {Edge(f)}
                                       ELSE f.edges[b]]
    BY <1>2, <1>6 DEF Code
  <2>2. Edge(f) = [from |-> c.cur, held |-> c.held]
    BY <1>2 DEF Edge
  <2> QED
    BY <1>2, <2>1, <2>2
<1>8. g.edges[t] # {} /\ \A x \in g.edges[t] : x.held = c.held
  BY <1>7
<1>9. /\ d \in Code /\ Flowing(d) /\ d.cur = t /\ d.loose = g.loose \ {t}
      /\ d.open = g.open \cup {t} /\ d.held = c.held /\ d.faults = g.faults
      /\ d.edges[t] = {} /\ \A x \in Blocks : x # t => d.edges[x] = g.edges[x]
  BY <1>1, <1>3, <1>4, <1>8, InsertEffect
<1> QED
  BY <1>7, <1>9

\* Names that are spare are no blocks that anything waits for or branches to.
LEMMA SpareBlock ==
    ASSUME NEW b \in SpareBlocks, TypeInv, Laid(ctl, code)
    PROVE  b \in Blocks /\ b # 0 /\ b \notin code.loose /\ b # code.cur /\ code.edges[b] = {}
  BY NamesAssumption DEF SpareBlocks, UsedBlocks, Laid

-----------------------------------------------------------------------------
(* Expressions with blocks of their own *)

\* What is held when a's visitor, that of kind k before, goes on.
StillHeld(a) == Vars(scopes) \cup (Kept(ctl) \ Temp(Top.v)) \cup Temp(a.v)

GoesOn(k, m, a, c) ==
    /\ Back(k) /\ k \in ExprKind /\ ScopesOf(k) = 0 /\ m \in Nat /\ Len(ctl) = m + 1
    /\ a \in Proper /\ ScopesOf(a.k) = 0 /\ Fit(a) /\ Stands(Become(a), m + 1) /\ ~a.flag
    /\ a.k \notin Cases \cup {"ifcond"}
    /\ c \in Code /\ Flowing(c) /\ c.faults = {} /\ Rebuilt(ctl, Become(a), m, code, c)
    /\ c.held = StillHeld(a) /\ JumpsTo(a, StillHeld(a), c.edges)
    /\ OwnedBy(a) \subseteq OwnedBy(Top) \cup Temp(result)
    /\ a.v.item # 0 => a.v.item # a.p

LEMMA ExprNext ==
    ASSUME EmitterInv, ~failed, NEW k, NEW m, NEW a, NEW c, NEW re, GoesOn(k, m, a, c)
    PROVE  Good(Become(a), scopes, re, c, "visit")
<1>1. /\ k \in ExprKind /\ Back(k) /\ k # "func" /\ a \in Proper /\ m \in Nat /\ Len(ctl) = m + 1
      /\ c \in Code /\ Flowing(c) /\ ~a.flag
  BY DEF GoesOn, ExprKind
<1>2. /\ Good(ctl, scopes, result, code, pc) /\ ctl \in Seq(Proper)
      /\ scopes \in Seq(SUBSET Items) /\ Top.k = k /\ pc = "done"
  BY <1>1, BackGood, ExprBack
<1>3. /\ m # 0 /\ Top = ctl[m + 1] /\ TopItems(ctl, m) = OwnedBy(Top)
      /\ TopKept(ctl, m) = Temp(Top.v)
  <2>1. PICK n \in Nat : Len(ctl) = n + 1 /\ n # 0 /\ Top = ctl[n + 1]
                         /\ TopItems(ctl, n) = OwnedBy(Top) /\ TopKept(ctl, n) = Temp(Top.v)
    BY <1>1, BackGood
  <2>2. n = m
    BY <1>1, <2>1
  <2> QED
    BY <2>1, <2>2
<1>4. PICK ct : ct = Become(a)
  OBVIOUS
<1>5. Turns(ctl, ct, m, a) /\ Shares(ctl, ct, m) /\ ct \in Seq(Proper) /\ Len(ct) = m + 1
      /\ ct[m + 1] = a
  BY <1>1, <1>2, <1>3, <1>4, BecomeTurns DEF Turns, Shares
<1>6. Rescoped(scopes, scopes, Below(ctl, m + 1), a.k) /\ Len(scopes) = Below(ct, (m + 1) + 1)
  <2>1. Len(scopes) = Below(ctl, Len(ctl) + 1)
    BY <1>2 DEF Good, Scoped
  <2>2. PICK n \in Nat \ {0} : n = m + 1
    BY <1>1
  <2>3. Below(ctl, n + 1) = Below(ctl, n) + ScopesOf(ctl[n].k) /\ Below(ctl, n) \in Nat
        /\ Below(ct, n + 1) = Below(ct, n) + ScopesOf(ct[n].k) /\ Below(ct, n) \in Nat
    BY <2>2, BelowNext, HeldFinite
  <2>4. Below(ct, m + 1) = Below(ctl, m + 1)
    <3>1. m + 1 \in 1..(m + 1)
      BY <1>1
    <3> QED
      BY <1>5, <3>1, SharesBelow
  <2>5. ScopesOf(k) = 0 /\ ScopesOf(a.k) = 0 /\ a.k \notin Cases \cup {"ifcond"}
    BY DEF GoesOn
  <2>6. Len(scopes) = Below(ctl, m + 1) + 0 /\ Len(scopes) = Below(ct, (m + 1) + 1)
    BY <1>1, <1>2, <1>3, <1>5, <2>1, <2>2, <2>3, <2>4, <2>5
  <2> QED
    BY <2>5, <2>6 DEF Rescoped
<1>7. Base(ct, scopes, m + 1) = StillHeld(a)
  <2>1. Base(ct, scopes, m + 1) = Vars(scopes) \cup Kept(ct)
    <3>1. PICK n : n = m + 1
      OBVIOUS
    <3>2. n = Len(ct) /\ n > 0 /\ Len(scopes) = Below(ct, n + 1) /\ ScopesOf(ct[n].k) = 0
      BY <1>1, <1>5, <1>6, <3>1 DEF GoesOn
    <3> QED
      BY <1>2, <1>5, <3>1, <3>2, BaseExpr
  <2>2. Kept(ct) = (Kept(ctl) \ TopKept(ctl, m)) \cup TopKept(ct, m)
    BY <1>2, <1>5, KeptStep DEF Good
  <2>3. TopKept(ct, m) = Temp(a.v)
    BY <1>1, <1>5 DEF TopKept, Temp
  <2> QED
    BY <1>3, <2>1, <2>2, <2>3 DEF StillHeld
<1>8. OwnedBy(a) \subseteq TopItems(ctl, m) \cup Fresh(result, pc)
  BY <1>2, <1>3 DEF GoesOn, Fresh, Temp
<1>9. Proceeds(ctl, scopes, result, code, pc, ct, scopes, c, m, a)
  <2>1. /\ Fit(a) /\ Stands(ct, m + 1) /\ c.faults = {} /\ Rebuilt(ctl, ct, m, code, c)
        /\ c.held = StillHeld(a) /\ JumpsTo(a, StillHeld(a), c.edges)
        /\ (a.v.item # 0 => a.v.item # a.p)
    BY <1>4 DEF GoesOn
  <2>2. c.held = Vars(scopes) \cup (Kept(ctl) \ TopKept(ctl, m)) \cup Temp(a.v)
    BY <1>3, <2>1 DEF StillHeld
  <2>3. JumpsTo(a, Base(ct, scopes, m + 1), c.edges)
    BY <1>7, <2>1
  <2> QED
    BY <1>1, <1>2, <1>5, <1>6, <1>8, <2>1, <2>2, <2>3 DEF Proceeds
<1>10. a.k \notin StmtKind
  BY DEF GoesOn, ScopesOf, StmtKind, Cases
<1> QED
  BY <1>4, <1>9, <1>10, NextGood

\* The scopes that are left when an expression's visitor returns, and its value.
Ends(k, m, r, c) ==
    /\ Back(k) /\ k \in ExprKind /\ ScopesOf(k) = 0 /\ m \in Nat /\ Len(ctl) = m + 1
    /\ c \in Code /\ Flowing(c) /\ c.faults = {} /\ Rebuilt(ctl, Outer(ctl), m, code, c)
    /\ c.held = Vars(scopes) \cup (Kept(ctl) \ Temp(Top.v)) \cup Temp(r)
    /\ r \in Value /\ WellFormed(r) /\ r.item \in OwnedBy(Top) \cup {0}
    /\ r.k \notin {"field", "self"}
    /\ ctl[m].k \in ExprKind => Suits(r, ctl[m].want)
    /\ ctl[m].k = "lrhs" => r.item = 0

LEMMA ExprEnds ==
    ASSUME EmitterInv, ~failed, NEW k, NEW m, NEW r, NEW c, Ends(k, m, r, c)
    PROVE  Good(Outer(ctl), scopes, r, c, "done")
<1>1. /\ k \in ExprKind /\ Back(k) /\ k # "func" /\ m \in Nat /\ Len(ctl) = m + 1
      /\ c \in Code /\ Flowing(c)
  BY DEF Ends, ExprKind
<1>2. /\ Good(ctl, scopes, result, code, pc) /\ ctl \in Seq(Proper)
      /\ scopes \in Seq(SUBSET Items) /\ code \in Code /\ Top.k = k
  BY <1>1, BackGood
<1>3. /\ m # 0 /\ Top = ctl[m + 1] /\ TopItems(ctl, m) = OwnedBy(Top)
      /\ TopKept(ctl, m) = Temp(Top.v) /\ Stands(ctl, m + 1)
  <2>1. PICK n \in Nat : Len(ctl) = n + 1 /\ n # 0 /\ Top = ctl[n + 1] /\ Stands(ctl, n + 1)
                         /\ TopItems(ctl, n) = OwnedBy(Top) /\ TopKept(ctl, n) = Temp(Top.v)
    BY <1>1, BackGood
  <2>2. n = m
    BY <1>1, <2>1
  <2> QED
    BY <2>1, <2>2
<1>4. Len(scopes) = Below(ctl, m + 1)
  <2>1. Len(scopes) = Below(ctl, Len(ctl) + 1)
    BY <1>2 DEF Good, Scoped
  <2>2. PICK n \in Nat \ {0} : n = m + 1
    BY <1>1
  <2>3. Below(ctl, n + 1) = Below(ctl, n) + ScopesOf(ctl[n].k) /\ Below(ctl, n) \in Nat
    BY BelowNext, HeldFinite
  <2> QED
    BY <1>1, <1>2, <1>3, <2>1, <2>2, <2>3 DEF Ends
<1>5. ctl[m].k # "func"
  <2>1. m \in 1..Len(ctl)
    BY <1>1, <1>3
  <2>2. ctl[m].k = "func" => m = 1
    BY <1>2, <2>1 DEF Good, Nested, Stands
  <2>3. m = 1 => ctl[m + 1].k = "block"
    BY <1>3 DEF Stands
  <2> QED
    BY <1>1, <1>2, <1>3, <2>2, <2>3 DEF ExprKind
<1>6. c.held = Vars(scopes) \cup (Kept(ctl) \ TopKept(ctl, m)) \cup ({r.item} \ {0})
  BY <1>3 DEF Ends, Temp
<1>7. \A j \in 1..Len(scopes) : scopes[j] = scopes[j]
  OBVIOUS
<1>8. /\ Rebuilt(ctl, Outer(ctl), m, code, c) /\ c.faults = {} /\ r \in Value /\ WellFormed(r)
      /\ r.item \in TopItems(ctl, m) \cup {0} /\ r.k \notin {"field", "self"}
      /\ ctl[m].k \in ExprKind => Suits(r, ctl[m].want)
      /\ ctl[m].k \in {"lrhs", "func"} => r.item = 0
  BY <1>3, <1>5 DEF Ends
<1> QED
  BY <1>1, <1>2, <1>3, <1>4, <1>6, <1>7, <1>8, LeaveGood

\* Only operators without blocks of their own stand above a right side.
LEMMA NoRhsBelow ==
    ASSUME NEW ct, NEW m \in Nat, Stands(ct, m + 1), ct[m + 1].k \notin {"unary", "blhs", "brhs"}
    PROVE  \A i \in 1..m : ct[i].k # "lrhs"
<1>1. (m + 1) - 1 = m
  OBVIOUS
<1> QED
  BY <1>1 DEF Stands

LEMMA TernaryCondStep ==
    ASSUME EmitterInv, TernaryCond
    PROVE  Goods'
<1> SUFFICES ASSUME ~failed'
             PROVE  Good(ctl', scopes', result', code', pc')
  BY DEF Goods
<1>1. ~failed /\ ~Diagnose
  BY StillGood DEF Expression, Next
<1> USE <1>1
<1>2. Back("tcond") /\ "tcond" \in ExprKind /\ "tcond" # "func"
  BY DEF TernaryCond, ExprKind
<1>3. /\ Good(ctl, scopes, result, code, pc) /\ ctl \in Seq(Proper)
      /\ scopes \in Seq(SUBSET Items) /\ code \in Code /\ result \in Value
      /\ code.faults = {} /\ Top.k = "tcond" /\ Top \in Proper /\ Fit(Top)
  BY <1>2, BackGood
<1>4. PICK m \in Nat : Len(ctl) = m + 1 /\ m # 0 /\ Top = ctl[m + 1] /\ Stands(ctl, m + 1)
                       /\ TopBlocks(ctl, m) = AwaitedBy(Top)
  BY <1>2, BackGood
<1>5. /\ Flowing(code) /\ WellFormed(result) /\ Suits(result, Top.want)
      /\ code.held = Vars(scopes) \cup Kept(ctl) \cup Temp(result)
      /\ {Top.p} \cap (Vars(scopes) \cup Kept(ctl) \cup Temp(result)) = {}
  BY <1>2, ExprBack
<1>6. /\ Top.want = "int" /\ Top.v = NoValue /\ Top.p # 0 /\ Top.p \in Items
      /\ Temp(Top.v) = {} /\ AwaitedBy(Top) = {}
  <2>1. Top.want = "int" /\ Top.v = NoValue /\ Top.p # 0
    BY <1>3 DEF Fit, Cases
  <2> QED
    BY <1>3, <2>1, PlainValues DEF Proper, Activation, AwaitedBy
<1>7. /\ result.k # "null" /\ Cardinality(SpareBlocks) >= 3
      /\ ctl' = Become([Act("tthen", TernaryWant) EXCEPT
                            !.v = result, !.p = Top.p, !.el = Block2, !.end = Block3])
      /\ code' = Insert(CondBr(Create(code, {Block1, Block2, Block3}), Block1, Block2), Block1)
      /\ pc' = "visit" /\ scopes' = scopes
  BY <1>5 DEF TernaryCond, Suits
<1>8. PICK x \in Blocks, y \in Blocks, z \in Blocks :
        /\ x = Block1 /\ y = Block2 /\ z = Block3 /\ x # y /\ x # z /\ y # z
        /\ x \in SpareBlocks /\ y \in SpareBlocks /\ z \in SpareBlocks
  BY <1>7, ThreeSpare, SpareFinite
<1>9. /\ Laid(ctl, code) /\ code.loose \cap {x, y, z} = {}
      /\ code.edges[x] = {} /\ code.edges[y] = {} /\ code.edges[z] = {} /\ y # 0 /\ z # 0
  <2>1. TypeInv /\ Laid(ctl, code)
    BY <1>3 DEF EmitterInv, Good
  <2> QED
    BY <1>8, <2>1, SpareBlock
<1>10. PICK w \in Want : w = TernaryWant /\ w = ctl[m].want /\ w \in {"int", "obj", "any"}
  <2>1. Len(ctl) > 1 /\ Len(ctl) - 1 = m /\ m \in 1..Len(ctl)
    BY <1>4
  <2>2. ctl[m].want \in {"int", "obj", "any"}
    BY <1>3, <2>1 DEF Good, Nested, Fit
  <2> QED
    BY <2>1, <2>2 DEF TernaryWant, Want
<1>11. PICK a : a = [Act("tthen", w) EXCEPT !.v = result, !.p = Top.p, !.el = y, !.end = z]
  OBVIOUS
<1>12. /\ a \in Proper /\ a.k = "tthen" /\ a.want = w /\ a.v = result /\ a.p = Top.p
       /\ a.el = y /\ a.end = z /\ ~a.flag
  <2>1. "tthen" \in StmtKind \cup ExprKind
    BY DEF ExprKind
  <2>2. Act("tthen", w) \in Activation /\ Act("tthen", w).k = "tthen" /\ Act("tthen", w).want = w
        /\ Act("tthen", w).flag = FALSE
    BY <2>1, ActType
  <2> QED
    BY <1>3, <1>6, <1>9, <1>11, <2>2 DEF Activation, Proper
<1>13. Fit(a)
  BY <1>5, <1>6, <1>8, <1>9, <1>10, <1>12 DEF Fit, Cases, IntOp, Suits
<1>14. PICK ct : ct = Become(a)
  OBVIOUS
<1>15. Turns(ctl, ct, m, a) /\ \A i \in 1..m : ct[i] = ctl[i]
  BY <1>3, <1>4, <1>12, <1>14, BecomeTurns
<1>16. ct[m + 1] = a /\ Len(ct) = m + 1
  BY <1>15 DEF Turns
<1>17. Stands(ct, m + 1)
  <2>1. ctl[m + 1].k = "tcond"
    BY <1>3, <1>4
  <2> QED
    BY <1>4, <1>10, <1>12, <1>15, <1>16, <2>1, StandsNext DEF OnStmt, IntOp
<1>18. PICK c : c = Insert(CondBr(Create(code, {x, y, z}), x, y), x)
  OBVIOUS
<1>19. /\ c \in Code /\ Flowing(c) /\ c.cur = x /\ c.loose = (code.loose \cup {x, y, z}) \ {x}
       /\ c.open = {x} /\ c.held = code.held /\ c.faults = {} /\ c.edges[x] = {}
       /\ c.edges[y] = {[from |-> code.cur, held |-> code.held]}
       /\ \A b \in Blocks : b # x /\ b # y => c.edges[b] = code.edges[b]
  <2>1. code.open \subseteq {code.cur}
    BY <1>9 DEF Laid
  <2>2. PICK bs : bs = {x, y, z}
    OBVIOUS
  <2>3. Splits(code, bs, x, y) /\ c = Insert(CondBr(Create(code, bs), x, y), x)
    BY <1>3, <1>5, <1>8, <1>9, <1>18, <2>1, <2>2 DEF Splits
  <2>4. /\ c \in Code /\ Flowing(c) /\ c.cur = x /\ c.loose = (code.loose \cup bs) \ {x}
        /\ c.open = {x} /\ c.held = code.held /\ c.faults = code.faults /\ c.edges[x] = {}
        /\ c.edges[y] = {[from |-> code.cur, held |-> code.held]}
        /\ \A b \in Blocks : b # x /\ b # y => c.edges[b] = code.edges[b]
    BY <2>3, SplitEffect
  <2> QED
    BY <1>3, <2>2, <2>4
<1>20. c.held = StillHeld(a)
  BY <1>5, <1>6, <1>12, <1>19 DEF StillHeld
<1>21. JumpsTo(a, StillHeld(a), c.edges)
  <2>1. code.cur \in Blocks
    BY <1>3, <1>5, NamesAssumption DEF Code, Flowing
  <2>2. OneJump(c.edges[y], StillHeld(a))
    BY <1>19, <1>20, <2>1 DEF OneJump
  <2>3. c.edges[z] = {}
    BY <1>8, <1>9, <1>19
  <2> QED
    BY <1>12, <2>2, <2>3 DEF JumpsTo
<1>22. Rebuilt(ctl, ct, m, code, c)
  <2>1. TopBlocks(ctl, m) = {} /\ TopBlocks(ct, m) = {y, z}
    <3>1. m < Len(ct)
      BY <1>16
    <3> QED
      BY <1>4, <1>6, <1>12, <1>16, <3>1 DEF TopBlocks, AwaitedBy
  <2>2. c.loose = (code.loose \ TopBlocks(ctl, m)) \cup TopBlocks(ct, m)
    BY <1>8, <1>9, <1>19, <2>1
  <2>3. \A i \in 1..m : ctl[i].k # "lrhs"
    BY <1>3, <1>4, NoRhsBelow
  <2>4. c.cur \notin c.loose /\ c.open \subseteq {c.cur}
    BY <1>8, <1>9, <1>19
  <2>5. \A b \in Blocks : b \notin TopBlocks(ctl, m) \cup TopBlocks(ct, m)
                             => c.edges[b] = code.edges[b]
    BY <1>9, <1>19, <2>1
  <2> QED
    BY <1>9, <1>12, <1>16, <2>1, <2>2, <2>3, <2>4, <2>5 DEF Rebuilt
<1>23. GoesOn("tcond", m, a, c)
  <2>1. OwnedBy(a) \subseteq OwnedBy(Top) \cup Temp(result) /\ (a.v.item # 0 => a.v.item # a.p)
    BY <1>5, <1>12 DEF OwnedBy, Temp
  <2>2. ScopesOf("tcond") = 0 /\ ScopesOf(a.k) = 0 /\ a.k \notin Cases \cup {"ifcond"}
    BY <1>12 DEF ScopesOf, Cases
  <2> QED
    BY <1>2, <1>4, <1>12, <1>13, <1>14, <1>17, <1>19, <1>20, <1>21, <1>22, <2>1, <2>2
       DEF GoesOn
<1>24. Good(Become(a), scopes, result', c, "visit")
  BY <1>23, ExprNext
<1>25. ctl' = Become(a) /\ code' = c
  BY <1>7, <1>8, <1>10, <1>11, <1>18
<1> QED
  BY <1>7, <1>24, <1>25

LEMMA LogicLhsStep ==
    ASSUME EmitterInv, LogicLhs
    PROVE  Goods'
<1> SUFFICES ASSUME ~failed'
             PROVE  Good(ctl', scopes', result', code', pc')
  BY DEF Goods
<1>1. ~failed /\ ~Diagnose
  BY StillGood DEF Expression, Next
<1> USE <1>1
<1>2. Back("llhs") /\ "llhs" \in ExprKind /\ "llhs" # "func"
  BY DEF LogicLhs, ExprKind
<1>3. /\ Good(ctl, scopes, result, code, pc) /\ ctl \in Seq(Proper)
      /\ scopes \in Seq(SUBSET Items) /\ code \in Code /\ result \in Value
      /\ code.faults = {} /\ Top.k = "llhs" /\ Top \in Proper /\ Fit(Top)
  BY <1>2, BackGood
<1>4. PICK m \in Nat : Len(ctl) = m + 1 /\ m # 0 /\ Top = ctl[m + 1] /\ Stands(ctl, m + 1)
                       /\ TopBlocks(ctl, m) = AwaitedBy(Top)
  BY <1>2, BackGood
<1>5. /\ Flowing(code) /\ WellFormed(result) /\ Suits(result, Top.want)
      /\ code.held = Vars(scopes) \cup Kept(ctl) \cup Temp(result)
  BY <1>2, ExprBack
<1>6. Top.want = "int" /\ Temp(Top.v) = {} /\ AwaitedBy(Top) = {}
  <2>1. Top.want = "int" /\ Top.v = NoValue
    BY <1>3 DEF Fit, Cases, IntOp
  <2> QED
    BY <1>3, <2>1, PlainValues DEF AwaitedBy
<1>7. /\ result.k # "null" /\ Cardinality(SpareBlocks) >= 2
      /\ ctl' = Become([Act("lrhs", "int") EXCEPT
                            !.v = result, !.from = code.cur, !.el = Block1, !.end = Block2])
      /\ code' = Insert(CondBr(Create(code, {Block1, Block2}), Block1, Block2), Block1)
      /\ pc' = "visit" /\ scopes' = scopes
  BY <1>5 DEF LogicLhs, Suits
<1>8. PICK x \in Blocks, y \in Blocks :
        x = Block1 /\ y = Block2 /\ x # y /\ x \in SpareBlocks /\ y \in SpareBlocks
  BY <1>7, TwoSpare, SpareFinite
<1>9. /\ Laid(ctl, code) /\ code.loose \cap {x, y} = {} /\ code.edges[x] = {}
      /\ code.edges[y] = {} /\ x # 0 /\ y # 0
  <2>1. TypeInv /\ Laid(ctl, code)
    BY <1>3 DEF EmitterInv, Good
  <2> QED
    BY <1>8, <2>1, SpareBlock
<1>10. PICK a : a = [Act("lrhs", "int") EXCEPT
                        !.v = result, !.from = code.cur, !.el = x, !.end = y]
  OBVIOUS
<1>11. /\ a \in Proper /\ a.k = "lrhs" /\ a.want = "int" /\ a.v = result /\ a.p = 0
       /\ a.el = x /\ a.end = y /\ a.from = code.cur /\ ~a.flag
  <2>1. "lrhs" \in StmtKind \cup ExprKind /\ "int" \in Want
    BY DEF ExprKind, Want
  <2>2. /\ Act("lrhs", "int") \in Activation /\ Act("lrhs", "int").k = "lrhs"
        /\ Act("lrhs", "int").want = "int" /\ Act("lrhs", "int").flag = FALSE
        /\ Act("lrhs", "int").p = 0
    BY <2>1, ActType
  <2>3. code.cur \in Blocks \cup {0}
    BY <1>3 DEF Code
  <2> QED
    BY <1>3, <1>9, <1>10, <2>2, <2>3 DEF Activation, Proper
<1>12. Fit(a)
  BY <1>5, <1>6, <1>8, <1>9, <1>11 DEF Fit, Cases, IntOp, Suits
<1>13. PICK ct : ct = Become(a)
  OBVIOUS
<1>14. Turns(ctl, ct, m, a) /\ \A i \in 1..m : ct[i] = ctl[i]
  BY <1>3, <1>4, <1>11, <1>13, BecomeTurns
<1>15. ct[m + 1] = a /\ Len(ct) = m + 1
  BY <1>14 DEF Turns
<1>16. Stands(ct, m + 1)
  <2>1. ctl[m + 1].k = "llhs"
    BY <1>3, <1>4
  <2> QED
    BY <1>4, <1>11, <1>14, <1>15, <2>1, StandsNext DEF OnStmt, IntOp
<1>17. PICK c : c = Insert(CondBr(Create(code, {x, y}), x, y), x)
  OBVIOUS
<1>18. /\ c \in Code /\ Flowing(c) /\ c.cur = x /\ c.loose = (code.loose \cup {x, y}) \ {x}
       /\ c.open = {x} /\ c.held = code.held /\ c.faults = {} /\ c.edges[x] = {}
       /\ c.edges[y] = {[from |-> code.cur, held |-> code.held]}
       /\ \A b \in Blocks : b # x /\ b # y => c.edges[b] = code.edges[b]
  <2>1. code.open \subseteq {code.cur}
    BY <1>9 DEF Laid
  <2>2. PICK bs : bs = {x, y}
    OBVIOUS
  <2>3. Splits(code, bs, x, y) /\ c = Insert(CondBr(Create(code, bs), x, y), x)
    BY <1>3, <1>5, <1>8, <1>9, <1>17, <2>1, <2>2 DEF Splits
  <2>4. /\ c \in Code /\ Flowing(c) /\ c.cur = x /\ c.loose = (code.loose \cup bs) \ {x}
        /\ c.open = {x} /\ c.held = code.held /\ c.faults = code.faults /\ c.edges[x] = {}
        /\ c.edges[y] = {[from |-> code.cur, held |-> code.held]}
        /\ \A b \in Blocks : b # x /\ b # y => c.edges[b] = code.edges[b]
    BY <2>3, SplitEffect
  <2> QED
    BY <1>3, <2>2, <2>4
<1>19. c.held = StillHeld(a)
  BY <1>5, <1>6, <1>11, <1>18 DEF StillHeld
<1>20. JumpsTo(a, StillHeld(a), c.edges)
  BY <1>11, <1>18, <1>19 DEF JumpsTo
<1>21. Rebuilt(ctl, ct, m, code, c)
  <2>1. TopBlocks(ctl, m) = {} /\ TopBlocks(ct, m) = {y}
    <3>1. m < Len(ct)
      BY <1>15
    <3> QED
      BY <1>4, <1>6, <1>11, <1>15, <3>1 DEF TopBlocks, AwaitedBy
  <2>2. c.loose = (code.loose \ TopBlocks(ctl, m)) \cup TopBlocks(ct, m)
    BY <1>8, <1>9, <1>18, <2>1
  <2>3. \A i \in 1..m : ctl[i].k # "lrhs"
    BY <1>3, <1>4, NoRhsBelow
  <2>4. c.cur \notin c.loose /\ c.open \subseteq {c.cur}
    BY <1>8, <1>9, <1>18
  <2>5. \A b \in Blocks : b \notin TopBlocks(ctl, m) \cup TopBlocks(ct, m)
                             => c.edges[b] = code.edges[b]
    BY <1>9, <1>18, <2>1
  <2> QED
    BY <1>9, <1>11, <1>15, <1>18, <2>1, <2>2, <2>3, <2>4, <2>5 DEF Rebuilt
<1>22. GoesOn("llhs", m, a, c)
  <2>1. OwnedBy(a) \subseteq OwnedBy(Top) \cup Temp(result) /\ (a.v.item # 0 => a.v.item # a.p)
    BY <1>11 DEF OwnedBy, Temp
  <2>2. ScopesOf("llhs") = 0 /\ ScopesOf(a.k) = 0 /\ a.k \notin Cases \cup {"ifcond"}
    BY <1>11 DEF ScopesOf, Cases
  <2> QED
    BY <1>2, <1>4, <1>11, <1>12, <1>13, <1>16, <1>18, <1>19, <1>20, <1>21, <2>1, <2>2
       DEF GoesOn
<1>23. Good(Become(a), scopes, result', c, "visit")
  BY <1>22, ExprNext
<1>24. ctl' = Become(a) /\ code' = c
  BY <1>7, <1>8, <1>10, <1>17
<1> QED
  BY <1>7, <1>23, <1>24

\* What an expression's visitor with blocks of its own finds behind it.
LEMMA TopJumps ==
    ASSUME EmitterInv, ~failed, NEW k \in ExprKind, Back(k), ScopesOf(k) = 0,
           NEW m \in Nat, Len(ctl) = m + 1
    PROVE  JumpsTo(Top, Vars(scopes) \cup Kept(ctl), code.edges)
<1>1. k # "func" /\ m + 1 \in 1..Len(ctl)
  BY DEF ExprKind
<1>2. /\ Good(ctl, scopes, result, code, pc) /\ ctl \in Seq(Proper)
      /\ scopes \in Seq(SUBSET Items) /\ Top.k = k /\ Top = ctl[m + 1]
  BY <1>1, BackGood DEF Top
<1>3. JumpsTo(ctl[m + 1], Base(ctl, scopes, m + 1), code.edges)
  BY <1>1, <1>2 DEF Good, Edged
<1>4. Base(ctl, scopes, m + 1) = Vars(scopes) \cup Kept(ctl)
  <2>1. PICK n : n = m + 1
    OBVIOUS
  <2>2. n = Len(ctl) /\ n > 0 /\ Len(scopes) = Below(ctl, n + 1) /\ ScopesOf(ctl[n].k) = 0
    BY <1>2, <2>1 DEF Good, Scoped
  <2> QED
    BY <1>2, <2>1, <2>2, BaseExpr
<1> QED
  BY <1>2, <1>3, <1>4

LEMMA TernaryThenStep ==
    ASSUME EmitterInv, TernaryThen
    PROVE  Goods'
<1> SUFFICES ASSUME ~failed'
             PROVE  Good(ctl', scopes', result', code', pc')
  BY DEF Goods
<1>1. ~failed /\ ~Diagnose
  BY StillGood DEF Expression, Next
<1> USE <1>1
<1>2. Back("tthen") /\ "tthen" \in ExprKind /\ "tthen" # "func" /\ ScopesOf("tthen") = 0
  BY DEF TernaryThen, ExprKind, ScopesOf
<1>3. /\ Good(ctl, scopes, result, code, pc) /\ ctl \in Seq(Proper)
      /\ scopes \in Seq(SUBSET Items) /\ code \in Code /\ result \in Value
      /\ code.faults = {} /\ Top.k = "tthen" /\ Top \in Proper /\ Fit(Top)
  BY <1>2, BackGood
<1>4. PICK m \in Nat : Len(ctl) = m + 1 /\ m # 0 /\ Top = ctl[m + 1] /\ Stands(ctl, m + 1)
                       /\ TopBlocks(ctl, m) = AwaitedBy(Top)
  BY <1>2, BackGood
<1>5. /\ Flowing(code) /\ WellFormed(result) /\ Suits(result, Top.want)
      /\ code.held = Vars(scopes) \cup Kept(ctl) \cup Temp(result)
      /\ Temp(result) \cap (Vars(scopes) \cup Kept(ctl)) = {}
      /\ Temp(Top.v) \subseteq Kept(ctl)
      /\ {Top.p} \cap (Vars(scopes) \cup Kept(ctl) \cup Temp(result)) = {}
  BY <1>2, ExprBack
<1>6. /\ Top.p # 0 /\ Top.p \in Items /\ Top.el # 0 /\ Top.end # 0 /\ Top.el # Top.end
      /\ Top.el \in Blocks /\ Top.end \in Blocks /\ WellFormed(Top.v) /\ Suits(Top.v, "int")
      /\ AwaitedBy(Top) = {Top.el, Top.end} /\ ~Top.flag
  <2>1. /\ Top.p # 0 /\ Top.el # 0 /\ Top.end # 0 /\ Top.el # Top.end /\ WellFormed(Top.v)
        /\ Suits(Top.v, "int") /\ ~Top.flag
    BY <1>3 DEF Fit
  <2> QED
    BY <1>3, <2>1 DEF Proper, Activation, AwaitedBy
<1>7. PICK S : S = Vars(scopes) \cup Kept(ctl)
  OBVIOUS
<1>8. OneJump(code.edges[Top.el], S) /\ code.edges[Top.end] = {}
  <2>1. JumpsTo(Top, S, code.edges)
    BY <1>2, <1>4, <1>7, TopJumps
  <2> QED
    BY <1>3, <2>1 DEF JumpsTo
<1>9. PICK p \in Items \cup {0} : p = IF IsObj(result) THEN Top.p ELSE 0
  BY <1>6
<1>10. /\ ctl' = Become([Top EXCEPT !.k = "telse", !.el = 0, !.from = code.cur, !.p = p,
                                    !.want = IF IsObj(result) THEN "obj" ELSE "int"])
       /\ code' = Insert(BranchTo(CopyValue(code, result, Top.p), Top.end), Top.el)
       /\ pc' = "visit" /\ scopes' = scopes
  <2>1. TypeOf(result) = (IF IsObj(result) THEN "obj" ELSE "int") /\ result.k # "null"
    BY <1>5 DEF TypeOf, Suits
  <2>2. /\ ctl' = Become([Top EXCEPT !.k = "telse", !.el = 0, !.from = code.cur,
                                     !.p = IF IsObj(result) THEN @ ELSE 0,
                                     !.want = TypeOf(result)])
        /\ code' = Insert(BranchTo(CopyValue(code, result, Top.p), Top.end), Top.el)
        /\ pc' = "visit" /\ scopes' = scopes
    BY <2>1 DEF TernaryThen
  <2> QED
    BY <1>9, <2>1, <2>2
<1>11. PICK c : c = CopyValue(code, result, Top.p)
  OBVIOUS
<1>12. c = [code EXCEPT !.held = S \cup ({p} \ {0})] /\ c \in Code /\ Flowing(c)
  <2>1. Temp(result) \subseteq code.held
    BY <1>5
  <2>2. /\ c = [code EXCEPT !.held = (code.held \ Temp(result))
                                     \cup (IF IsObj(result) THEN {Top.p} \ {0} ELSE {})]
        /\ c \in Code /\ Flowing(c)
    BY <1>3, <1>5, <1>6, <1>11, <2>1, FlowCopy DEF Suits
  <2>3. (code.held \ Temp(result)) \cup (IF IsObj(result) THEN {Top.p} \ {0} ELSE {})
        = S \cup ({p} \ {0})
    BY <1>5, <1>7, <1>9
  <2> QED
    BY <2>2, <2>3
<1>13. PICK d : d = BranchTo(c, Top.end)
  OBVIOUS
<1>14. Laid(ctl, code) /\ code.open \subseteq {code.cur} /\ Top.end \in code.loose
  <2>1. Laid(ctl, code) /\ m + 1 \in 1..Len(ctl)
    BY <1>3, <1>4 DEF Good
  <2>2. AwaitedBy(ctl[m + 1]) \subseteq code.loose
    BY <2>1 DEF Laid
  <2> QED
    BY <1>4, <1>6, <2>1, <2>2 DEF Laid
<1>15. /\ d \in Code /\ d.cur = code.cur /\ d.loose = code.loose /\ d.open = {} /\ d.faults = {}
       /\ d.edges[Top.end] = {[from |-> code.cur, held |-> S \cup ({p} \ {0})]}
       /\ \A b \in Blocks : b # Top.end => d.edges[b] = code.edges[b]
  <2>1. /\ c.cur = code.cur /\ c.open = code.open /\ c.loose = code.loose /\ c.faults = {}
        /\ c.edges = code.edges /\ c.held = S \cup ({p} \ {0})
    BY <1>3, <1>12 DEF Code
  <2>2. PICK y \in Blocks : y = Top.end
    BY <1>6
  <2>3. c \in Code /\ Flowing(c) /\ c.open \subseteq {c.cur} /\ d = BranchTo(c, y)
    BY <1>12, <1>13, <1>14, <2>1, <2>2
  <2>4. /\ d \in Code /\ d.cur = c.cur /\ d.loose = c.loose /\ d.open = {} /\ d.faults = c.faults
        /\ d.edges[y] = c.edges[y] \cup {[from |-> c.cur, held |-> c.held]}
        /\ \A b \in Blocks : b # y => d.edges[b] = c.edges[b]
    BY <2>3, BranchEffect
  <2> QED
    BY <1>8, <2>1, <2>2, <2>4
<1>16. PICK e : e = Insert(d, Top.el)
  OBVIOUS
<1>17. /\ e \in Code /\ Flowing(e) /\ e.cur = Top.el /\ e.loose = code.loose \ {Top.el}
       /\ e.open = {Top.el} /\ e.held = S /\ e.faults = {} /\ e.edges[Top.el] = {}
       /\ \A b \in Blocks : b # Top.el => e.edges[b] = d.edges[b]
  <2>1. d.edges[Top.el] = code.edges[Top.el]
    BY <1>6, <1>15
  <2>2. d.edges[Top.el] # {} /\ \A j \in d.edges[Top.el] : j.held = S
    BY <1>8, <2>1 DEF OneJump
  <2>3. /\ e \in Code /\ Flowing(e) /\ e.cur = Top.el /\ e.loose = d.loose \ {Top.el}
        /\ e.open = d.open \cup {Top.el} /\ e.held = S /\ e.faults = d.faults
        /\ e.edges[Top.el] = {} /\ \A b \in Blocks : b # Top.el => e.edges[b] = d.edges[b]
    BY <1>6, <1>15, <1>16, <2>2, InsertEffect
  <2> QED
    BY <1>15, <2>3
<1>18. PICK a : a = [Top EXCEPT !.k = "telse", !.el = 0, !.from = code.cur, !.p = p,
                                !.want = IF IsObj(result) THEN "obj" ELSE "int"]
  OBVIOUS
<1>19. /\ a \in Proper /\ a.k = "telse" /\ a.v = Top.v /\ a.p = p /\ a.el = 0
       /\ a.end = Top.end /\ a.from = code.cur /\ ~a.flag
       /\ a.want = IF IsObj(result) THEN "obj" ELSE "int"
  <2>1. code.cur \in Blocks \cup {0}
    BY <1>3 DEF Code
  <2> QED
    BY <1>3, <1>6, <1>18, <2>1 DEF Proper, Activation, ExprKind
<1>20. Fit(a)
  BY <1>6, <1>9, <1>19 DEF Fit, Cases, IntOp
<1>21. PICK ct : ct = Become(a)
  OBVIOUS
<1>22. Turns(ctl, ct, m, a) /\ \A i \in 1..m : ct[i] = ctl[i]
  BY <1>3, <1>4, <1>19, <1>21, BecomeTurns
<1>23. ct[m + 1] = a /\ Len(ct) = m + 1
  BY <1>22 DEF Turns
<1>24. Stands(ct, m + 1)
  <2>1. ctl[m + 1].k = "tthen" /\ m + 1 > 1 /\ (m + 1) - 1 = m
    BY <1>3, <1>4
  <2>2. Top.want = ctl[m].want
    BY <1>3, <1>4, <2>1 DEF Stands
  <2>3. ctl[m].want \in {"int", "obj", "any"}
    <3>1. m \in 1..Len(ctl)
      BY <1>4
    <3> QED
      BY <1>3, <3>1 DEF Good, Nested, Fit
  <2>4. ctl[m].want \in {"any", a.want}
    BY <1>5, <1>19, <2>2, <2>3 DEF Suits
  <2> QED
    BY <1>4, <1>19, <1>22, <1>23, <2>1, <2>4, StandsNext DEF OnStmt, IntOp
<1>25. e.held = StillHeld(a)
  BY <1>5, <1>7, <1>17, <1>19 DEF StillHeld
<1>26. JumpsTo(a, StillHeld(a), e.edges)
  <2>1. e.edges[a.end] = {[from |-> a.from, held |-> StillHeld(a) \cup ({a.p} \ {0})]}
    BY <1>6, <1>15, <1>17, <1>19, <1>25
  <2> QED
    BY <1>19, <2>1 DEF JumpsTo
<1>27. Rebuilt(ctl, ct, m, code, e)
  <2>1. TopBlocks(ctl, m) = {Top.el, Top.end} /\ TopBlocks(ct, m) = {Top.end}
    <3>1. m < Len(ct)
      BY <1>23
    <3> QED
      BY <1>4, <1>6, <1>19, <1>23, <3>1 DEF TopBlocks, AwaitedBy
  <2>2. e.loose = (code.loose \ TopBlocks(ctl, m)) \cup TopBlocks(ct, m)
    BY <1>6, <1>14, <1>17, <2>1
  <2>3. \A i \in 1..m : ctl[i].k # "lrhs"
    BY <1>3, <1>4, NoRhsBelow
  <2>4. e.cur \notin e.loose /\ e.open \subseteq {e.cur}
    BY <1>17
  <2>5. \A b \in Blocks : /\ b \notin TopBlocks(ctl, m) \cup TopBlocks(ct, m)
                               => e.edges[b] = code.edges[b]
                          /\ b \in TopBlocks(ctl, m) \ TopBlocks(ct, m) => e.edges[b] = {}
    BY <1>15, <1>17, <2>1
  <2> QED
    BY <1>19, <1>23, <2>1, <2>2, <2>3, <2>4, <2>5 DEF Rebuilt
<1>28. GoesOn("tthen", m, a, e)
  <2>1. OwnedBy(a) \subseteq OwnedBy(Top) \cup Temp(result)
    BY <1>9, <1>19 DEF OwnedBy
  <2>2. a.v.item # 0 => a.v.item # a.p
    BY <1>5, <1>9, <1>19 DEF Temp
  <2>3. ScopesOf("tthen") = 0 /\ ScopesOf(a.k) = 0 /\ a.k \notin Cases \cup {"ifcond"}
    BY <1>19 DEF ScopesOf, Cases
  <2> QED
    BY <1>2, <1>4, <1>17, <1>19, <1>20, <1>21, <1>24, <1>25, <1>26, <1>27, <2>1, <2>2, <2>3
       DEF GoesOn
<1>29. Good(Become(a), scopes, result', e, "visit")
  BY <1>28, ExprNext
<1>30. ctl' = Become(a) /\ code' = e
  BY <1>10, <1>11, <1>13, <1>16, <1>18
<1> QED
  BY <1>10, <1>29, <1>30

\* Two paths meet in b with the same references.
Joins(c, b, f, S) ==
    /\ c \in Code /\ Flowing(c) /\ c.open \subseteq {c.cur} /\ b \in Blocks
    /\ c.edges[b] = {[from |-> f, held |-> S]} /\ c.held = S

LEMMA JoinEffect ==
    ASSUME NEW c, NEW b, NEW f, NEW S, Joins(c, b, f, S),
           NEW j, j = BranchTo(c, b), NEW d, d = Insert(j, b)
    PROVE  /\ Preds(j, b) = {f, c.cur}
           /\ d \in Code /\ Flowing(d) /\ d.cur = b /\ d.loose = c.loose \ {b}
           /\ d.open = {b} /\ d.held = S /\ d.faults = c.faults /\ d.edges[b] = {}
           /\ \A x \in Blocks : x # b => d.edges[x] = c.edges[x]
<1>1. /\ c \in Code /\ Flowing(c) /\ c.open \subseteq {c.cur} /\ b \in Blocks
      /\ c.edges[b] = {[from |-> f, held |-> S]} /\ c.held = S
  BY DEF Joins
<1>2. /\ j \in Code /\ j.cur = c.cur /\ j.loose = c.loose /\ j.open = {}
      /\ j.faults = c.faults
      /\ j.edges[b] = c.edges[b] \cup {[from |-> c.cur, held |-> c.held]}
      /\ \A x \in Blocks : x # b => j.edges[x] = c.edges[x]
  BY <1>1, BranchEffect
<1>3. j.edges[b] = {[from |-> f, held |-> S], [from |-> c.cur, held |-> S]}
  BY <1>1, <1>2
<1>4. j.edges[b] # {} /\ \A e \in j.edges[b] : e.held = S
  BY <1>3
<1>5. Preds(j, b) = {f, c.cur}
  BY <1>3 DEF Preds
<1>6. /\ d \in Code /\ Flowing(d) /\ d.cur = b /\ d.loose = j.loose \ {b}
      /\ d.open = j.open \cup {b} /\ d.held = S /\ d.faults = j.faults
      /\ d.edges[b] = {} /\ \A x \in Blocks : x # b => d.edges[x] = j.edges[x]
  <2>1. PICK g \in Code, y \in Blocks : g = j /\ y = b
    BY <1>1, <1>2
  <2>2. g.edges[y] # {} /\ (\A e \in g.edges[y] : e.held = S) /\ d = Insert(g, y)
    BY <1>4, <2>1
  <2>3. /\ d \in Code /\ Flowing(d) /\ d.cur = y /\ d.loose = g.loose \ {y}
        /\ d.open = g.open \cup {y} /\ d.held = S /\ d.faults = g.faults
        /\ d.edges[y] = {} /\ \A x \in Blocks : x # y => d.edges[x] = g.edges[x]
    BY <2>2, InsertEffect
  <2> QED
    BY <2>1, <2>3
<1> QED
  BY <1>1, <1>2, <1>5, <1>6

LEMMA TernaryElseStep ==
    ASSUME EmitterInv, TernaryElse
    PROVE  Goods'
<1> SUFFICES ASSUME ~failed'
             PROVE  Good(ctl', scopes', result', code', pc')
  BY DEF Goods
<1>1. ~failed /\ ~Diagnose
  BY StillGood DEF Expression, Next
<1> USE <1>1
<1>2. Back("telse") /\ "telse" \in ExprKind /\ "telse" # "func" /\ ScopesOf("telse") = 0
  BY DEF TernaryElse, ExprKind, ScopesOf
<1>3. /\ Good(ctl, scopes, result, code, pc) /\ ctl \in Seq(Proper)
      /\ scopes \in Seq(SUBSET Items) /\ code \in Code /\ result \in Value
      /\ code.faults = {} /\ Top.k = "telse" /\ Top \in Proper /\ Fit(Top)
  BY <1>2, BackGood
<1>4. PICK m \in Nat : Len(ctl) = m + 1 /\ m # 0 /\ Top = ctl[m + 1] /\ Stands(ctl, m + 1)
                       /\ TopBlocks(ctl, m) = AwaitedBy(Top)
  BY <1>2, BackGood
<1>5. /\ Flowing(code) /\ WellFormed(result) /\ Suits(result, Top.want)
      /\ code.held = Vars(scopes) \cup Kept(ctl) \cup Temp(result)
      /\ Temp(result) \cap (Vars(scopes) \cup Kept(ctl)) = {}
      /\ Temp(Top.v) \subseteq Kept(ctl) /\ Temp(Top.v) \cap Vars(scopes) = {}
      /\ {Top.p} \cap (Vars(scopes) \cup Kept(ctl) \cup Temp(result)) = {}
  BY <1>2, ExprBack
<1>6. /\ Top.end \in Blocks /\ AwaitedBy(Top) = {Top.end} /\ Top.p \in Items \cup {0}
      /\ (Top.p # 0 <=> IsObj(result)) /\ Top.want \in {"int", "obj"}
      /\ (Top.want = "obj" <=> IsObj(result)) /\ Top.v.k \notin {"field", "self"}
  <2>1. /\ (Top.p # 0 <=> Top.want = "obj") /\ Top.want # "any" /\ Top.end # 0
        /\ Top.want \in {"int", "obj", "any"} /\ Suits(Top.v, "int")
    BY <1>3 DEF Fit
  <2> QED
    BY <1>3, <1>5, <2>1, SuitsInt DEF Proper, Activation, AwaitedBy, Suits
<1>7. PICK S : S = Vars(scopes) \cup Kept(ctl) \cup ({Top.p} \ {0})
  OBVIOUS
<1>8. code.edges[Top.end] = {[from |-> Top.from, held |-> S]}
  <2>1. JumpsTo(Top, Vars(scopes) \cup Kept(ctl), code.edges)
    BY <1>2, <1>4, TopJumps
  <2> QED
    BY <1>3, <1>7, <2>1 DEF JumpsTo
<1>9. PICK c : c = CopyValue(code, result, Top.p)
  OBVIOUS
<1>10. c = [code EXCEPT !.held = S] /\ c \in Code /\ Flowing(c)
  <2>1. Temp(result) \subseteq code.held
    BY <1>5
  <2>2. /\ c = [code EXCEPT !.held = (code.held \ Temp(result))
                                     \cup (IF IsObj(result) THEN {Top.p} \ {0} ELSE {})]
        /\ c \in Code /\ Flowing(c)
    BY <1>3, <1>5, <1>6, <1>9, <2>1, FlowCopy DEF Suits
  <2>3. (code.held \ Temp(result)) \cup (IF IsObj(result) THEN {Top.p} \ {0} ELSE {}) = S
    BY <1>5, <1>6, <1>7
  <2> QED
    BY <2>2, <2>3
<1>11. PICK j : j = BranchTo(c, Top.end)
  OBVIOUS
<1>12. PICK d : d = Insert(j, Top.end)
  OBVIOUS
<1>13. Laid(ctl, code) /\ code.open \subseteq {code.cur}
  BY <1>3 DEF Good, Laid
<1>14. /\ Preds(j, Top.end) = {Top.from, code.cur}
       /\ d \in Code /\ Flowing(d) /\ d.cur = Top.end /\ d.loose = code.loose \ {Top.end}
       /\ d.open = {Top.end} /\ d.held = S /\ d.faults = {} /\ d.edges[Top.end] = {}
       /\ \A x \in Blocks : x # Top.end => d.edges[x] = code.edges[x]
  <2>1. /\ c.cur = code.cur /\ c.open = code.open /\ c.loose = code.loose /\ c.faults = {}
        /\ c.edges = code.edges /\ c.held = S
    BY <1>3, <1>10 DEF Code
  <2>2. PICK y \in Blocks : y = Top.end
    BY <1>6
  <2>3. Joins(c, y, Top.from, S) /\ j = BranchTo(c, y) /\ d = Insert(j, y)
    BY <1>8, <1>10, <1>11, <1>12, <1>13, <2>1, <2>2 DEF Joins
  <2>4. /\ Preds(j, y) = {Top.from, c.cur}
        /\ d \in Code /\ Flowing(d) /\ d.cur = y /\ d.loose = c.loose \ {y}
        /\ d.open = {y} /\ d.held = S /\ d.faults = c.faults /\ d.edges[y] = {}
        /\ \A x \in Blocks : x # y => d.edges[x] = c.edges[x]
    BY <2>3, JoinEffect
  <2> QED
    BY <2>1, <2>2, <2>4
<1>15. PICK e : e = DestroyValue(d, Top.v)
  OBVIOUS
<1>16. e = [d EXCEPT !.held = S \ Temp(Top.v)] /\ e \in Code /\ Flowing(e)
  <2>1. Temp(Top.v) \subseteq d.held
    BY <1>5, <1>7, <1>14
  <2> QED
    BY <1>6, <1>14, <1>15, <2>1, FlowDestroy
<1>17. PICK r : r = IF IsObj(result) THEN Val("temp", Top.p) ELSE Val("int", 0)
  OBVIOUS
<1>18. /\ ctl' = Outer(ctl) /\ result' = r /\ pc' = "done" /\ scopes' = scopes /\ code' = e
  <2>1. /\ Leave(IF IsObj(result) THEN Val("temp", Top.p)
                 ELSE IF result.k = "func" THEN result ELSE Val("int", 0))
        /\ code' = DestroyValue(IF /\ Preds(j, Top.end) = {Top.from, code.cur}
                                   /\ result.k # "void"
                                THEN d ELSE Fault(d, "phi"), Top.v)
        /\ result.k \notin {"func", "void"}
        /\ scopes' = scopes
    BY <1>5, <1>9, <1>11, <1>12 DEF TernaryElse, Suits
  <2> QED
    BY <1>14, <1>15, <1>17, <2>1 DEF Leave
<1>19. /\ r \in Value /\ WellFormed(r) /\ r.item = Top.p /\ Suits(r, Top.want)
       /\ r.item \in OwnedBy(Top) \cup {0} /\ r.k \notin {"field", "self"}
  <2>1. CASE IsObj(result)
    <3>1. r.k = "temp" /\ r.item = Top.p /\ r \in Value /\ Top.p # 0 /\ Top.want = "obj"
      BY <1>6, <1>17, <2>1, ValType DEF Val
    <3> QED
      BY <3>1 DEF WellFormed, Suits, IsObj, OwnedBy
  <2>2. CASE ~IsObj(result)
    <3>1. r = Val("int", 0) /\ Top.p = 0 /\ Top.want = "int"
      BY <1>6, <1>17, <2>2
    <3> QED
      BY <3>1, PlainValues
  <2> QED
    BY <2>1, <2>2
<1>20. ctl[m].k \in ExprKind => Suits(r, ctl[m].want)
  <2>1. m + 1 > 1 /\ (m + 1) - 1 = m
    BY <1>4
  <2>2. ctl[m].want \in {"any", Top.want}
    BY <1>3, <1>4, <2>1 DEF Stands
  <2> QED
    BY <1>19, <2>2 DEF Suits
<1>21. \A i \in 1..m : ctl[i].k # "lrhs"
  BY <1>3, <1>4, NoRhsBelow
<1>22. e.held = Vars(scopes) \cup (Kept(ctl) \ Temp(Top.v)) \cup Temp(r)
  <2>1. e.held = S \ Temp(Top.v)
    BY <1>14, <1>16 DEF Code
  <2>2. Temp(r) = {Top.p} \ {0}
    BY <1>19 DEF Temp
  <2> QED
    BY <1>5, <1>7, <2>1, <2>2
<1>23. /\ e.cur = Top.end /\ e.loose = code.loose \ {Top.end} /\ e.open = {Top.end}
       /\ e.faults = {} /\ e.edges[Top.end] = {}
       /\ \A x \in Blocks : x # Top.end => e.edges[x] = code.edges[x]
  BY <1>14, <1>16 DEF Code
<1>24. Rebuilt(ctl, Outer(ctl), m, code, e)
  <2>1. Len(Outer(ctl)) = m
    BY <1>3, <1>4, OuterFacts
  <2>2. TopBlocks(Outer(ctl), m) = {} /\ TopBlocks(ctl, m) = {Top.end} /\ Len(Outer(ctl)) # m + 1
    BY <1>4, <1>6, <2>1 DEF TopBlocks
  <2> QED
    BY <1>13, <1>21, <1>23, <2>2 DEF Rebuilt
<1>25. Ends("telse", m, r, e)
  <2>1. m \in 1..m
    BY <1>4
  <2> QED
    BY <1>2, <1>4, <1>16, <1>19, <1>20, <1>21, <1>22, <1>23, <1>24, <2>1 DEF Ends
<1> QED
  BY <1>18, <1>25, ExprEnds

LEMMA LogicRhsStep ==
    ASSUME EmitterInv, LogicRhs
    PROVE  Goods'
<1> SUFFICES ASSUME ~failed'
             PROVE  Good(ctl', scopes', result', code', pc')
  BY DEF Goods
<1>1. ~failed /\ ~Diagnose
  BY StillGood DEF Expression, Next
<1> USE <1>1
<1>2. Back("lrhs") /\ "lrhs" \in ExprKind /\ "lrhs" # "func" /\ ScopesOf("lrhs") = 0
  BY DEF LogicRhs, ExprKind, ScopesOf
<1>3. /\ Good(ctl, scopes, result, code, pc) /\ ctl \in Seq(Proper)
      /\ scopes \in Seq(SUBSET Items) /\ code \in Code /\ result \in Value
      /\ code.faults = {} /\ Top.k = "lrhs" /\ Top \in Proper /\ Fit(Top)
  BY <1>2, BackGood
<1>4. PICK m \in Nat : Len(ctl) = m + 1 /\ m # 0 /\ Top = ctl[m + 1] /\ Stands(ctl, m + 1)
                       /\ TopBlocks(ctl, m) = AwaitedBy(Top)
  BY <1>2, BackGood
<1>5. /\ Flowing(code) /\ WellFormed(result) /\ Suits(result, Top.want) /\ result.item = 0
      /\ code.held = Vars(scopes) \cup Kept(ctl) \cup Temp(result)
      /\ Temp(Top.v) \subseteq Kept(ctl) /\ Temp(Top.v) \cap Vars(scopes) = {}
  BY <1>2, <1>3, ExprBack
<1>6. /\ Top.end \in Blocks /\ AwaitedBy(Top) = {Top.end} /\ Temp(result) = {}
      /\ Top.v.k \notin {"field", "self"} /\ result.k \notin {"field", "self"}
  <2>1. Top.end # 0 /\ Suits(Top.v, "int") /\ Top.want = "int"
    BY <1>3 DEF Fit, IntOp
  <2> QED
    BY <1>3, <1>5, <2>1, SuitsInt DEF Proper, Activation, AwaitedBy, Temp
<1>7. PICK S : S = Vars(scopes) \cup Kept(ctl)
  OBVIOUS
<1>8. code.edges[Top.end] = {[from |-> Top.from, held |-> S]} /\ code.held = S
  <2>1. JumpsTo(Top, S, code.edges)
    BY <1>2, <1>4, <1>7, TopJumps
  <2> QED
    BY <1>3, <1>5, <1>6, <1>7, <2>1 DEF JumpsTo
<1>9. PICK j : j = BranchTo(code, Top.end)
  OBVIOUS
<1>10. PICK d : d = Insert(j, Top.end)
  OBVIOUS
<1>11. Laid(ctl, code) /\ code.open \subseteq {code.cur} /\ code.cur = Top.el
  <2>1. Laid(ctl, code) /\ m + 1 \in 1..Len(ctl)
    BY <1>3, <1>4 DEF Good
  <2> QED
    BY <1>3, <1>4, <2>1 DEF Laid
<1>12. /\ Preds(j, Top.end) = {Top.from, Top.el}
       /\ d \in Code /\ Flowing(d) /\ d.cur = Top.end /\ d.loose = code.loose \ {Top.end}
       /\ d.open = {Top.end} /\ d.held = S /\ d.faults = {} /\ d.edges[Top.end] = {}
       /\ \A x \in Blocks : x # Top.end => d.edges[x] = code.edges[x]
  <2>1. PICK y \in Blocks : y = Top.end
    BY <1>6
  <2>2. Joins(code, y, Top.from, S) /\ j = BranchTo(code, y) /\ d = Insert(j, y)
    BY <1>3, <1>5, <1>8, <1>9, <1>10, <1>11, <2>1 DEF Joins
  <2>3. /\ Preds(j, y) = {Top.from, code.cur}
        /\ d \in Code /\ Flowing(d) /\ d.cur = y /\ d.loose = code.loose \ {y}
        /\ d.open = {y} /\ d.held = S /\ d.faults = code.faults /\ d.edges[y] = {}
        /\ \A x \in Blocks : x # y => d.edges[x] = code.edges[x]
    BY <2>2, JoinEffect
  <2> QED
    BY <1>3, <1>11, <2>1, <2>3
<1>13. PICK e : e = DestroyValue(d, Top.v)
  OBVIOUS
<1>14. e = [d EXCEPT !.held = S \ Temp(Top.v)] /\ e \in Code /\ Flowing(e)
  <2>1. Temp(Top.v) \subseteq d.held
    BY <1>5, <1>7, <1>12
  <2> QED
    BY <1>6, <1>12, <1>13, <2>1, FlowDestroy
<1>15. PICK r : r = Val("int", 0)
  OBVIOUS
<1>16. /\ ctl' = Outer(ctl) /\ result' = r /\ pc' = "done" /\ scopes' = scopes /\ code' = e
  <2>1. Emit(code) = code
    BY <1>3, <1>5, FlowEmit
  <2>2. /\ Leave(Val("int", 0)) /\ scopes' = scopes
        /\ code' = DestroyValue(DestroyValue(IF Preds(j, Top.end) = {Top.from, Top.el}
                                             THEN d ELSE Fault(d, "phi"), Top.v), result)
    BY <1>5, <1>9, <1>10, <2>1 DEF LogicRhs, Suits
  <2>3. code' = DestroyValue(e, result)
    BY <1>12, <1>13, <2>2
  <2>4. DestroyValue(e, result) = e
    BY <1>5, <1>6, NoRelease DEF DestroyValue
  <2> QED
    BY <1>15, <2>2, <2>3, <2>4 DEF Leave
<1>17. /\ r \in Value /\ WellFormed(r) /\ r.item = 0 /\ Temp(r) = {}
       /\ r.k \notin {"field", "self"}
       /\ \A w : w # "obj" => Suits(r, w)
  BY <1>15, PlainValues
<1>18. ctl[m].want # "obj"
  <2>1. Len(ctl) - 1 = m
    BY <1>4
  <2> QED
    BY <1>2, <2>1, ParentAsks DEF IntOp
<1>19. \A i \in 1..m : ctl[i].k # "lrhs"
  BY <1>3, <1>4, NoRhsBelow
<1>20. e.held = Vars(scopes) \cup (Kept(ctl) \ Temp(Top.v)) \cup Temp(r)
  <2>1. e.held = S \ Temp(Top.v)
    BY <1>12, <1>14 DEF Code
  <2> QED
    BY <1>5, <1>7, <1>17, <2>1
<1>21. /\ e.cur = Top.end /\ e.loose = code.loose \ {Top.end} /\ e.open = {Top.end}
       /\ e.faults = {} /\ e.edges[Top.end] = {}
       /\ \A x \in Blocks : x # Top.end => e.edges[x] = code.edges[x]
  BY <1>12, <1>14 DEF Code
<1>22. Rebuilt(ctl, Outer(ctl), m, code, e)
  <2>1. Len(Outer(ctl)) = m
    BY <1>3, <1>4, OuterFacts
  <2>2. TopBlocks(Outer(ctl), m) = {} /\ TopBlocks(ctl, m) = {Top.end} /\ Len(Outer(ctl)) # m + 1
    BY <1>4, <1>6, <2>1 DEF TopBlocks
  <2> QED
    BY <1>11, <1>19, <1>21, <2>2 DEF Rebuilt
<1>23. Ends("lrhs", m, r, e)
  BY <1>2, <1>4, <1>14, <1>17, <1>18, <1>20, <1>21, <1>22 DEF Ends
<1> QED
  BY <1>16, <1>23, ExprEnds

-----------------------------------------------------------------------------
(* if *)

LEMMA IfCondStep ==
    ASSUME EmitterInv, IfCond
    PROVE  Goods'
<1> SUFFICES ASSUME ~failed'
             PROVE  Good(ctl', scopes', result', code', pc')
  BY DEF Goods
<1>1. ~failed /\ ~Diagnose
  BY StillGood DEF Statement, Next
<1> USE <1>1
<1>2. Back("ifcond") /\ "ifcond" \in ExprKind /\ "ifcond" # "func"
  BY DEF IfCond, ExprKind
<1>3. /\ Good(ctl, scopes, result, code, pc) /\ ctl \in Seq(Proper)
      /\ scopes \in Seq(SUBSET Items) /\ code \in Code /\ result \in Value
      /\ code.faults = {} /\ Top.k = "ifcond" /\ Top \in Proper /\ Fit(Top)
  BY <1>2, BackGood
<1>4. PICK m \in Nat : Len(ctl) = m + 1 /\ m # 0 /\ Top = ctl[m + 1] /\ Stands(ctl, m + 1)
                       /\ TopItems(ctl, m) = OwnedBy(Top) /\ TopKept(ctl, m) = Temp(Top.v)
                       /\ TopBlocks(ctl, m) = AwaitedBy(Top)
  BY <1>2, BackGood
<1>5. /\ pc = "done" /\ Flowing(code) /\ WellFormed(result) /\ Suits(result, Top.want)
      /\ code.held = Vars(scopes) \cup Kept(ctl) \cup Temp(result)
  BY <1>2, ExprBack
<1>6. Top.want = "int" /\ Temp(Top.v) = {} /\ AwaitedBy(Top) = {}
  <2>1. Top.want = "int" /\ Top.v = NoValue
    BY <1>3 DEF Fit, Cases
  <2> QED
    BY <1>3, <2>1, PlainValues DEF AwaitedBy
<1>7. PICK hasElse \in BOOLEAN :
        LET el == IF hasElse THEN Block3 ELSE Block2
        IN  /\ Cardinality(SpareBlocks) >= IF hasElse THEN 3 ELSE 2
            /\ ctl' = Become([Act("ifthen", "any") EXCEPT
                                 !.v = result, !.end = Block2,
                                 !.el = IF hasElse THEN Block3 ELSE 0])
            /\ code' = Insert(CondBr(Create(code, {Block1, Block2, el}), Block1, el), Block1)
            /\ scopes' = Append(scopes, {})
            /\ pc' = "visit" /\ UNCHANGED result
  BY <1>5 DEF IfCond, Suits
<1>8. PICK x \in Blocks, y \in Blocks, z \in Blocks :
        /\ x = Block1 /\ y = Block2 /\ z = (IF hasElse THEN Block3 ELSE Block2)
        /\ x # y /\ x # z /\ (hasElse <=> y # z)
        /\ x \in SpareBlocks /\ y \in SpareBlocks /\ z \in SpareBlocks
  <2>1. CASE hasElse
    BY <1>7, <2>1, ThreeSpare, SpareFinite
  <2>2. CASE ~hasElse
    BY <1>7, <2>2, TwoSpare, SpareFinite
  <2> QED
    BY <2>1, <2>2
<1>9. /\ Laid(ctl, code) /\ code.loose \cap {x, y, z} = {}
      /\ code.edges[x] = {} /\ code.edges[y] = {} /\ code.edges[z] = {} /\ y # 0 /\ z # 0
  <2>1. TypeInv /\ Laid(ctl, code)
    BY <1>3 DEF EmitterInv, Good
  <2> QED
    BY <1>8, <2>1, SpareBlock
<1>10. PICK a : a = [Act("ifthen", "any") EXCEPT !.v = result, !.end = y,
                                                 !.el = IF hasElse THEN z ELSE 0]
  OBVIOUS
<1>11. /\ a \in Proper /\ a.k = "ifthen" /\ a.want = "any" /\ a.v = result /\ a.p = 0
       /\ a.end = y /\ a.el = (IF hasElse THEN z ELSE 0) /\ ~a.flag
  <2>1. "ifthen" \in StmtKind \cup ExprKind /\ "any" \in Want
    BY DEF StmtKind, Want
  <2>2. /\ Act("ifthen", "any") \in Activation /\ Act("ifthen", "any").k = "ifthen"
        /\ Act("ifthen", "any").want = "any" /\ Act("ifthen", "any").flag = FALSE
        /\ Act("ifthen", "any").p = 0
    BY <2>1, ActType
  <2>3. PICK g \in Blocks \cup {0} : g = IF hasElse THEN z ELSE 0
    OBVIOUS
  <2>4. a = [Act("ifthen", "any") EXCEPT !.v = result, !.end = y, !.el = g]
    BY <1>10, <2>3
  <2>5. /\ a \in Activation /\ a.k = "ifthen" /\ a.want = "any" /\ a.v = result /\ a.p = 0
        /\ a.end = y /\ a.el = g /\ ~a.flag
    BY <1>3, <2>2, <2>4 DEF Activation
  <2> QED
    BY <1>9, <2>3, <2>5 DEF Proper
<1>12. Fit(a)
  BY <1>5, <1>6, <1>8, <1>9, <1>11 DEF Fit, Cases, IntOp, Suits
<1>13. PICK ct : ct = Become(a)
  OBVIOUS
<1>14. Turns(ctl, ct, m, a) /\ \A i \in 1..m : ct[i] = ctl[i]
  BY <1>3, <1>4, <1>11, <1>13, BecomeTurns
<1>15. ct[m + 1] = a /\ Len(ct) = m + 1 /\ Shares(ctl, ct, m) /\ ct \in Seq(Proper)
  BY <1>14 DEF Turns, Shares
<1>16. Stands(ct, m + 1)
  <2>1. ctl[m + 1].k = "ifcond"
    BY <1>3, <1>4
  <2> QED
    BY <1>4, <1>11, <1>14, <1>15, <2>1, StandsNext DEF OnStmt, IntOp
<1>17. PICK c : c = Insert(CondBr(Create(code, {x, y, z}), x, z), x)
  OBVIOUS
<1>18. /\ c \in Code /\ Flowing(c) /\ c.cur = x /\ c.loose = (code.loose \cup {x, y, z}) \ {x}
       /\ c.open = {x} /\ c.held = code.held /\ c.faults = {} /\ c.edges[x] = {}
       /\ c.edges[z] = {[from |-> code.cur, held |-> code.held]}
       /\ \A b \in Blocks : b # x /\ b # z => c.edges[b] = code.edges[b]
  <2>1. code.open \subseteq {code.cur}
    BY <1>9 DEF Laid
  <2>2. PICK bs : bs = {x, y, z}
    OBVIOUS
  <2>3. Splits(code, bs, x, z) /\ c = Insert(CondBr(Create(code, bs), x, z), x)
    BY <1>3, <1>5, <1>8, <1>9, <1>17, <2>1, <2>2 DEF Splits
  <2>4. /\ c \in Code /\ Flowing(c) /\ c.cur = x /\ c.loose = (code.loose \cup bs) \ {x}
        /\ c.open = {x} /\ c.held = code.held /\ c.faults = code.faults /\ c.edges[x] = {}
        /\ c.edges[z] = {[from |-> code.cur, held |-> code.held]}
        /\ \A b \in Blocks : b # x /\ b # z => c.edges[b] = code.edges[b]
    BY <2>3, SplitEffect
  <2> QED
    BY <1>3, <2>2, <2>4
<1>19. PICK sc : sc = Append(scopes, {})
  OBVIOUS
<1>20. PICK h \in Nat : h = Below(ctl, m + 1) /\ h = Below(ct, m + 1) /\ Len(scopes) = h + 1
                        /\ Below(ct, (m + 1) + 1) = h + 2
  <2>1. Len(scopes) = Below(ctl, Len(ctl) + 1)
    BY <1>3 DEF Good, Scoped
  <2>2. PICK n \in Nat \ {0} : n = m + 1
    BY <1>4
  <2>3. /\ Below(ctl, n + 1) = Below(ctl, n) + ScopesOf(ctl[n].k) /\ Below(ctl, n) \in Nat
        /\ Below(ct, n + 1) = Below(ct, n) + ScopesOf(ct[n].k)
    BY BelowNext, HeldFinite
  <2>4. ScopesOf(Top.k) = 1 /\ ScopesOf(a.k) = 2
    BY <1>3, <1>11 DEF ScopesOf
  <2>5. Below(ct, m + 1) = Below(ctl, m + 1)
    <3>1. m + 1 \in 1..(m + 1)
      BY <1>4
    <3> QED
      BY <1>15, <3>1, SharesBelow
  <2> QED
    BY <1>4, <1>15, <2>1, <2>2, <2>3, <2>4, <2>5
<1>21. /\ sc \in Seq(SUBSET Items) /\ Len(sc) = h + 2 /\ sc[h + 2] = {} /\ sc[h + 1] = {}
       /\ \A j \in 1..(h + 1) : sc[j] = scopes[j]
  <2>1. {} \in SUBSET Items
    OBVIOUS
  <2>2. /\ sc \in Seq(SUBSET Items) /\ Len(sc) = Len(scopes) + 1 /\ sc[Len(scopes) + 1] = {}
        /\ \A j \in 1..Len(scopes) : sc[j] = scopes[j]
    BY <1>3, <1>19, <2>1, PushFacts
  <2>3. scopes[h + 1] = {}
    <3>1. m + 1 \in 1..Len(ctl) /\ ctl[m + 1].k \in Cases \cup {"ifcond"}
      BY <1>3, <1>4
    <3> QED
      BY <1>3, <1>20, <3>1 DEF Good, Scoped
  <2>4. (h + 1) + 1 = h + 2 /\ h + 1 \in 1..(h + 1)
    BY <1>20
  <2> QED
    BY <1>20, <2>2, <2>3, <2>4
<1>22. Vars(sc) = Vars(scopes)
  BY <1>3, <1>19, VarsPush
<1>23. Rescoped(scopes, sc, Below(ctl, m + 1), a.k)
  <2>1. \A j \in (h + 1)..(h + 2) : j = h + 1 \/ j = h + 2
    BY <1>20
  <2>2. \A j \in 1..h : j \in 1..(h + 1)
    BY <1>20
  <2>3. ScopesOf(a.k) = 2
    BY <1>11 DEF ScopesOf
  <2> QED
    BY <1>20, <1>21, <2>1, <2>2, <2>3 DEF Rescoped
<1>24. PICK S : S = Vars(scopes) \cup Kept(ctl) \cup Temp(result)
  OBVIOUS
<1>25. Base(ct, sc, m + 1) = S
  <2>1. PICK n : n = m + 1
    OBVIOUS
  <2>2. \A i, j \in 1..Len(sc) : i # j => sc[i] \cap sc[j] = {}
    <3>1. \A i, j \in 1..Len(scopes) : i # j => scopes[i] \cap scopes[j] = {}
      BY <1>3 DEF Good, Scoped
    <3>2. \A i \in 1..Len(sc) : i \in 1..(h + 1) \/ i = h + 2
      BY <1>21
    <3> QED
      BY <1>20, <1>21, <3>1, <3>2
  <2>3. /\ n = Len(ct) /\ n > 0 /\ Len(sc) = Below(ct, n + 1) /\ ScopesOf(ct[n].k) = 2
        /\ sc[Below(ct, n) + 1] = {}
    BY <1>4, <1>11, <1>15, <1>20, <1>21, <2>1 DEF ScopesOf
  <2>4. Base(ct, sc, n) = (Vars(sc) \ sc[Len(sc)]) \cup Kept(ct)
    BY <1>15, <1>21, <2>2, <2>3, BaseCase
  <2>5. Kept(ct) = (Kept(ctl) \ TopKept(ctl, m)) \cup TopKept(ct, m)
    BY <1>3, <1>15, KeptStep DEF Good
  <2>6. TopKept(ct, m) = Temp(result) /\ TopKept(ctl, m) = {}
    <3>1. m < Len(ct)
      BY <1>15
    <3> QED
      BY <1>4, <1>6, <1>11, <1>15, <3>1 DEF TopKept, Temp
  <2> QED
    BY <1>21, <1>22, <1>24, <2>1, <2>4, <2>5, <2>6
<1>26. JumpsTo(a, S, c.edges)
  <2>1. code.cur \in Blocks
    BY <1>3, <1>5, NamesAssumption DEF Code, Flowing
  <2>2. OneJump(c.edges[z], S)
    BY <1>5, <1>18, <1>24, <2>1 DEF OneJump
  <2>3. CASE hasElse
    BY <1>8, <1>9, <1>11, <1>18, <2>2, <2>3 DEF JumpsTo
  <2>4. CASE ~hasElse
    BY <1>8, <1>11, <2>2, <2>4 DEF JumpsTo
  <2> QED
    BY <2>3, <2>4
<1>27. Rebuilt(ctl, ct, m, code, c)
  <2>1. TopBlocks(ctl, m) = {} /\ TopBlocks(ct, m) = {y, z}
    <3>1. m < Len(ct)
      BY <1>15
    <3> QED
      BY <1>4, <1>6, <1>8, <1>9, <1>11, <1>15, <3>1 DEF TopBlocks, AwaitedBy
  <2>2. c.loose = (code.loose \ TopBlocks(ctl, m)) \cup TopBlocks(ct, m)
    BY <1>8, <1>9, <1>18, <2>1
  <2>3. \A i \in 1..m : ctl[i].k # "lrhs"
    BY <1>3, <1>4, NoRhsBelow
  <2>4. c.cur \notin c.loose /\ c.open \subseteq {c.cur}
    BY <1>8, <1>9, <1>18
  <2>5. \A b \in Blocks : b \notin TopBlocks(ctl, m) \cup TopBlocks(ct, m)
                             => c.edges[b] = code.edges[b]
    BY <1>9, <1>18, <2>1
  <2> QED
    BY <1>9, <1>11, <1>15, <2>1, <2>2, <2>3, <2>4, <2>5 DEF Rebuilt
<1>28. Proceeds(ctl, scopes, result, code, pc, ct, sc, c, m, a)
  <2>1. OwnedBy(a) \subseteq TopItems(ctl, m) \cup Fresh(result, pc)
        /\ (a.v.item # 0 => a.v.item # a.p)
    BY <1>5, <1>11 DEF OwnedBy, Fresh
  <2>2. c.held = Vars(sc) \cup (Kept(ctl) \ TopKept(ctl, m)) \cup Temp(a.v)
    BY <1>4, <1>5, <1>6, <1>11, <1>18, <1>22
  <2>3. JumpsTo(a, Base(ct, sc, m + 1), c.edges)
    BY <1>25, <1>26
  <2> QED
    BY <1>3, <1>11, <1>12, <1>14, <1>16, <1>18, <1>21, <1>23, <1>27, <2>1, <2>2, <2>3
       DEF Proceeds
<1>29. Good(ct, sc, result, c, "visit")
  BY <1>5, <1>6, <1>28, SuitsInt, NextGood
<1>30. /\ ctl' = ct /\ code' = c /\ scopes' = sc /\ result' = result /\ pc' = "visit"
  BY <1>7, <1>8, <1>10, <1>13, <1>17, <1>19
<1> QED
  BY <1>29, <1>30

\* What was held before the if: neither the case's variables nor its result.
CaseHeld == (Vars(scopes) \ Last(scopes)) \cup Kept(ctl)

\* What the visitor of an if finds after a case.
LEMMA CaseBack ==
    ASSUME EmitterInv, ~failed, NEW k \in Cases, Back(k), NEW m \in Nat, Len(ctl) = m + 1
    PROVE  /\ \E h \in Nat : h = Below(ctl, m + 1) /\ Len(scopes) = h + 2 /\ scopes[h + 1] = {}
           /\ JumpsTo(Top, CaseHeld, code.edges)
           /\ Last(scopes) \subseteq Vars(scopes) /\ Kept(ctl) \cap Vars(scopes) = {}
           /\ ~Flowing(code) => Last(scopes) = {}
           /\ \A i, j \in 1..Len(scopes) : i # j => scopes[i] \cap scopes[j] = {}
<1>1. k # "func" /\ m + 1 \in 1..Len(ctl) /\ ScopesOf(k) = 2
  BY DEF Cases, ScopesOf
<1>2. /\ Good(ctl, scopes, result, code, pc) /\ ctl \in Seq(Proper)
      /\ scopes \in Seq(SUBSET Items) /\ Top.k = k /\ Top = ctl[m + 1]
  BY <1>1, BackGood DEF Top
<1>3. Scoped(ctl, scopes, code, pc) /\ Apart(ctl, scopes, result, pc)
      /\ \A i, j \in 1..Len(scopes) : i # j => scopes[i] \cap scopes[j] = {}
  BY <1>2 DEF Good, Scoped
<1>4. PICK h \in Nat : h = Below(ctl, m + 1) /\ Len(scopes) = h + 2
  <2>1. Len(scopes) = Below(ctl, Len(ctl) + 1)
    BY <1>3 DEF Scoped
  <2>2. PICK n \in Nat \ {0} : n = m + 1
    OBVIOUS
  <2>3. Below(ctl, n + 1) = Below(ctl, n) + ScopesOf(ctl[n].k) /\ Below(ctl, n) \in Nat
    BY BelowNext, HeldFinite
  <2> QED
    BY <1>1, <1>2, <2>1, <2>2, <2>3
<1>5. scopes[h + 1] = {} /\ (~Flowing(code) => scopes[h + 2] = {})
  BY <1>1, <1>2, <1>3, <1>4 DEF Scoped
<1>6. Last(scopes) \subseteq Vars(scopes)
  <2>1. Len(scopes) > 0
    BY <1>4
  <2> QED
    BY <1>2, <1>3, <2>1, VarsPop DEF Last
<1>7. Kept(ctl) \cap Vars(scopes) = {}
  BY <1>2, <1>3, KeptApart
<1>8. JumpsTo(Top, CaseHeld, code.edges)
  <2>1. JumpsTo(ctl[m + 1], Base(ctl, scopes, m + 1), code.edges)
    BY <1>1, <1>2 DEF Good, Edged
  <2>2. PICK n : n = m + 1
    OBVIOUS
  <2>3. /\ n = Len(ctl) /\ n > 0 /\ Len(scopes) = Below(ctl, n + 1) /\ ScopesOf(ctl[n].k) = 2
        /\ scopes[Below(ctl, n) + 1] = {}
    BY <1>1, <1>2, <1>3, <1>4, <1>5, <2>2 DEF Scoped
  <2>4. Base(ctl, scopes, n) = (Vars(scopes) \ scopes[Len(scopes)]) \cup Kept(ctl)
    BY <1>2, <1>3, <2>3, BaseCase
  <2> QED
    BY <1>2, <2>1, <2>2, <2>4 DEF CaseHeld, Last
<1>9. Last(scopes) = scopes[h + 2]
  BY <1>4 DEF Last
<1> QED
  BY <1>3, <1>4, <1>5, <1>6, <1>7, <1>8, <1>9

\* The end of a case: one more branch to the end of the if, unless it returned.
LEMMA EndCaseEffect ==
    ASSUME EmitterInv, ~failed, NEW k \in Cases, Back(k), Top.end \in Blocks,
           NEW e, e = EndCase(code)
    PROVE  /\ e \in Code /\ e.cur = code.cur /\ e.loose = code.loose /\ e.open = {}
           /\ e.faults = {}
           /\ e.edges[Top.end] = code.edges[Top.end] \cup
                (IF Flowing(code) THEN {[from |-> code.cur, held |-> CaseHeld]} ELSE {})
           /\ \A x \in Blocks : x # Top.end => e.edges[x] = code.edges[x]
<1>1. k \in StmtKind /\ k # "func"
  BY DEF Cases, StmtKind
<1>2. Good(ctl, scopes, result, code, pc) /\ code \in Code /\ code.faults = {}
      /\ code.open \subseteq {code.cur} /\ pc \in {"done", "return"}
  BY <1>1, BackGood DEF Good, Laid
<1>3. PICK m \in Nat : Len(ctl) = m + 1
  BY <1>1, BackGood
<1>4. /\ Last(scopes) \subseteq Vars(scopes) /\ Kept(ctl) \cap Vars(scopes) = {}
      /\ ~Flowing(code) => Last(scopes) = {}
  BY <1>3, CaseBack
<1>5. PICK d : d = DestroyValue(code, result)
  OBVIOUS
<1>6. PICK f : f = IF pc = "return" THEN d ELSE Release(d, Last(scopes))
  OBVIOUS
<1>7. e = BranchTo(f, Top.end)
  BY <1>5, <1>6 DEF EndCase
<1>8. CASE Flowing(code)
  <2>1. /\ d \in Code /\ d.cur = code.cur /\ d.open = code.open /\ d.loose = code.loose
        /\ d.edges = code.edges /\ d.faults = {} /\ Flowing(d)
        /\ d.held = Vars(scopes) \cup Kept(ctl)
    BY <1>1, <1>5, <1>8, StmtDestroy
  <2>2. pc = "done"
    BY <1>1, <1>8, StmtBack
  <2>3. f = [d EXCEPT !.held = d.held \ Last(scopes)] /\ f \in Code /\ Flowing(f)
    <3>1. Last(scopes) \subseteq d.held
      BY <1>4, <2>1
    <3> QED
      BY <1>6, <2>1, <2>2, <3>1, FlowRelease
  <2>4. d.held \ Last(scopes) = CaseHeld
    BY <1>4, <2>1 DEF CaseHeld
  <2>5. /\ f.cur = code.cur /\ f.open = code.open /\ f.loose = code.loose
        /\ f.edges = code.edges /\ f.faults = {} /\ f.held = CaseHeld
    BY <2>1, <2>3, <2>4 DEF Code
  <2>6. PICK y \in Blocks : y = Top.end
    OBVIOUS
  <2>7. f \in Code /\ Flowing(f) /\ f.open \subseteq {f.cur} /\ e = BranchTo(f, y)
    BY <1>2, <1>7, <2>3, <2>5, <2>6
  <2>8. /\ e \in Code /\ e.cur = f.cur /\ e.loose = f.loose /\ e.open = {}
        /\ e.held = f.held /\ e.faults = f.faults
        /\ e.edges[y] = f.edges[y] \cup {[from |-> f.cur, held |-> f.held]}
        /\ \A x \in Blocks : x # y => e.edges[x] = f.edges[x]
    BY <2>7, BranchEffect
  <2> QED
    BY <1>8, <2>5, <2>6, <2>8
<1>9. CASE ~Flowing(code)
  <2>1. result.item = 0 /\ result.k \notin {"field", "self"}
    BY <1>1, <1>9, StmtBack
  <2>2. d = code
    BY <1>5, <2>1, NoRelease DEF DestroyValue
  <2>3. f = code
    BY <1>4, <1>6, <1>9, <2>2, NoRelease
  <2>4. e = code
    BY <1>7, <1>9, <2>3 DEF BranchTo, Flowing
  <2>5. code.open = {}
    BY <1>2, <1>9 DEF Flowing
  <2> QED
    BY <1>2, <1>9, <2>4, <2>5
<1> QED
  BY <1>8, <1>9

\* All that branch to the end of the if hold the same, its condition included.
AllHold(e, y, v, S) ==
    /\ y = Top.end /\ v = Top.v
    /\ e.open = {} /\ e.faults = {}
    /\ \A j \in e.edges[y] : j.held = S
    /\ Temp(v) \subseteq S /\ v.k \notin {"field", "self"}

\* The end of an if, to which all that branch hold the same.
LEMMA EndIfEffect ==
    ASSUME NEW e \in Code, NEW y \in Blocks, NEW S, NEW v, AllHold(e, y, v, S),
           Last(Outer(scopes)) = {}, NEW c, c = EndIf(e)
    PROVE  /\ c \in Code /\ c.loose = e.loose \ {y} /\ c.open \subseteq {c.cur}
           /\ c.cur \notin c.loose /\ c.faults = {} /\ c.edges[y] = {}
           /\ \A x \in Blocks : x # y => c.edges[x] = e.edges[x]
           /\ Flowing(c) => c.held = S \ Temp(v)
           /\ ~Flowing(c) => c.held = {} /\ c.cur = 0
<1> USE DEF AllHold
<1>1. CASE e.edges[y] # {}
  <2>1. PICK d : d = Insert(e, y)
    OBVIOUS
  <2>4. /\ d \in Code /\ Flowing(d) /\ d.cur = y /\ d.loose = e.loose \ {y}
        /\ d.open = e.open \cup {y} /\ d.held = S /\ d.faults = e.faults
        /\ d.edges[y] = {} /\ \A x \in Blocks : x # y => d.edges[x] = e.edges[x]
    BY <1>1, <2>1, InsertEffect
  <2>5. c = DestroyValue(d, v)
    BY <1>1, <2>1, NoRelease DEF EndIf
  <2>6. c = [d EXCEPT !.held = S \ Temp(v)] /\ c \in Code /\ Flowing(c)
    <3>2. d \in Code /\ Flowing(d) /\ Temp(v) \subseteq d.held /\ c = DestroyValue(d, v)
      BY <2>4, <2>5
    <3>3. c = [d EXCEPT !.held = d.held \ Temp(v)] /\ c \in Code /\ Flowing(c)
      BY <3>2, FlowDestroy
    <3> QED
      BY <2>4, <3>3
  <2>7. /\ c.cur = y /\ c.loose = d.loose /\ c.open = {y} /\ c.faults = {} /\ c.edges = d.edges
        /\ c.held = S \ Temp(v)
    BY <2>4, <2>6 DEF Code
  <2> QED
    BY <2>4, <2>6, <2>7
<1>2. CASE e.edges[y] = {}
  <2>1. c = Delete(e, y)
    BY <1>2 DEF EndIf
  <2>2. /\ c.cur = 0 /\ c.held = {} /\ c.open = {} /\ c.faults = {} /\ c.edges = e.edges
        /\ c.loose = e.loose \ {Top.end}
    BY <2>1 DEF Delete, Clear, Code
  <2>3. c \in Code
    BY <2>1, ClearType
  <2>4. 0 \notin e.loose
    BY NamesAssumption DEF Code
  <2>5. ~Flowing(c) /\ c.cur \notin c.loose /\ c.open \subseteq {c.cur}
    BY <2>2, <2>4 DEF Flowing
  <2> QED
    BY <1>2, <2>2, <2>3, <2>5
<1> QED
  BY <1>1, <1>2

\* The scopes that are left when the visitor of an if returns.
LEMMA IfScopes ==
    ASSUME NEW s \in Seq(SUBSET Items), NEW h \in Nat, Len(s) = h + 2, s[h + 1] = {},
           \A i, j \in 1..Len(s) : i # j => s[i] \cap s[j] = {}
    PROVE  /\ Outer(s) \in Seq(SUBSET Items) /\ Len(Outer(s)) = h + 1 /\ Last(Outer(s)) = {}
           /\ \A j \in 1..(h + 1) : Outer(s)[j] = s[j]
           /\ Vars(Outer(s)) = Vars(s) \ Last(s)
           /\ Outer(Outer(s)) \in Seq(SUBSET Items) /\ Len(Outer(Outer(s))) = h
           /\ \A j \in 1..h : Outer(Outer(s))[j] = s[j]
           /\ Vars(Outer(Outer(s))) = Vars(s) \ Last(s)
<1>1. PICK t : t = Outer(s)
  OBVIOUS
<1>2. Len(s) > 0 /\ Len(s) - 1 = h + 1
  OBVIOUS
<1>3. /\ t \in Seq(SUBSET Items) /\ Len(t) = h + 1 /\ \A j \in 1..(h + 1) : t[j] = s[j]
  BY <1>1, <1>2, OuterFacts
<1>4. Vars(t) = Vars(s) \ Last(s)
  BY <1>1, <1>2, VarsPop DEF Last
<1>5. t[h + 1] = {} /\ Last(t) = {}
  <2>1. h + 1 \in 1..(h + 1)
    OBVIOUS
  <2>2. t[h + 1] = {}
    BY <1>3, <2>1
  <2> QED
    BY <1>3, <2>2 DEF Last
<1>6. PICK u : u = Outer(t)
  OBVIOUS
<1>7. Len(t) > 0 /\ Len(t) - 1 = h
  BY <1>3
<1>8. /\ u \in Seq(SUBSET Items) /\ Len(u) = h /\ \A j \in 1..h : u[j] = t[j]
  BY <1>3, <1>6, <1>7, OuterFacts
<1>9. Vars(u) = Vars(t)
  <2>1. \A i, j \in 1..Len(t) : i # j => t[i] \cap t[j] = {}
    <3>1. \A i \in 1..Len(t) : i \in 1..Len(s) /\ t[i] = s[i]
      BY <1>3
    <3> QED
      BY <3>1
  <2>2. Vars(u) = Vars(t) \ t[Len(t)]
    BY <1>3, <1>6, <1>7, <2>1, VarsPop
  <2>3. t[Len(t)] = {}
    BY <1>5 DEF Last
  <2> QED
    BY <2>2, <2>3
<1>10. \A j \in 1..h : u[j] = s[j]
  <2>1. \A j \in 1..h : j \in 1..(h + 1)
    OBVIOUS
  <2> QED
    BY <1>3, <1>8, <2>1
<1> QED
  BY <1>1, <1>3, <1>4, <1>5, <1>6, <1>8, <1>9, <1>10

LEMMA IfEnds ==
    ASSUME EmitterInv, ~failed, NEW k \in Cases, Back(k), AwaitedBy(Top) = {Top.end},
           NEW c, c = EndIf(EndCase(code))
    PROVE  Good(Outer(ctl), Outer(Outer(scopes)), NoValue, c, "done")
<1>1. k \in StmtKind /\ k # "func" /\ k \in OnStmt /\ k # "ret" /\ k \notin {"unary", "blhs", "brhs"}
  BY DEF Cases, StmtKind, OnStmt
<1>2. /\ Good(ctl, scopes, result, code, pc) /\ ctl \in Seq(Proper)
      /\ scopes \in Seq(SUBSET Items) /\ code \in Code /\ Top.k = k /\ Fit(Top) /\ Top \in Proper
  BY <1>1, BackGood
<1>3. PICK m \in Nat : Len(ctl) = m + 1 /\ m # 0 /\ Top = ctl[m + 1] /\ Stands(ctl, m + 1)
                       /\ TopItems(ctl, m) = OwnedBy(Top) /\ TopKept(ctl, m) = Temp(Top.v)
                       /\ TopBlocks(ctl, m) = AwaitedBy(Top)
  BY <1>1, BackGood
<1>4. Top.end \in Blocks /\ Top.v.k \notin {"field", "self"}
  <2>1. Top.end # 0 /\ Suits(Top.v, "int")
    BY <1>2 DEF Fit, Cases
  <2> QED
    BY <1>2, <2>1, SuitsInt DEF Proper, Activation
<1>5. PICK h \in Nat : h = Below(ctl, m + 1) /\ Len(scopes) = h + 2 /\ scopes[h + 1] = {}
  BY <1>3, CaseBack
<1>6. /\ JumpsTo(Top, CaseHeld, code.edges)
      /\ Kept(ctl) \cap Vars(scopes) = {}
      /\ \A i, j \in 1..Len(scopes) : i # j => scopes[i] \cap scopes[j] = {}
  BY <1>3, CaseBack
<1>7. \A j \in code.edges[Top.end] : j.held = CaseHeld
  <2>1. Top.k = "ifthen" => Top.el = 0
    <3>1. Top.k = "ifthen" => AwaitedBy(Top) = {Top.el, Top.end} \ {0} /\ Top.el # Top.end
      BY <1>2 DEF AwaitedBy, Fit
    <3> QED
      BY <3>1
  <2>2. Top.k = "ifthen" => OneJump(code.edges[Top.end], CaseHeld)
    BY <1>6, <2>1 DEF JumpsTo
  <2>3. Top.k = "ifelse" => \A j \in code.edges[Top.end] : j.held = CaseHeld
    BY <1>6 DEF JumpsTo
  <2> QED
    BY <1>2, <2>2, <2>3 DEF OneJump, Cases
<1>8. PICK e : e = EndCase(code)
  OBVIOUS
<1>9. /\ e \in Code /\ e.cur = code.cur /\ e.loose = code.loose /\ e.open = {}
      /\ e.faults = {}
      /\ e.edges[Top.end] = code.edges[Top.end] \cup
           (IF Flowing(code) THEN {[from |-> code.cur, held |-> CaseHeld]} ELSE {})
      /\ \A x \in Blocks : x # Top.end => e.edges[x] = code.edges[x]
  BY <1>4, <1>8, EndCaseEffect
<1>10. \A j \in e.edges[Top.end] : j.held = CaseHeld
  BY <1>7, <1>9
<1>11. /\ Outer(Outer(scopes)) \in Seq(SUBSET Items) /\ Len(Outer(Outer(scopes))) = h
       /\ \A j \in 1..h : Outer(Outer(scopes))[j] = scopes[j] /\ Last(Outer(scopes)) = {}
       /\ Vars(Outer(Outer(scopes))) = Vars(scopes) \ Last(scopes)
       /\ Last(Outer(scopes)) = {}
  BY <1>2, <1>5, <1>6, IfScopes
<1>12. Temp(Top.v) \subseteq CaseHeld /\ Temp(Top.v) \subseteq Kept(ctl)
       /\ Temp(Top.v) \cap Vars(scopes) = {}
  BY <1>1, StmtBack DEF CaseHeld
<1>13. /\ c \in Code /\ c.loose = e.loose \ {Top.end} /\ c.open \subseteq {c.cur}
       /\ c.cur \notin c.loose /\ c.faults = {} /\ c.edges[Top.end] = {}
       /\ \A x \in Blocks : x # Top.end => c.edges[x] = e.edges[x]
       /\ Flowing(c) => c.held = CaseHeld \ Temp(Top.v)
       /\ ~Flowing(c) => c.held = {} /\ c.cur = 0
  <2>1. PICK S : S = CaseHeld
    OBVIOUS
  <2>2. PICK y \in Blocks : y = Top.end
    BY <1>4
  <2>6. PICK v : v = Top.v
    OBVIOUS
  <2>3. PICK g \in Code : g = e
    BY <1>9
  <2>4. AllHold(g, y, v, S) /\ Last(Outer(scopes)) = {} /\ c = EndIf(g)
    BY <1>4, <1>8, <1>9, <1>10, <1>11, <1>12, <2>1, <2>2, <2>3, <2>6 DEF AllHold
  <2>5. /\ c \in Code /\ c.loose = g.loose \ {y} /\ c.open \subseteq {c.cur}
        /\ c.cur \notin c.loose /\ c.faults = {} /\ c.edges[y] = {}
        /\ \A x \in Blocks : x # y => c.edges[x] = g.edges[x]
        /\ Flowing(c) => c.held = S \ Temp(v)
        /\ ~Flowing(c) => c.held = {} /\ c.cur = 0
    BY <2>4, EndIfEffect
  <2> QED
    BY <2>1, <2>2, <2>3, <2>5, <2>6
<1>14. \A i \in 1..m : ctl[i].k # "lrhs"
  BY <1>1, <1>2, <1>3, NoRhsBelow
<1>15. ctl[m].k \in StmtKind /\ ctl[m].k \notin ExprKind /\ ctl[m].k \notin {"lrhs", "func"}
  <2>1. m \in 1..((m + 1) - 1) /\ m \in 1..Len(ctl)
    BY <1>3
  <2>2. ctl[m].k \in StmtKind
    BY <1>1, <1>2, <1>3, <2>1 DEF Stands
  <2>3. ctl[m].k # "func"
    <3>1. ctl[m].k = "func" => m = 1
      BY <1>2, <2>1 DEF Good, Nested, Stands
    <3>2. m = 1 => ctl[m + 1].k = "block"
      BY <1>3 DEF Stands
    <3> QED
      BY <1>2, <1>3, <3>1, <3>2 DEF Cases
  <2> QED
    BY <2>2, <2>3 DEF StmtKind, ExprKind
<1>16. Rebuilt(ctl, Outer(ctl), m, code, c)
  <2>1. Len(Outer(ctl)) = m
    BY <1>2, <1>3, OuterFacts
  <2>2. TopBlocks(Outer(ctl), m) = {} /\ TopBlocks(ctl, m) = {Top.end} /\ Len(Outer(ctl)) # m + 1
    BY <1>3, <2>1 DEF TopBlocks
  <2> QED
    BY <1>9, <1>13, <1>14, <2>2 DEF Rebuilt
<1>17. Flowing(c) => c.held = Vars(Outer(Outer(scopes))) \cup (Kept(ctl) \ TopKept(ctl, m))
                              \cup ({NoValue.item} \ {0})
  BY <1>3, <1>11, <1>12, <1>13, PlainValues DEF CaseHeld
<1>18. PICK sc \in Seq(SUBSET Items) : sc = Outer(Outer(scopes))
  BY <1>11
<1>19. Len(sc) = Below(ctl, m + 1) /\ \A j \in 1..Len(sc) : sc[j] = scopes[j]
  BY <1>5, <1>11, <1>18
<1>20. Flowing(c) =>
         c.held = Vars(sc) \cup (Kept(ctl) \ TopKept(ctl, m)) \cup ({NoValue.item} \ {0})
  BY <1>17, <1>18
<1>21. Good(Outer(ctl), sc, NoValue, c, "done")
  BY <1>2, <1>3, <1>13, <1>15, <1>16, <1>19, <1>20, PlainValues, LeaveGood
<1> QED
  BY <1>18, <1>21

LEMMA IfElseStep ==
    ASSUME EmitterInv, IfElse
    PROVE  Goods'
<1> SUFFICES ASSUME ~failed'
             PROVE  Good(ctl', scopes', result', code', pc')
  BY DEF Goods
<1>1. ~failed /\ ~Diagnose
  BY StillGood DEF Statement, Next
<1>2. Back("ifelse") /\ "ifelse" \in Cases /\ "ifelse" # "func"
  BY DEF IfElse, Cases
<1>3. AwaitedBy(Top) = {Top.end}
  BY <1>1, <1>2, BackGood DEF AwaitedBy
<1>4. Good(Outer(ctl), Outer(Outer(scopes)), NoValue, EndIf(EndCase(code)), "done")
  BY <1>1, <1>2, <1>3, IfEnds
<1>5. /\ ctl' = Outer(ctl) /\ scopes' = Outer(Outer(scopes)) /\ result' = NoValue
      /\ code' = EndIf(EndCase(code)) /\ pc' = "done"
  BY DEF IfElse, Leave
<1> QED
  BY <1>4, <1>5

LEMMA IfThenStep ==
    ASSUME EmitterInv, IfThen
    PROVE  Goods'
<1> SUFFICES ASSUME ~failed'
             PROVE  Good(ctl', scopes', result', code', pc')
  BY DEF Goods
<1>1. ~failed /\ ~Diagnose
  BY StillGood DEF Statement, Next
<1> USE <1>1
<1>2. Back("ifthen") /\ "ifthen" \in Cases /\ "ifthen" \in StmtKind /\ "ifthen" # "func"
  BY DEF IfThen, Cases, StmtKind
<1>3. /\ Good(ctl, scopes, result, code, pc) /\ ctl \in Seq(Proper)
      /\ scopes \in Seq(SUBSET Items) /\ code \in Code /\ result \in Value
      /\ code.faults = {} /\ Top.k = "ifthen" /\ Top \in Proper /\ Fit(Top)
  BY <1>2, BackGood
<1>4. PICK m \in Nat : Len(ctl) = m + 1 /\ m # 0 /\ Top = ctl[m + 1] /\ Stands(ctl, m + 1)
                       /\ TopItems(ctl, m) = OwnedBy(Top) /\ TopKept(ctl, m) = Temp(Top.v)
                       /\ TopBlocks(ctl, m) = AwaitedBy(Top)
  BY <1>2, BackGood
<1>5. /\ Top.end # 0 /\ Top.end \in Blocks /\ Top.el # Top.end /\ Top.p = 0 /\ WellFormed(Top.v)
      /\ Suits(Top.v, "int") /\ ~Top.flag /\ Top.el \in Blocks \cup {0}
      /\ Top.want \in {"int", "obj", "any"}
  <2>1. /\ Top.end # 0 /\ Top.el # Top.end /\ Top.p = 0 /\ WellFormed(Top.v)
        /\ Suits(Top.v, "int") /\ ~Top.flag /\ Top.want \in {"int", "obj", "any"}
    BY <1>3 DEF Fit, Cases
  <2> QED
    BY <1>3, <2>1 DEF Proper, Activation
<1>6. CASE Top.el = 0
  <2>1. AwaitedBy(Top) = {Top.end}
    BY <1>3, <1>5, <1>6 DEF AwaitedBy
  <2>2. Good(Outer(ctl), Outer(Outer(scopes)), NoValue, EndIf(EndCase(code)), "done")
    BY <1>2, <2>1, IfEnds
  <2>3. /\ ctl' = Outer(ctl) /\ scopes' = Outer(Outer(scopes)) /\ result' = NoValue
        /\ code' = EndIf(EndCase(code)) /\ pc' = "done"
    BY <1>6 DEF IfThen, Leave
  <2> QED
    BY <2>2, <2>3
<1>7. CASE Top.el # 0
  <2>1. Top.el \in Blocks /\ AwaitedBy(Top) = {Top.el, Top.end}
    BY <1>3, <1>5, <1>7 DEF AwaitedBy
  <2>2. PICK h \in Nat : h = Below(ctl, m + 1) /\ Len(scopes) = h + 2 /\ scopes[h + 1] = {}
    BY <1>2, <1>4, CaseBack
  <2>3. /\ JumpsTo(Top, CaseHeld, code.edges) /\ Kept(ctl) \cap Vars(scopes) = {}
        /\ \A i, j \in 1..Len(scopes) : i # j => scopes[i] \cap scopes[j] = {}
    BY <1>2, <1>4, CaseBack
  <2>4. OneJump(code.edges[Top.el], CaseHeld) /\ code.edges[Top.end] = {}
    BY <1>3, <1>7, <2>3 DEF JumpsTo
  <2>5. PICK e : e = EndCase(code)
    OBVIOUS
  <2>6. /\ e \in Code /\ e.cur = code.cur /\ e.loose = code.loose /\ e.open = {}
        /\ e.faults = {}
        /\ e.edges[Top.end] = code.edges[Top.end] \cup
             (IF Flowing(code) THEN {[from |-> code.cur, held |-> CaseHeld]} ELSE {})
        /\ \A x \in Blocks : x # Top.end => e.edges[x] = code.edges[x]
    BY <1>2, <1>5, <2>5, EndCaseEffect
  <2>7. PICK c : c = Insert(e, Top.el)
    OBVIOUS
  <2>8. /\ c \in Code /\ Flowing(c) /\ c.cur = Top.el /\ c.loose = code.loose \ {Top.el}
        /\ c.open = {Top.el} /\ c.held = CaseHeld /\ c.faults = {} /\ c.edges[Top.el] = {}
        /\ \A x \in Blocks : x # Top.el => c.edges[x] = e.edges[x]
    <3>7. PICK S : S = CaseHeld
      OBVIOUS
    <3>8. PICK y \in Blocks : y = Top.el
      BY <2>1
    <3>1. y = Top.el /\ S = CaseHeld
      BY <3>7, <3>8
    <3>4. PICK D : D = e.edges[y]
      OBVIOUS
    <3>5. OneJump(D, S)
      <4>1. y # Top.end
        BY <1>5, <3>1
      <4>2. e.edges[y] = code.edges[y]
        BY <2>6, <4>1
      <4> QED
        BY <2>4, <3>1, <3>4, <4>2
    <3>6. D # {} /\ \A j \in D : j.held = S
      BY <3>5 DEF OneJump
    <3>2. e.edges[y] # {} /\ (\A j \in e.edges[y] : j.held = S) /\ c = Insert(e, y)
      BY <2>7, <3>1, <3>4, <3>6
    <3>3. /\ c \in Code /\ Flowing(c) /\ c.cur = y /\ c.loose = e.loose \ {y}
          /\ c.open = e.open \cup {y} /\ c.held = S /\ c.faults = e.faults
          /\ c.edges[y] = {} /\ \A x \in Blocks : x # y => c.edges[x] = e.edges[x]
      <4>1. PICK g \in Code : g = e
        BY <2>6
      <4>2. g.edges[y] # {} /\ (\A j \in g.edges[y] : j.held = S) /\ c = Insert(g, y)
        BY <3>2, <4>1
      <4>3. /\ c \in Code /\ Flowing(c) /\ c.cur = y /\ c.loose = g.loose \ {y}
            /\ c.open = g.open \cup {y} /\ c.held = S /\ c.faults = g.faults
            /\ c.edges[y] = {} /\ \A x \in Blocks : x # y => c.edges[x] = g.edges[x]
        BY <4>2, InsertEffect
      <4> QED
        BY <4>1, <4>3
    <3> QED
      BY <2>6, <3>1, <3>3
  <2>9. PICK a : a = [Top EXCEPT !.k = "ifelse", !.el = 0]
    OBVIOUS
  <2>10. /\ a \in Proper /\ a.k = "ifelse" /\ a.v = Top.v /\ a.p = 0 /\ a.el = 0
         /\ a.end = Top.end /\ ~a.flag /\ a.want = Top.want
    BY <1>3, <1>5, <2>9 DEF Proper, Activation, StmtKind
  <2>11. Fit(a)
    BY <1>5, <2>10 DEF Fit, Cases, IntOp
  <2>12. PICK ct : ct = Become(a)
    OBVIOUS
  <2>13. Turns(ctl, ct, m, a) /\ \A i \in 1..m : ct[i] = ctl[i]
    BY <1>3, <1>4, <2>10, <2>12, BecomeTurns
  <2>14. ct[m + 1] = a /\ Len(ct) = m + 1 /\ Shares(ctl, ct, m) /\ ct \in Seq(Proper)
    BY <2>13 DEF Turns, Shares
  <2>15. Stands(ct, m + 1)
    <3>1. ctl[m + 1].k = "ifthen"
      BY <1>3, <1>4
    <3> QED
      BY <1>4, <2>10, <2>13, <2>14, <3>1, StandsNext DEF OnStmt, IntOp
  <2>16. PICK t : t = Outer(scopes)
    OBVIOUS
  <2>17. /\ t \in Seq(SUBSET Items) /\ Len(t) = h + 1 /\ \A j \in 1..(h + 1) : t[j] = scopes[j]
         /\ Vars(t) = Vars(scopes) \ Last(scopes)
    BY <1>3, <2>2, <2>3, <2>16, IfScopes
  <2>18. PICK sc : sc = Append(t, {})
    OBVIOUS
  <2>19. /\ sc \in Seq(SUBSET Items) /\ Len(sc) = h + 2 /\ sc[h + 2] = {} /\ sc[h + 1] = {}
         /\ \A j \in 1..(h + 1) : sc[j] = scopes[j]
    <3>1. {} \in SUBSET Items
      OBVIOUS
    <3>2. /\ sc \in Seq(SUBSET Items) /\ Len(sc) = Len(t) + 1 /\ sc[Len(t) + 1] = {}
          /\ \A j \in 1..Len(t) : sc[j] = t[j]
      BY <2>17, <2>18, <3>1, PushFacts
    <3>3. (h + 1) + 1 = h + 2 /\ h + 1 \in 1..(h + 1)
      OBVIOUS
    <3> QED
      BY <2>2, <2>17, <3>2, <3>3
  <2>20. Vars(sc) = Vars(scopes) \ Last(scopes)
    BY <2>17, <2>18, VarsPush
  <2>21. Rescoped(scopes, sc, Below(ctl, m + 1), a.k)
    <3>1. \A j \in (h + 1)..(h + 2) : j = h + 1 \/ j = h + 2
      OBVIOUS
    <3>2. \A j \in 1..h : j \in 1..(h + 1)
      OBVIOUS
    <3>3. ScopesOf(a.k) = 2
      BY <2>10 DEF ScopesOf
    <3> QED
      BY <2>2, <2>19, <3>1, <3>2, <3>3 DEF Rescoped
  <2>22. Base(ct, sc, m + 1) = CaseHeld /\ TopKept(ct, m) = Temp(Top.v)
    <3>1. PICK n \in Nat \ {0} : n = m + 1
      BY <1>4
    <3>2. Below(ct, m + 1) = h
      <4>1. m + 1 \in 1..(m + 1)
        BY <1>4
      <4> QED
        BY <2>2, <2>14, <4>1, SharesBelow
    <3>3. Below(ct, n + 1) = Below(ct, n) + ScopesOf(ct[n].k) /\ ScopesOf(ct[n].k) = 2
      BY <2>10, <2>14, <3>1, BelowNext DEF ScopesOf
    <3>4. \A i, j \in 1..Len(sc) : i # j => sc[i] \cap sc[j] = {}
      <4>1. \A i \in 1..Len(sc) : (i \in 1..(h + 1) /\ i \in 1..Len(scopes)) \/ i = h + 2
        BY <2>2, <2>19
      <4> QED
        BY <2>3, <2>19, <4>1
    <3>5. /\ n = Len(ct) /\ n > 0 /\ Len(sc) = Below(ct, n + 1) /\ sc[Below(ct, n) + 1] = {}
      BY <2>14, <2>19, <3>1, <3>2, <3>3
    <3>6. Base(ct, sc, n) = (Vars(sc) \ sc[Len(sc)]) \cup Kept(ct)
      BY <2>14, <2>19, <3>3, <3>4, <3>5, BaseCase
    <3>7. Kept(ct) = (Kept(ctl) \ TopKept(ctl, m)) \cup TopKept(ct, m)
      BY <1>3, <2>14, KeptStep DEF Good
    <3>8. TopKept(ct, m) = Temp(Top.v)
      <4>1. m < Len(ct)
        BY <1>4, <2>14
      <4> QED
        BY <2>10, <2>14, <4>1 DEF TopKept, Temp
    <3>9. Temp(Top.v) \subseteq Kept(ctl)
      BY <1>2, StmtBack
    <3> QED
      BY <1>4, <2>19, <2>20, <3>1, <3>6, <3>7, <3>8, <3>9 DEF CaseHeld
  <2>23. JumpsTo(a, CaseHeld, c.edges)
    <3>1. c.edges[Top.end] = e.edges[Top.end]
      BY <1>5, <2>8
    <3>2. \A j \in c.edges[Top.end] : j.held = CaseHeld
      BY <2>4, <2>6, <3>1
    <3> QED
      BY <2>10, <3>2 DEF JumpsTo
  <2>24. Rebuilt(ctl, ct, m, code, c)
    <3>1. TopBlocks(ctl, m) = {Top.el, Top.end} /\ TopBlocks(ct, m) = {Top.end}
      <4>1. m < Len(ct)
        BY <1>4, <2>14
      <4> QED
        BY <1>4, <2>1, <2>10, <2>14, <4>1 DEF TopBlocks, AwaitedBy
    <3>2. Top.end \in code.loose
      <4>1. m + 1 \in 1..Len(ctl) /\ Laid(ctl, code)
        BY <1>3, <1>4 DEF Good
      <4> QED
        BY <1>4, <2>1, <4>1 DEF Laid
    <3>3. c.loose = (code.loose \ TopBlocks(ctl, m)) \cup TopBlocks(ct, m)
      BY <1>5, <2>8, <3>1, <3>2
    <3>4. \A i \in 1..m : ctl[i].k # "lrhs"
      BY <1>3, <1>4, NoRhsBelow
    <3>5. c.cur \notin c.loose /\ c.open \subseteq {c.cur}
      BY <2>8
    <3>6. \A b \in Blocks : /\ b \notin TopBlocks(ctl, m) \cup TopBlocks(ct, m)
                                 => c.edges[b] = code.edges[b]
                            /\ b \in TopBlocks(ctl, m) \ TopBlocks(ct, m) => c.edges[b] = {}
      BY <2>6, <2>8, <3>1
    <3> QED
      BY <2>10, <2>14, <3>1, <3>3, <3>4, <3>5, <3>6 DEF Rebuilt
  <2>25. c.held = Vars(sc) \cup (Kept(ctl) \ TopKept(ctl, m)) \cup Temp(a.v)
    <3>1. Temp(Top.v) \subseteq Kept(ctl)
      BY <1>2, StmtBack
    <3> QED
      BY <1>4, <2>8, <2>10, <2>20, <3>1 DEF CaseHeld
  <2>26. OwnedBy(a) \subseteq TopItems(ctl, m) \cup Fresh(result, pc)
         /\ (a.v.item # 0 => a.v.item # a.p)
    BY <1>4, <2>10 DEF OwnedBy
  <2>27. Proceeds(ctl, scopes, result, code, pc, ct, sc, c, m, a)
    <3>1. JumpsTo(a, Base(ct, sc, m + 1), c.edges)
      BY <2>22, <2>23
    <3> QED
      BY <1>3, <2>8, <2>10, <2>11, <2>13, <2>15, <2>19, <2>21, <2>24, <2>25, <2>26, <3>1
         DEF Proceeds
  <2>28. Good(ct, sc, result, c, "visit")
    BY <1>2, <2>27, StmtBack, NextGood
  <2>29. ctl' = ct /\ code' = c /\ scopes' = sc /\ result' = result /\ pc' = "visit"
    BY <1>7, <2>5, <2>7, <2>9, <2>12, <2>16, <2>18 DEF IfThen
  <2> QED
    BY <2>28, <2>29
<1> QED
  BY <1>6, <1>7
-----------------------------------------------------------------------------
(* Functions *)

LEMMA BeginFunctionStep ==
    ASSUME EmitterInv, BeginFunction
    PROVE  Goods'
<1> SUFFICES ASSUME ~failed'
             PROVE  Good(ctl', scopes', result', code', pc')
  BY DEF Goods
<1>1. ~failed /\ code \in Code /\ code.faults = {} /\ result \in Value
  BY DEF BeginFunction, EmitterInv, TypeInv, Going
<1>2. PICK params \in {{}, {Least(Items)}}, void \in BOOLEAN :
        /\ scopes' = <<params, {}>>
        /\ ctl' = <<[Act("func", "any") EXCEPT !.flag = void], Act("block", "any")>>
        /\ code' = [code EXCEPT !.cur = 1, !.open = {1}, !.loose = {}, !.held = params,
                                !.edges = [b \in Blocks |-> {}], !.alloca = (params # {})]
  BY DEF BeginFunction
<1>3. params \subseteq Items
  BY <1>2, LeastItem
<1>4. PICK f, b : f = [Act("func", "any") EXCEPT !.flag = void] /\ b = Act("block", "any")
  OBVIOUS
<1>5. /\ f.k = "func" /\ f.v = NoValue /\ f.p = 0 /\ f.el = 0 /\ f.end = 0 /\ f.want = "any"
      /\ b.k = "block" /\ b.v = NoValue /\ b.p = 0 /\ b.el = 0 /\ b.end = 0 /\ b.want = "any"
      /\ b.flag = FALSE /\ f \in Proper /\ b \in Proper
  <2>1. "func" \in StmtKind /\ "block" \in StmtKind /\ "any" \in Want
    BY DEF StmtKind, Want
  <2>2. /\ Act("func", "any") \in Activation /\ Act("func", "any").k = "func"
        /\ Act("func", "any").want = "any" /\ Act("func", "any").v = NoValue
        /\ Act("func", "any").p = 0 /\ Act("func", "any").el = 0 /\ Act("func", "any").end = 0
    BY <2>1, ActType
  <2>3. /\ b.k = "block" /\ b.want = "any" /\ b.v = NoValue /\ b.p = 0 /\ b.el = 0
        /\ b.end = 0 /\ b.flag = FALSE
    BY <1>4, <2>1, ActType
  <2>4. f \in Proper /\ b \in Proper
    BY <1>2, <1>4, ProperActs
  <2>5. /\ f.k = "func" /\ f.want = "any" /\ f.v = NoValue /\ f.p = 0 /\ f.el = 0 /\ f.end = 0
    BY <1>4, <2>2 DEF Activation
  <2> QED
    BY <2>3, <2>4, <2>5
<1>6. NoValue.item = 0 /\ WellFormed(NoValue)
  BY DEF NoValue, Val, WellFormed
<1>7. PICK ct : ct = ctl'
  OBVIOUS
<1>8. /\ ct = <<f, b>> /\ ct \in Seq(Proper) /\ Len(ct) = 2 /\ ct[1] = f /\ ct[2] = b /\ ct # <<>>
      /\ \A i \in 1..Len(ct) : i = 1 \/ i = 2
      /\ \A i \in 1..Len(ct) : ct[i].v = NoValue /\ ct[i].p = 0 /\ ct[i].k \in {"func", "block"}
  <2>1. ct = <<f, b>>
    BY <1>2, <1>4, <1>7
  <2>2. /\ ct \in Seq(Proper) /\ Len(ct) = 2 /\ ct[1] = f /\ ct[2] = b /\ ct # <<>>
    BY <1>5, <2>1
  <2>3. \A i \in 1..2 : i = 1 \/ i = 2
    OBVIOUS
  <2> QED
    BY <1>5, <2>1, <2>2, <2>3
<1>9. PICK sc : sc = scopes'
  OBVIOUS
<1>10. sc = <<params, {}>> /\ Len(sc) = 2 /\ sc[1] = params /\ sc[2] = {}
       /\ \A i \in 1..Len(sc) : i = 1 \/ i = 2
  BY <1>2, <1>9
<1>11. Vars(sc) = params
  <2>1. 1 \in 1..Len(sc)
    BY <1>10
  <2> QED
    BY <1>10, <2>1 DEF Vars
<1>12. PICK c : c = code'
  OBVIOUS
<1>13. /\ c.cur = 1 /\ c.open = {1} /\ c.loose = {} /\ c.held = params /\ c.faults = {}
       /\ \A x \in Blocks : c.edges[x] = {}
  BY <1>1, <1>2, <1>12 DEF Code
<1>14. \A i \in 1..Len(ct) : OwnedBy(ct[i]) = {} /\ AwaitedBy(ct[i]) = {}
  BY <1>6, <1>8 DEF OwnedBy, AwaitedBy
<1>15. Nested(ct, "visit")
  <2>1. \A j \in 1..Len(ct) : Fit(ct[j])
    <3>1. Fit(f) /\ Fit(b)
      BY <1>5, <1>6 DEF Fit, Cases, IntOp
    <3> QED
      BY <1>8, <3>1
  <2>2. Stands(ct, 1)
    BY <1>5, <1>8 DEF Stands, IntOp, OnStmt
  <2>3. Stands(ct, 2)
    <3>1. \A i \in 1..(2 - 1) : i = 1
      OBVIOUS
    <3>2. f.k \in StmtKind
      BY <1>5 DEF StmtKind
    <3> QED
      BY <1>5, <1>8, <3>1, <3>2 DEF Stands, IntOp
  <2>4. \A j \in 2..Len(ct) : ~ct[j].flag
    <3>1. \A j \in 2..2 : j = 2
      OBVIOUS
    <3> QED
      BY <1>5, <1>8, <3>1
  <2> QED
    BY <1>8, <2>1, <2>2, <2>3, <2>4 DEF Nested
<1>16. Scoped(ct, sc, c, "visit")
  <2>1. Below(ct, 1 + 1) = Below(ct, 1) + ScopesOf(ct[1].k) /\ Below(ct, 1) = 0
    BY BelowNext, BelowOne
  <2>2. Below(ct, 2 + 1) = Below(ct, 2) + ScopesOf(ct[2].k)
    BY BelowNext
  <2>3. ScopesOf(ct[1].k) = 1 /\ ScopesOf(ct[2].k) = 1
    BY <1>5, <1>8 DEF ScopesOf
  <2>4. Len(sc) = Below(ct, Len(ct) + 1)
    BY <1>8, <1>10, <2>1, <2>2, <2>3
  <2>5. \A i \in 1..Len(ct) : ct[i].k \notin Cases \cup {"ifcond"}
    BY <1>8 DEF Cases
  <2> QED
    BY <1>10, <2>4, <2>5 DEF Scoped
<1>17. Apart(ct, sc, result, "visit")
  BY <1>6, <1>8, <1>14 DEF Apart
<1>18. Laid(ct, c)
  <2>1. UNION {AwaitedBy(ct[i]) : i \in 1..Len(ct)} = {}
    BY <1>14
  <2> QED
    BY <1>8, <1>13, <1>14, <2>1 DEF Laid
<1>19. Edged(ct, sc, c)
  BY <1>8 DEF Edged, JumpsTo
<1>20. Matched(ct, sc, result, c, "visit") /\ Flowing(c)
  <2>1. Kept(ct) = {}
    BY <1>6, <1>8 DEF Kept
  <2> QED
    BY <1>11, <1>13, <2>1 DEF Matched, Fresh, Flowing
<1>21. Flows(ct, result, c, "visit")
  BY <1>5, <1>8, <1>20 DEF Flows
<1>22. Found(ct, result, "visit")
  <2>1. Nested(ctl, "top") /\ Found(ctl, result, "top")
    BY DEF BeginFunction, EmitterInv, Goods, Good, Going
  <2>2. result.k \notin {"field", "self"}
    BY <2>1 DEF Nested, Found
  <2> QED
    BY <2>2 DEF Found
<1>23. result' = result /\ pc' = "visit"
  BY DEF BeginFunction
<1> QED
  BY <1>7, <1>9, <1>12, <1>13, <1>15, <1>16, <1>17, <1>18, <1>19, <1>20, <1>21, <1>22, <1>23
     DEF Good

\* No function is begun inside another, and none leaves a scope entered.
LEMMA BeginAssertStep ==
    ASSUME EmitterInv, BeginFunctionAssert
    PROVE  Goods'
<1> SUFFICES ASSUME ~failed'
             PROVE  FALSE
  BY DEF Goods
<1>1. ~failed /\ pc = "top" /\ scopes # <<>>
  BY DEF BeginFunctionAssert
<1>2. Nested(ctl, pc) /\ Scoped(ctl, scopes, code, pc) /\ scopes \in Seq(SUBSET Items)
  BY <1>1 DEF EmitterInv, TypeInv, Good
<1>3. ctl = <<>>
  BY <1>1, <1>2 DEF Nested
<1>4. Len(scopes) = Below(ctl, 0 + 1)
  BY <1>2, <1>3 DEF Scoped
<1>5. Len(scopes) = 0
  BY <1>4, BelowOne
<1> QED
  BY <1>1, <1>2, <1>5
\* Between two functions nothing is open and nothing is held.
LEMMA TopGood ==
    ASSUME NEW c \in Code, c.cur = 0, c.open = {}, c.loose = {}, c.held = {}, c.faults = {},
           \A b \in Blocks : c.edges[b] = {}
    PROVE  Good(<<>>, <<>>, NoValue, c, "top")
<1>1. PICK e : e = <<>> /\ Len(e) = 0
  OBVIOUS
<1>2. 1..Len(e) = {} /\ 2..Len(e) = {}
  BY <1>1
<1>3. Nested(e, "top")
  BY <1>1, <1>2 DEF Nested
<1>4. Scoped(e, e, c, "top")
  <2>1. Below(e, Len(e) + 1) = 0
    BY <1>1, BelowOne
  <2> QED
    BY <1>1, <1>2, <2>1 DEF Scoped
<1>5. Apart(e, e, NoValue, "top")
  BY <1>2 DEF Apart
<1>6. Laid(e, c)
  <2>1. UNION {AwaitedBy(e[i]) : i \in 1..Len(e)} = {}
    BY <1>2
  <2> QED
    BY <1>2, <2>1 DEF Laid
<1>7. Edged(e, e, c)
  BY <1>2 DEF Edged
<1>8. ~Flowing(c)
  BY DEF Flowing
<1>9. Matched(e, e, NoValue, c, "top")
  BY <1>8 DEF Matched
<1>10. Flows(e, NoValue, c, "top") /\ Found(e, NoValue, "top")
  BY <1>8, PlainValues DEF Flows, Found
<1> QED
  BY <1>1, <1>3, <1>4, <1>5, <1>6, <1>7, <1>9, <1>10 DEF Good

\* What is below a function, and what a function leaves when its body is done.
LEMMA FunctionBack ==
    ASSUME EmitterInv, ~failed, Back("func")
    PROVE  /\ ctl \in Seq(Proper) /\ scopes \in Seq(SUBSET Items) /\ code \in Code
           /\ pc = "done" /\ Len(scopes) = 1 /\ code.faults = {}
           /\ code.loose = {} /\ code.open \subseteq {code.cur}
           /\ \A b \in Blocks : code.edges[b] = {}
           /\ code.held = IF Flowing(code) THEN AllVars ELSE {}
<1>1. /\ Good(ctl, scopes, result, code, pc) /\ ctl \in Seq(Proper)
      /\ scopes \in Seq(SUBSET Items) /\ code \in Code
  BY DEF EmitterInv, TypeInv
<1>2. Top.k = "func" /\ Len(ctl) > 0 /\ pc \in {"done", "return"}
  BY BackFacts DEF EmitterInv
<1>3. Len(ctl) \in 1..Len(ctl) /\ Len(ctl) \in Nat
  BY <1>1, <1>2
<1>4. Fit(Top) /\ Stands(ctl, Len(ctl))
  BY <1>1, <1>3 DEF Good, Nested, Top
<1>5. Len(ctl) = 1 /\ Top = ctl[1]
  BY <1>2, <1>4 DEF Stands, Top
<1>6. pc = "done"
  BY <1>1, <1>5 DEF Good, Nested
<1>7. result.item = 0
  BY <1>1, <1>2, <1>5, <1>6 DEF Good, Found
<1>8. ctl[1].v = NoValue /\ NoValue.item = 0
  BY <1>2, <1>4, <1>5 DEF Fit, Cases, NoValue, Val
<1>9. \A i \in 1..Len(ctl) : i = 1
  BY <1>5
<1>10. Len(scopes) = 1
  <2>1. Below(ctl, 1 + 1) = Below(ctl, 1) + ScopesOf(ctl[1].k) /\ Below(ctl, 1) = 0
    BY BelowNext, BelowOne
  <2>2. ScopesOf(ctl[1].k) = 1
    BY <1>2, <1>5 DEF ScopesOf
  <2>3. Len(scopes) = Below(ctl, Len(ctl) + 1)
    BY <1>1 DEF Good, Scoped
  <2> QED
    BY <1>5, <2>1, <2>2, <2>3
<1>11. code.loose = {}
  <2>1. AwaitedBy(ctl[1]) = {}
    BY <1>2, <1>5 DEF AwaitedBy
  <2>2. UNION {AwaitedBy(ctl[i]) : i \in 1..Len(ctl)} = {}
    BY <1>9, <2>1
  <2> QED
    BY <1>1, <2>2 DEF Good, Laid
<1>12. Kept(ctl) = {} /\ Fresh(result, pc) = {}
  BY <1>6, <1>7, <1>8, <1>9 DEF Kept, Fresh
<1>13. AllVars = Vars(scopes)
  BY AllVarsIs DEF EmitterInv
<1>14. code.held = IF Flowing(code) THEN AllVars ELSE {}
  BY <1>1, <1>12, <1>13 DEF Good, Matched
<1> QED
  BY <1>1, <1>6, <1>10, <1>11, <1>14 DEF Good, Laid

LEMMA EndFunctionStep ==
    ASSUME EmitterInv, EndFunction
    PROVE  Goods'
<1> SUFFICES ASSUME ~failed'
             PROVE  Good(ctl', scopes', result', code', pc')
  BY DEF Goods
<1>1. ~failed /\ Back("func") /\ (Flowing(code) => ReturnsVoid)
  BY DEF EndFunction, Flowing
<1>2. /\ scopes \in Seq(SUBSET Items) /\ code \in Code /\ Len(scopes) = 1 /\ code.faults = {}
      /\ code.loose = {} /\ code.open \subseteq {code.cur}
      /\ \A b \in Blocks : code.edges[b] = {}
      /\ code.held = IF Flowing(code) THEN AllVars ELSE {}
  BY <1>1, FunctionBack
<1>3. scopes # <<>> /\ Outer(scopes) = <<>>
  <2>1. Outer(scopes) \in Seq(SUBSET Items) /\ Len(Outer(scopes)) = 0
    BY <1>2, OuterFacts
  <2> QED
    BY <1>2, <2>1
<1>4. PICK e : e = IF ~Flowing(code) THEN code
                   ELSE IF ReturnsVoid THEN Ret(Release(code, AllVars))
                   ELSE Unreachable(Release(code, AllVars))
  OBVIOUS
<1>5. /\ e \in Code /\ e.open = {} /\ e.loose = {} /\ e.faults = {} /\ e.edges = code.edges
  <2>1. CASE Flowing(code)
    <3>1. e = Ret(Release(code, AllVars)) /\ AllVars = code.held
      BY <1>1, <1>2, <1>4, <2>1
    <3>2. e = [code EXCEPT !.held = {}, !.open = {}]
      BY <1>2, <2>1, <3>1, ReturnCode
    <3> QED
      BY <1>2, <3>2 DEF Code
  <2>2. CASE ~Flowing(code)
    <3>1. code.open = {}
      BY <1>2, <2>2 DEF Flowing
    <3> QED
      BY <1>2, <1>4, <2>2, <3>1
  <2> QED
    BY <2>1, <2>2
<1>6. PICK c : c = code'
  OBVIOUS
<1>7. c = [Clear(e) EXCEPT !.alloca = FALSE]
  BY <1>3, <1>4, <1>6 DEF EndFunction, Flowing
<1>8. /\ c \in Code /\ c.cur = 0 /\ c.open = {} /\ c.loose = {} /\ c.held = {} /\ c.faults = {}
      /\ c.edges = code.edges
  <2>1. Clear(e) = [e EXCEPT !.cur = 0, !.held = {}]
    BY DEF Clear
  <2> QED
    BY <1>5, <1>7, <2>1 DEF Code
<1>9. \A b \in Blocks : c.edges[b] = {}
  BY <1>2, <1>8
<1>10. Good(<<>>, <<>>, NoValue, c, "top")
  BY <1>8, <1>9, TopGood
<1>11. ctl' = <<>> /\ scopes' = <<>> /\ result' = NoValue /\ pc' = "top"
  BY <1>3 DEF EndFunction
<1> QED
  BY <1>6, <1>10, <1>11

-----------------------------------------------------------------------------
(* The invariant *)

LEMMA InitGood == Init => EmitterInv
<1> SUFFICES ASSUME Init
             PROVE  Good(ctl, scopes, result, code, pc)
  BY InitType DEF EmitterInv
<1>1. /\ code \in Code /\ code.cur = 0 /\ code.open = {} /\ code.loose = {} /\ code.held = {}
      /\ code.faults = {} /\ \A b \in Blocks : code.edges[b] = {}
  <2>1. code \in Code
    BY InitType DEF TypeInv
  <2> QED
    BY <2>1 DEF Init
<1>2. Good(<<>>, <<>>, NoValue, code, "top")
  BY <1>1, TopGood
<1> QED
  BY <1>2 DEF Init

LEMMA NextGoods ==
    ASSUME EmitterInv, Handled, [Next]_vars
    PROVE  Goods'
<1>1. CASE Expression
  BY <1>1, LeafSteps, EnterSteps, OperatorSteps, OperandSteps, TernaryCondStep, TernaryThenStep,
     TernaryElseStep, LogicLhsStep, LogicRhsStep DEF Expression
<1>2. CASE Statement
  BY <1>2, LeafSteps, EnterSteps, DeclareStep, BlockStep, LeaveBlockStep, IfCondStep, IfThenStep,
     IfElseStep, ReturnVoidStep, ReturnValueStep DEF Statement
<1>3. CASE Function
  <2>1. BeginDuplicate => Goods'
    BY DEF BeginDuplicate, Goods
  <2> QED
    BY <1>3, <2>1, BeginFunctionStep, BeginAssertStep, EndFunctionStep DEF Function
<1>4. CASE UNCHANGED vars
  BY <1>4 DEF vars, Goods, EmitterInv
<1> QED
  BY <1>1, <1>2, <1>3, <1>4 DEF Next, Halted

LEMMA Inductive ==
    ASSUME Handled
    PROVE  EmitterInv /\ [Next]_vars => EmitterInv'
<1> SUFFICES ASSUME EmitterInv, [Next]_vars
             PROVE  EmitterInv'
  OBVIOUS
<1>1. TypeInv'
  BY NextType DEF EmitterInv
<1>2. Goods'
  BY NextGoods
<1> QED
  BY <1>1, <1>2 DEF EmitterInv, Goods

LEMMA Invariant ==
    ASSUME Handled
    PROVE  Spec => []EmitterInv
<1>1. EmitterInv /\ [Next]_vars => EmitterInv'
  BY Inductive
<1> QED
  BY <1>1, InitGood, PTL DEF Spec
-----------------------------------------------------------------------------
(* The theorems: of a program without the forms that the emitter mishandles *)

LEMMA InvValid == EmitterInv => ModuleValid
<1> SUFFICES ASSUME EmitterInv, ~failed
             PROVE  /\ code.faults \cap {"late", "phi", "rettype"} = {}
                    /\ code.open \subseteq {code.cur}
                    /\ pc = "top" => code.open = {} /\ code.loose = {}
  BY DEF ModuleValid
<1>1. Good(ctl, scopes, result, code, pc) /\ code \in Code
  BY DEF EmitterInv, TypeInv
<1>2. code.faults = {} /\ code.open \subseteq {code.cur}
  BY <1>1 DEF Good, Laid
<1>3. ASSUME pc = "top" PROVE code.open = {} /\ code.loose = {}
  <2>1. ctl = <<>>
    BY <1>1, <1>3 DEF Good, Nested
  <2>2. UNION {AwaitedBy(ctl[i]) : i \in 1..Len(ctl)} = {}
    BY <2>1
  <2>3. code.cur = 0
    BY <1>1, <1>3 DEF Good, Flows
  <2>4. code.open = {}
    BY <1>1, <1>2, <2>3, NamesAssumption DEF Code
  <2> QED
    BY <1>1, <2>2, <2>4 DEF Good, Laid
<1> QED
  BY <1>2, <1>3

LEMMA InvFaults == EmitterInv => DestroyedOnce /\ NoCrash /\ FaultsReported
  BY DEF EmitterInv, Good, DestroyedOnce, NoCrash, FaultsReported, Going

LEMMA InvHeld == EmitterInv => HeldMatches
<1> SUFFICES ASSUME EmitterInv, ~failed, code.cur \in code.open
             PROVE  code.held = AllVars \cup (Pending \ {0})
  BY DEF HeldMatches
<1>1. Good(ctl, scopes, result, code, pc) /\ ctl \in Seq(Proper)
  BY DEF EmitterInv, TypeInv
<1>2. code.held = Vars(scopes) \cup Kept(ctl) \cup Fresh(result, pc)
  BY <1>1 DEF Good, Matched, Flowing
<1>3. DOMAIN ctl = 1..Len(ctl)
  BY <1>1
<1>4. Pending \ {0} = Kept(ctl) \cup Fresh(result, pc)
  BY <1>3 DEF Pending, Kept, Fresh
<1>5. AllVars = Vars(scopes)
  BY AllVarsIs DEF EmitterInv
<1> QED
  BY <1>2, <1>4, <1>5

\* The module that IRGen::run hands to the verifier is well formed, however deep the
\* statements and expressions are nested: no instruction follows a terminator, each phi
\* names the blocks that branch to it, and a finished function has no block left open.
THEOREM Valid == ASSUME Handled PROVE Spec => []ModuleValid
  BY Invariant, InvValid, PTL

\* On every path through an emitted function each reference is destroyed or handed on
\* once: destroyVars, destroyAllVars and destroyValue between them miss none and repeat none.
THEOREM Destroyed == ASSUME Handled PROVE Spec => []DestroyedOnce
  BY Invariant, InvFaults, PTL

\* What the emitter's tables count as alive (the variables in FuncScope and the Values its
\* visitors keep) is what the emitted code holds at the insertion point.
THEOREM Counted == ASSUME Handled PROVE Spec => []HeldMatches
  BY Invariant, InvHeld, PTL

\* In programs that use no form but "Errors" and "Duplicate", and draw no diagnostic, the
\* emitter follows no null insertion block, its assertions that no function is inside
\* another and that an EXPR is stored hold, and FuncScope::exit finds a scope. It is not
\* so with DeadCode, AssignValue, FuncValue (`let x = f;`) or NoInit (`var x: Int;`).
THEOREM Crashless == ASSUME Handled PROVE Spec => []NoCrash
  BY Invariant, InvFaults, PTL

\* In programs that use no form but "Errors" and "Duplicate", whatever goes wrong in the
\* emitter or in the code it emits comes after a diagnostic. Each other form alone makes
\* something go wrong without one.
THEOREM Reported == ASSUME Handled PROVE Spec => []FaultsReported
  BY Invariant, InvFaults, PTL

\* The scopes of the activations, added up from the bottom.
LEMMA DepthIs ==
    ASSUME ctl \in Seq(Proper)
    PROVE  Depth = Below(ctl, Len(ctl) + 1)
<1> DEFINE d == CHOOSE g : g = [n \in 0..Len(ctl) |->
                                  IF n = 0 THEN 0 ELSE g[n - 1] + ScopesOf(ctl[n].k)]
<1> DEFINE F == [n \in 0..Len(ctl) |-> Below(ctl, n + 1)]
<1>1. Depth = d[Len(ctl)]
  BY Zenon DEF Depth
<1>2. Len(ctl) \in Nat
  OBVIOUS
<1>3. \A n \in 0..Len(ctl) : F[n] = IF n = 0 THEN 0 ELSE F[n - 1] + ScopesOf(ctl[n].k)
  <2> SUFFICES ASSUME NEW n \in 0..Len(ctl)
               PROVE  F[n] = IF n = 0 THEN 0 ELSE F[n - 1] + ScopesOf(ctl[n].k)
    OBVIOUS
  <2>1. CASE n = 0
    BY <2>1, BelowOne
  <2>2. CASE n # 0
    <3>1. n \in Nat \ {0} /\ n - 1 \in 0..Len(ctl) /\ (n - 1) + 1 = n
      BY <1>2, <2>2
    <3>2. Below(ctl, n + 1) = Below(ctl, n) + ScopesOf(ctl[n].k)
      BY <3>1, BelowNext
    <3>3. F[n - 1] = Below(ctl, n) /\ F[n] = Below(ctl, n + 1)
      BY <3>1
    <3> HIDE DEF F
    <3> QED
      BY <2>2, <3>2, <3>3
  <2> QED
    BY <2>1, <2>2
<1>4. F = [n \in 0..Len(ctl) |-> IF n = 0 THEN 0 ELSE F[n - 1] + ScopesOf(ctl[n].k)]
  BY <1>3
<1>5. \A n \in 0..Len(ctl) : F[n] = Below(ctl, n + 1)
  OBVIOUS
<1> HIDE DEF F
<1>6. d = [n \in 0..Len(ctl) |-> IF n = 0 THEN 0 ELSE d[n - 1] + ScopesOf(ctl[n].k)]
  BY <1>4
<1> HIDE DEF d
<1>7. \A n \in 0..Len(ctl) : d[n] = IF n = 0 THEN 0 ELSE d[n - 1] + ScopesOf(ctl[n].k)
  BY <1>6
<1>8. \A n \in 0..Len(ctl) : d[n] = F[n]
  <2> DEFINE Wrong == {n \in 0..Len(ctl) : d[n] # F[n]}
  <2>1. Wrong \subseteq Nat
    BY <1>2
  <2>2. SUFFICES ASSUME Wrong # {}
                 PROVE  FALSE
    OBVIOUS
  <2>3. PICK m \in Wrong : \A n \in Wrong : m <= n
    <3> HIDE DEF Wrong
    <3> QED
      BY <2>1, <2>2, LeastNat
  <2>4. m \in 0..Len(ctl) /\ d[m] # F[m] /\ m \in Nat
    BY <1>2, <2>3
  <2>5. m # 0
    BY <1>3, <1>7, <2>4
  <2>6. m - 1 \in 0..Len(ctl) /\ ~(m <= m - 1)
    BY <1>2, <2>4, <2>5
  <2>7. d[m - 1] = F[m - 1]
    BY <2>3, <2>6
  <2>8. d[m] = d[m - 1] + ScopesOf(ctl[m].k) /\ F[m] = F[m - 1] + ScopesOf(ctl[m].k)
    BY <1>3, <1>7, <2>4, <2>5
  <2> QED
    BY <2>4, <2>7, <2>8
<1>9. Len(ctl) \in 0..Len(ctl)
  BY <1>2
<1> QED
  BY <1>1, <1>5, <1>8, <1>9

LEMMA InvScopes == EmitterInv => ScopesMatch
<1> SUFFICES ASSUME EmitterInv, ~failed
             PROVE  Len(scopes) = Depth
  BY DEF ScopesMatch
<1>1. Scoped(ctl, scopes, code, pc) /\ ctl \in Seq(Proper)
  BY DEF EmitterInv, TypeInv, Good
<1> QED
  BY <1>1, DepthIs DEF Scoped

\* FuncScope has one scope for each construct that is open, two for a case of an if, so
\* that destroyVars always works on the scope of its own construct.
THEOREM Matching == ASSUME Handled PROVE Spec => []ScopesMatch
  BY Invariant, InvScopes, PTL
=============================================================================
