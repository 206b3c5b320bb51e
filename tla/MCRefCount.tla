----------------------------- MODULE MCRefCount -----------------------------
(***************************************************************************)
(* RefCount on small heaps.  Objects of class B have an object field of    *)
(* class A; a1 and a2 are interchangeable.                                 *)
(***************************************************************************)
EXTENDS RefCount, TLC

CONSTANTS a1, a2, b1, A, B

MCClassOf    == [o \in Obj |-> IF o = b1 THEN B ELSE A]
MCFieldClass == [c \in Class |-> IF c = B THEN A ELSE None]
MCSymmetry   == Permutations({a1, a2})
=============================================================================
