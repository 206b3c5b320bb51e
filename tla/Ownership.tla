------------------------------ MODULE Ownership ------------------------------
(***************************************************************************)
(* What reference counting promises, without counts, stacks or programs:   *)
(* an object is alive exactly while somebody owns it.  Owners come and go  *)
(* one at a time; an object nobody owns can only be made anew.             *)
(***************************************************************************)
EXTENDS Naturals

CONSTANT Obj

VARIABLES owners,  \* how many places own each object
          alive    \* the objects whose memory may be used

TypeOK == owners \in [Obj -> Nat] /\ alive \in SUBSET Obj

Init == owners = [o \in Obj |-> 0] /\ alive = {}

New(o) == /\ o \notin alive /\ owners[o] = 0
          /\ owners' = [owners EXCEPT ![o] = 1]
          /\ alive' = alive \cup {o}

Share(o) == /\ o \in alive
            /\ owners' = [owners EXCEPT ![o] = @ + 1]
            /\ UNCHANGED alive

Release(o) == /\ o \in alive
              /\ owners' = [owners EXCEPT ![o] = @ - 1]
              /\ alive' = IF owners[o] = 1 THEN alive \ {o} ELSE alive

Next == \E o \in Obj : New(o) \/ Share(o) \/ Release(o)

Spec == Init /\ [][Next]_<<owners, alive>>
=============================================================================
