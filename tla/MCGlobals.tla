----------------------------- MODULE MCGlobals -----------------------------
(***************************************************************************)
(* Declarations for TLC. What a field of a declaration means only for one  *)
(* kind is fixed for the others.                                           *)
(***************************************************************************)
EXTENDS Globals, TLC

Accesses == {"public", "private"}

Plain(k, n, access, ref) == [k |-> k, name |-> n, access |-> access, ref |-> ref,
                             members |-> "none", maccess |-> "public"]

\* Classes with a field of any type, or with members of any access.
MCDecls ==
    {Plain(k, n, access, ref) : k \in {"func"}, n \in Names, access \in Accesses,
                                ref \in Names \cup {IntType}}
    \cup {Plain("ext", n, access, ref) : n \in Names, access \in Accesses, ref \in Names}
    \cup {Plain("var", n, access, IntType) : n \in Names, access \in Accesses}
    \cup {Plain("class", n, "public", ref) : n \in Names, ref \in Names \cup {IntType}}
    \cup {[Plain("class", n, access, IntType) EXCEPT !.members = members, !.maccess = maccess] :
             n \in Names, access \in Accesses, members \in {"ctor", "method", "methods"},
             maccess \in Accesses}

Symmetry == Permutations(Names)

=============================================================================
