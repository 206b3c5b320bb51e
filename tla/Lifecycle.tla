----------------------------- MODULE Lifecycle -----------------------------
(***************************************************************************)
(* What a program with global variables is promised, whatever code sets    *)
(* them up: a global is initialized once, before main; code reads only     *)
(* globals that have been initialized and not yet destroyed; and each      *)
(* global that holds an object is destroyed once, after main.  How many    *)
(* lists and functions that takes, and in which order they are found, is   *)
(* left to the refinement.                                                 *)
(***************************************************************************)
EXTENDS Naturals

CONSTANT Global

VARIABLES phase,     \* "build", then the program's "start", "main", "exit", "ended"
          all,       \* the globals of the program
          objects,   \* those that hold an object
          live,      \* initialized and not destroyed
          gone,      \* destroyed
          touched    \* what the code that ran last has read

vars == <<phase, all, objects, live, gone, touched>>

Init == /\ phase = "build"
        /\ all = {} /\ objects = {} /\ live = {} /\ gone = {} /\ touched = {}

Declare(g, isObject) ==
    /\ phase = "build" /\ g \notin all
    /\ all' = all \cup {g}
    /\ objects' = IF isObject THEN objects \cup {g} ELSE objects
    /\ UNCHANGED <<phase, live, gone, touched>>

Start == /\ phase = "build" /\ phase' = "start"
         /\ UNCHANGED <<all, objects, live, gone, touched>>

Construct(g) ==
    /\ phase = "start" /\ g \in all \ live
    /\ live' = live \cup {g}
    /\ touched' \in SUBSET live
    /\ UNCHANGED <<phase, all, objects, gone>>

Main == /\ phase = "start" /\ live = all /\ phase' = "main"
        /\ touched' \in SUBSET live
        /\ UNCHANGED <<all, objects, live, gone>>

Exit == /\ phase = "main" /\ phase' = "exit"
        /\ UNCHANGED <<all, objects, live, gone, touched>>

Destroy(g) ==
    /\ phase = "exit" /\ g \in objects \cap live
    /\ live' = live \ {g}
    /\ gone' = gone \cup {g}
    /\ touched' = {g}
    /\ UNCHANGED <<phase, all, objects>>

End == /\ phase = "exit" /\ objects \subseteq gone /\ phase' = "ended"
       /\ UNCHANGED <<all, objects, live, gone, touched>>

Next == \/ \E g \in Global : \/ \E b \in BOOLEAN : Declare(g, b)
                             \/ Construct(g)
                             \/ Destroy(g)
        \/ Start \/ Main \/ Exit \/ End

Spec == Init /\ [][Next]_vars

=============================================================================
