---------------------------- MODULE DriverProofs ----------------------------
(***************************************************************************)
(* The driver's safety properties, for any set of files.  What each of     *)
(* them needs is something that an early return far behind has settled:    *)
(* the invariant DriverInv carries it through the stages.                  *)
(***************************************************************************)
EXTENDS Driver, TLAPS

Compiling == op.action = "COMPILE"

\* The stages from a parsed program on, and those behind the early return on errors.
Built   == pc \in {"generate", "report", "optimize", "output", "emit"}
Cleared == pc \in {"output", "emit"} \/ (pc = "optimize" /\ Compiling)

\* Only a compilation gets to a file, only a REPL to a prompt.
Staged ==
    /\ pc \in {"open", "report", "output", "emit"} => Compiling
    /\ pc \in {"prompt", "read", "lex"} => Interactive
    /\ pc \in {"parse", "configure", "generate", "optimize"} => Compiling \/ Interactive
    /\ pc # "options" => Sane

\* A pipeline that has reported nothing has a machine and a valid module.
Healthy ==
    /\ Built /\ ~errors => machine
    /\ pc \in {"report", "output", "emit"} /\ ~errors => ir = "valid"
    /\ Cleared => ~errors /\ ir = "valid"
    /\ pc = "optimize" /\ "OptimizeInvalid" \notin Forms => ir = "valid"

\* No object file is there before the process ends.
Unwritten ==
    /\ pc # "exited" => \A f \in Files : fs[f] # "object"
    /\ pc = "exited" /\ Compiling => (status = "zero" <=> fs[op.outfile] = "object")

DriverInv == TypeOK /\ Staged /\ Healthy /\ Unwritten

-----------------------------------------------------------------------------

LEMMA InitInv == Init => DriverInv
<1> SUFFICES ASSUME Init PROVE DriverInv
    OBVIOUS
<1>1. TypeOK
    BY FilesAssumption DEF Init, TypeOK, Actions
<1>2. Staged /\ Healthy
    BY DEF Init, Staged, Healthy, Built, Cleared
<1>3. Unwritten
    BY DEF Init, Unwritten
<1> QED
    BY <1>1, <1>2, <1>3 DEF DriverInv

LEMMA OptionsInv == DriverInv /\ Options => DriverInv'
<1> SUFFICES ASSUME DriverInv, Options PROVE DriverInv'
    OBVIOUS
<1> USE DEF DriverInv, TypeOK, Staged, Healthy, Unwritten, Built, Cleared, Compiling,
            Interactive
<1>1. ASSUME NEW a \in Actions, SetAction(a) PROVE DriverInv'
    BY <1>1 DEF SetAction, Option, Actions, Sane
<1>2. ASSUME NEW on \in BOOLEAN, SetLevel(on) PROVE DriverInv'
    BY <1>2 DEF SetLevel, Option, Actions, Sane
<1>3. ASSUME NEW f \in Files, SetOutput(f) PROVE DriverInv'
    BY <1>3 DEF SetOutput, Option, Actions, Sane
<1>4. ASSUME NEW f \in Files, SetInput(f) PROVE DriverInv'
    BY <1>4 DEF SetInput, Option, Actions, Sane
<1>5. CASE MissingOutput
    BY <1>5 DEF MissingOutput, Sane
<1>6. CASE EndOptions
    BY <1>6 DEF EndOptions, Sane
<1> QED
    BY <1>1, <1>2, <1>3, <1>4, <1>5, <1>6 DEF Options

LEMMA WorkInv == DriverInv /\ Work => DriverInv'
<1> SUFFICES ASSUME DriverInv, Work PROVE DriverInv'
    OBVIOUS
<1> USE DEF DriverInv, TypeOK, Staged, Healthy, Unwritten, Built, Cleared, Compiling,
            Interactive, Sane
<1>1. CASE Dispatch
    BY <1>1 DEF Dispatch, Return, Actions
<1>2. CASE OpenInput
  <2>1. CASE pc' = "parse" /\ UNCHANGED <<errors, status>>
      BY <1>2, <2>1 DEF OpenInput
  <2>2. CASE errors' = TRUE /\ pc' = "exited" /\ status' = "one"
      BY <1>2, <2>2 DEF OpenInput
  <2> QED
      BY <1>2, <2>1, <2>2 DEF OpenInput, PrintDiag, Counted, Return
<1>3. CASE Parse
    BY <1>3 DEF Parse, PrintDiag, Counted
<1>4. CASE Configure
  <2>1. CASE machine' = TRUE /\ UNCHANGED errors
      BY <1>4, <2>1 DEF Configure
  <2>2. CASE PrintDiag("FATAL") /\ UNCHANGED machine
    <3>1. errors' = TRUE
        BY <2>2 DEF PrintDiag, Counted
    <3> QED
        BY <1>4, <2>2, <3>1 DEF Configure
  <2> QED
      BY <1>4, <2>1, <2>2 DEF Configure
<1>5. CASE Generate
  <2>1. TypeOK'
      BY <1>5 DEF Generate, PrintDiag, Counted
  <2>2. Staged'
      BY <1>5 DEF Generate, PrintDiag, Counted
  <2>3. Healthy'
      BY <1>5 DEF Generate, PrintDiag, Counted
  <2>4. Unwritten'
      BY <1>5 DEF Generate, PrintDiag, Counted
  <2> QED
      BY <2>1, <2>2, <2>3, <2>4
<1>6. CASE Report
    BY <1>6 DEF Report, Return
<1>7. CASE Optimize
    BY <1>7 DEF Optimize
<1>8. CASE OpenOutput
  <2>1. TypeOK'
      BY <1>8 DEF OpenOutput, PrintDiag, Counted, Return
  <2>2. Staged'
      BY <1>8 DEF OpenOutput, PrintDiag, Counted, Return
  <2>3. Healthy'
      BY <1>8 DEF OpenOutput, PrintDiag, Counted, Return
  <2>4. Unwritten'
      BY <1>8 DEF OpenOutput, PrintDiag, Counted, Return
  <2> QED
      BY <2>1, <2>2, <2>3, <2>4
<1>9. CASE EmitObject
  <2>1. TypeOK'
      BY <1>9 DEF EmitObject, PrintDiag, Counted, Return
  <2>2. Staged'
      BY <1>9 DEF EmitObject, PrintDiag, Counted, Return
  <2>3. Healthy'
      BY <1>9 DEF EmitObject, PrintDiag, Counted, Return
  <2>4. Unwritten'
    <3>1. ~errors /\ fs[op.outfile] # "object" /\ op.outfile \in Files
        BY <1>9 DEF EmitObject
    <3>2. CASE fs' = [fs EXCEPT ![op.outfile] = "object"] /\ UNCHANGED errors
        BY <1>9, <3>1, <3>2 DEF EmitObject, Return
    <3>3. CASE PrintDiag("FATAL") /\ UNCHANGED fs
        BY <1>9, <3>1, <3>3 DEF EmitObject, PrintDiag, Counted, Return
    <3> QED
        BY <1>9, <3>2, <3>3 DEF EmitObject
  <2> QED
      BY <2>1, <2>2, <2>3, <2>4
<1>10. CASE Killed
    BY <1>10 DEF Killed, Return
<1>11. CASE Prompt
    BY <1>11 DEF Prompt, Return
<1>12. CASE ReadLine
    BY <1>12 DEF ReadLine
<1>13. CASE Lex
    BY <1>13 DEF Lex, PrintDiag, Counted
<1> QED
    BY <1>1, <1>2, <1>3, <1>4, <1>5, <1>6, <1>7, <1>8, <1>9, <1>10, <1>11, <1>12, <1>13
       DEF Work

LEMMA StillInv == DriverInv /\ UNCHANGED vars => DriverInv'
  BY DEF vars, DriverInv, TypeOK, Staged, Healthy, Unwritten, Built, Cleared, Compiling,
     Interactive, Sane

\* The driver only visits the states that DriverInv describes.
LEMMA Always == Spec => []DriverInv
<1>1. DriverInv /\ [Next]_vars => DriverInv'
    BY OptionsInv, WorkInv, StillInv DEF Next, Exited
<1> QED
    BY InitInv, <1>1, PTL DEF Spec

-----------------------------------------------------------------------------

\* Each option, stage, file and outcome stays among those the driver knows.
THEOREM TypesAreRight == Spec => []TypeOK
<1>1. DriverInv => TypeOK
    BY DEF DriverInv
<1> QED
    BY <1>1, Always, PTL

\* The exit status of a compilation is zero if and only if the object file has
\* been written, whatever failed on the way and whatever the arguments were.
THEOREM StatusIsTrue == Spec => []ExitTellsTruth
<1>1. DriverInv => ExitTellsTruth
    BY DEF DriverInv, Unwritten, Compiling, ExitTellsTruth
<1> QED
    BY <1>1, Always, PTL

\* The code generator never uses the pointer that configure left unassigned.
THEOREM MachineIsSet == Spec => []MachineKnown
<1>1. DriverInv => MachineKnown
    BY DEF DriverInv, Healthy, Built, Cleared, MachineKnown
<1> QED
    BY <1>1, Always, PTL

\* LLVM's passes get valid modules only, in compilations and in a REPL that does
\* not optimize what has failed.
THEOREM ModulesAreValid ==
    ASSUME "OptimizeInvalid" \notin Forms PROVE Spec => []ModuleKnown
<1>1. DriverInv => ModuleKnown
    BY DEF DriverInv, Healthy, Cleared, ModuleKnown
<1> QED
    BY <1>1, Always, PTL

\* No file changes once an error has been counted, or outside a compilation, and
\* none but the output, which is not the program.  What an emission that fails later
\* leaves of the output is not part of it.
THEOREM FilesAreSafe ==
    ASSUME "SameFile" \notin Forms PROVE Spec => FilesSafe
<1> DEFINE Safe == fs' # fs => /\ ~errors /\ op.action = "COMPILE"
                               /\ \A f \in Files : fs'[f] # fs[f] => f = op.outfile /\ f # op.infile
<1>1. DriverInv /\ [Next]_vars => [Safe]_vars
  <2> SUFFICES ASSUME DriverInv, Next, fs' # fs PROVE Safe
      BY DEF vars
  <2>1. pc \in {"output", "emit"} /\ (OpenOutput \/ EmitObject \/ Killed)
      BY DEF Next, Exited, vars, Options, SetAction, SetLevel, SetOutput, SetInput, Option,
             MissingOutput, EndOptions, Work, Dispatch, OpenInput, Parse, Configure, Generate,
             Report, Optimize, Prompt, ReadLine, Lex, Killed, OpenOutput, EmitObject
  <2>2. ~errors /\ op.action = "COMPILE" /\ op.infile # op.outfile
      BY <2>1 DEF DriverInv, Staged, Healthy, Cleared, Compiling, Sane
  <2>3. \A f \in Files : fs'[f] # fs[f] => f = op.outfile
      BY <2>1 DEF OpenOutput, EmitObject, Killed, DriverInv, TypeOK
  <2> QED
      BY <2>2, <2>3
<1> QED
    BY <1>1, Always, PTL DEF Spec, FilesSafe

=============================================================================
