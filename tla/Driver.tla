------------------------------- MODULE Driver -------------------------------
(***************************************************************************)
(* The command: OptionParser reads the arguments, Driver runs the compiler *)
(* over one file or over each line of a REPL, Diag counts what is wrong,   *)
(* CodeGen picks a target machine, optimizes and writes the object file.   *)
(* The parser and the IR generator are seen from outside: they report      *)
(* errors or not, leave a valid module or not, or end the process.         *)
(***************************************************************************)
EXTENDS Naturals, FiniteSets

CONSTANTS Files,        \* the files arguments can name
          Default,      \* "a.out"
          Forms         \* uses that the driver does not guard against

ASSUME FilesAssumption == Default \in Files /\ "nofile" \notin Files

VARIABLES pc,           \* where Driver::main is
          op,           \* OptionParser
          fs,           \* what is in the files
          errors,       \* Diag::errors is not zero
          machine,      \* CodeGen::machine has been assigned
          ir,           \* the module
          tty,          \* std::cin and std::cout are good
          status        \* of the process

vars == <<pc, op, fs, errors, machine, ir, tty, status>>

NoFile  == "nofile"
Actions == {"COMPILE", "DISPLAY_HELP", "REPL_LEX", "REPL_PARSE", "REPL_GENERATE"}

\* "old": something that was there before and is not the source of a program.
Init ==
    /\ pc = "options"
    /\ op = [action |-> "COMPILE", optimize |-> FALSE, infile |-> NoFile, outfile |-> Default]
    /\ fs \in [Files -> {"absent", "old", "source"}]
    /\ errors = FALSE /\ machine = FALSE /\ ir = "none"
    /\ tty \in BOOLEAN /\ status = "running"

-----------------------------------------------------------------------------
(* OptionParser::parse: one argument after the other; whatever is wrong with *)
(* one is printed, and the next is looked at.                                *)

Option(o) == /\ pc = "options" /\ op' = o
             /\ UNCHANGED <<pc, fs, errors, machine, ir, tty, status>>

SetAction(a) == Option([op EXCEPT !.action = a])
SetLevel(on) == Option([op EXCEPT !.optimize = on])
SetOutput(f) == Option([op EXCEPT !.outfile = f])
SetInput(f)  == Option(IF op.infile = NoFile THEN [op EXCEPT !.infile = f] ELSE op)

\* The program is not overwritten by its own output.
Sane == op.infile # op.outfile \/ "SameFile" \in Forms

\* mutant: the argument after the last one is taken for the file
MissingOutput_Taken ==
    /\ pc = "options" /\ pc' = "main" /\ op' = [op EXCEPT !.outfile = NoFile]
    /\ UNCHANGED <<fs, errors, machine, ir, tty, status>>

\* -o is the last argument.
MissingOutput ==
    /\ pc = "options" /\ Sane /\ pc' = "main"
    /\ UNCHANGED <<op, fs, errors, machine, ir, tty, status>>

EndOptions ==
    /\ pc = "options" /\ Sane /\ pc' = "main"
    /\ UNCHANGED <<op, fs, errors, machine, ir, tty, status>>

-----------------------------------------------------------------------------
(* Diag *)

Counted_NoFatal(level)    == level \in {"INTERNAL", "ERROR"}   \* mutant: FATAL ends nothing
Counted_NoInternal(level) == level \in {"FATAL", "ERROR"}      \* mutant: INTERNAL is for developers

\* PROCESS: every level but WARNING counts as an error.
Counted(level) == level \in {"INTERNAL", "FATAL", "ERROR"}

PrintDiag(level) == errors' = (errors \/ Counted(level))

-----------------------------------------------------------------------------
(* Driver::main *)

Return(s) == pc' = "exited" /\ status' = s

Interactive == op.action \in {"REPL_LEX", "REPL_PARSE", "REPL_GENERATE"}

\* The switch over the action.
Dispatch ==
    /\ pc = "main"
    /\ \/ op.action = "DISPLAY_HELP" /\ Return("zero")
       \/ op.action = "COMPILE" /\ pc' = "open" /\ UNCHANGED status
       \/ Interactive /\ pc' = "prompt" /\ UNCHANGED status
    /\ UNCHANGED <<op, fs, errors, machine, ir, tty>>

Readable == op.infile # NoFile /\ fs[op.infile] # "absent"

\* compile: an input must be named and readable.
OpenInput ==
    /\ pc = "open"
    /\ IF Readable THEN pc' = "parse" /\ UNCHANGED <<errors, status>>
       ELSE PrintDiag("FATAL") /\ Return("one")
    /\ UNCHANGED <<op, fs, machine, ir, tty>>

\* mutant: the end of the input is not looked at
Prompt_OutputOnly ==
    /\ pc = "prompt" /\ pc' = "read"
    /\ UNCHANGED <<op, fs, errors, machine, ir, tty, status>>

\* repl: until a stream fails.
Prompt ==
    /\ pc = "prompt"
    /\ IF tty THEN pc' = "read" /\ UNCHANGED status ELSE Return("zero")
    /\ UNCHANGED <<op, fs, errors, machine, ir, tty>>

\* A line, or the end of the input, which is evaluated as an empty line. Each
\* evaluation has a Diag, a module and a CodeGen of its own.
ReadLine ==
    /\ pc = "read"
    /\ tty' \in {tty, FALSE}
    /\ errors' = FALSE /\ machine' = FALSE /\ ir' = "none"
    /\ pc' = IF op.action = "REPL_LEX" THEN "lex" ELSE "parse"
    /\ UNCHANGED <<op, fs, status>>

\* The lexer has only a warning to give.
Lex ==
    /\ pc = "lex" /\ PrintDiag("WARNING") /\ pc' = "prompt"
    /\ UNCHANGED <<op, fs, machine, ir, tty, status>>

\* VSLParser::parse goes on after an error; nothing is asked afterwards.
Parse ==
    /\ pc = "parse"
    /\ \E level \in {"WARNING", "ERROR"} : PrintDiag(level)
    /\ pc' = IF op.action = "REPL_PARSE" THEN "prompt" ELSE "configure"
    /\ UNCHANGED <<op, fs, machine, ir, tty, status>>

\* CodeGen::configure: without a target the machine stays unassigned.
Configure ==
    /\ pc = "configure" /\ pc' = "generate"
    /\ \/ machine' = TRUE /\ UNCHANGED errors
       \/ PrintDiag("FATAL") /\ UNCHANGED machine
    /\ UNCHANGED <<op, fs, ir, tty, status>>

\* IRGen::run, whatever has been reported before. A module that the verifier
\* rejects makes an internal error.
Generate ==
    /\ pc = "generate"
    /\ \/ ir' = "valid" /\ \E level \in {"WARNING", "ERROR"} : PrintDiag(level)
       \/ ir' = "invalid" /\ PrintDiag("INTERNAL")
    /\ pc' = IF op.action = "COMPILE" THEN "report"
             ELSE IF op.optimize THEN "optimize" ELSE "prompt"
    /\ pc' = "optimize" => ir' = "valid" \/ "OptimizeInvalid" \in Forms
    /\ UNCHANGED <<op, fs, machine, tty, status>>

\* mutant: errors are counted out to the user and nothing else
Report_GoOn ==
    /\ pc = "report" /\ pc' = IF op.optimize THEN "optimize" ELSE "output"
    /\ UNCHANGED <<op, fs, errors, machine, ir, tty, status>>

\* Errors end the compilation, warnings do not.
Report ==
    /\ pc = "report"
    /\ IF errors THEN Return("one")
       ELSE pc' = (IF op.optimize THEN "optimize" ELSE "output") /\ UNCHANGED status
    /\ UNCHANGED <<op, fs, errors, machine, ir, tty>>

Optimize ==
    /\ pc = "optimize" /\ pc' = IF Interactive THEN "prompt" ELSE "output"
    /\ UNCHANGED <<op, fs, errors, machine, ir, tty, status>>

\* The output file is created, or truncated.
OpenOutput ==
    /\ pc = "output"
    /\ \/ pc' = "emit" /\ fs' = [fs EXCEPT ![op.outfile] = "empty"]
          /\ UNCHANGED <<errors, status>>
       \/ PrintDiag("FATAL") /\ Return("one") /\ UNCHANGED fs
    /\ UNCHANGED <<op, machine, ir, tty>>

\* mutant: the status is settled before the code is emitted
EmitObject_Zero ==
    /\ pc = "emit" /\ Return("zero")
    /\ \/ fs' = [fs EXCEPT ![op.outfile] = "object"] /\ UNCHANGED errors
       \/ PrintDiag("FATAL") /\ UNCHANGED fs
    /\ UNCHANGED <<op, machine, ir, tty>>

\* CodeGen::compile. The machine may not be able to emit objects.
EmitObject ==
    /\ pc = "emit"
    /\ \/ fs' = [fs EXCEPT ![op.outfile] = "object"] /\ UNCHANGED errors
       \/ PrintDiag("FATAL") /\ UNCHANGED fs
    /\ Return(IF errors' THEN "one" ELSE "zero")
    /\ UNCHANGED <<op, machine, ir, tty>>

\* The process ends in the middle: a failed assertion, no more stack, a fatal
\* error of LLVM's code generator, or an output that cannot be written, which the
\* stream's destructor does not forgive.
Killed ==
    /\ pc \in {"parse", "generate", "emit"} /\ Return("killed")
    /\ fs' \in IF pc = "emit" THEN {fs, [fs EXCEPT ![op.outfile] = "partial"]} ELSE {fs}
    /\ UNCHANGED <<op, errors, machine, ir, tty>>

Exited == pc = "exited" /\ UNCHANGED vars

Options == \/ \E a \in Actions : SetAction(a)
           \/ \E on \in BOOLEAN : SetLevel(on)
           \/ \E f \in Files : SetOutput(f) \/ SetInput(f)
           \/ MissingOutput \/ EndOptions

Work == \/ Dispatch \/ OpenInput \/ Parse \/ Configure \/ Generate \/ Report \/ Optimize
        \/ OpenOutput \/ EmitObject \/ Killed
        \/ Prompt \/ ReadLine \/ Lex

Next == Options \/ Work \/ Exited

\* One thread; what it waits for, the user's next line, comes or ends.
Spec == Init /\ [][Next]_vars /\ WF_vars(Work)

-----------------------------------------------------------------------------
(* Properties *)

TypeOK ==
    /\ pc \in {"options", "main", "open", "prompt", "read", "lex", "parse", "configure",
               "generate", "report", "optimize", "output", "emit", "exited"}
    /\ op \in [action : Actions, optimize : BOOLEAN, infile : Files \cup {NoFile},
               outfile : Files]
    /\ fs \in [Files -> {"absent", "old", "source", "empty", "partial", "object"}]
    /\ errors \in BOOLEAN /\ machine \in BOOLEAN /\ tty \in BOOLEAN
    /\ ir \in {"none", "valid", "invalid"}
    /\ status \in {"running", "zero", "one", "killed"}

\* A build tool may trust the exit status of a compilation: zero if and only if
\* the whole object file has been written.
ExitTellsTruth ==
    pc = "exited" /\ op.action = "COMPILE" => (status = "zero" <=> fs[op.outfile] = "object")

\* A file changes only in a compilation that has counted no error up to then; it is
\* the output, and it is not the program.  This protects the object file of the
\* last good compilation from a program with errors, and no further: the output is
\* truncated when it is opened, so an emission that fails or is killed after that
\* leaves it empty or partial, which only the exit status tells (ExitTellsTruth).
FilesSafe ==
    [][fs' # fs => /\ ~errors /\ op.action = "COMPILE"
                   /\ \A f \in Files : fs'[f] # fs[f] => f = op.outfile /\ f # op.infile]_vars

\* The target machine, a pointer that no constructor sets, is used only if
\* configure has set it, however many steps earlier.
MachineKnown == pc = "emit" => machine

\* LLVM's passes, which do not check what they are given, get only modules that
\* the verifier has accepted.
ModuleKnown == pc \in {"optimize", "output", "emit"} => ir = "valid"

\* A compilation ends, and so does a REPL whose input has ended.
Finishes ==
    pc # "options" /\ (Interactive => ~tty) ~> pc = "exited"

=============================================================================
