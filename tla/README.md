# A model of the VSL compiler

VSL is a small language with reference-counted objects; this repository is its
compiler, written in C++ on top of LLVM. The project in this directory models
the parts of the compiler that are hard to get right and hard to test: where the
IR generator puts basic blocks and destructor calls, what the code it emits
does with object lifetimes when it runs, how declarations become symbols and
globals get initialised, how the lexer moves its window over the text, how the
parser goes on after an error, and what the command leaves behind when something
fails.

## The system

| Component | State | Operations | Called by |
|---|---|---|---|
| Driver, OptionParser | options | compile, the three REPLs | main |
| VSLLexer | a window `text` over the source, `location` | nextToken | parser, through its cache |
| VSLParser | `cache` of tokens looked at and not consumed | parse, one method per nonterminal; reports an error and goes on | driver |
| VSLContext, AST, types | all nodes; interned types | constructors, getters | everybody; immutable after parsing, except variable types and `alreadyDefined` |
| IRGen | the module | run: TypeResolver, FuncResolver, IREmitter, verifyModule | driver |
| TypeResolver, TypeConverter | class types, in two passes | gatherInfo, resolve, convert | IRGen |
| FuncResolver | writes GlobalScope | declares functions, ctors, methods, dtors | IRGen |
| GlobalScope | symbol table, ctors, methods, dtors | get/set of each | FuncResolver writes, IREmitter reads (and writes globals) |
| FuncScope | a stack of symbol tables | enter, exit, set, getVars, getAllVars | IREmitter |
| IREmitter | builder, `result`, `self`, allocaInsertPoint, vslCtor, vslDtor | one visitor per node; copyValue, loadValue, storeValue, destroyValue, destroyVar(s), destroyAllVars | IRGen |
| Value | kind, type, LLVM value, the base of a field | immutable | IREmitter |
| Diag | error and warning counts | print | everybody |
| CodeGen | LLVM pass managers | configure, optimize, compile | driver |
| the emitted program | stack, heap, reference counts | ctors, functions, methods, dtors | the C runtime |

The compiler is one thread. What is hard in it is not concurrency but that
correctness is spread over mutually recursive visitors which communicate
through mutable members:

* `IREmitter::result` carries the Value of the last expression; who reads it,
  who must reset it and who destroys the reference behind it is a protocol
  between all visitors, with null also meaning "an error has been printed".
* The builder's insertion point moves during every child visit. A block must
  get one terminator, a phi must name the blocks in which its cases *ended*,
  and after an `if` whose cases both return there is no insertion point.
* FuncScope must be entered and left in step with the recursion, on the error
  paths as well, because destroyVars and destroyAllVars trust its depth.
* No table says who owns a reference. `copyValue` increments for variables and
  fields and moves everything else; `destroyValue` releases temporaries;
  `destroyVar` releases variables; each visitor must pair them on every path.
* The parser reports an error and goes on, differently in each method: it
  returns null or not, consumes the offending token or not, and looks for what
  should have followed or not. Callers rely on two conventions that are
  written nowhere: null means that an error has been printed, and a loop makes
  progress because whoever fails inside it has consumed something.

* The passes communicate through tables that are filled at different times:
  what a type converts to, whether a name is taken and which function a body
  goes into depend on which pass asks. LLVM renames a symbol without saying so.
* Nothing stops after an error but the driver, once, on a count: every pass runs
  on what the one before it left, and the machine that CodeGen failed to find
  would be dereferenced by the last step.

At run time the emitted code has the matching hazards: a reference released
twice, not at all, or before its last use; a receiver freed by its own method;
a cascade of destructors started by a single scope end. PROJECT.json lists them
one by one, each at its line, with the properties that would catch it.

What makes each component correct, in short: the lexer answers exactly the
tokens of the text, at their locations, and then END without reading on; the parser drops nothing silently,
makes progress after every error and builds the trees of its grammar; the order of
declarations does not change a type; a function has one body, and a public symbol
its name; each global is constructed once before main and destroyed once after it;
the exit status says whether the object file is there; FuncScope follows the recursion;
the module IRGen verifies is valid or an error has been printed; and in the
emitted program counts are exact, nothing is used after it is freed and nothing
is left when it exits.

## Modules

**RefCount.tla** is the machine that runs the emitted code. `stack` has a cell
for everything the emitter's recursion has open at that point of the code: a
frame, a scope, a variable, an operand, argument or receiver that is waiting, a
pending destructor call. A cell says which object it holds a reference to
(`own`) and which one it only points at (`at`): the distinction the C++ code
makes by the kind of a Value and never writes down. `rc`, `state` and `field`
are the heap. The program is chosen as it runs: at each point any construct
that the grammar and the types allow there. Actions are named after the
visitor, or its phase between two children, whose code they execute; copyValue,
loadValue and destroyValue are the operators `Copied`, `Loaded`, `Destroyed`.

**Ownership.tla** is the abstract specification: objects have owners that come
and go one at a time, and an object is alive exactly while it has one. It has
no counts, stacks or programs. `RefCount!KeepsPromise` states that RefCount
implements it, with owners mapped to the number of places that owe a
destructor call.

**MCRefCount.tla** gives RefCount's classes for TLC: B has a field of class A,
two A objects are interchangeable.

**FuncEmitter.tla** is IREmitter at compile time. `ctl` is the recursion of the
visitors: one activation for each visitor that waits for a child, with the
locals it keeps meanwhile. `scopes` is FuncScope, `result` is
`IREmitter::result`, and `code` is what later steps can see of the function
under construction: the insertion block, the blocks without a terminator, the
blocks not inserted yet, the edges into blocks not yet inserted with the
references held on each, and `held`, the references the code up to the
insertion point has created and not destroyed. The builder's calls are
operators on `code` (`BranchTo`, `CondBr`, `Insert`, `Release`, ...); one that
would corrupt the module or crash the compiler records a fault.

**Parser.tla** is VSLParser on any text. `ctl` is its recursion: one activation
for each method that is running, with the steps it has still to take. A method
that runs straight through is a sequence of steps, written next to each other
like the methods in the source, and a step says how the method treats a missing
token: `Need` reports it and returns null, `Want` reports it and goes on, `Skip`,
`Typo` and `Late` also consume what is there instead. A method that branches on
the current token has an action of its own. `cache` is the one token looked at
and not consumed (no method looks further), `text` is how far the lexer is, `res`
what the last method returned. Texts are not enumerated: the lexer answers each
request with any token, so that a bound on the recursion is the only one. Trees
are reduced to what the properties tell apart: null or not, and for an
expression the level of its operator and whether its operands fit. `open`, the
brackets that are open in the text consumed so far, is not in the code; it is
there for BracketsMatch.

**Lexer.tla** is VSLLexer on every short text. `buf` is its window, the
StringRef `text` of the code with `location`; positions are counted from 1, and the
NUL is behind the last character. Each iteration of a loop is a step: `mode` says
which loop runs. `far` is the farthest character that current() or peek() has
looked at, `warned` where a symbol was reported as unknown; both are there for the
properties. What the tokens of a text *are* is defined from left to right, without
a window, by `LexemeEnd`, `Starts` and `KindAt`, and TokensMatch and
UnknownReported compare the two.

**Globals.tla** is what becomes of a program's declarations: `program` is the list
that the parser hands over, `pass` and `at` are the visit that is next. `types` is
the TypeConverter's table with the structs' bodies, `global` is GlobalScope, and
`module` the LLVM module's symbols in the order of their creation, each with its
linkage, the number of bodies emitted into it, the type it was declared with and
what that type converted to at the time. A body is reduced to the one name it uses,
which lookupIdent resolves. When the module has been accepted the same state runs
the program: the constructors in the list, main, the destructors; `run` says which
globals are live.

**Lifecycle.tla** is the abstract specification of globals: initialised once, before
main, not read outside their time, destroyed once if they hold an object. It knows
nothing of symbols, lists or passes. `Globals!KeepsLifecycle` states that Globals
implements it. **MCGlobals.tla** gives the declarations for TLC.

**Driver.tla** is the command. `op` is OptionParser, filled one argument at a time;
`pc` is where Driver::main or the functions it calls are; `fs` is what is in the
files. The parser and IRGen appear as what the driver sees of them: errors
reported or not, a module that is valid or not, a process that ended in the
middle. Diag is the variable `errors` with the levels that count.

How they compose: the driver's steps Lex, Parse and Generate are what Lexer,
Parser, and Globals with FuncEmitter have inside. The interfaces are small: the
lexer hands the parser one token at a time and END for ever (Parser's `Ask` takes
any token, and END stays END); the parser hands IRGen the list of globals (Globals'
`Parse`); IRGen hands the driver a module and a count of errors (`Generate`); the
module runs (RefCount, and RunCtor to End in Globals). Each model takes any value
that its interface allows.

**RefCountProofs.tla**, **RefCountCounts.tla** and **RefCountSafety.tla** have the
proofs about RefCount: type correctness; the exactness of the counts with the
refinement of Ownership; that nothing is used after it is freed and nothing
leaks. **FuncEmitterProofs.tla**, **ParserProofs.tla**, **LexerProofs.tla**,
**GlobalsProofs.tla** and **DriverProofs.tla** have those about FuncEmitter, Parser,
Lexer, Globals and Driver.

### Source forms

Neither the counts nor the blocks are right for *every* program, nor do the other
parts handle every input. Each module but Parser
has a constant `Forms`, the set of source forms a program may use beyond the
ones the visitors handle; the passing runs set it to `{}` (or to the errors the
compiler diagnoses), and a form is the narrowest condition under which the
properties hold, found by admitting the form alone. With one form admitted:

| Form | Source | What goes wrong |
|---|---|---|
| SelfValue (both modules) | `let y = self;` `return self;` | NoUseAfterFree (a run), DestroyedOnce |
| TempArg | `f(a: X())` | NoUseAfterFree |
| FieldArg | `f(a: x.f)` | NoUseAfterFree |
| BorrowedValue (both modules) | `x.f;` `self;` `x.f.m();` `self.m();` | NoUseAfterFree, DestroyedOnce |
| FieldReassign | `x.f = y;` twice | NoLeak |
| UninitField | a constructor that does not set an object field | NoUseAfterFree |
| CondTemp (both modules) | `if (g().b) return;` | NoLeak, DestroyedOnce |
| GlobalReceiver | `g.m()` on a global that m assigns | SelfAlive |
| StaleResult | `f(); return;` | ModuleValid |
| NestedReturn | `{ return; } s;` | ModuleValid |
| DeadCode | `if (c) return; else return; if (d) ...` | NoCrash |
| NestedRhs | `a && (b || c)` | ModuleValid |
| RhsTemp | `a && f().b` | DestroyedOnce |
| BareReturn | `return;` in a function with a value | ModuleValid |
| AssignValue | `if (b = c) ...` | NoCrash, ScopesMatch |
| FuncValue (FuncEmitter) | `let x = f;` or `let x = b ? f : g;` in a function | NoCrash (assertion, irEmitter.cpp:1579) |
| VoidTernary | `b ? g() : g();` with a Void g | ModuleValid (a phi of type Void) |
| NoInit | `var x: Int;` in a function | NoCrash (null pointer, irEmitter.cpp:54) |
| CommentAtEnd (Lexer) | a line comment with no newline behind it | InText, TokensMatch |
| CommentBody (Lexer) | `*` or `/` inside a block comment, or none at its end | InText, TokensMatch, UnknownReported |
| DuplicateVar (Globals) | two variables of one name, or a variable named as a function | OneBody (null pointer) |
| FuncValue (Globals) | `public var x = f;` | OneBody (assertion) |
| DuplicateMethod (Globals) | two methods of one name in a class | OneBody |
| AliasClash (Globals) | `external(g)` beside a function or variable g, or twice | LinkageKept |
| EarlyRead (Globals) | an initialiser calls a function that reads a later global | KeepsLifecycle |
| SameFile (Driver) | `vsl -o prog prog` | FilesSafe |
| OptimizeInvalid (Driver) | `vsl -g -O1`, a line whose module is rejected | ModuleKnown |

None of FuncEmitter's forms draws a diagnostic, but for the two that stand for
diagnosed errors ("Errors" and "Duplicate"): each of the others, admitted alone,
violates FaultsReported as well. A form can be wider than what goes wrong in it: `b ? f : g;` as a
statement is harmless, and is part of FuncValue.

SelfValue contradicts something the repository says and is kept as a run and as a
finding, with the quotation, in PROJECT.json; the others were checked in
the same way, by setting `Forms` in the .cfg of a run. Four of them contradict a
comment too: FieldReassign ("destroy lhs so rhs can take its place in memory",
irEmitter.cpp:787, calls destroyVar, which returns at once for a field),
StaleResult and AssignValue ("the module should be valid after all this",
irgen.cpp:24; "parser didn't reject func within func", irEmitter.cpp:1270) and
NestedRhs ("phi [false, currBlock], [cond2, longCheck]", irEmitter.cpp:808).

Parser has no such constant: its passing runs are about all texts. Its finding
is a text it accepts and should not, `var x: Int;` (VariablesHaveInit); what becomes of
that text in IREmitter is FuncEmitter's NoInit.

Globals' finding is one no form describes (CtorsCalled): with a second global the
constructors are in two lists, since addGlobalCall never stores the first, and LLVM
renames the variable of the second to a name that the code generator rejects. So a
program with two globals is never accepted, and what KeepsLifecycle says of the run
is about programs with one; the second and third declaration are then functions
and classes, and the order of two globals is examined in the module (UsesSeen,
OneBody, LinkageKept) but not at run time.

## What is checked

| Run | Bounds | Shows |
|---|---|---|
| RefCountWide | 3 objects of 2 classes, stack of 6 cells | TypeOK, CountExact, NoUseAfterFree, NoLeak, SelfAlive |
| RefCountSteps | 2 objects, stack of 5 | LastOwnerDestroys, CleanupEnds, KeepsPromise |
| RefCountSelfValue | 1 object, stack of 4 | the finding on `self`: moved into a variable, freed with it, read by its owner |
| FuncEmitter | 2 references, 7 blocks, 5 activations, 6 scopes | TypeOK, ModuleValid, DestroyedOnce, HeldMatches, ScopesMatch, NoCrash |
| FuncEmitterErrors | 2 references, 4 blocks, 4 activations, 5 scopes | FaultsReported, for programs with diagnosed errors and duplicate functions that use none of the other forms |
| Parser | every token but literals, `.`, `?` and operators other than `=`, `-` and `!`, 7 activations | TypeOK, NullReported, BracketsMatch, OverrunReported, Progress |
| ParserExpr | the tokens of expressions, an operator of every level, and of a variable, 8 activations | PrecedenceKept, BracketsMatch |
| ParserInit | every token but four operators, 6 activations | the finding on initializers |
| Lexer | all texts of up to 5 characters, of ten kinds | TypeOK, InText, TokensMatch, LocationsExact, UnknownReported, Finishes |
| Globals | 3 declarations, 2 names, every kind with every access | TypeOK, ForwardTypes, OneBody, LinkageKept, UsesSeen, KeepsLifecycle |
| GlobalsSecond | 2 declarations | the finding on the second global |
| Driver | 2 files | TypeOK, ExitTellsTruth, MachineKnown, ModuleKnown, FilesSafe, Finishes |

*Why the bounds are enough.* `MaxStack` bounds how much is open at once, not
how long the program runs: loops of statements, calls and scopes are explored
without limit, and where memory ends the machine may stop (`OutOfMemory`),
as the real one would. Two objects of one class are needed to overwrite one by
the other, one of another class to hold a field; six cells hold main's frame
with globals below it, a call with an argument or receiver, and a scope or an
operand in the callee. In FuncEmitter names of blocks and references are reused
as soon as nothing refers to them, so the bounds again limit nesting only (a visitor
that needs more blocks than are left is not continued): five
activations are a function, its block, an `if`, an `if` or expression in its
case and an operator in that; seven blocks are what two nested ifs, or an if
around a ternary, have open. The FuncEmitter
run has also been done, with the same result, with three references and with six
activations, which takes longer. In Parser the length of a text is not bounded. Seven activations are
parse, a declaration, its parameters or its block, a statement, an `if` in it,
that one's statement and an expression; for a method one level is the class. What
a deeper expression adds is in ParserExpr, where a global variable's initializer
has five more levels: an operator, its operand, one inside that and a call's
argument. Where the bound ends, the parser stops (`OutOfStack`), as the
process would on its own stack. A text of five characters holds any two-character
operator or word between two others, a block comment with something in it, and a
line comment with the newline that ends it and one character behind it; every
state of the window concerns two characters at most. Three declarations of two
names are a clash of two and a user of either, in any order; a chain of calls that
ends in a variable needs three. In Driver two files are the output and the program,
each also the default name; the REPL has no bound.

*Fairness.* `CleanupEnds` uses `WF_vars(Next)`, a processor
executes the next instruction. Nothing is assumed of the program: the property
speaks of cleanup, which runs no user code. Parser's `Progress` uses the same,
for one thread that runs until parse returns; the text may be endless, so it says
that tokens keep being consumed, not that parse returns. Lexer's `Finishes` assumes
that whoever asks for tokens goes on until END, as the parser and the lexer REPL
do. Driver's has fairness for `Work` only: what the process does by itself, a line
of input included, goes on, but a user may type options for ever. FuncEmitter's properties are
safety properties; its recursion ends because the tree it visits is finite,
which the model, choosing nodes freely, does not express.

*Deadlock* is checked in all runs: each module has an explicit step for the
ways the system stops (`Stopped`, `Halted`, `Returned`, `Exited`).

## What is proved

`RefCountProofs!TypeCorrect`: `Spec => []TypeOK`, for every heap, class
structure, stack bound and every set of forms. TypeOK is not inductive, since
the destructor decrements a count without looking at it. The invariant
`TypeInv` adds

* `Shaped`: what kinds of cell may lie where (the first is the program's frame,
  a pending free lies only below other pending destruction, an ident points at
  a variable below it), so that each action finds what it takes apart; and
* `Counted`: a live object's stored count is at least one. BeginCtor sets it,
  copies only raise it, and a destructor that would reach zero takes the branch
  that makes the object dying instead.

Lemmas on Push and Pop say how the shape of a stack changes; one lemma for each
group of actions (Expression, Call, Statement, Destruction, Program) shows that
it preserves TypeInv, and the theorem follows by induction over behaviours. The
assumptions are those RefCount declares about its constants.

`RefCountCounts` proves three theorems for every heap, class structure and
stack bound, with `Forms = {}`:

* `CountsAreExact`: `Spec => []CountExact`. The count in every live object is
  the number of cells, fields and returned values that owe it a destructor call.
* `LastOwnerRule`: `Spec => LastOwnerDestroys`. Only the destructor call that
  ends the last reference destroys an object.
* `KeepsItsPromise`: `Spec => KeepsPromise`. RefCount implements Ownership under
  the mapping owners <- Owners, alive <- Live.

They share one argument. Each step is shown to be of one of four classes by its
effect on `Owners`, `Live` and `rc` together: `Quiet` (references are moved),
`Shares` (copyValue of a variable or a field), `Makes` (a constructor call) or
`Ends` (a destructor call). `ExactStep` says that no class disturbs CountExact,
`LastOwnerStep` that only `Ends` with a count of one takes an object out of
`Live`, and `PromiseStep` that the classes are Ownership's stuttering, Share, New
and Release. For the classification the invariant `CountInv` adds to TypeInv
what the visitors assume of each other, one conjunct for each way a reference
could get lost between two of them:

* `Tidy`: arguments and variables leave no Value to be destroyed once more, main's
  frame owns nothing, an object being freed is not alive;
* `Waits`: a receiver under a running method is a Value that destroyValue may
  take afterwards: not `self`, and a field only with its temporary base. This is
  what SafeReceiver buys at BeginMethod and EndMethod relies on much later;
* `Moded`: nothing is being returned except while a function unwinds, what is
  returned was not returned by a constructor or by main, and the scopes that a
  return leaves have no condition's temporary behind them.

The conjuncts were checked with TLC on RefCountWide's instance before they were
proved. How many cells own an object (`Held`) is a cardinality; the lemmas
HeldPush, HeldPop and HeldUpdate reduce every change of the stack to arithmetic.

`RefCountSafety` proves three more, with `Forms = {}` as well:

* `NothingFreedIsUsed`: `Spec => []NoUseAfterFree`;
* `ReceiversOutlive`: `Spec => []SelfAlive`: an object is alive as long as a method
  or constructor runs on it;
* `NothingLeaks`: `Spec => []NoLeak`: when main has ended no object is left.

Exact counts are not enough for the first two. `self`, a field access and the
receiver of a running method own nothing; each lives on some cell below it on the
stack. The invariant `SafeInv` says which (`Firm`, `Grip`): what a cell borrows is reached
along fields from an object that a cell below it owns, and no step takes that cell
away, or changes one of those fields, while the borrower is there. The third
needs two facts that no count expresses: fields never form a cycle (`Acyclic`),
because a constructor's argument is older than its object, and an object under
construction has the constructor's activation for its only owner (`Building`). Then an object
alive at the end would have an owner, that one an owner too, and so on in a
finite heap without cycles.

`FuncEmitterProofs` proves seven theorems, all that the runs check of FuncEmitter,
for functions of any size and nesting:

* `TypesAreRight`: `Spec => []TypeOK`, for all forms;
* `Valid`, `Destroyed`, `Counted`, `Matching`, `Crashless` and `Reported`:
  `Spec => []ModuleValid`, and so on for DestroyedOnce, HeldMatches, ScopesMatch,
  NoCrash and FaultsReported, with `Handled`: Forms has no more than "Errors" and
  "Duplicate". As in the runs, what they say is about programs that draw no
  diagnostic; what happens behind one is in none of them but TypesAreRight. So
  `Crashless` does not say that no assertion fails, nor `Reported` that nothing fails
  silently, in any program: `let x = f;` fails an assertion without a diagnostic, and
  each other form has its own way. They say that the listed forms are all that do, as
  far as FuncEmitter models the emitter.

None of the six is inductive, and neither are all of them together. What a visitor
finds when its child returns depends on what it did before the child was visited
and on everything the child did. The invariant `EmitterInv` writes down
what the visitors rely on, for each activation at once (`Good`):

* `Nested`: what an activation keeps by its kind (`Fit`) and what may lie below
  it (`Stands`): no expression waits below a statement, a `&&` waits below
  nothing that makes blocks, a return is above nothing that holds a temporary;
* `Scoped`: an activation's scopes are where the ones below it end, and those of
  an `if` are empty but for the variable that a case has just declared;
* `Apart`: a reference has one owner, a variable, a visitor or `result`;
* `Laid`: each block made and not inserted is awaited by one activation, only the
  block at the insertion point can be open, and no other block has branches to it;
* `Edged`: what is held on the branches to an awaited block is what was alive when
  that activation branched (`Base`), with its result where it has one;
* `Matched`, `Flows`, `Found`: what is held at the insertion point, when there
  is none, and what a visitor finds in `result`: a number or an object that copyValue
  and destroyValue treat as it expects (`Suits`), and, under a statement, never `self`
  or a borrowed field, which destroyValue would release.

Entering, leaving and replacing the activation on top are three lemmas (`EnterGood`,
`LeaveGood`, `NextGood`), which show that nothing below is disturbed if the step
touches no block, scope or reference of the activations below. Each visitor
then shows what it does to the blocks of its own; `InsertEffect`, `BranchEffect`,
`SplitEffect` and `JoinEffect` say what the builder's calls do to `code`. The
invariant was checked with TLC on the instances of both runs before it was proved.
`Depth`, which ScopesMatch compares with FuncScope, is a recursive function:
`DepthIs` shows it equal to a cardinality (`Below`) from the least activation at
which the two would differ.

`ParserProofs` proves five theorems for every set of tokens and every depth:

* `NothingFailsSilently`: `Spec => []NullReported`. Null comes from a step that has
  just reported an error or from one that passes on the null of the call before
  it; `errored` is never reset. It rests on the typing `TypeInv` of the recursion:
  every activation's steps are ones the actions know, with their arguments, so
  that a result is null only where a method made it so.
* `EndIsTheEnd`: `Spec => []OverrunReported`. This is not inductive: it must be known
  that END, once answered, is in the cache until an error has been printed
  (`EndInv`). Lemma CacheKeepsEnd shows it for each way to treat the cache, but for
  the consumption of END; StepKeepsEnd shows that no action consumes END without
  an error, because no step needs it and every branch that consumes a token names
  it.
* `BracketsAreMatched`: `Spec => []BracketsMatch`. As long as no error was printed,
  the brackets open in the text are, in order, the ones that the activations on the
  stack still have to close. `StackInv` says why the two cannot part: an activation's
  left steps end in the one that returns, close what they open and hold no bracket
  behind a step that may return early (`Stacked`: Ended, Nested, Preceded and, between
  neighbours, Linked), and a step that reads the last result finds the kind it
  expects (`Answered`). Every move of the recursion (Going, Calling, Operating,
  Restarting, Returning) then changes `Waiting`, what the stack still awaits, exactly
  as Nest changes `open`; a method that gives up in the middle has an error behind
  it, by NullReported. `Waiting` is a FlattenSeq, which is defined by recursion on
  the sequence: `FlattenAppend` gets from a least counterexample what Append does.
* `TypesAreRight`: `Spec => []TypeOK`, from the same facts: the depth is that of the
  stack (`RestInv`).
* `PrecedenceIsKept`: `Spec => []PrecedenceKept`: every operator's operands bind as
  tightly as the stratified grammar asks. The trees are built bottom up by methods
  that see one token, so the invariant (`ClimbInv`) has to say why the token looked
  at is right for the tree at hand. It sorts the activations of an expression
  (`Sorted`): parseExpr (`Climbing`), an operator with its first operands
  (`Combining`, whose operands are sound and tight enough: `Fitting`), a parenthesis
  (`Enclosing`), and all others (`Plain`), which call parseExpr for whole expressions.
  Between neighbours (`Over`), who waits for a last operand has called parseExpr with
  that operator's minimum, and a parseExpr waits for an operator above its own
  minimum or for a parenthesis. The running one knows of the last result and of the
  cached token (`Ready`): an operand is complete because the token is no operator
  above the minimum (`Stopped`), and what parseExpr holds is a tight enough first
  operand for whichever operator the token may be (`Tight`). ParseBinaryOp keeps it
  because the level of a tree is its operator's; the cases are one lemma per action
  (ClimbUnary, ClimbOperator, ClimbEnds, ClimbChild, ClimbMakes, ...). TLC checked
  ClimbInv to a depth of 7 activations before it was proved.

`DriverProofs` proves five theorems for every set of files:

* `TypesAreRight`: `Spec => []TypeOK`;
* `StatusIsTrue`: `Spec => []ExitTellsTruth`, for all forms;
* `MachineIsSet`: `Spec => []MachineKnown`, for all forms: in compile() the count of
  errors is what keeps compile(out) from a machine that configure() did not find;
* `ModulesAreValid`: `Spec => []ModuleKnown`, with "OptimizeInvalid" not in Forms;
* `FilesAreSafe`: `Spec => FilesSafe`, with "SameFile" not in Forms. A file changes
  only while no error has been counted, and then only the output. It does not say that a failed
  compilation leaves the last good object file: the output is truncated when it is
  opened, and if emitting fails or the process is killed after that it stays empty or
  partial. Then only the exit status tells (StatusIsTrue).

They share the invariant `DriverInv`. Each property is about the last stage and
needs something settled many stages before it: `Staged` says which actions can be at
which stage, `Healthy` that a pipeline without errors has a machine and a valid
module and that the stages behind the early return have no errors, `Unwritten` that
no object file exists before the process ends.

`LexerProofs` proves five theorems for texts of every length, on every alphabet,
with neither "CommentAtEnd" nor "CommentBody" in Forms:

* `ReadsOnlyTheText`: `Spec => []InText`: the window stays inside the text, and
  nothing behind its NUL is looked at. The loops do not test for the end of the
  text, so the invariant (`WindowInv`) has to say what stops each of them: in each
  mode, what lies in front of the window (`Ahead`): a newline in a line comment, the
  closing pair in a block comment, in a word or number at least the NUL, which
  continues neither;
* `TokensAreRight`: `Spec => []TokensMatch`;
* `LocationsAreRight`: `Spec => []LocationsExact`;
* `UnknownsAreReported`: `Spec => []UnknownReported`;
* `TypesAreRight`: `Spec => []TypeOK`.

The last four share the invariant `LexInv`. `Placed` says where the window is among
the lexemes of the text: at the start of one in nextToken's own loop, over a prefix
of one in a word, a number or a line comment, strictly inside one in a block comment,
which has given up its beginning by then. `Located` says that the location
kept with the window is that of its first character, and `Recorded` what tokens and warnings
there are for the lexemes behind it. Where lexemes start is the recursive function `Starts`
of the whole text; `PathIs` shows, by the least counterexample, that it is the least
set that has 1 and, with a start, the position behind its lexeme, and `PathOrder`
that no start lies inside another's lexeme. A run ends where
the loops of the lexer end it (`RunUnique`), a block comment at the first `*` in it
(`BlockCommentEnd`), which is what the two excluded forms would break.

`GlobalsProofs` proves six theorems for any number of declarations, all that the
runs check of Globals but its liveness:

* `TypesForward`: `Spec => []ForwardTypes`;
* `VariablesSeen`: `Spec => []UsesSeen`;
* `BodiesOnce`: `Spec => []OneBody`, in programs without the unhandled forms;
* `PublicNames`: `Spec => []LinkageKept`, in the same programs;
* `ImplementsLifecycle`: `Spec => KeepsLifecycle`, in those of them in which no
  initialiser reads a later global: Globals implements Lifecycle;
* `TypesAreRight`: `Spec => []TypeOK`, under the same hypothesis.

For the first two, seven lemmas, one for each visit of FuncResolver and IREmitter,
bring the visits
down to what they have in common (`Resolves`): the module grows, by symbols of the
visited declaration, with types as they convert at the time; what code refers to was
in the module before. The invariant `PassesInv` says what a pass has from the ones
before it: the classes known so far (`TypesKnown`; all of them from the second
pass on), the structs completed so far (`StructsSettled`, which needs that no two
classes have one name, or a later one would overwrite an earlier), and that
a variable is in the module only behind its own visit (`VarsVisited`).

OneBody needs a declaration to be tied to its symbol and back. `SymbolsInv` says
that a symbol fits the declaration it is for, and one that can get a body is the
one its table has for that name (`SymbolsFit`, `SymbolsInTables`); that a
table has, under a name, only symbols of that name and kind (`TablesFit`), and that
a declaration that was visited without an error is found (`Registers`); that a
symbol has a body exactly if IREmitter has been at its declaration
(`BodiesCounted`), and a declaration that IREmitter will pass over has been reported
(`FlaggedReported`). The refinement and the type invariant follow
from `LifeInv`: SymbolsInv, and that each initialised variable has its
own list of constructors, each object its own list of destructors (`CtorLists`,
`DtorLists`), that an initialiser reads only what is initialised
(`NoEarlyRead`), and that a module that runs has one list of each at most, with how
far the run has come in it (`RunFits`).

Only model-checked: the liveness properties (Finishes of Lexer and of Driver, Progress
of Parser, CleanupEnds of RefCount), which are outside the prover's reach. What a
recursive function computes is an induction over data, which the provers do not do by
themselves: `DepthIs` does one by hand, for a sum, `PathIs` another, for a set of
positions, `FlattenAppend` a third, for a sequence.

## What is not modelled

* In RefCount: Int and Bool values except where a temporary object is behind
  one; more than one object field per class; the order of destructor calls that
  directly follow one another; 32-bit wrap of a count; a global read before its
  initialiser has run.
* In FuncEmitter: blocks made inside the arguments of calls and the bases of
  field accesses (they are leaves); parameters and fields whose type is Void or a
  class that is not declared, which no pass rejects and LLVM does not have; Int
  variables; the bodies of destructors
  and of global constructors.
* In Parser: names, locations and the contents of nodes; which token a message
  names.
* In Lexer: a NUL inside the text (the rest is not seen), characters beyond ASCII
  (isalpha of a negative char), tokens that cross a newline (there are none), the
  other keywords, the limits of a line or column number. The column counts from 1
  on the first line and from 0 on all others; LocationsExact states that as it is.
* In Globals: overloads, of which there are none; parameters; Void and Bool; a
  variable with a declared type (VisitVariable's two other diagnostics); a method
  called ctor or dtor; a duplicate's body, which FuncEmitter has; names that start
  with "vsl." or "llvm.", which no identifier can.
* In Driver: the file `-` (standard input), texts of messages, options that are
  unknown (reported, and without any effect on the exit status), a file that
  others change meanwhile.
* Diagnostics' texts and the AST printer: formatting. The nodes and types of the
  AST are immutable records behind accessors, interned types behind pointers, and
  double dispatch: models choose nodes freely and compare types as values, so that
  their constructors and accessors have nothing to model. LLVM and the C runtime
  are external and modelled from their use.

## Plan

1. (done) RefCount with Ownership, FuncEmitter, Parser.
2. (done) Globals with Lifecycle, Lexer, Driver.
3. Proofs: (done) all safety properties and the refinement of RefCount; all that is
   checked of FuncEmitter; all but liveness of Globals, with the refinement of
   Lifecycle, of Lexer, of Parser and of Driver. Left is liveness, which the provers
   cannot show.
