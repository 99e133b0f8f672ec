# A verification project for 2SOM

2SOM is an interpreter for SOM (Simple Object Machine, a small Smalltalk)
written in RPython. It is built either as an AST interpreter or as a bytecode
interpreter with two execution tiers (threaded code and a meta-tracing JIT).
This directory holds TLA+ models of its parts, translated from the code under
`src/src/som`, the TLC configurations that check them, and proofs of their
main properties for TLAPS. `PROJECT.json` lists components, runs, mutants,
the lines that every definition stands for, findings and hazards.

Contents: 1 inventory, 2 conventions, 3-6 what programs share (objects,
returns, sends, arrays), 7-8 compiling and executing whole programs, 9 runs and
bounds, 10 proofs, 11 where code and text disagree, 12 what is not modelled.

## 1 Inventory

The interpreter has one thread. What makes it hard is not concurrency but state
that several parts cache and that operations in the middle of others change:
a message runs user code, user code writes fields, a write gives a class a new
layout, and layouts are the keys of inline caches; a block outlives the method
that created it; a primitive calls a block halfway through its own loop.

| component | code | state | operations |
|---|---|---|---|
| object storage | `interpreter/objectstorage`, `vmobjects/object_with_layout.py`, `clazz.py` | layouts of a class, `is_latest`, memory of instances | create, read, write, change of layout, catch up with the class |
| message sends | `interpreter/send.py`, `interpreter_tier1/2.py`, `ast/nodes/dispatch.py`, `message/generic_node.py`, `super_node.py`, `clazz.py` | method tables, two cache entries or a chain of nodes per site | lookup, hit, fill, retry after an update, does not understand, super send |
| calls, blocks, returns | `vmobjects/method_bc.py`, `block_*.py`, `control_flow.py`, `frame.py` | contexts with their on-stack marker, activations | invoke, create and evaluate a block, local and non-local return, `escapedBlock:` |
| arrays | `vmobjects/array.py`, `primitives/array_primitives.py` | strategy and storage of every array | `new:`, `at:put:`, `putAll:` with value or block, copies, arrays made by the interpreter |
| two-tier execution | `interpreter/bc/interpreter.py`, `interpreter_tier1/2.py`, `tier_shifting.py` | tier, operand stack and bytecode index of an activation, counts, the code itself (instructions are rewritten) | each bytecode in each tier, the move to tier 2 |
| threaded code traversal | `traverse_stack.py`, branches for jitted code in `interpreter_tier1.py` | stack of places to continue at | one walk through a method |
| frames and contexts | `compiler/method_generation_context.py`, `bc/frame.py`, `ast/frame.py` | slots for arguments and locals | lay out, create, read and write at a level |
| bytecode generation | `compiler/bc/*` | bytecodes so far, last four, literals, stack depth | emit, peephole rewriting, patch jumps |
| block inlining | `method_bc.py` (`_inline_into`), `lexical_scope.py`, `method_ast.py`, `adapt_after_*` of the nodes | pending jumps, context levels | copy a block into its method |
| trivial methods | `vmobjects/method_trivial.py` | none | recognise and run methods of one statement |
| AST compilation and execution | `compiler/ast/*`, `interpreter/ast/nodes/*` | the tree, frames | build, inline, execute |
| integers | `integer.py`, `biginteger.py`, `double.py` | none | arithmetic, overflow, conversions |
| globals, class loading | `vm/universe.py`, `global_read_node.py`, `class_generation_context.py` | associations, loaded classes | read, write, load |
| heap, primitives, lexer, shell, statistics, RPython shims | elsewhere | | see section 12 |

How they interact: a send (sends) looks up an invokable by the layout of the
receiver (object storage), enters it (calls) and continues with its answer or an
exception (returns). A write may replace the layout of a class (object
storage), which makes cache entries stale (sends); a failed lookup moves a
receiver to the newest layout. Primitives of arrays call blocks (calls) and may
be left by their exceptions. The compiler produces what the tiers execute, and
decides by the blocks of a method which variables live in a context (frames);
both tiers rewrite the code they share while they execute it.

What makes each component correct:

- object storage: a field reads as what was written to it, whatever moves of
  this and other instances lie between; layouts only generalise;
- sends: the method that runs is the one the class hierarchy says, whatever
  caches, tables and nodes hold; retries end;
- returns: `^` in a block ends the home of the block and what it called, and
  nothing else; if the home has gone, `escapedBlock:` is sent;
- arrays: a change of storage never changes an element, and no read fails;
- tiers: an activation continued in tier 2 computes what tier 1 would have, and
  whatever one tier writes into the code the other executes;
- the walk of the threaded code generator misses no reachable bytecode;
- generation, inlining, trivial methods: the code produced answers what the tree
  of the same source answers; jumps go to instructions, the stack is large enough;
- frames: an access reaches the argument or local it was compiled for;
- integers: results are those of mathematical integers.

## 2 Conventions

Operators keep the names of the code, in TLA+ capitals. One action is one
operation with all calls it makes; it is split where SOM code runs inside it
(answers of a block in `putAll:`) or where the host stack unwinds (one action
per activation). Values are small records or model values: only the
distinctions the properties need. A CONSTANT that is a bound is marked `bound`
in its declaration. Definitions called `Mutant: ...` are plausible wrong
versions of the definition that follows; no specification uses them. Each shows
that some property notices the difference.

Some settings exclude behaviours in which the code is known to fail, so that the
rest can be checked and proved: `Arities` and `BlockReceivers` (section 4),
`FailingWrites` (5), `MixedFills` and `MixedArguments` (6). The programs of
`SamplePrograms` (8) avoid the known failures in the same way. Section 11 says
what fails without each of them, and how to see it.

## 3 Object storage: FieldStore, ObjectLayout

`ObjectLayout` is the storage model of one class: the sequence `layouts` it
ever had (`ObjectLayout` objects of the code, identity = index), `isLatest`,
`classLayout` (`Class._layout_for_instances`) and the memory of each object:
layout, primitive slots, the `_primitive_used_map`, pointer slots. A layout is a
function from fields to storage types; the slot of a field is computed as the
constructor of the code assigns it, integers and doubles sharing the primitive
slots.

Actions: `New`, `SetField` (with the cases of `set_field`: stored in place, an
uninitialised field, a generalisation; each transition publishes the new layout,
moves the object field by field and writes again) and
`UpdateLayoutToMatchClass`. Everything is atomic: no SOM code runs inside.
Raw bits are kept apart from types so that a read with the wrong type or a slot
that was scrubbed shows. Failed assertions are recorded in `abort`.

`FieldStore` is what the rest of the system relies on: a map from object and
field to the value written last. `FieldStoreSpec` says `ObjectLayout` implements
it under the mapping that reads every field through `get_field`. In both modules
the history variable `request` is the write the program asked for last: a step
that takes a request has to change that field of that object to that value, and
a step without a new one changes no field, so a write that is lost, or lands
elsewhere, is a violation.

Properties: `OnlyClassLayoutIsLatest`, `LayoutsGeneralize`,
`TransitionsByConstruction` (a comment in the code: exceptions "should not
happen by construction"), `AbortOnlyOnStaleObject` (the object of the write that
fails the assertion is behind its class), `FieldStoreSpec`.

## 4 Calls, blocks and non-local returns: ReturnSemantics, NonLocalReturn

`ReturnSemantics` is the promise: every activation has a home; `^` in a block
drops the home and everything above it in one step; if the home has returned,
the self of the home receives `escapedBlock:`. `EscapeEnds` says what the answer
of that is: the answer of the block, which is over, or the value of the return
statement, after which the block goes on.

`NonLocalReturn` is how both interpreters do it: `contexts` with their marker
(first slot of `inner`), the `stack` of activations, and `target`, the
`ReturnException` under way. `Raise` and `SendEscapedBlock` are the two branches
of `_do_return_non_local` (`interpreter_tier2.py:42`), `Unwind` is the exception
leaving one activation; methods compiled as `BcMethodNLR` (AST:
`CatchNonLocalReturnNode`) clear their marker however they are left (`Leave`).
`Interpreter` selects where the two differ: `BcMethodNLR` inherits `invoke_4`
unchanged; the receiver of `escapedBlock:` is searched dynamically in the
bytecode interpreter; and `EscapeEndsBlock`: the return bytecode answers what
`escapedBlock:` did (`_do_return_non_local`), `ReturnNonLocalNode.execute` only
has it as its value. `BlockReceivers` are the blocks that methods of class Block
are called with.

The refinement hides the unwinding: while an exception is under way, `Visible`
is the stack below its target.

Properties: `MarkerTellsTheTruth` (a method that blocks may return from is
marked exactly as long as it runs), `ReturnsAreCaught`, `AssertionsHold`,
`ReturnSemanticsSpec`.

## 5 Message sends: MethodDispatch, SendSites, BytecodeSends, AstSends

`MethodDispatch` is the promise: a send that was begun is answered by the method
that inheritance selects, before the next one begins.

`SendSites` is shared: method tables (`lookup_invokable` copies inherited
methods into every class it passes), the numbers of layouts per class and which
are retired, the layout of each object, and `ChangeLayouts`, everything that
`ObjectLayout` can do to layouts between two sends. That is the composition with
object storage: a layout is abstracted to `<<class, number>>`, and by
`LayoutsGeneralize` and `OnlyClassLayoutIsLatest` (section 3) the number of the
newest one grows and the others are not latest. `FailingWrites` adds the failed
assertion of section 3, which retires the layout of a class without a successor.

`BytecodeSends` adds the two cache entries of a bytecode: `HitFirst`,
`FillFirst`, `HitSecond` and `MissBoth` are the branches of `_lookup`,
`Invalidate` empties entries of old layouts, `UpdateAndRetry` executes the
bytecode again after the receiver was updated, `SuperSend` and `QuickSuperSend`
are the two forms of a super send. `AstSends` has a chain of dispatch nodes per
site, its clean-up, `BecomeMegamorphic` and the generic node.

Properties: `TablesTellTheTruth` (inherited copies agree with the classes),
`CachesTellTheTruth` (also what justifies declaring lookups elidable),
`RetriedOnce`, `EverySendIsAnswered` (liveness), `ChainsWellFormed`,
`MegamorphicOnlyByClasses`, `DispatchSafety` (refinement).

Fairness: `EverySendIsAnswered` assumes weak fairness of `Execute`, that is, that
the interpreter loop goes on executing the bytecode it has begun. There is one
thread, no lock and nothing to wait for, and a bytecode that has begun is always
enabled. No other property of this project needs fairness.

## 6 Arrays: ArrayContents, ArrayStorage

`ArrayContents` is the promise: an array is a sequence of values of fixed
length. `putAll:` with a block collects the answers and puts all of them in at
once; a block that is left by an exception or a non-local return changes
nothing. Every step of it says in `operation` what the program asked for, and has
exactly that effect: an `at:put:` that is lost, or that meets another element,
is no step. One known fault is part of the promise (`Kept`): the answer that is
the first not to be an integer, or a double, after some that were, may be
replaced by zero (`lost_answer`, section 11).

`ArrayStorage` has the six strategies. `arrays` keeps strategy and storage, for
partially empty arrays with the count of empty elements and the type seen so
far. `fills` is the stack of `putAll:` being executed, because the block may use
the same array: `BeginFill`, then one action per answer (`FirstAnswer` selects
the mode, `FittingAnswer`, `OtherAnswer` changes to objects), and `Abandon` when
the block does not come back. `SetIdx` is `set_idx` of all strategies,
`Settled` the moment a partially empty array gets its final storage. The empty
strategy stores only a size; the model writes it as that many nils.
Indices below 1 are Python's negative indices, as in the code. A failed assertion
or index is an exception that SOM code cannot catch: it ends the line of the
shell, which leaves every `putAll:` and goes on with the next line; `outcome`
says what the last operation came to, and the history variable `operation` what
it was.

Properties: `ReadsSucceed` (no assertion of `get_idx` fails), `PartialKnowsItsKind`
(the count and the type justify the conversion), `ContentsSpec` (refinement;
`answers` is a history variable of a fill), and `AnswersAreKept`, which the run
`lost_answer` finds violated.

## 7 From source to code: GenerationContexts, CodeEmitter, BytecodeCompiler, BytecodeParser, AstCompiler, AstParser

Both compilers read a method once and produce code as they read. The models
start from the syntax tree; there is one operator for each method of the parser
and of the code generator, and their state is a record `S` that the operators
hand on, with the objects of the compiler: contexts of methods and blocks
(`gencs`), assembled methods, scopes, variables, and whether an exception was
raised (`failed`).

`GenerationContexts` is what the two share: searching a variable through the
outer contexts, marking it and the contexts between as accessed from inside
(`MarkAccessed`, `RequiresContext`), assigning slots (`Frames`), and moving the
variables of an inlined block to the method around it (`MergeScopeInto`).

For bytecodes, `CodeEmitter` emits one instruction at a time with its short
forms, keeps the last four, drops a `dup` and a `pop` around a store when
`CanDropDup` allows it, patches jumps and adds up the stack depth.
`BytecodeCompiler` assembles methods, recognises trivial ones, and copies the
instructions of a block into the method around it: `InlineInstruction` has one case for
each kind of instruction (levels, variables, blocks in blocks, non-local returns
that become local, jumps whose targets move). `BytecodeParser` has the grammar
rules and the nine control messages that are inlined. The operand that holds an
offset is smaller than the one of the code (`JumpBase`), so that small methods
need the long forms.

For trees, `AstCompiler` and `AstParser` do the same. A node is a record with
its kind, its level and its children; adapting a node after inlining
(`AdaptAfterInlining`, `AdaptAfterOuterInlined`) has a case for each class of
node.

## 8 Executing it: Values, IntegerArithmetic, Frames, MachineState, ThreadedInterpreter, TracingInterpreter, TwoTierMachine, TierEquivalence, ThreadedTraversal, VerifiedCode, VerifiedScopes, AstEvaluation

`Frames` is how slots are numbered and how frames and contexts ("inners" in the
code) are filled when an activation starts. `IntegerArithmetic` has machine
integers of a given width (`MaxInt`) that overflow into big ones.

`MachineState` is what the bytecode interpreters keep: the stack of activations
(method, bytecode index, frame, operand stack, tier), the contexts, objects, and
`code`, which is a variable because the interpreters rewrite it. The first
execution of an access to a variable replaces it by an instruction for frame or
context (`Patch`), and the first execution of a super send by one that keeps the
invokable. `ThreadedInterpreter` and `TracingInterpreter` are the dispatch loops
of the tiers, one action for each group of bytecodes that do the same thing;
where they differ (what is counted, which entry points a call uses, which quick
super sends exist) the difference is in the action. `ContinueInTier2` is the move
of an activation, `shielded` the non-empty traversal stack that prevents it.
Non-local returns take one step here; section 4 has the unwinding. Sends look
their message up; section 5 has the caches.

`TwoTierMachine` puts the tiers together. `AstEvaluation` is the other
interpreter, as recursive operators over the tree, for what it answers is what
matters here: `AnswersAsTheSource` compares the two, compilers included.

`TierEquivalence` is a refinement: erase tiers, counts and traversal stack, read
the super sends of tier 1 as those of tier 2, and the two tiers together are the
second alone. `ThreadedTraversal` compares the walk of the threaded code
generator with what can be reached. A walk is followed for `WalkLimit` stretches
of `WalkLimit` instructions, and the property requires that it ended by then: 13
is too few for the programs, 20 is enough.

`VerifiedCode` writes down what the interpreters take for granted of compiled
code and check nowhere. A verifier of bytecodes would: a height of the operand
stack for every instruction that can be reached, on which all ways to it agree and
from which no instruction takes more than there is; operands, classes and
literals that name what exists; loops that are entered at their first
instruction only. `Heights` is the verifier's result; `MCTwoTierMachine` computes
it as a verifier does, from the first instruction on. `Inv` says that the code of
the program is verified (`CompiledCodeIsVerified`), and what follows from that
while it runs and rewrites itself.

`VerifiedScopes` does the same for what the height of a stack says nothing about:
whether a variable, a context, a field or a receiver is there. It follows the
methods that can run (those that messages find and the blocks pushed in them; the
code of a block that was inlined stays among the literals and never runs). Of
each it knows whether it is a block, the methods around it from the inside out,
and, for every instruction, the places on the stack that hold the object
(`Scopes`, computed by `MCTwoTierMachine`). `ScopesFit` then asks that an access
goes no further out than there are contexts and names a slot of the frame or
context of the method it gets to; that fields are used where self is the object;
that a block is pushed where the contexts it counts on are; that tables of
primitive classes hold no method that uses fields; and that a super send whose
method is one of the object has the object on the stack as receiver, because
nothing looks at it again. TLC evaluates `ScopesFit` of every program as the
assumption `ScopesAreVerified`.

A primitive that has no answer (division by zero, an argument that is not a
number) ends a program with an error (`FailInPrimitive`). So do, in the model, the
quotient and the magnitude that the code does not check for overflow: what they are
depends on the build.

Properties: `AnswersAsTheSource`, `StackFits` (the computed depth is never
exceeded), `LandsOnInstructions` (the bytecode index is always the beginning of an
instruction, which is what patched jumps, inlined code and rewriting must not
break), `WalkSeesAllCode`, `Inv` (compiled code is verified, and activations are
where and as the verifier said), `Terminates` (liveness), `ShiftsAreInvisible`
(refinement). `TypeOK` includes that nothing is read from a slot that does not
exist.

`SamplePrograms` has thirteen programs, written to reach every action, every
inlined message, the trivial methods, blocks within inlined blocks, non-local
returns that do and do not find their home, super sends, globals that come into being, messages that
are not understood, and overflow. 2SOM itself, run under CPython as AST interpreter and with
each tier, gives the same answers to them; one is for the bytecode interpreters
only, as the AST compiler rejects it, in the model as in the program.

Fairness: `Terminates` assumes weak fairness of `Step`: the loop of
`interpret_tier1` or `interpret_tier2` executes the next bytecode, and `interpret`
(`interpreter.py:58`) restarts it after a move. There is no other thread and
nothing to wait for.

## 9 Runs

Passing runs:

| run | question | bounds and why they are enough |
|---|---|---|
| `objects` | does every read give what was written last? | two objects, so that one can be behind the other; two fields and one direct slot of each kind, so that fields need the extension arrays; one value per kind with equal bits, so that a wrong type shows. The number of layouts is bounded by the lattice of types |
| `bytecode_returns` | do markers and exceptions implement `^`? | five activations, four at a time: a home, a block in a block, a handler of `escapedBlock:` that returns non-locally itself, and one activation in between; no method runs with a block as self |
| `ast_returns` | the same for the AST interpreter | five activations, three at a time: a block can escape, go on and escape again; arity 4 and methods that have a block with a context as self included |
| `bytecode_sends` | do caches and tables select the right method, and do retries end? | three classes in a chain, one that does not understand the message, up to two layouts per class (five layouts for two entries: both are filled and passed over), five objects, one site and two super sends |
| `ast_sends` | the same for chains of nodes | chains of two nodes and more classes than that, so that sites become megamorphic; failing writes included |
| `array_storage` | do the strategies implement sequences? | two arrays (copies), two elements (one can be filled while the other is a hole), one fill, a value of every kind; indices 1 and 0, the latter being the last element |
| `nested_fills` | does `putAll:` survive a block that uses the same array and answers values of several kinds? | one array of up to three elements, fills nested twice: an inner one finishes, changes the strategy, or is left while the outer one is in the middle; `MixedFills` is TRUE, so that answers change the storage to objects at every position and the kind "boolean" comes first |
| `generated_code` | do compilers, tiers and their combination make the same of a program? | thirteen programs in five settings: tier 1, tier 2, and both with thresholds 0, 1 and 3, so that activations move at the first, second and fourth time an instruction is counted, in loops, sends and returns. `JumpBase` 20: offsets of the methods are below and above it; `MaxInt` 511: sums overflow. Inputs are fixed, the initial states are the 65 combinations |

`CHECK_DEADLOCK FALSE` is set where the program really may stop: after a failed
assertion (`objects`), an uncaught exception or when the bound on activations is
used up (returns).

Runs that show a disagreement, one property each: `stale_write`,
`four_arguments`, `lost_answer`, `shifted_super` (section 11).

Every property of every passing run has a mutant in `PROJECT.json`: a wrong
version of a definition under which that run finds the property violated.

## 10 Proofs

TLC checks the instances above; the following holds for all values of the
constants that satisfy the named assumptions of each module.

| module | theorems | extra hypothesis |
|---|---|---|
| `ObjectLayoutProofs` | types, `LayoutsGeneralize`, `OnlyClassLayoutIsLatest`, `TransitionsByConstruction`, `AbortOnlyOnStaleObject`, refinement of `FieldStore` (reads give what was written last) | refinement: `MapFits`, at most as many fields as the used map has bits |
| `NonLocalReturnProofs` | types, markers, no uncaught exception, no failed assertion, refinement of `ReturnSemantics` (with the `EscapeEnds` of the interpreter) | `NoFourArguments`, `NoBlockSelf` (for the bytecode interpreter) |
| `SendSitesProofs` | `lookup_invokable` on tables with copies finds what inheritance says | none |
| `BytecodeSendsProofs` | types, truth of tables and caches, `RetriedOnce`, refinement of `MethodDispatch` | `RetriedOnce`: no failing writes |
| `AstSendsProofs` | types, `ChainsWellFormed`, `MegamorphicOnlyByClasses`, refinement of `MethodDispatch` | none |
| `ArrayStorageProofs` | types, `PartialKnowsItsKind`, refinement of `ArrayContents`, whatever blocks answer; `ReadsSucceed` | `~MixedArguments`; `ReadsSucceed`: `~MixedFills` too |
| `TwoTierMachineProofs`, operators | every variable has a slot within its list (`PlacesFit`), no two share one (`PlacesDiffer`), arguments are where accesses look for them (`ArgumentsArrive`); exact results of integers, rounding of division, `inc` and `dec`, remainders, magnitudes, for every width | none; the cases in which the code does something else are part of the statements |
| `TwoTierMachineProofs`, machine | the invariant of the machine, `StackFits`, `LandsOnInstructions`, `WalkSeesAllCode`, for every program, both tiers and every moment of the change | `CompiledCodeIsVerified`, which `generated_code` checks of the code the compilers make; `WalkSeesAllCode`: the walks end within the bound |
| `TwoTierMachineProofs`, values | `ScopesHold` and `TypeOK`: contexts, variables, fields and receivers are there whenever an instruction uses them, for every program, setting and threshold | `CompiledCodeIsVerified`, `CompiledScopesFit`; both hold of all samples |
| `TierEquivalenceProofs` | the two tiers implement the second alone (`ShiftsAreInvisible`), for every program, setting and threshold | `CompiledCodeIsVerified`; `SameEntryPoints` of the program that runs |

The inductive invariants and why the properties alone are not inductive:

- Object storage: `Inv` adds that the flag of the class layout is the only one
  set, that objects and classes have layouts from the sequence, and that layouts
  generalise; a write is then at most one transition, because the new layout
  holds the value, and a move keeps every field because the new type can hold
  whatever the old one could. Two lemmas carry it: slots of different fields
  differ (counting argument over the fields below), and a write to one slot
  leaves the others as they read.
- Returns: `Inv` adds that the target of an exception is on the stack
  (`TargetOnStack`) and catches. The marker is true for a method on the stack
  and false for one that left, because contexts are created in the order of the
  stack and leave from the top. The refinement maps a raise to the atomic
  return and the unwinding to stuttering.
- Sends: `LocalTellsTheTruth` (the invokable in the local variable of the
  bytecode being executed) and `SuperEntries` are added. An entry holds for its
  layout for ever: the class of a layout never changes and tables only gain
  copies that agree with `Resolve`.
- Chains of dispatch nodes: `NodesTellTheTruth` and `SupersTellTheTruth` are the
  same argument for nodes and super sends. `OneLatest` says that the latest
  layout of an object or a node is the newest of its class, so a class has only
  one: after the clean-up the nodes that are left are nodes of different
  classes, and a chain that is still full remembered INLINE_CACHE_SIZE of them.
  The clean-up itself (`Kept`) is a loop; that it has a result and what it
  leaves is proved with a least counterexample.
- Arrays: `ArraysSound` (type, kind of elements, and for partially empty arrays a
  count that is never too low) and `FillsSound` (a fill has as many answers as
  it stored, fewer than its array has elements, all of the kind of its mode unless
  booleans were taken for doubles, and its array still has the size it had). The steps are first reduced to a few
  cases: an exception, a sound new array, one element or all elements
  replaced, one answer stored. Both the invariant and the refinement follow from
  those.

- Frames: the index of a variable is the number of variables before it with the
  same flag. That number grows by one at a variable with the flag and stays
  otherwise (`CountNext`, from cardinalities), so it is monotone and strictly so
  at variables with the flag; that gives disjoint and dense indexes, and the
  `CHOOSE` in `ArgumentSlots` is unique. No induction is needed.
- Integers: division with remainder of naturals, lifted to signs case by case.

- Machine: `StackFits` and `LandsOnInstructions` say nothing of how an
  activation got where it is, so `Inv` does: every activation, the waiting ones
  included, is at an instruction the verifier reached, with a stack of exactly
  the height the verifier computed. A step is then a way of the verifier
  (`FlowsTo`). For that to hold of calls, a waiting activation has the receiver
  on its stack, which the answer replaces, and every block anywhere in the
  program (stacks, frames, inners, objects, globals) names a method; for it to hold
  after rewriting, the cells of a method are those compiled or a variant with
  the same length and effect, with the operands it needs (`CellsFit`), and
  rewriting one instruction leaves the others alone (`OperandsApart`). The steps
  of the two tiers are proved from lemmas about what they share (calls, pushes,
  stores, jumps, answers), because their actions are the same but for counts and
  entry points.
- Scopes: `TypeOK` says that what was read is a value. That the next read is one
  depends on where the blocks in the hands of the program came from, so
  `ScopesInv` remembers which method every context was made for (`own`, one
  function for the whole state; it only grows) and relates everything else to
  it: an activation has the context of its method, its frame and that context have
  as many slots as the method says, a block value has a context of the method
  its code is pushed in, and the self of a method that is not in a table of a
  primitive class is the object, the self of a block the block itself. Going out
  `n` contexts from an activation then gets to the context of the `n`th method
  around it (`ChainOut`; the recursive functions that go out are compared value by
  value, with a least counterexample). For super sends, which trust the stack, the
  places the verifier names hold the object (`SelvesHold`), and none of them is
  the one a waiting activation gets its answer in (`AwaitsAnswer`). For patched
  instructions, a cell for a frame or context has the slot and the level the
  compiled access resolves to (`CellsResolved`). A step either keeps `own` or
  adds the context it makes (`Extends`), and then all that was in scope
  still is (`StillScoped`). The rest is one lemma for each thing the actions of both
  tiers share: calls, reads, stores, jumps, rewriting, sends, returns.
- Traversal: the walk keeps that it knows every way out of what it has seen
  (`Known`), except back to the first instruction of a loop, and that it came by
  that instruction if it is anywhere in the loop; the latter is where one entry
  per loop is needed, since at a backward jump the walk does not go on to the target.
  The walk is a recursive function of the number of steps; that there is one, and
  that all of its values fit, is proved with least counterexamples.

- Tiers: the refinement mapping erases tiers, counts and the traversal stack and
  reads `q_super_send_n` of tier 1 as the instruction tier 2 would have written.
  `BothTiersInv` adds to `Inv` what makes the abstract code the same code: a
  rewritten super send holds the instruction its selector decides, and it has not
  four arguments (`SuperSendsFit`). Then a step of either tier is the same step of
  the second tier, and a move is a stuttering step, because a moved
  activation differs in what is erased only. The code of the abstract machine is
  equal to the code of the concrete one from this invariant on; without it the
  mapped code is another one, and `ShiftedSuper.cfg` shows where it goes.
  The hypothesis `SameEntryPoints` names all that one tier has and the other has
  not: trivial methods of four arguments (`invoke_4_tier2` is missing) and
  `q_super_send_4`. `MCTwoTierMachine` states of which programs it holds: of
  all samples but one, whose super send of four arguments is met in one tier only,
  and not of the program of `shifted_super`.

Only model-checked: liveness (`EverySendIsAnswered`, `Terminates`); what the
compilers make of a source, which is recursive over it (`AnswersAsTheSource`, and
that code and scopes are verified); and that walks end. Induction over data is not available to the provers
used. The hypotheses above are not made by the code: they exclude the failures of
section 11 or are checked by a run.

## 11 Where code and text disagree

With a run that TLC ends with a counterexample:

| run | what happens |
|---|---|
| `stale_write` | a write to an uninitialised field of an object with an old layout fails the assertion of `with_initialized_field` (`object_layout.py:94`) if another instance has initialised the field with another type; `is_latest` has been cleared by then |
| `four_arguments` | a method with three arguments and a receiver runs through `invoke_4`, which `BcMethodNLR` does not override: `^` in its blocks is caught by nobody |
| `lost_answer` | `putAll:` replaces the answer that makes it change from integers or doubles to objects by 0 (`array.py:175`, `201`) |
| `shifted_super` | tier 2 rewrites a super send of four arguments to `q_super_send_4` (`interpreter_tier2.py:735`), which tier 1 does not know; the next activation of the method starts in tier 1 |

Seen while modelling, without a run of their own:

- The search for the receiver of `escapedBlock:` (`get_self_dynamically`,
  `bc/frame.py:244`) walks through a block that is the self of the home; if that
  block has no context `get_from_outer` fails its assertion. `BytecodeReturns.cfg`
  with `BlockReceivers = {"without context"}` violates `AssertionsHold`. The AST
  interpreter stops at the home.
- `putAll:` with a block whose first answer is a boolean continues as for doubles
  (`array.py:127`); reading such an element fails, and so does the change to
  objects. `ArrayStorage.cfg` with `MixedFills = TRUE` violates `ReadsSucceed`.
- `from_values` selects unboxed storage although nil is among the values
  (`_determine_strategy` skips nil); the conversion fails, or stores false.
  `ArrayStorage.cfg` with `MixedArguments = TRUE` reaches `outcome = "misfit"`.
- A copy of a partially empty array counts all elements as empty although its
  class "track[s] the number of empty slots left" (`array.py:660`); it never gets
  unboxed storage. No element is wrong: `PartialKnowsItsKind` allows for it.
- Inherited copies in method tables are counted and listed as invokables of the
  class (`clazz.py:87`, `110`), which `Class>>methods` shows.
- `get_number_of_fields` (`objectSize`) is the length of the extension array of
  pointers, not the number of fields, and fails when there is none.
- After `stale_write` the shell goes on (`shell.py:48`) with a class that has no
  latest layout: the bytecode interpreter then retries every message that its
  instances do not understand for ever. `BytecodeSends.cfg` with
  `FailingWrites = TRUE` violates `RetriedOnce` and `EverySendIsAnswered`.

- The 33rd integer or double field of an object has no bit in
  `_primitive_used_map` (`storage_location.py:53`) and always reads nil.
  `ObjectLayout.cfg` with `MaskBits = 1` violates `FieldStoreSpec`.
- `at:put:` of another kind into a full array of doubles or booleans fails an
  assertion (`array.py:420`, `494`).

Seen while the compilers and interpreters were modelled; the models have these
behaviours, and the sample programs stay clear of them:

- Trivial methods: a field write of the receiver (`fa := self`) fails when it is
  assembled (`method_trivial.py:276`); `invoke_4` has no case for the third
  argument and stores the second (`304`), and `invoke_n` stores the one before
  the one meant; `invoke_4_tier2` is missing. `^ fa := x` as the only statement
  answers self in the AST interpreter and x in the other.
- Trivial blocks have no `adapt_after_outer_inlined` and no scope to merge:
  inlining a block that holds `[ field ]` or `[ UnknownGlobal ]`, and
  `1 to: n do: [:i | nil]`, raise at compile time.
- `BigInteger.prim_dec` answers 1 minus the number (`biginteger.py:117`), so that
  `n - 1` differs between the interpreters for a big n, and `prim_remainder` of two
  big integers divides the first by itself (`200`). The quotient of the smallest
  integer by -1 and its absolute value are not checked for overflow. `inc` and
  `dec` of what is not a number stop the bytecode interpreter, where the AST
  interpreter sends `+` or `-`.
- A `jump2` in code that is not being compiled pushes to the traversal stack
  (`interpreter_tier1.py:1465`) and nothing pops it, so the activation stays in
  tier 1. This is not visible in what is computed.
- Compiled tier 1 code starts a callee with a stack of 8 elements whatever it
  needs (`interpreter_tier1.py:363`).
- The loop variable of an inlined `to:do:` and the locals of inlined blocks are
  one variable for all iterations; a block that captured it reads the last number
  after the loop. Only compiled code executes `nil_local` (`nil_frame` and
  `nil_inner` store under `we_are_jitted()`), and such a block reads nil in it.
- `x + 1 negated` does not compile for the bytecode interpreters: `+` or `-`
  before the token `1` becomes `inc` or `dec` (`bc/parser.py:204`) and the unary
  message is left over. The other interpreter sends `negated` to 1.
- AST: `super two: x get` sends `get` to super as well, because the flag is reset
  only after the arguments; nodes assert that a variable is local
  (`variable_node.py:54`), which fails for nested blocks that use the variable of
  a `to:do:`; a block that is only a global cannot be inlined; sends of three or
  more arguments call `invoke_args`, which trivial methods and primitives lack.
- A non-local return whose home has gone, from an inlined conditional of a block:
  the AST interpreter goes on after `escapedBlock:`, the bytecode ones return its
  answer.
- Conditions that are not booleans: the AST interpreter raises, the bytecode ones
  take them for the other value.

## 12 Not modelled

- JIT compilation itself: hints (`promote`, `elidable`, `unroll_safe`) are
  assumed to keep the meaning of the interpreter. Where a hint claims something
  (`elidable` of lookups), the claim follows from a property here. Of traces only
  the walk of the threaded code generator is modelled.
- `interpreter_tier1_tracing.py`: no file imports it.
- Characters and tokens, input and output, shell, statistics, the RPython shims.
- Doubles, shifts, bit operations, strings, symbols as data, and literal arrays:
  they would add operations on values and no control. Class variables and
  class-side methods are compiled like others.
- Loading of classes from files while a program runs.
- Specialised AST nodes for sends and arithmetic; `AstSends` has the chains.
- The heap of pending jumps: inlining needs those with the smallest target, and
  `BytecodeCompiler` takes them from a set.
- In the modelled components: field and class names, `set_instance_fields`,
  receiver-type statistics of send nodes, and reads without effect.
- What a later line of the shell meets after an exception is modelled for arrays
  and, in the sends, for layouts (`FailingWrites`, excluded in `bytecode_sends`:
  section 11). `ObjectLayout`, `NonLocalReturn` and `TwoTierMachine` end with a
  failure.

The models of sections 3 to 6 and those of 7 and 8 meet where the latter leave a
part out: a send of `MachineState` looks up what `BytecodeSends` is proved to
find, a non-local return is the atomic one of `ReturnSemantics`, fields read what
was written as `FieldStore` says.
