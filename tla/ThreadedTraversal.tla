------------------------- MODULE ThreadedTraversal -------------------------
(***************************************************************************)
(* How the threaded code generator walks a method: once through the        *)
(* instructions, without executing them, with a stack of the places where  *)
(* it has to continue (the branches for jitted code in the dispatch loop   *)
(* of interpreter_tier1.py, with traverse_stack.py).                       *)
(***************************************************************************)
EXTENDS TwoTierMachine

CONSTANT WalkLimit   \* bound: a walk is followed for so many times so many instructions
ASSUME WalkLimitAssumption == WalkLimit \in Nat

\* What is walked: cells, and how many offsets fit in one operand.
OffsetAt(cells, pc, base) ==
  IF cells[pc + 1] \in LongJumps THEN cells[pc + 2] + cells[pc + 3] * base
  ELSE cells[pc + 2]
NextAt(cells, pc) == pc + BytecodeLength(cells[pc + 1])

BackwardJumps == {"jump_backward", "jump2_backward"}
ConditionalJumps == Jumps \ (BackwardJumps \cup {"jump", "jump2"})
Returns == {"return_local", "return_non_local", "return_self"}

TargetAt(cells, pc, base) ==
  IF cells[pc + 1] \in BackwardJumps
  THEN pc - OffsetAt(cells, pc, base) ELSE pc + OffsetAt(cells, pc, base)

\* A walk is at an instruction and knows where to continue, what it came by
\* and whether it is over.
WalkStart == [at |-> 0, tstack |-> <<>>, seen |-> {}, done |-> FALSE]
GoTo(w, pc) == [w EXCEPT !.at = pc, !.seen = @ \cup {w.at}]
GoToKeeping(w, pc, kept) == [GoTo(w, pc) EXCEPT !.tstack = <<kept>> \o @]
End(w) == [w EXCEPT !.done = TRUE, !.seen = @ \cup {w.at}]
Resume(w) == IF w.tstack = <<>> THEN End(w)
             ELSE [GoTo(w, Head(w.tstack)) EXCEPT !.tstack = Tail(@)]

(* Mutant: a return ends the walk whatever was kept.                     *)
WalkStepToTheFirstReturn(cells, base, w) ==
  LET op == cells[w.at + 1]
      target == TargetAt(cells, w.at, base)
      next == NextAt(cells, w.at)
  IN CASE op \in Returns -> End(w)
       [] op \in BackwardJumps -> Resume(w)
       [] op = "jump" -> GoTo(w, target)
       [] op \in ConditionalJumps \cup {"jump2"} -> GoToKeeping(w, target, next)
       [] OTHER -> GoTo(w, next)

\* The walk goes to the target of a jump and keeps the other successor of a
\* conditional one, but also the instruction after a jump2.  A return or a
\* backward jump continues with what was kept last, and ends the walk when
\* nothing is.
WalkStep(cells, base, w) ==
  LET op == cells[w.at + 1]
      target == TargetAt(cells, w.at, base)
      next == NextAt(cells, w.at)
  IN CASE op \in Returns \cup BackwardJumps -> Resume(w)
       [] op = "jump" -> GoTo(w, target)
       [] op \in ConditionalJumps \cup {"jump2"} -> GoToKeeping(w, target, next)
       [] OTHER -> GoTo(w, next)

\* The walk after each number of steps from start on; and where it ends, after
\* as many such stretches.
Walk(cells, base, start) ==
  LET walk[n \in 0..WalkLimit] ==
        IF n = 0 THEN start
        ELSE LET w == walk[n - 1]
             IN IF w.done THEN w ELSE WalkStep(cells, base, w)
  IN walk
Stretches(cells, base) ==
  LET stretch[n \in 0..WalkLimit] ==
        IF n = 0 THEN WalkStart
        ELSE LET w == stretch[n - 1]
             IN IF w.done THEN w ELSE Walk(cells, base, w)[WalkLimit]
  IN stretch
WalkEnd(cells, base) == Stretches(cells, base)[WalkLimit]

\* Where the interpreter can get to from an instruction.
Successors(cells, base, pc) ==
  LET op == cells[pc + 1]
  IN CASE op \in Returns -> {}
       [] op \in {"jump", "jump2"} \cup BackwardJumps -> {TargetAt(cells, pc, base)}
       [] op \in ConditionalJumps -> {TargetAt(cells, pc, base), NextAt(cells, pc)}
       [] OTHER -> {NextAt(cells, pc)}
IsClosed(cells, base, pcs) ==
  0 \in pcs /\ \A pc \in pcs : Successors(cells, base, pc) \subseteq pcs

\* The walk of the threaded code generator, which goes through a method once,
\* ends, and it comes by every instruction that can be executed, also in the
\* code as rewritten in the end.
WalkSeesAllCode ==
  outcome # Running =>
    \A m \in DOMAIN code : code[m] # <<>> =>
      \E w \in {WalkEnd(code[m], JumpBase)} :
        w.done /\ IsClosed(code[m], JumpBase, w.seen)
============================================================================
