------------------------------ MODULE Frames ------------------------------
(***************************************************************************)
(* Where an activation keeps its variables                                 *)
(* (compiler/method_generation_context.py, interpreter/ast/frame.py,       *)
(* interpreter/bc/frame.py).  A frame is a list: its inner (or None), the  *)
(* receiver, then the arguments and the locals only the activation itself  *)
(* uses.  The inner is a second list, for what blocks use as well: the     *)
(* on-stack marker, a copy of the receiver, arguments, locals.             *)
(*                                                                         *)
(* The index of a slot counts from 0 as in the code; the sequences that    *)
(* stand for the lists count from 1, so slot i is element i + 1.           *)
(***************************************************************************)
EXTENDS Integers, Sequences, FiniteSets

RcvrIdx == 1     \* FRAME_AND_INNER_RCVR_IDX
ArgOffset == 2   \* ARG_OFFSET, _FRAME_AND_INNER_FIRST_ARG

\* How many of the first n variables have the flag.
CountUpTo(out, n, flag) == Cardinality({j \in 1..n : out[j] = flag})

\* "_separate_variables": out[i] tells whether variable i is accessed out of
\* context.  Each variable takes the next free slot of the list it lives in.
AccessIndexes(out, frameOffset, innerOffset) ==
  [i \in DOMAIN out |->
     CountUpTo(out, i - 1, out[i]) + (IF out[i] THEN innerOffset ELSE frameOffset)]

ArgIndexes(args) == AccessIndexes(args, ArgOffset, ArgOffset)

LocalIndexes(args, locals) ==
  AccessIndexes(locals,
                ArgOffset + CountUpTo(args, Len(args), FALSE),
                ArgOffset + CountUpTo(args, Len(args), TRUE))

\* "prepare_frame", args without the receiver.
SizeFrame(args, locals) ==
  2 + CountUpTo(args, Len(args), FALSE) + CountUpTo(locals, Len(locals), FALSE)

SizeInner(args, locals, needsContext) ==
  LET shared == CountUpTo(args, Len(args), TRUE)
                  + CountUpTo(locals, Len(locals), TRUE)
  IN IF needsContext \/ shared > 0 THEN shared + 2 ELSE 0

\* "create_frame*": what the slots above the receiver hold when the
\* activation starts.  With an inner, an argument goes to the list its flag
\* names, else all of them go to the frame.
ArgumentSlots(size, argInner, args, inInner, empty) ==
  LET kept == {i \in DOMAIN args : argInner[i] = inInner}
      slot(i) == ArgOffset + CountUpTo(argInner, i - 1, inInner) + 1
  IN [s \in 1..size |-> IF \E i \in kept : slot(i) = s
                        THEN args[CHOOSE i \in kept : slot(i) = s]
                        ELSE empty]

NewFrame(size, argInner, rcvr, args, inner, none, empty) ==
  [ArgumentSlots(size, IF inner = none THEN [i \in DOMAIN args |-> FALSE] ELSE argInner,
                 args, FALSE, empty)
     EXCEPT ![1] = inner, ![RcvrIdx + 1] = rcvr]

NewInner(size, argInner, rcvr, args, onStack, empty) ==
  [ArgumentSlots(size, argInner, args, TRUE, empty)
     EXCEPT ![1] = onStack, ![RcvrIdx + 1] = rcvr]
============================================================================
