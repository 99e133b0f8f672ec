---------------------------- MODULE NonLocalReturn ----------------------------
(***************************************************************************)
(* Calls, blocks and returns (vmobjects/method_bc.py, block_bc.py,         *)
(* interpreter/control_flow.py, the return bytecodes of interpreter_tier1  *)
(* and interpreter_tier2, and the same in the AST interpreter).            *)
(*                                                                         *)
(* An activation keeps what blocks may use in its context (`inner`), whose *)
(* first slot says whether the activation is still on the stack.  A block  *)
(* refers to the context that created it.  A return inside a block raises  *)
(* ReturnException with the context of the home as target; the exception   *)
(* runs down the host stack through every activation, and the method that  *)
(* owns the target answers its result.  Only methods compiled as           *)
(* BcMethodNLR (or wrapped in CatchNonLocalReturnNode) catch it, and only  *)
(* they clear the marker.                                                  *)
(*                                                                         *)
(* There is one thread.  An action is one call, one return bytecode or the *)
(* exception leaving one activation.  Activations without a context are    *)
(* those of methods without blocks: they behave as a method that does not  *)
(* catch, and the marker of such a context is never read.                  *)
(***************************************************************************)
EXTENDS Integers, Sequences

CONSTANTS Interpreter,     \* "bc" or "ast"
          Arities,         \* argument counts of methods, the receiver included
          BlockReceivers,  \* the blocks that methods of class Block run with as
                           \* self: those with a context, without one, or none
          Object,          \* a receiver that is not a block
          NoContext,       \* _outer of a block that uses no context (None)
          MaxContexts,     \* bound: activations of a behaviour
          MaxDepth         \* bound: activations at one time

ASSUME ReturnAssumption ==
    /\ MaxContexts \in Nat /\ MaxDepth \in Nat
    /\ Arities \subseteq Nat
    /\ Object \notin Nat /\ NoContext \notin Nat /\ Object # NoContext

ASSUME ReceiverAssumption == BlockReceivers \subseteq {"with context", "without context"}

VARIABLES contexts,  \* every context created so far; an index is an identity
          stack,     \* the running activations, the outermost first
          blocks,    \* contexts a block of which is in the hands of the program
          target,    \* the target of the ReturnException being raised
          failure    \* what stopped the interpreter

vars == <<contexts, stack, blocks, target, failure>>

(* One context.  A block activation has the contexts around it in env, the   *)
(* innermost first; rcvr is slot 1: self of a method, and in a block         *)
(* activation the block itself, named by the context it refers to.           *)
Context(catches, arity, env, rcvr) ==
    [catches |-> catches, arity |-> arity, env |-> env, rcvr |-> rcvr, onStack |-> TRUE]

Ids == 1 .. Len(contexts)
Activation(c) == [id |-> c, escaped |-> FALSE]
Top == stack[Len(stack)].id
Pop == SubSeq(stack, 1, Len(stack) - 1)

Raising == target # NoContext
Ready == failure = "none" /\ ~Raising
Executing == Ready /\ stack # <<>> /\ ~stack[Len(stack)].escaped

Init == /\ contexts = <<>>
        /\ stack = <<>>
        /\ blocks = {}
        /\ target = NoContext
        /\ failure = "none"

-------------------------------------------------------------------------------
(* Mutant: the context around the block, whatever ctx_level says.            *)
GetBlockAtLevelOne(c) == IF contexts[c].env = <<>> THEN c ELSE contexts[c].env[1]

(* get_block_at(frame, ctx_level).get_on_stack_marker(), ctx_level being the *)
(* distance to the method: the outermost context around c.                   *)
GetBlockAt(c) == IF contexts[c].env = <<>> THEN c
                 ELSE contexts[c].env[Len(contexts[c].env)]

(* get_self_dynamically: up to the method, and when the self of that is a    *)
(* block again, on from the context of that block.                           *)
GetSelfDynamically(c) ==
    LET self[i \in Ids] == LET rcvr == contexts[GetBlockAt(i)].rcvr
                           IN IF rcvr \in Ids THEN self[rcvr] ELSE rcvr
    IN self[c]

(* The receiver of escapedBlock:.  The AST nodes know the distance.          *)
OuterSelf(c) == IF Interpreter = "bc" THEN GetSelfDynamically(c)
                ELSE contexts[GetBlockAt(c)].rcvr

(* A call that invokes BcMethodNLR catches; it inherits invoke_4 as it is.   *)
Catches(c) == contexts[c].catches /\ (Interpreter = "bc" => contexts[c].arity # 4)

MarkAsNoLongerOnStack(c) == [contexts EXCEPT ![c].onStack = FALSE]
IsOnStack(c) == contexts[c].onStack

(* Mutant: only the method that answers the result clears its marker.        *)
LeaveMarkingTargetOnly(c) ==
    /\ contexts' = IF Catches(c) /\ target = c THEN MarkAsNoLongerOnStack(c) ELSE contexts
    /\ failure' = failure

(* What a catching method does however it is left.  The assertion of         *)
(* mark_as_no_longer_on_stack fails when the marker was cleared before.      *)
Leave(c) ==
    /\ contexts' = IF Catches(c) THEN MarkAsNoLongerOnStack(c) ELSE contexts
    /\ failure' = IF Catches(c) /\ ~IsOnStack(c) THEN "marked twice" ELSE failure

-------------------------------------------------------------------------------
Enter(callers, context) ==
    /\ Len(contexts) < MaxContexts /\ Len(stack) < MaxDepth
    /\ contexts' = Append(contexts, context)
    /\ stack' = Append(callers, Activation(Len(contexts) + 1))

Receivers ==
    {Object} \cup {c \in blocks : "with context" \in BlockReceivers}
             \cup {c \in {NoContext} : "without context" \in BlockReceivers}

(* invoke_1 .. invoke_4, invoke_n of a method.                               *)
InvokeMethod(catches, arity, rcvr) ==
    /\ Ready /\ (stack = <<>> \/ Executing)
    /\ Enter(stack, Context(catches, arity, <<>>, rcvr))
    /\ UNCHANGED <<blocks, target, failure>>

(* push_block.                                                               *)
PushBlock == /\ Executing
             /\ blocks' = blocks \cup {Top}
             /\ UNCHANGED <<contexts, stack, target, failure>>

(* value, value:, value:with: of a block.                                    *)
InvokeBlock(b) ==
    /\ Executing
    /\ Enter(stack, Context(FALSE, 1, <<b>> \o contexts[b].env, b))
    /\ UNCHANGED <<blocks, target, failure>>

(* Mutant: the marker is cleared by an exception only.                       *)
ReturnLocalLeavingMarker == /\ Ready /\ stack # <<>>
                            /\ stack' = Pop
                            /\ UNCHANGED <<contexts, failure, blocks, target>>

(* return_local and return_self, and the end of _interp_with_nlr.            *)
ReturnLocal == /\ Ready /\ stack # <<>>
               /\ Leave(Top)
               /\ stack' = Pop
               /\ UNCHANGED <<blocks, target>>

(* return_non_local in a block of a method compiled to catch.                *)
ReturnsNonLocally == /\ Executing
                     /\ contexts[Top].env # <<>>
                     /\ contexts[GetBlockAt(Top)].catches

(* Mutant: no test of is_outer_on_stack.                                     *)
RaiseUnchecked == /\ ReturnsNonLocally
                  /\ target' = GetBlockAt(Top)
                  /\ UNCHANGED <<contexts, stack, blocks, failure>>

(* Mutant: the home is marked when the exception is raised.                  *)
RaiseMarkingHome == /\ ReturnsNonLocally
                    /\ IsOnStack(GetBlockAt(Top))
                    /\ target' = GetBlockAt(Top)
                    /\ contexts' = MarkAsNoLongerOnStack(GetBlockAt(Top))
                    /\ UNCHANGED <<stack, blocks, failure>>

Raise == /\ ReturnsNonLocally
         /\ IsOnStack(GetBlockAt(Top))
         /\ target' = GetBlockAt(Top)
         /\ UNCHANGED <<contexts, stack, blocks, failure>>

(* In the bytecode interpreters the result of escapedBlock: is the result of *)
(* the block; the node for a return yields it as the value of an expression, *)
(* and the block goes on.                                                    *)
EscapeEndsBlock == Interpreter = "bc"

(* The home is gone: call escapedBlock: on the outer self.  get_from_outer   *)
(* asserts that a block has a context.                                       *)
SendEscapedBlock(catches) ==
    /\ ReturnsNonLocally
    /\ ~IsOnStack(GetBlockAt(Top))
    /\ IF OuterSelf(Top) = NoContext /\ Interpreter = "bc"
       THEN /\ failure' = "no outer"
            /\ UNCHANGED <<contexts, stack>>
       ELSE /\ Enter([stack EXCEPT ![Len(stack)].escaped = EscapeEndsBlock],
                     Context(catches, 2, <<>>, OuterSelf(Top)))
            /\ UNCHANGED failure
    /\ UNCHANGED <<blocks, target>>

(* Mutant: the first method that catches answers, no has_reached_target.     *)
UnwindToFirstCatch == /\ failure = "none" /\ Raising
                      /\ stack # <<>>
                      /\ Leave(Top)
                      /\ stack' = Pop
                      /\ target' = IF Catches(Top) THEN NoContext ELSE target
                      /\ UNCHANGED blocks

(* The exception leaves the innermost activation; with none left it reaches  *)
(* the caller of the interpreter, where nothing catches it.                  *)
Unwind == /\ failure = "none" /\ Raising
          /\ IF stack = <<>>
             THEN /\ failure' = "uncaught"
                  /\ UNCHANGED <<contexts, stack, target>>
             ELSE /\ Leave(Top)
                  /\ stack' = Pop
                  /\ target' = IF Catches(Top) /\ Top = target THEN NoContext ELSE target
          /\ UNCHANGED blocks

Next == \/ \E catches \in BOOLEAN, arity \in Arities, rcvr \in Receivers :
              InvokeMethod(catches, arity, rcvr)
        \/ PushBlock
        \/ \E b \in blocks : InvokeBlock(b)
        \/ ReturnLocal
        \/ Raise
        \/ \E catches \in BOOLEAN : SendEscapedBlock(catches)
        \/ Unwind

Spec == Init /\ [][Next]_vars

-------------------------------------------------------------------------------
(* Properties                                                                *)

OnStack(c) == \E n \in DOMAIN stack : stack[n].id = c

ContextType == [catches : BOOLEAN, arity : Nat, env : Seq(Nat),
                rcvr : {Object, NoContext} \cup Nat, onStack : BOOLEAN]

(* An environment has older contexts only and ends with a method; the stack  *)
(* has activations in the order they were created.                           *)
TypeOK ==
    /\ contexts \in Seq(ContextType)
    /\ Len(contexts) <= MaxContexts
    /\ \A c \in Ids :
          /\ contexts[c].rcvr \in {Object, NoContext} \cup 1 .. c - 1
          /\ contexts[c].env \in Seq(1 .. c - 1)
          /\ contexts[c].env # <<>> => ~contexts[c].catches
          /\ contexts[GetBlockAt(c)].env = <<>>
    /\ stack \in Seq([id : Nat, escaped : BOOLEAN])
    /\ \A n \in DOMAIN stack : stack[n].id \in Ids
    /\ \A m, n \in DOMAIN stack : m < n => stack[m].id < stack[n].id
    /\ blocks \subseteq Ids
    /\ target \in Ids \cup {NoContext}
    /\ failure \in {"none", "uncaught", "marked twice", "no outer"}

(* The marker tells the truth: a method that may be the target of a          *)
(* non-local return is marked exactly as long as it runs, however it and     *)
(* the activations above it are left.  "Make sure the block context is still *)
(* on the stack" tests nothing else.                                         *)
MarkerTellsTheTruth == \A c \in Ids : contexts[c].catches => (IsOnStack(c) <=> OnStack(c))

(* A ReturnException always finds the method it is meant for.                *)
ReturnsAreCaught == failure # "uncaught"

(* No assertion on the way fails: no marker is cleared twice, and the self   *)
(* that receives escapedBlock: is found.                                     *)
AssertionsHold == failure \notin {"marked twice", "no outer"}

(* While an exception is under way the program sees the home as gone.        *)
Visible == IF Raising
           THEN SubSeq(stack, 1, (CHOOSE n \in DOMAIN stack : stack[n].id = target) - 1)
           ELSE stack

RS == INSTANCE ReturnSemantics WITH
          Ids <- 1 .. MaxContexts,
          Selves <- {Object, NoContext} \cup 1 .. MaxContexts,
          EscapeEnds <- EscapeEndsBlock,
          calls <- Visible,
          home <- [c \in Ids |-> GetBlockAt(c)],
          self <- [c \in Ids |-> contexts[GetBlockAt(c)].rcvr]

(* A return inside a block ends its home and everything called from it, and  *)
(* nothing else, or sends escapedBlock: to the self of a home that is gone;  *)
(* whether the block is over after that depends on the interpreter.          *)
ReturnSemanticsSpec == RS!RSSpec
===============================================================================
