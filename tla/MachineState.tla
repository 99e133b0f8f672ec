--------------------------- MODULE MachineState ---------------------------
(***************************************************************************)
(* What the bytecode interpreters keep while a program runs, and what the  *)
(* instructions do to it in either of them: frames and inners, operand     *)
(* stacks, calls of methods, of trivial methods and of primitives.         *)
(*                                                                         *)
(* An activation keeps its method, the offset of its                       *)
(* instruction, its frame, its stack, the tier it runs in, whether its     *)
(* traversal stack is non-empty, whether it catches non-local returns, and *)
(* whether it only waits for the answer of escapedBlock:.  The caches of   *)
(* sends are left to BytecodeSends: a send looks its message up.           *)
(***************************************************************************)
EXTENDS SequencesExt, Bytecodes, Frames, Values

CONSTANTS
  Programs,       \* program -> its assembled methods, classes and entry
  JumpBase,       \* how many offsets fit in one operand: 256 in the code
  Arity,          \* selector -> arguments of a send, the receiver included
  Settings        \* how the interpreter is started: [tiers, threshold]

VARIABLES
  program, setting,
  code,      \* method -> its instructions, as rewritten so far
  counts,    \* method -> how often each instruction was counted
  acts,      \* the activations, the running one last
  inners,    \* every inner ever created
  objects,   \* every object: its class and fields
  globals,   \* name -> value of the globals that exist
  outcome    \* <<"running">>, <<"answer", value>> or <<"failed", reason>>

vars == <<program, setting, code, counts, acts, inners, objects, globals, outcome>>
heap == <<inners, objects, globals>>

Running == <<"running">>
Failed(why) == <<"failed", why>>

P == Programs[program]
Method(m) == P.methods[m]
top == acts[Len(acts)]
bc == code[top.m][top.pc + 1]
Operand(n) == code[top.m][top.pc + 1 + n]
Literal(n) == Method(top.m).literals[n + 1]
NextPc == top.pc + BytecodeLength(bc)

InnerOf(inner) == IF inner \in DOMAIN inners THEN inners[inner] ELSE <<>>
FromTop(n) == Element(top.stack, Len(top.stack) - n)
Drop(s, n) == SubSeq(s, 1, Len(s) - n)
PutOnTop(s, v) == Append(Drop(s, 1), v)

(* Mutant: the answer is pushed over the receiver.                       *)
WithAnswerOverReceiver(a, v) == [a EXCEPT !.stack = Append(@, v)]

\* The receiver on top of the stack is replaced by the answer.
WithAnswer(a, v) == [a EXCEPT !.stack = PutOnTop(@, v)]

\* A variable of the frame, a field of an object is assigned.
Assign(a, slot, v) == [a EXCEPT !.frame = ReplaceAt(@, slot + 1, v)]
WithField(o, idx, v) == [o EXCEPT !.fields = ReplaceAt(@, idx + 1, v)]

ClassOf(v) == IF v[1] = "obj" THEN objects[v[2]].class ELSE ClassOfValue(v)

---------------------------------------------------------------------------
(* Frames, inners and contexts.                                            *)

\* "get_block_at": the block ctx levels out, ctx > 0.
BlockAt(ctx) ==
  LET at[n \in 1..ctx] ==
        IF n = 1 THEN top.frame[RcvrIdx + 1]
        ELSE Element(InnerOf(at[n - 1][3]), RcvrIdx + 1)
  IN at[ctx]
OuterSlot(idx, ctx) == Element(InnerOf(BlockAt(ctx)[3]), idx + 1)

\* "get_self", and "get_self_dynamically", the first receiver outwards that
\* is not a block; every inner between is another one.
Self(ctx) == IF ctx = 0 THEN top.frame[RcvrIdx + 1] ELSE OuterSlot(RcvrIdx, ctx)
OuterSelf(v) ==
  LET out[n \in 0..Len(inners)] ==
        IF n = 0 THEN v
        ELSE IF out[n - 1][1] = "block" THEN Element(InnerOf(out[n - 1][3]), RcvrIdx + 1)
        ELSE out[n - 1]
      last == out[Len(inners)]
  IN IF last[1] = "block" THEN Undefined ELSE last

Field(obj, idx) ==
  IF obj[1] = "obj" /\ obj[2] \in DOMAIN objects
  THEN Element(objects[obj[2]].fields, idx + 1) ELSE Undefined

SlotOf(op) == CASE op \in {"push_frame_0", "push_inner_0", "pop_frame_0",
                           "pop_inner_0"} -> RcvrIdx
                [] op \in {"push_frame_1", "push_inner_1", "pop_frame_1",
                           "pop_inner_1"} -> RcvrIdx + 1
                [] op \in {"push_frame_2", "push_inner_2", "pop_frame_2",
                           "pop_inner_2"} -> RcvrIdx + 2
                [] OTHER -> Operand(1)
Level(op) == IF op \in {"push_inner", "pop_inner", "push_field", "pop_field"}
             THEN Operand(2) ELSE 0
FieldOf(op) == CASE op \in {"push_field_0", "pop_field_0"} -> 0
                 [] op \in {"push_field_1", "pop_field_1"} -> 1
                 [] OTHER -> Operand(1)

FrameRead == Element(top.frame, SlotOf(bc) + 1)
InnerRead == IF Level(bc) = 0 THEN Element(InnerOf(top.frame[1]), SlotOf(bc) + 1)
             ELSE OuterSlot(SlotOf(bc), Level(bc))
(* Mutant: the block that needs no context gets the context.             *)
BlockLiteralSwapped ==
  <<"block", Literal(Operand(1))[2], IF bc = "push_block" THEN 0 ELSE top.frame[1]>>
BlockLiteral ==
  <<"block", Literal(Operand(1))[2], IF bc = "push_block" THEN top.frame[1] ELSE 0>>
ConstantRead == CASE bc = "push_0" -> <<"int", 0>>
                  [] bc = "push_1" -> <<"int", 1>>
                  [] bc = "push_nil" -> Nil
                  [] bc = "push_constant_0" -> Literal(0)
                  [] bc = "push_constant_1" -> Literal(1)
                  [] bc = "push_constant_2" -> Literal(2)
                  [] OTHER -> Literal(Operand(1))

---------------------------------------------------------------------------
(* Calls.  A call is the invokable, the receiver, the arguments, and the   *)
(* entry point used: how many arguments it is for ("n": it takes them from *)
(* the stack) and whether it is one of the entry points of tier 2.         *)

Call(inv, rcvr, args, n, tier2) ==
  [inv |-> inv, rcvr |-> rcvr, args |-> args, n |-> n, tier2 |-> tier2]
Entry(args) == IF args <= 4 THEN args ELSE 5   \* 5: invoke_n

\* "lookup_invokable"; None when there is no method.
NoInvokable == <<"none">>
Understands(class, selector) ==
  class \in DOMAIN P.classes /\ selector \in DOMAIN P.classes[class].methods
Lookup(class, selector) ==
  IF Understands(class, selector) THEN P.classes[class].methods[selector] ELSE NoInvokable

\* Block primitives enter the block's method as any caller outside of tier 2
\* does; a trivial read of a global that is not there asks the outer self.
IsUnknownGlobal(c) ==
  /\ c.inv[1] = "method"
  /\ Method(c.inv[2]).kind = "global_read"
  /\ Method(c.inv[2]).name \notin DOMAIN globals
EnterBlock(c) ==
  IF c.inv[1] = "primitive" /\ c.inv[2] \in BlockPrimitives
  THEN [c EXCEPT !.inv = IF c.rcvr[1] = "block" THEN <<"method", c.rcvr[2]>>
                         ELSE NoInvokable,
                 !.tier2 = FALSE]
  ELSE c
AskOuterSelf(c) ==
  IF IsUnknownGlobal(c)
  THEN LET self == OuterSelf(c.rcvr)
       IN Call(Lookup(ClassOf(self), "unknownGlobal:"), self,
               <<<<"sym", Method(c.inv[2]).name>>>>, 2, c.tier2)
  ELSE c
Resolved(c) == AskOuterSelf(EnterBlock(c))

\* invoke_1, ..., invoke_n of BcMethod and BcMethodNLR.  The entry points for
\* four arguments do not catch non-local returns.
StartTier(c) == IF c.tier2 \/ setting.tiers = "tier2" THEN 2 ELSE 1
Activation(c, inner) ==
  LET M == Method(c.inv[2])
  IN [m |-> c.inv[2], pc |-> 0, stack |-> <<>>, tier |-> StartTier(c),
      shielded |-> FALSE, catches |-> M.catches /\ c.n # 4, escaped |-> FALSE,
      frame |-> NewFrame(M.sizeFrame, M.argInner, c.rcvr, c.args, inner, 0, Nil)]
NeedsInner(c) == Method(c.inv[2]).sizeInner > 0
InnerFor(c) ==
  LET M == Method(c.inv[2])
  IN NewInner(M.sizeInner, M.argInner, c.rcvr, c.args, True, Nil)

Start(c, caller) ==
  /\ c.inv[1] = "method" /\ Method(c.inv[2]).kind = "bytecodes"
  /\ acts' = Append(Append(Front(acts), caller),
                    Activation(c, IF NeedsInner(c) THEN Len(inners) + 1 ELSE 0))
  /\ inners' = IF NeedsInner(c) THEN Append(inners, InnerFor(c)) ELSE inners
  /\ UNCHANGED <<objects, globals, outcome>>

\* The trivial methods.  There is no entry point of tier 2 for four arguments.
TrivialCall(c) == c.inv[1] = "method" /\ Method(c.inv[2]).kind # "bytecodes"
NoEntryPoint(c) == c.tier2 /\ c.n = 4
DeterminedSelf(v, ctx) ==
  LET at[n \in 0..ctx] == IF n = 0 THEN v
                          ELSE Element(InnerOf(at[n - 1][3]), RcvrIdx + 1)
  IN at[ctx]
TrivialAnswer(c) ==
  LET M == Method(c.inv[2])
  IN CASE M.kind = "literal_return" -> M.value
       [] M.kind = "global_read" -> Element(globals, M.name)
       [] M.kind = "field_read" -> Field(DeterminedSelf(c.rcvr, M.ctx), M.idx)
       [] M.kind = "field_write" -> c.rcvr
\* Which argument the entry points of FieldWrite store, 0 for the receiver.
StoredArgument(c) ==
  LET M == Method(c.inv[2])
  IN CASE c.n = 2 -> 1
       [] c.n \in {3, 4} -> IF M.arg = 1 THEN 1 ELSE 2
       [] c.n = 5 -> M.arg - 1
Stored(c) == Element(<<c.rcvr>> \o c.args, StoredArgument(c) + 1)

AnswerTrivially(c, caller) ==
  /\ TrivialCall(c) /\ ~NoEntryPoint(c)
  /\ ~(Method(c.inv[2]).kind = "field_write" /\ c.n = 1)
  /\ acts' = Append(Front(acts), WithAnswer(caller, TrivialAnswer(c)))
  /\ objects' = IF Method(c.inv[2]).kind = "field_write"
                THEN [objects EXCEPT ![c.rcvr[2]] =
                                       WithField(@, Method(c.inv[2]).idx, Stored(c))]
                ELSE objects
  /\ UNCHANGED <<inners, globals, outcome>>

FailInTrivialMethod(c) ==
  /\ TrivialCall(c)
  /\ \/ NoEntryPoint(c)
     \/ Method(c.inv[2]).kind = "field_write" /\ c.n = 1
  /\ outcome' = Failed("entry point")
  /\ UNCHANGED <<acts, heap>>

\* The primitives the programs use; those of the system know the globals.
AnswerPrimitive(c, caller) ==
  /\ c.inv[1] = "primitive" /\ c.inv[2] \notin SystemPrimitives
  /\ PrimitiveAnswer(c.inv[2], c.rcvr, c.args) # NoAnswer
  /\ acts' = Append(Front(acts),
               WithAnswer(caller, PrimitiveAnswer(c.inv[2], c.rcvr, c.args)))
  /\ UNCHANGED <<heap, outcome>>

\* Division by zero, and an argument that is not a number, raise an error.  What
\* is not defined, for lack of a check of overflow, is not followed further.
FailInPrimitive(c) ==
  /\ c.inv[1] = "primitive" /\ c.inv[2] \notin SystemPrimitives
  /\ PrimitiveAnswer(c.inv[2], c.rcvr, c.args) = NoAnswer
  /\ outcome' = Failed("primitive")
  /\ UNCHANGED <<acts, heap>>

AnswerSystem(c, caller) ==
  /\ c.inv[1] = "primitive" /\ c.inv[2] \in SystemPrimitives
  /\ acts' = Append(Front(acts),
               WithAnswer(caller, SystemAnswer(c.inv[2], globals, c.args)))
  /\ globals' = GlobalsAfter(c.inv[2], globals, c.args)
  /\ UNCHANGED <<inners, objects, outcome>>

\* None has no entry points.
FailWithoutInvokable(c) ==
  /\ c.inv = NoInvokable
  /\ outcome' = Failed("no invokable")
  /\ UNCHANGED <<acts, heap>>

\* The caller's stack has the receiver on top, which the answer replaces.
Perform(call, caller) ==
  \E c \in {Resolved(call)} :
    \/ Start(c, caller)
    \/ AnswerTrivially(c, caller)
    \/ FailInTrivialMethod(c)
    \/ AnswerPrimitive(c, caller)
    \/ FailInPrimitive(c)
    \/ AnswerSystem(c, caller)
    \/ FailWithoutInvokable(c)

---------------------------------------------------------------------------
(* Steps.  Continue: the running activation is what is given.              *)

Continue(act) == /\ acts' = Append(Front(acts), act)
                 /\ UNCHANGED <<heap, outcome>>
Push(v) == Continue([top EXCEPT !.stack = Append(@, v), !.pc = NextPc])
SameCode == UNCHANGED <<code, counts>>
Fail(why) == /\ outcome' = Failed(why)
             /\ UNCHANGED <<code, counts, acts, heap>>

\* "dup", "dup_second" and the instructions that read a variable, a field or
\* a literal.
PushedValue ==
  CASE bc = "dup" -> FromTop(0)
    [] bc = "dup_second" -> FromTop(1)
    [] bc \in PushFrame -> FrameRead
    [] bc \in PushInner -> InnerRead
    [] bc \in PushField -> Field(Self(Level(bc)), FieldOf(bc))
    [] bc \in PushBlock -> BlockLiteral
    [] bc \in PushConst -> ConstantRead
Reads == {"dup", "dup_second"} \cup PushFrame \cup PushInner \cup PushField
           \cup PushBlock \cup PushConst

\* "push_global": a global that is not there asks the outer self.
PushGlobal(tier2) ==
  LET name == Literal(Operand(1))[2]
      self == OuterSelf(top.frame[RcvrIdx + 1])
      waiting == [top EXCEPT !.stack = Append(@, self), !.pc = NextPc]
  IN /\ IF name \in DOMAIN globals THEN Push(globals[name])
        ELSE Perform(Call(Lookup(ClassOf(self), "unknownGlobal:"), self,
                          <<<<"sym", name>>>>, 2, tier2), waiting)
     /\ SameCode

Popped == [top EXCEPT !.stack = Drop(@, 1), !.pc = NextPc]
PopIntoFrame(slot, v) == Continue(Assign(Popped, slot, v))
PopIntoInner(slot, v, act) ==
  LET inner == IF Level(bc) = 0 THEN top.frame[1] ELSE BlockAt(Level(bc))[3]
  IN IF inner \in DOMAIN inners /\ slot + 1 \in DOMAIN inners[inner]
     THEN /\ acts' = Append(Front(acts), act)
          /\ inners' = [inners EXCEPT ![inner] = ReplaceAt(@, slot + 1, v)]
          /\ UNCHANGED <<objects, globals, outcome>>
     ELSE /\ outcome' = Failed("no slot")
          /\ UNCHANGED <<acts, heap>>
PopIntoField(idx, v) ==
  /\ acts' = Append(Front(acts), Popped)
  /\ objects' = [objects EXCEPT ![Self(Level(bc))[2]] = WithField(@, idx, v)]
  /\ UNCHANGED <<inners, globals, outcome>>

\* The instructions that write a variable or a field, or only pop.  "nil_frame"
\* and "nil_inner" store nil in compiled code only (we_are_jitted).
Stores == {"pop", "nil_frame", "nil_inner"} \cup PopFrame \cup PopInner \cup PopField
StoreValue ==
  CASE bc = "pop" -> Continue(Popped)
    [] bc \in {"nil_frame", "nil_inner"} -> Continue([top EXCEPT !.pc = NextPc])
    [] bc \in PopFrame -> PopIntoFrame(SlotOf(bc), FromTop(0))
    [] bc \in PopInner -> PopIntoInner(SlotOf(bc), FromTop(0), Popped)
    [] bc \in PopField -> PopIntoField(FieldOf(bc), FromTop(0))

\* "inc" and "dec": whatever is not a number is not supported.
IncOrDec ==
  LET n == FromTop(0)
      result == IF bc = "inc" THEN PrimInc(n) ELSE PrimDec(n)
  IN IF IsNumber(n)
     THEN /\ Continue([top EXCEPT !.stack = PutOnTop(@, result), !.pc = NextPc])
          /\ SameCode
     ELSE Fail("not yet implemented")

---------------------------------------------------------------------------
(* The first use of a variable rewrites the instruction, which is then     *)
(* executed again (patch_variable_access).                                 *)

ScopeAt(prog, scope, ctx) ==
  LET at[n \in 0..ctx] == IF n = 0 THEN scope ELSE prog.scopes[at[n - 1]].outer
  IN prog.scopes[at[ctx]]
VariableOf(prog, m, op, idx, ctx) ==
  LET scope == ScopeAt(prog, prog.methods[m].scope, ctx)
      list == IF op \in {"push_argument", "pop_argument"} THEN scope.args ELSE scope.locals
  IN prog.vars[list[idx + 1]]

ContextOf(op) == IF op = "nil_local" THEN 0 ELSE Operand(2)
Accessed == VariableOf(P, top.m, bc, Operand(1), ContextOf(bc))

\* The instruction on the inner for what an inner scope uses too, else on the
\* frame; the first three slots near by have an instruction of their own.
ResolvedOp(v) ==
  LET family == CASE bc \in {"push_local", "push_argument"} ->
                       IF v.out THEN <<"push_inner", "push_inner_0", "push_inner_1",
                                       "push_inner_2">>
                       ELSE <<"push_frame", "push_frame_0", "push_frame_1", "push_frame_2">>
                  [] bc \in {"pop_local", "pop_argument"} ->
                       IF v.out THEN <<"pop_inner", "pop_inner_0", "pop_inner_1",
                                       "pop_inner_2">>
                       ELSE <<"pop_frame", "pop_frame_0", "pop_frame_1", "pop_frame_2">>
                  [] bc = "nil_local" ->
                       IF v.out THEN <<"nil_inner">> ELSE <<"nil_frame">>
      near == ContextOf(bc) = 0 /\ v.access - RcvrIdx \in 0..2 /\ bc # "nil_local"
  IN family[IF near THEN v.access - RcvrIdx + 2 ELSE 1]

Patch ==
  \E v \in {Accessed} :
    /\ code' = [code EXCEPT ![top.m] =
                  ReplaceAt(ReplaceAt(@, top.pc + 1, ResolvedOp(v)), top.pc + 2, v.access)]
    /\ UNCHANGED <<counts, acts, heap, outcome>>

---------------------------------------------------------------------------
(* Jumps.                                                                  *)

(* Mutant: a jump2 reads one byte of its offset.                         *)
OffsetOfOneByte == Operand(1)

Offset == IF bc \in LongJumps THEN Operand(1) + Operand(2) * JumpBase ELSE Operand(1)
JumpTo(pc) == Continue([top EXCEPT !.pc = pc])

OnTrue == {"jump_on_true_top_nil", "jump_on_true_pop", "jump2_on_true_top_nil",
           "jump2_on_true_pop"}
OnFalse == {"jump_on_false_top_nil", "jump_on_false_pop", "jump2_on_false_top_nil",
            "jump2_on_false_pop"}
LeavesNil == {"jump_on_true_top_nil", "jump2_on_true_top_nil",
              "jump_on_false_top_nil", "jump2_on_false_top_nil"}
\* Whatever is not the boolean the instruction asks for does not jump.
JumpOnBoolean ==
  LET taken == FromTop(0) = Bool(bc \in OnTrue)
  IN Continue([top EXCEPT !.pc = IF taken THEN @ + Offset ELSE NextPc,
                          !.stack = IF taken /\ bc \in LeavesNil
                                    THEN PutOnTop(@, Nil) ELSE Drop(@, 1)])

\* The loop variable on top, its limit below.
JumpIfGreater ==
  IF FromTop(0)[1] # "int" \/ FromTop(1)[1] # "int"
  THEN /\ outcome' = Failed("not an integer")
       /\ UNCHANGED <<acts, heap>>
  ELSE Continue(IF FromTop(0)[2] > FromTop(1)[2]
                THEN [top EXCEPT !.pc = @ + Offset, !.stack = Drop(@, 2)]
                ELSE [top EXCEPT !.pc = NextPc])

---------------------------------------------------------------------------
(* Sends.                                                                  *)

Selector == Literal(Operand(1))[2]
Args(n) == SubSeq(top.stack, Len(top.stack) - n + 2, Len(top.stack))
\* The arguments are gone, the receiver is on top.
AfterArgs(n) == [top EXCEPT !.stack = Drop(@, n - 1), !.pc = NextPc]

\* The arguments travel in an array; lookup_and_send_3_tier2 uses invoke_3 too.
SendDoesNotUnderstand(n) ==
  LET rcvr == FromTop(n - 1)
  IN Perform(Call(Lookup(ClassOf(rcvr), "doesNotUnderstand:arguments:"), rcvr,
                  <<<<"sym", Selector>>, <<"array", Args(n)>>>>, 3, FALSE),
             AfterArgs(n))

Send(tier2) ==
  LET n == Arity[Selector]
      rcvr == FromTop(n - 1)
      class == ClassOf(rcvr)
  IN IF class \notin DOMAIN P.classes
     THEN /\ outcome' = Failed("receiver")
          /\ UNCHANGED <<acts, heap>>
     ELSE IF Understands(class, Selector)
     THEN Perform(Call(Lookup(class, Selector), rcvr, Args(n), Entry(n), tier2),
                  AfterArgs(n))
     ELSE SendDoesNotUnderstand(n)

\* "_do_super_send" rewrites the instruction to one that keeps the invokable.
\* There is no invokable to ask for its arguments when the message is not
\* understood.
SuperClass == P.classes[Method(top.m).class].super
SlowEntry(n) == IF n <= 3 THEN n ELSE 5
SuperSend(quick) ==
  LET n == Arity[Selector]
  IN IF Understands(SuperClass, Selector)
     THEN /\ code' = [code EXCEPT ![top.m] = ReplaceAt(@, top.pc + 1, quick)]
          /\ Perform(Call(Lookup(SuperClass, Selector), FromTop(n - 1), Args(n),
                          SlowEntry(n), FALSE), AfterArgs(n))
     ELSE /\ outcome' = Failed("super")
          /\ UNCHANGED <<code, acts, heap>>

SuperSendAgain(tier2) ==
  LET n == Arity[Selector]
  IN Perform(Call(Lookup(SuperClass, Selector), FromTop(n - 1), Args(n),
                  IF bc = "q_super_send_n" THEN 5 ELSE n, tier2), AfterArgs(n))

---------------------------------------------------------------------------
(* Returns.                                                                *)

\* Leaving an activation that catches clears the marker in its inner.
Leaving(k) == {acts[j].frame[1] : j \in {i \in k..Len(acts) : acts[i].catches}}
InnersAfter(k) ==
  [i \in DOMAIN inners |->
     IF i \in Leaving(k) THEN [inners[i] EXCEPT ![1] = Bool(FALSE)] ELSE inners[i]]

\* Activation k answers v; the ones above it are gone.
AnswerFrom(k, v) ==
  /\ inners' = InnersAfter(k)
  /\ IF k = 1
     THEN /\ outcome' = <<"answer", v>>
          /\ acts' = <<>>
     ELSE /\ acts' = [SubSeq(acts, 1, k - 1) EXCEPT ![k - 1] = WithAnswer(@, v)]
          /\ UNCHANGED outcome
  /\ UNCHANGED <<objects, globals>>

\* "_do_return_non_local": through the activations up to the home of the
\* block, or, when that has returned, escapedBlock: to the outer self.
Home == BlockAt(Operand(1))[3]
ReturnNonLocal ==
  LET homes == {k \in DOMAIN acts : acts[k].catches /\ acts[k].frame[1] = Home}
      self == OuterSelf(top.frame[RcvrIdx + 1])
  IN IF Element(InnerOf(Home), 1) = True
     THEN IF homes = {}
          THEN /\ outcome' = Failed("not caught")
               /\ UNCHANGED <<acts, heap>>
          ELSE \E k \in homes : AnswerFrom(k, FromTop(0))
     ELSE Perform(Call(Lookup(ClassOf(self), "escapedBlock:"), self,
                       <<top.frame[RcvrIdx + 1]>>, 2, FALSE),
                  [top EXCEPT !.escaped = TRUE])

\* The answer of escapedBlock: is the answer of the block.
ReturnEscaped ==
  /\ outcome = Running /\ top.escaped
  /\ AnswerFrom(Len(acts), FromTop(0))
  /\ SameCode
  /\ UNCHANGED <<program, setting>>
============================================================================
