--------------------------- MODULE VerifiedScopes ---------------------------
(***************************************************************************)
(* What the interpreters take for granted of variables, fields, contexts   *)
(* and receivers: that what an instruction reads is there.  Nothing checks *)
(* it when code is compiled or executed; a verifier that knows which       *)
(* method encloses which block would (ScopesFit).                          *)
(*                                                                         *)
(* The verifier follows the methods that can run, blocks included.  A      *)
(* block that was inlined stays among the literals of its method with the  *)
(* code it had as a block, and is not one of them.  What it knows of each  *)
(* of these methods:                                                       *)
(*   block     whether it is the method of a block                         *)
(*   contexts  the method and the ones around it, from the inside out;     *)
(*             a block that needs no context has none around it            *)
(*   selves    for every instruction, places on the stack that hold the    *)
(*             object, because super sends trust the stack to have it      *)
(*                                                                         *)
(* ScopesInv is what stays true of the machine while such code runs.       *)
(***************************************************************************)
EXTENDS VerifiedCode

CONSTANT Scopes   \* program -> method that can run -> [block, contexts, selves]

Reached(p) == DOMAIN Scopes[p]
MethodOf(p, m) == Programs[p].methods[m]
HasCode(p, m) == MethodOf(p, m).kind = "bytecodes"
IsBlock(p, m) == Scopes[p][m].block
Contexts(p, m) == Scopes[p][m].contexts
Selves(p, m) == Scopes[p][m].selves

---------------------------------------------------------------------------
(* Values and receivers.                                                   *)

\* Values other than the object are of these classes; what is in none of
\* their tables runs for the object only.
DataClasses == {"int", "bool", "nil", "sym", "array", "block", "system"}
Names(inv, m) == inv[1] = "method" /\ inv[2] = m
OfObjects(p, m) ==
  \A class \in DataClasses \cap DOMAIN Programs[p].classes :
    \A selector \in DOMAIN Programs[p].classes[class].methods :
      ~Names(Programs[p].classes[class].methods[selector], m)
IsHome(p, m) == ~IsBlock(p, m) /\ OfObjects(p, m)

\* A literal, an argument, a global the program starts with.
IsPlain(v) == v = <<"obj", 1>> \/ v[1] \in (DataClasses \ {"block"}) \cup {"big"}

---------------------------------------------------------------------------
(* Verified scopes.                                                        *)

\* The nth method around a method.
HasContext(p, m, n) == n \in 0..(Len(Contexts(p, m)) - 1)
Outward(p, m, n) == Contexts(p, m)[n + 1]

ContextAt(M, pc) == IF M.code[pc + 1] = "nil_local" THEN 0 ELSE M.code[pc + 3]
VariableAt(p, m, pc) ==
  VariableOf(Programs[p], m, MethodOf(p, m).code[pc + 1], MethodOf(p, m).code[pc + 2],
             ContextAt(MethodOf(p, m), pc))
VariableFits(p, m, pc) ==
  LET M == MethodOf(p, m)
      ctx == ContextAt(M, pc)
  IN \E v \in {VariableAt(p, m, pc)} :
       /\ v.access \in Nat
       /\ v.access >= IF M.code[pc + 1] \in {"push_local", "push_argument"}
                      THEN RcvrIdx ELSE ArgOffset
       /\ IF v.out
          THEN HasContext(p, m, ctx) /\ v.access < MethodOf(p, Outward(p, m, ctx)).sizeInner
          ELSE ctx = 0 /\ v.access < M.sizeFrame

FieldFits(p, m, idx, ctx) ==
  /\ HasContext(p, m, ctx) /\ IsHome(p, Outward(p, m, ctx))
  /\ idx + 1 \in DOMAIN Programs[p].entry.fields
FieldIdx(M, pc) == CASE M.code[pc + 1] \in {"push_field_0", "pop_field_0"} -> 0
                     [] M.code[pc + 1] \in {"push_field_1", "pop_field_1"} -> 1
                     [] OTHER -> M.code[pc + 2]
FieldContext(M, pc) == IF M.code[pc + 1] \in {"push_field", "pop_field"}
                       THEN M.code[pc + 3] ELSE 0

\* A block knows the contexts of the method that pushes it, if it needs them.
BlockFits(p, m, pc) ==
  LET M == MethodOf(p, m)
      block == M.literals[M.code[pc + 2] + 1][2]
  IN /\ block \in Reached(p) /\ IsBlock(p, block)
     /\ IF M.code[pc + 1] = "push_block"
        THEN M.sizeInner > 0 /\ Contexts(p, block) = <<block>> \o Contexts(p, m)
        ELSE Contexts(p, block) = <<block>>

\* What an instruction names is there.
NamesFit(p, m, pc) ==
  LET M == MethodOf(p, m)
      op == M.code[pc + 1]
      literal(n) == M.literals[n + 1]
  IN /\ op \notin PushFrame \cup PushInner \cup PopFrame \cup PopInner
                    \cup {"nil_frame", "nil_inner"}
     /\ op \in Unresolved => VariableFits(p, m, pc)
     /\ op \in PushField \cup PopField =>
          FieldFits(p, m, FieldIdx(M, pc), FieldContext(M, pc))
     /\ op \in PushBlock => BlockFits(p, m, pc)
     /\ op = "push_constant" => IsPlain(literal(M.code[pc + 2]))
     /\ op = "push_constant_0" => IsPlain(literal(0))
     /\ op = "push_constant_1" => IsPlain(literal(1))
     /\ op = "push_constant_2" => IsPlain(literal(2))

\* The object gets on the stack as the self of a method, or of the method a
\* block is in; other instructions leave it where they do not reach.
PushesSelf(p, m, pc) ==
  LET M == MethodOf(p, m)
  IN /\ M.code[pc + 1] = "push_argument"
     /\ VariableAt(p, m, pc).access = RcvrIdx
     /\ IsHome(p, Outward(p, m, ContextAt(M, pc)))
KeptSelves(p, m, pc) ==
  Selves(p, m)[pc] \cap
    1..(Height(p, m)[pc] - Takes(MethodOf(p, m).code[pc + 1], ArgsAt(MethodOf(p, m), pc)))
SelvesFit(p, m) ==
  /\ DOMAIN Selves(p, m) = DOMAIN Height(p, m)
  /\ Selves(p, m)[0] = {}
  /\ \A pc \in DOMAIN Height(p, m) :
       \A e \in FlowsTo(MethodOf(p, m), pc, Height(p, m)[pc]) :
         Selves(p, m)[e[1]] \subseteq
           KeptSelves(p, m, pc)
             \cup (IF PushesSelf(p, m, pc) THEN {Height(p, m)[pc] + 1} ELSE {})

\* A super send to a method of objects is one of the object.
SuperFits(p, m, pc) ==
  LET M == MethodOf(p, m)
      super == Programs[p].classes[M.class].super
      selector == M.literals[M.code[pc + 2] + 1][2]
  IN super \in DOMAIN Programs[p].classes
       /\ selector \in DOMAIN Programs[p].classes[super].methods =>
     \A other \in Reached(p) :
       Names(Programs[p].classes[super].methods[selector], other)
         /\ OfObjects(p, other) =>
       Height(p, m)[pc] - ArgsAt(M, pc) + 1 \in Selves(p, m)[pc]

CodeScopesFit(p, m) ==
  /\ \A pc \in DOMAIN Height(p, m) : NamesFit(p, m, pc)
  /\ MethodOf(p, m).sizeInner \in Nat
  /\ MethodOf(p, m).sizeInner > 0 => MethodOf(p, m).sizeInner >= ArgOffset
  /\ SelvesFit(p, m)
  /\ \A pc \in DOMAIN Height(p, m) :
       MethodOf(p, m).code[pc + 1] = "super_send" => SuperFits(p, m, pc)

TrivialScopeFits(p, m) ==
  LET M == MethodOf(p, m)
  IN /\ M.kind = "literal_return" => IsPlain(M.value)
     /\ M.kind = "field_read" => FieldFits(p, m, M.idx, M.ctx)
     /\ M.kind = "field_write" => FieldFits(p, m, M.idx, 0)

\* Only the code of a block has methods around it.
ContextsFit(p, m) ==
  /\ IsSequence(Contexts(p, m)) /\ Len(Contexts(p, m)) > 0 /\ Contexts(p, m)[1] = m
  /\ \A i \in 1..Len(Contexts(p, m)) : Contexts(p, m)[i] \in Reached(p)
  /\ Len(Contexts(p, m)) > 1 => IsBlock(p, m)

\* What a message finds.
EntryFits(p, selector, inv) ==
  /\ inv[1] = "method" =>
       /\ inv[2] \in Reached(p) /\ ~IsBlock(p, inv[2])
       /\ MethodOf(p, inv[2]).kind = "field_write" =>
            MethodOf(p, inv[2]).arg \in 1..(Arity[selector] - 1)
       /\ selector = "unknownGlobal:" => MethodOf(p, inv[2]).kind # "global_read"
  /\ inv[1] = "primitive" /\ inv[2] \in SystemPrimitives => inv[2] = selector
TablesFit(p) ==
  /\ "undefined" \notin DOMAIN Programs[p].classes
  /\ \A class \in DOMAIN Programs[p].classes :
       \A selector \in DOMAIN Programs[p].classes[class].methods :
         EntryFits(p, selector, Programs[p].classes[class].methods[selector])

StartFits(p) ==
  /\ Programs[p].entry.method \in Reached(p) /\ ~IsBlock(p, Programs[p].entry.method)
  /\ \A v \in Range(Programs[p].entry.args) \cup Range(Programs[p].entry.fields)
         \cup Range(Programs[p].globals) : IsPlain(v)

ScopesFit(p) ==
  /\ Reached(p) \subseteq DOMAIN Programs[p].methods
  /\ \A m \in Reached(p) :
       /\ ContextsFit(p, m)
       /\ IF HasCode(p, m) THEN CodeScopesFit(p, m) ELSE TrivialScopeFits(p, m)
  /\ TablesFit(p)
  /\ StartFits(p)
  /\ Arity["global:put:"] = 3
CompiledScopesFit == ScopesFit(program)
---------------------------------------------------------------------------
(* The invariant.  "own" says which method each inner was made for.        *)

\* A value the program can get to see; a block has the inner of the method
\* around it.
ValueFits(p, own, v) ==
  /\ WellTyped(v)
  /\ v[1] = "obj" => v[2] = 1
  /\ v[1] = "block" =>
       /\ v[2] \in Reached(p) /\ IsBlock(p, v[2])
       /\ Len(Contexts(p, v[2])) > 1 =>
            /\ v[3] \in DOMAIN own
            /\ Contexts(p, v[2]) = <<v[2]>> \o Contexts(p, own[v[3]])

\* The receiver of a method: the block itself, or the object.
SelfFits(p, own, m, v) ==
  /\ ValueFits(p, own, v)
  /\ IF IsBlock(p, m) THEN v[1] = "block" /\ v[2] = m
     ELSE OfObjects(p, m) => v[1] = "obj"

FrameFits(p, own, a) ==
  /\ IsSequence(a.frame) /\ Len(a.frame) = MethodOf(p, a.m).sizeFrame
  /\ IF MethodOf(p, a.m).sizeInner = 0 THEN a.frame[1] = 0
     ELSE a.frame[1] \in DOMAIN own /\ own[a.frame[1]] = a.m
  /\ SelfFits(p, own, a.m, a.frame[2])
  /\ \A i \in 2..Len(a.frame) : ValueFits(p, own, a.frame[i])

\* Where the verifier says that the object is on the stack it is there, and
\* never where an answer is awaited.
SelvesHold(p, a) ==
  ~a.escaped => \A i \in Selves(p, a.m)[a.pc] :
                  i \in 1..Len(a.stack) /\ a.stack[i][1] = "obj"
AwaitsAnswer(p, a) == ~a.escaped => Len(a.stack) \notin Selves(p, a.m)[a.pc]

ScopedActivation(p, own, a) ==
  /\ a.m \in Reached(p) /\ a.tier \in 1..2
  /\ FrameFits(p, own, a)
  /\ \A i \in 1..Len(a.stack) : ValueFits(p, own, a.stack[i])
  /\ SelvesHold(p, a)
  /\ a.escaped => Len(a.stack) > 0
ScopedActivations(p, own, calls) ==
  \A k \in 1..Len(calls) : /\ ScopedActivation(p, own, calls[k])
                           /\ k < Len(calls) => AwaitsAnswer(p, calls[k])

InnerFits(p, own, m, inner) ==
  /\ IsSequence(inner) /\ Len(inner) = MethodOf(p, m).sizeInner /\ Len(inner) > 1
  /\ SelfFits(p, own, m, inner[2])
  /\ \A j \in 2..Len(inner) : ValueFits(p, own, inner[j])
ScopedInners(p, own, is) ==
  /\ IsSequence(is) /\ DOMAIN own = 1..Len(is)
  /\ \A i \in 1..Len(is) : own[i] \in Reached(p) /\ InnerFits(p, own, own[i], is[i])

\* There is one object; it keeps its class and its fields.
ScopedObjects(p, own, os) ==
  /\ DOMAIN os = {1} /\ DOMAIN os[1] = {"class", "fields"}
  /\ os[1].class = Programs[p].entry.class
  /\ DOMAIN os[1].fields = DOMAIN Programs[p].entry.fields
  /\ \A i \in DOMAIN os[1].fields : ValueFits(p, own, os[1].fields[i])
ScopedGlobals(p, own, gs) == \A name \in DOMAIN gs : ValueFits(p, own, gs[name])

\* An instruction on a frame or an inner has the slot of its variable.
SlotIn(cells, pc) ==
  CASE cells[pc + 1] \in {"push_frame_0", "push_inner_0", "pop_frame_0",
                          "pop_inner_0"} -> RcvrIdx
    [] cells[pc + 1] \in {"push_frame_1", "push_inner_1", "pop_frame_1",
                          "pop_inner_1"} -> RcvrIdx + 1
    [] cells[pc + 1] \in {"push_frame_2", "push_inner_2", "pop_frame_2",
                          "pop_inner_2"} -> RcvrIdx + 2
    [] OTHER -> cells[pc + 2]
OnFrame == PushFrame \cup PopFrame \cup {"nil_frame"}
OnInner == PushInner \cup PopInner \cup {"nil_inner"}
CellResolved(p, m, cells, pc) ==
  /\ cells[pc + 1] \in OnFrame \cup OnInner =>
       \E v \in {VariableAt(p, m, pc)} :
         /\ MethodOf(p, m).code[pc + 1] \in Unresolved
         /\ SlotIn(cells, pc) = v.access
         /\ cells[pc + 1] \in IF v.out THEN OnInner ELSE OnFrame
         /\ cells[pc + 1] \in OnInner =>
              ContextAt(MethodOf(p, m), pc) =
                IF cells[pc + 1] \in {"push_inner", "pop_inner"} THEN cells[pc + 3] ELSE 0
  /\ cells[pc + 1] \in QuickSuperSends \ {"q_super_send_n"} =>
       ArgsAt(MethodOf(p, m), pc) <= 4
CellsResolved(p, c) ==
  \A m \in Reached(p) : HasCode(p, m) =>
    \A pc \in DOMAIN Height(p, m) : CellResolved(p, m, c[m], pc)

ScopedState(own) ==
  /\ ScopedActivations(program, own, acts)
  /\ ScopedInners(program, own, inners)
  /\ ScopedObjects(program, own, objects)
  /\ ScopedGlobals(program, own, globals)
  /\ CellsResolved(program, code)

\* Every value is one the program may see; blocks, activations and inners
\* agree on which method made them; the self of a method with fields is the
\* object.
ScopesInv == \E own \in [1..Len(inners) -> Reached(program)] : ScopedState(own)
=============================================================================
