------------------------- MODULE BytecodeCompiler -------------------------
(***************************************************************************)
(* How the one-pass compiler of the bytecode interpreters turns a method   *)
(* into code (compiler/bc/parser.py), how it inlines the literal blocks of *)
(* control messages into the code around them (vmobjects/method_bc.py) and *)
(* which methods it replaces by trivial ones (vmobjects/method_trivial.py).*)
(*                                                                         *)
(* A method in source form is <<arguments, locals, body>>, names without   *)
(* the receiver; a body is a sequence of statements, "." between them, and *)
(* ends with "." when its last element is Dot.  Names are distinct in a    *)
(* method and its blocks, as a variable is known by its source position.   *)
(* An expression is                                                        *)
(*   <<"lit", value>>, <<"var", name>>, <<"assign", names, expression>>,   *)
(*   <<"send", receiver, selector, arguments>>,                            *)
(*   <<"super", selector, arguments>>, <<"block", arguments, locals, body>>*)
(* and a statement is an expression or <<"return", expression>>.           *)
(***************************************************************************)
EXTENDS CodeEmitter

CONSTANT Arity    \* selector -> arguments of a send, the receiver included

Dot == <<"dot">>

---------------------------------------------------------------------------
(* Assembling a method from its context.                                   *)

\* Only one push and one return.
OnlyThat(S, g) ==
  LET last == S.gencs[g].last
  IN Len(S.gencs[g].code) = BytecodeLength(last[3]) + BytecodeLength(last[4])

LiteralReturn(v) == [kind |-> "literal_return", value |-> v]
GlobalRead(name, ctx) == [kind |-> "global_read", name |-> name, ctx |-> ctx]
FieldRead(idx, ctx) == [kind |-> "field_read", idx |-> idx, ctx |-> ctx]
FieldWrite(idx, arg) == [kind |-> "field_write", idx |-> idx, arg |-> arg]

\* "_assemble_literal_return".
AssembleLiteralReturn(S, g) ==
  LET push == S.gencs[g].last[3]
      literals == S.gencs[g].literals
  IN LiteralReturn(IF Len(literals) = 1 THEN literals[1]
                   ELSE CASE push = "push_0" -> <<"int", 0>>
                          [] push = "push_1" -> <<"int", 1>>
                          [] push = "push_nil" -> Nil)

\* "_assemble_global_return".
AssembleGlobalReturn(S, g) ==
  LET name == S.gencs[g].literals[1][2]
  IN CASE name \in {"true", "false"} -> LiteralReturn(<<"bool", name = "true">>)
       [] name = "nil" -> LiteralReturn(Nil)
       [] OTHER -> GlobalRead(name, MaxContextLevel(S, g))

\* Both raise NotImplementedError when they cannot tell the literal.
UnexpectedLiterals(S, g) ==
  /\ S.gencs[g].last[3] \in (PushConst \ {"push_0", "push_1", "push_nil"})
                             \cup {"push_global"}
  /\ Len(S.gencs[g].literals) # 1

\* "_assemble_field_getter".
AssembleFieldGetter(S, g) ==
  LET push == S.gencs[g].last[3]
      code == S.gencs[g].code
  IN CASE push = "push_field_0" -> FieldRead(0, 0)
       [] push = "push_field_1" -> FieldRead(1, 0)
       [] OTHER -> FieldRead(code[2], code[3])

\* "_assemble_field_setter": push an argument, pop it into a field, answer
\* self.
IsFieldSetter(S, g) ==
  LET last == S.gencs[g].last
  IN /\ last[4] = "return_self"
     /\ last[3] \in PopField
     /\ last[2] = "push_argument"
     /\ Len(S.gencs[g].code) = 4 + BytecodeLength(last[3])
AssembleFieldSetter(S, g) ==
  LET pop == S.gencs[g].last[3]
      code == S.gencs[g].code
  IN FieldWrite(CASE pop = "pop_field_0" -> 0
                  [] pop = "pop_field_1" -> 1
                  [] OTHER -> code[5],
                code[2])

\* "assemble_trivial_method".
IsTrivial(S, g) ==
  \/ /\ S.gencs[g].last[4] = "return_local"
     /\ S.gencs[g].last[3] \in PushConst \cup PushField \cup {"push_global"}
     /\ OnlyThat(S, g)
  \/ IsFieldSetter(S, g)
AssembleTrivialMethod(S, g) ==
  LET push == S.gencs[g].last[3]
  IN CASE IsFieldSetter(S, g) -> AssembleFieldSetter(S, g)
       [] push \in PushConst -> AssembleLiteralReturn(S, g)
       [] push = "push_global" -> AssembleGlobalReturn(S, g)
       [] OTHER -> AssembleFieldGetter(S, g)

ArgumentsAt(S, g, i) ==
  LET code == S.gencs[g].code
  IN IF code[i] \in Sends \cup {"super_send"}
     THEN Arity[S.gencs[g].literals[code[i + 1] + 1][2]] ELSE 0

(* Mutant: the table of effects has no entry for push_argument.          *)
StackEffectWithoutArguments(S, g, i) ==
  IF S.gencs[g].code[i] = "push_argument" THEN 0
  ELSE BytecodeStackEffect(S.gencs[g].code[i], ArgumentsAt(S, g, i))
StackEffectAt(S, g, i) ==
  BytecodeStackEffect(S.gencs[g].code[i], ArgumentsAt(S, g, i))

\* "_compute_stack_depth" goes through the code once, jumps not taken.
ComputeStackDepth(S, g) ==
  LET code == S.gencs[g].code
      RECURSIVE scan(_, _, _)
      scan(i, d, deepest) ==
        IF i > Len(code) THEN deepest
        ELSE LET after == d + StackEffectAt(S, g, i)
             IN scan(i + BytecodeLength(code[i]), after,
                     IF after > deepest THEN after ELSE deepest)
  IN scan(1, 0, 0)

\* "assemble", which writes every variable's access index.
AssembleBytecodes(S, g) ==
  LET G == S.gencs[g]
      method == [kind |-> "bytecodes", literals |-> G.literals, code |-> G.code,
                 maxStack |-> ComputeStackDepth(S, g) + 4, class |-> G.class.name,
                 scope |-> G.scope, loops |-> G.loops, catches |-> G.catches]
  IN [WithAccessIndexes(S, g) EXCEPT
        !.methods = Append(@, method @@ FrameLayout(S, g))]

Assemble(S, g) ==
  IF ~IsTrivial(S, g) THEN AssembleBytecodes(S, g)
  ELSE IF UnexpectedLiterals(S, g) THEN [S EXCEPT !.failed = TRUE]
  ELSE [S EXCEPT !.methods = Append(@, AssembleTrivialMethod(S, g))]

---------------------------------------------------------------------------
(* Inlining an assembled block into the context that is being compiled.    *)

RECURSIVE AdaptAfterOuterInlined(_, _, _, _), AdaptFrom(_, _, _, _, _),
          InlineFrom(_, _, _, _, _, _)

\* "adapt_after_outer_inlined": what the nested block m has to change when
\* the block "removed" levels out is inlined into context g.
AdaptVariable(S, m, i, removed, g) ==
  LET code == S.methods[m].code
      ctx == code[i + 2]
      isLocal == code[i] \in {"push_local", "pop_local"}
      isArg == code[i] \in {"push_argument", "pop_argument"}
      v == ScopeVar(S, S.methods[m].scope, IF isLocal THEN "local" ELSE "argument",
                    code[i + 1], removed)
  IN IF ctx > removed THEN [S EXCEPT !.methods[m].code[i + 2] = ctx - 1]
     ELSE IF ctx = removed /\ (isLocal \/ isArg)
     THEN [MarkInlined(S, g, v, removed) EXCEPT
             !.methods[m].code[i] =
                CASE @ = "push_argument" -> "push_local"
                  [] @ = "pop_argument" -> "pop_local"
                  [] OTHER -> @,
             !.methods[m].code[i + 1] = InlinedLocal(S, g, v) - 1]
     ELSE S

AdaptFrom(S, m, i, removed, g) ==
  LET code == S.methods[m].code
      bc == code[i]
      next(T) == AdaptFrom(T, m, i + BytecodeLength(bc), removed, g)
  IN IF S.failed \/ i > Len(code) THEN S
     ELSE next(CASE bc \in {"push_field", "pop_field", "push_local", "pop_local",
                             "push_argument", "pop_argument"} ->
                      AdaptVariable(S, m, i, removed, g)
                 [] bc = "push_block" ->
                      AdaptAfterOuterInlined(S, S.methods[m].literals[code[i + 1] + 1][2],
                                             removed + 1, g)
                 [] bc = "return_non_local" ->
                      [S EXCEPT !.methods[m].code[i + 1] = @ - 1]
                 [] bc \in NotExpectedInBlock -> [S EXCEPT !.failed = TRUE]
                 [] OTHER -> S)

\* Trivial methods have no such operation; the scope of the inlined block
\* leaves the chain after everything nested was adapted.
AdaptAfterOuterInlined(S, m, removed, g) ==
  IF S.methods[m].kind # "bytecodes" THEN [S EXCEPT !.failed = TRUE]
  ELSE LET T == AdaptFrom(S, m, 1, removed, g)
           scope == T.methods[m].scope
       IN IF removed = 1 /\ ~T.failed
          THEN DropInlinedScope(T, scope)
          ELSE T

\* "_inline_into": one instruction of block m.  What uses a variable of the
\* block itself now uses a local of the context; everything else comes one
\* context closer.
InlineVariable(S, m, i, g) ==
  LET code == S.methods[m].code
      bc == code[i]
      ctx == code[i + 2]
      isLocal == bc \in {"push_local", "pop_local"}
      v == ScopeVar(S, S.methods[m].scope, IF isLocal THEN "local" ELSE "argument",
                    code[i + 1], 0)
  IN IF ctx = 0
     THEN Emit3(MarkInlined(S, g, v, 0), g,
                IF bc \in {"push_local", "push_argument"} THEN "push_local"
                ELSE "pop_local",
                InlinedLocal(S, g, v) - 1, 0)
     ELSE Emit3(S, g, bc, code[i + 1], ctx - 1)

InlineNilLocal(S, m, i, g) ==
  LET v == ScopeVar(S, S.methods[m].scope, "local", S.methods[m].code[i + 1], 0)
  IN Emit2(MarkInlined(S, g, v, 0), g, "nil_local", InlinedLocal(S, g, v) - 1)

InlineBlockLiteral(S, bc, lit, g) ==
  EmitWithLiteral(IF bc = "push_block" THEN AdaptAfterOuterInlined(S, lit[2], 1, g)
                  ELSE S, g, bc, lit)

\* The answer of the block is left on the stack; a non-local return becomes a
\* local one where the context is the method.
InlineReturn(S, m, i, g) ==
  IF S.methods[m].code[i] = "return_local" THEN S
  ELSE IF S.methods[m].code[i + 1] = 1 THEN Emit1(S, g, "return_local")
  ELSE Emit2(S, g, "return_non_local", MaxContextLevel(S, g))

InlineInstruction(S, m, i, g) ==
  LET code == S.methods[m].code
      bc == code[i]
      lit(n) == S.methods[m].literals[n + 1]
  IN CASE bc \in {"push_local", "pop_local", "push_argument", "pop_argument"} ->
            InlineVariable(S, m, i, g)
       [] bc = "push_field" ->
            EmitFieldWithIndex(S, g, PushFieldOps, code[i + 1], code[i + 2] - 1)
       [] bc = "pop_field" ->
            EmitFieldWithIndex(S, g, PopFieldOps, code[i + 1], code[i + 2] - 1)
       [] bc = "nil_local" -> InlineNilLocal(S, m, i, g)
       [] bc \in PushBlock -> InlineBlockLiteral(S, bc, lit(code[i + 1]), g)
       [] bc \in PushLiteral ->
            EmitPushConstant(S, g, CASE bc = "push_constant_0" -> lit(0)
                                     [] bc = "push_constant_1" -> lit(1)
                                     [] bc = "push_constant_2" -> lit(2)
                                     [] OTHER -> lit(code[i + 1]))
       [] bc = "push_global" -> EmitPushGlobal(S, g, lit(code[i + 1])[2])
       [] bc \in Sends \cup {"super_send"} ->
            EmitWithLiteral(S, g, bc, lit(code[i + 1]))
       [] bc \in {"return_local", "return_non_local"} -> InlineReturn(S, m, i, g)
       [] bc \in NotExpectedInBlock -> [S EXCEPT !.failed = TRUE]
       [] OTHER -> Emit1(S, g, bc)

\* The loop over the block's code.  "jumps" holds <<target in the block,
\* offset to patch in the context>>, "loops" <<backward jump in the block,
\* where its loop begins in the context>>.
InlineFrom(S, m, i, g, jumps, loops) ==
  LET code == S.methods[m].code
      bc == code[i]
      begun == loops \cup {<<l[2], NextOffset(S, g)>> :
                              l \in {k \in S.methods[m].loops : k[1] = i - 1}}
      due == {j \in jumps : j[1] = i - 1}
      T == FoldSet(LAMBDA j, acc : PatchJump(acc, g, j[2]), S, due)
      target == (i - 1) + code[i + 1] + code[i + 2] * JumpBase
      next == i + BytecodeLength(bc)
  IN IF S.failed THEN S
     ELSE IF i > Len(code) THEN [S EXCEPT !.failed = jumps # {}]
     ELSE IF bc \in {"jump_backward", "jump2_backward"}
     THEN LET l == CHOOSE k \in begun : k[1] = i - 1
          IN InlineFrom(EmitBackwardsJump(T, g, l[2]), m, next, g, jumps \ due,
                        begun \ {l})
     ELSE IF bc \in Jumps
     THEN LET E == EmitJumpWithDummy(T, g, bc)
          IN InlineFrom(E, m, next, g,
                        (jumps \ due) \cup {<<target, OffsetIdx(E, g)>>}, begun)
     ELSE InlineFrom(InlineInstruction(T, m, i, g), m, next, g, jumps \ due, begun)

\* "inline" of BcMethod and of the trivial methods.
Inline(S, m, g) ==
  LET M == S.methods[m]
  IN CASE M.kind = "bytecodes" -> InlineFrom(S, m, 1, g, {}, {})
       [] M.kind = "literal_return" -> EmitPushConstant(S, g, M.value)
       [] M.kind = "global_read" -> EmitPushGlobal(S, g, M.name)
       [] M.kind = "field_read" ->
            EmitFieldWithIndex(S, g, PushFieldOps, M.idx, M.ctx - 1)
MergeAndInline(S, m, g) ==
  Inline(IF S.methods[m].kind = "bytecodes"
         THEN MergeScopeInto(S, S.methods[m].scope, g) ELSE S, m, g)
============================================================================
