-------------------------- MODULE BytecodeParser --------------------------
(***************************************************************************)
(* The parser of the bytecode interpreters emits code while it reads a     *)
(* method (compiler/bc/parser.py), and inlines the literal blocks of       *)
(* control messages as it goes (compiler/bc/method_generation_context.py). *)
(* "Compile" answers the methods of a whole program.                       *)
(***************************************************************************)
EXTENDS BytecodeCompiler

---------------------------------------------------------------------------
(* Control messages whose blocks are written in place.                     *)

\* The literal index of a block is its operand, the last byte.
LastBlock(S, g, fromEnd) ==
  LET code == S.gencs[g].code
  IN S.gencs[g].literals[code[Len(code) - 2 * fromEnd] + 1][2]
EndsInBlock(S, g) == LastIs(S, g, 0, PushBlock)
EndsInTwoBlocks(S, g) == EndsInBlock(S, g) /\ LastIs(S, g, 1, PushBlock)

Inlining(S, g, flag) == [S EXCEPT !.gencs[g].inlining = flag]

\* "inline_if_true_or_if_false" leaves the flag set: what follows may be a
\* jump target.
InlineIf(S, g, ifTrue) ==
  LET block == LastBlock(S, g, 0)
      jump == EmitJumpWithDummy(RemoveLast(S, g, 1), g, BooleanJump(ifTrue, FALSE))
      body == MergeAndInline(Inlining(jump, g, TRUE), block, g)
  IN ResetLast(PatchJump(body, g, OffsetIdx(jump, g)), g)

\* "inline_if_true_false".
InlineIfElse(S, g, ifTrue) ==
  LET first == LastBlock(S, g, 1)
      second == LastBlock(S, g, 0)
      cond == EmitJumpWithDummy(RemoveLast(S, g, 2), g, BooleanJump(ifTrue, TRUE))
      one == EmitJumpWithDummy(MergeAndInline(Inlining(cond, g, TRUE), first, g),
                               g, "jump")
      other == ResetLast(PatchJump(one, g, OffsetIdx(cond, g)), g)
      two == MergeAndInline(other, second, g)
  IN ResetLast(PatchJump(Inlining(two, g, FALSE), g, OffsetIdx(one, g)), g)

\* "inline_while" and "_complete_jumps_and_emit_returning_nil".
InlineWhile(S, g, whileTrue) ==
  LET start == RemoveLast(S, g, 2)
      cond == MergeAndInline(Inlining(start, g, TRUE), LastBlock(S, g, 1), g)
      jump == EmitJumpWithDummy(cond, g, BooleanJump(whileTrue, TRUE))
      body == ResetLast(MergeAndInline(jump, LastBlock(S, g, 0), g), g)
      back == EmitBackwardsJump(EmitPop(body, g), g, NextOffset(start, g))
      done == Emit1(PatchJump(back, g, OffsetIdx(jump, g)), g, "push_nil")
  IN Inlining(ResetLast(done, g), g, FALSE)

\* "inline_andor".
InlineAndOr(S, g, isOr) ==
  LET jump == EmitJumpWithDummy(RemoveLast(S, g, 1), g, BooleanJump(~isOr, TRUE))
      body == MergeAndInline(Inlining(jump, g, TRUE), LastBlock(S, g, 0), g)
      skip == EmitJumpWithDummy(Inlining(body, g, FALSE), g, "jump")
      constant == EmitPushConstant(PatchJump(skip, g, OffsetIdx(jump, g)), g,
                                   <<"bool", isOr>>)
  IN ResetLast(PatchJump(constant, g, OffsetIdx(skip, g)), g)

\* "inline_to_do": the loop variable is a local of the context.  A trivial
\* block has no scope to merge.
InlineToDo(S, g) ==
  LET block == LastBlock(S, g, 0)
      scope == S.methods[block].scope
      merged == MergeScopeInto(S, scope, g)
      i == S.scopes[scope].args[2]
      idx == InlinedLocal(merged, g, i) - 1
      start == Emit2(Emit1(Inlining(RemoveLast(MarkInlined(merged, g, i, 0), g, 1),
                                    g, TRUE),
                           g, "dup_second"), g, "nil_local", idx)
      jump == EmitJumpWithDummy(start, g, "jump_if_greater")
      body == Inline(Emit3(Emit1(jump, g, "dup"), g, "pop_local", idx, 0), block, g)
      next == Emit2(Emit1(EmitPop(body, g), g, "inc"), g, "nil_local", idx)
      back == EmitBackwardsJump(next, g, NextOffset(start, g))
  IN IF S.methods[block].kind # "bytecodes" THEN [S EXCEPT !.failed = TRUE]
     ELSE Inlining(PatchJump(back, g, OffsetIdx(jump, g)), g, FALSE)

\* "_keyword_message" and "_binary_message": the control messages.
IsInlined(S, g, selector) ==
  CASE selector \in {"ifTrue:", "ifFalse:", "or:", "and:", "||", "&&", "to:do:"} ->
         EndsInBlock(S, g)
    [] selector \in {"ifTrue:ifFalse:", "ifFalse:ifTrue:", "whileTrue:",
                     "whileFalse:"} -> EndsInTwoBlocks(S, g)
    [] OTHER -> FALSE
InlineMessage(S, g, selector) ==
  CASE selector = "ifTrue:" -> InlineIf(S, g, TRUE)
    [] selector = "ifFalse:" -> InlineIf(S, g, FALSE)
    [] selector = "ifTrue:ifFalse:" -> InlineIfElse(S, g, TRUE)
    [] selector = "ifFalse:ifTrue:" -> InlineIfElse(S, g, FALSE)
    [] selector = "whileTrue:" -> InlineWhile(S, g, TRUE)
    [] selector = "whileFalse:" -> InlineWhile(S, g, FALSE)
    [] selector \in {"or:", "||"} -> InlineAndOr(S, g, TRUE)
    [] selector \in {"and:", "&&"} -> InlineAndOr(S, g, FALSE)
    [] selector = "to:do:" -> InlineToDo(S, g)

SendOp(args) == CASE args = 1 -> "send_1" [] args = 2 -> "send_2"
                  [] args = 3 -> "send_3" [] args = 4 -> "send_4"
                  [] OTHER -> "send_n"

---------------------------------------------------------------------------
(* Expressions, statements, blocks.                                        *)

RECURSIVE Expression(_, _, _), Expressions(_, _, _), BlockBody(_, _, _, _, _)

NoCode == [code |-> <<>>, literals |-> <<>>, last |-> [i \in 1..4 |-> Invalid],
           inlining |-> FALSE, loops |-> {}]

Expressions(S, g, es) ==
  IF es = <<>> THEN S ELSE Expressions(Expression(S, g, Head(es)), g, Tail(es))

\* "_assignation": one DUP for each variable before the first store.
Assignation(S, g, names, e) ==
  LET T == Expression(FoldLeft(LAMBDA acc, n : WithLiteral(acc, g, <<"sym", n>>),
                               S, names), g, e)
      dups == FoldLeft(LAMBDA acc, n : Emit1(acc, g, "dup"), T, names)
  IN FoldLeft(LAMBDA acc, n : GenPopVariable(acc, g, n), dups, names)

\* The token 1 is the operand, or what its unary messages are sent to (a source
\* has no parentheses it can do without).
RECURSIVE StartsWithOne(_)
StartsWithOne(e) ==
  \/ e = <<"lit", <<"int", 1>>>>
  \/ e[1] = "send" /\ e[4] = <<>> /\ StartsWithOne(e[2])

\* "_messages" of one send.  "_try_inc_or_dec_bytecodes" takes the token 1
\* after + or - for the whole operand: a unary message after it is sent to the
\* result ("_binary_message" does not read it) and does not parse.
Message(S, g, rcvr, selector, args) ==
  LET T == Expression(S, g, rcvr)
      U == Expressions(T, g, args)
  IN IF selector \in {"+", "-"} /\ StartsWithOne(args[1])
     THEN IF args[1][1] = "lit" THEN Emit1(T, g, IF selector = "+" THEN "inc" ELSE "dec")
          ELSE [T EXCEPT !.failed = TRUE]
     ELSE IF IsInlined(U, g, selector) THEN InlineMessage(U, g, selector)
     ELSE EmitWithLiteral(U, g, SendOp(Arity[selector]), <<"sym", selector>>)

SuperSend(S, g, selector, args) ==
  EmitWithLiteral(Expressions(GenPushVariable(S, g, "self"), g, args), g,
                  "super_send", <<"sym", selector>>)

\* "_primary" for a block: its own context, assembled before the block is
\* pushed.
NestedBlock(S, g, args, locals, body) ==
  LET b == Len(S.gencs) + 1
      T == Assemble(BlockBody(NewGenc(S, g, S.gencs[g].class,
                                      <<"$blockSelf">> \o args, locals, NoCode),
                              b, body, 1, FALSE), b)
  IN EmitWithLiteral(T, g, IF RequiresContext(T, b) THEN "push_block"
                           ELSE "push_block_no_ctx",
                     <<"method", Len(T.methods)>>)

\* An exception ends the compilation.
Expression(S, g, e) ==
  CASE S.failed -> S
    [] e[1] = "lit" -> EmitPushConstant(S, g, e[2])
    [] e[1] = "var" -> GenPushVariable(S, g, e[2])
    [] e[1] = "assign" -> Assignation(S, g, e[2], e[3])
    [] e[1] = "send" -> Message(S, g, e[2], e[3], e[4])
    [] e[1] = "super" -> SuperSend(S, g, e[2], e[3])
    [] e[1] = "block" -> NestedBlock(S, g, e[2], e[3], e[4])

\* "_result".
Result(S, g, e) ==
  LET T == Expression(S, g, e)
  IN IF S.gencs[g].outer # 0
     THEN MarkOuterThrows(Emit2(T, g, "return_non_local", MaxContextLevel(T, g)), g)
     ELSE IF e = <<"var", "self">> THEN EmitReturnSelf(S, g)
     ELSE Emit1(T, g, "return_local")

\* The end of a body: a method answers self, a block its last value.
EndOfBody(S, g, seenPeriod) ==
  LET T == IF seenPeriod THEN RemoveLastPop(S, g) ELSE S
      U == IF T.gencs[g].code = <<>> THEN Emit1(T, g, "push_nil") ELSE T
  IN IF S.gencs[g].outer = 0 THEN EmitReturnSelf(S, g) ELSE Emit1(U, g, "return_local")

\* "_block_body" from statement i on.
BlockBody(S, g, body, i, seenPeriod) ==
  IF S.failed THEN S
  ELSE IF i > Len(body) THEN EndOfBody(S, g, seenPeriod)
  ELSE IF body[i][1] = "return" THEN Result(S, g, body[i][2])
  ELSE IF i < Len(body)
  THEN BlockBody(EmitPop(Expression(S, g, body[i]), g), g, body,
                 IF body[i + 1] = Dot THEN i + 2 ELSE i + 1, TRUE)
  ELSE EndOfBody(Expression(S, g, body[i]), g, FALSE)

---------------------------------------------------------------------------
(* A program: methods is a sequence of [class, source] of its classes'     *)
(* methods.  "entry" gives for each the index of the assembled method.      *)

EmptyCompiler == [gencs |-> <<>>, methods |-> <<>>, scopes |-> <<>>,
                  vars |-> <<>>, failed |-> FALSE]

CompileMethod(S, m) ==
  LET g == Len(S.gencs) + 1
      src == m.source
      T == NewGenc(S, 0, m.class, <<"self">> \o src[1], src[2], NoCode)
  IN Assemble(BlockBody(T, g, src[3], 1, FALSE), g)

\* Every entry is assembled after the blocks it contains.
Compile(methods) ==
  LET step(acc, m) ==
        LET T == CompileMethod(acc.state, m)
        IN IF T.failed THEN [acc EXCEPT !.state = T]
           ELSE [state |-> T, entry |-> Append(acc.entry, Len(T.methods))]
  IN FoldLeft(step, [state |-> EmptyCompiler, entry |-> <<>>], methods)
============================================================================
