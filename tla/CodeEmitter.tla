---------------------------- MODULE CodeEmitter ----------------------------
(***************************************************************************)
(* What the compiler of the bytecode interpreters keeps while it compiles  *)
(* a method, and the steps that emit code                                  *)
(* (compiler/bc/method_generation_context.py, bytecode_generator.py).      *)
(*                                                                         *)
(* In the state S of the compiler (see GenerationContexts) a context has   *)
(* in addition its code, its literals, the last four instructions, whether *)
(* a block is being inlined, and its backward jumps.  A literal is a       *)
(* number, a symbol, nil or a method: <<"int", n>>, <<"big", n>>,          *)
(* <<"sym", name>>, <<"nil">>, <<"method", id>>.                           *)
(***************************************************************************)
EXTENDS GenerationContexts, Bytecodes, Values

CONSTANTS
  JumpBase,     \* how many offsets fit in one operand: 256 in the code
  KnownGlobals  \* the globals that exist while the method is compiled

Invalid == "invalid"

---------------------------------------------------------------------------
(* The last four instructions, code and literals of a context.            *)

Emit1(S, g, bc) ==
  [S EXCEPT !.gencs[g].code = Append(@, bc),
            !.gencs[g].last = Append(Tail(@), bc)]
EmitArg(S, g, operand) == [S EXCEPT !.gencs[g].code = Append(@, operand)]
Emit2(S, g, bc, x) == EmitArg(Emit1(S, g, bc), g, x)
Emit3(S, g, bc, x, y) == EmitArg(Emit2(S, g, bc, x), g, y)

\* "_last_bytecode_is", 0 for the newest.
LastIs(S, g, fromEnd, candidates) == S.gencs[g].last[4 - fromEnd] \in candidates
ResetLast(S, g) == [S EXCEPT !.gencs[g].last = [i \in 1..4 |-> Invalid]]

\* "_remove_last_bytecodes" leaves the memory of the last four as it is.
RemoveLast(S, g, n) ==
  LET last == S.gencs[g].last
      bytes == IF n = 1 THEN BytecodeLength(last[4])
               ELSE BytecodeLength(last[4]) + BytecodeLength(last[3])
  IN [S EXCEPT !.gencs[g].code = SubSeq(@, 1, Len(@) - bytes)]

\* "add_literal_if_absent" finds symbols and methods again; every number in
\* the source is an object of its own.
WithLiteral(S, g, lit) ==
  IF ~IsNumber(lit) /\ lit \in ToSet(S.gencs[g].literals) THEN S
  ELSE [S EXCEPT !.gencs[g].literals = Append(@, lit)]
LiteralIdx(S, g, lit) ==
  LET ls == S.gencs[g].literals
  IN (IF IsNumber(lit) THEN Len(ls) ELSE CHOOSE i \in DOMAIN ls : ls[i] = lit) - 1
EmitWithLiteral(S, g, bc, lit) ==
  LET T == WithLiteral(S, g, lit) IN Emit2(T, g, bc, LiteralIdx(T, g, lit))

EmitPushConstant(S, g, lit) ==
  IF lit = <<"int", 0>> THEN Emit1(S, g, "push_0")
  ELSE IF lit = <<"int", 1>> THEN Emit1(S, g, "push_1")
  ELSE IF lit = Nil THEN Emit1(S, g, "push_nil")
  ELSE LET T == WithLiteral(S, g, lit)
           idx == LiteralIdx(T, g, lit)
       IN IF idx <= 2
          THEN Emit1(T, g, <<"push_constant_0", "push_constant_1",
                             "push_constant_2">>[idx + 1])
          ELSE Emit2(T, g, "push_constant", idx)

(* Mutant: also where two branches of inlined code meet.                 *)
CanDropDupAnywhere(S, g) ==
  LastIs(S, g, 1, {"dup"}) /\ LastIs(S, g, 0, PopX)

\* "optimize_dup_pop_pop_sequence": the assignment whose value nobody uses
\* loses the DUP instead of getting a POP.
CanDropDup(S, g) ==
  ~S.gencs[g].inlining /\ LastIs(S, g, 1, {"dup"}) /\ LastIs(S, g, 0, PopX)
DropDup(S, g) ==
  LET last == S.gencs[g].last
      at == Len(S.gencs[g].code) - BytecodeLength(last[4])
  IN [S EXCEPT !.gencs[g].code = RemoveAt(@, at),
               !.gencs[g].last = <<Invalid, last[1], last[2], last[4]>>]

EmitPop(S, g) == IF CanDropDup(S, g) THEN DropDup(S, g) ELSE Emit1(S, g, "pop")
EmitReturnSelf(S, g) ==
  Emit1(IF CanDropDup(S, g) THEN DropDup(S, g) ELSE S, g, "return_self")

\* "remove_last_pop_for_block_local_return": the value of the last statement
\* is the block's after all.
RemoveLastPop(S, g) ==
  LET last == S.gencs[g].last
      code == S.gencs[g].code
  IN IF last[4] = "pop" THEN [S EXCEPT !.gencs[g].code = Front(@)]
     ELSE IF last[4] \in PopX /\ last[3] # "dup"
     THEN [S EXCEPT !.gencs[g].code =
                      InsertAt(@, Len(code) - BytecodeLength(last[4]) + 1, "dup"),
                    !.gencs[g].last = <<last[2], last[3], "dup", last[4]>>]
     ELSE S

---------------------------------------------------------------------------
(* Variables, fields and globals.                                          *)

EmitFieldWithIndex(S, g, op, idx, ctx) ==
  IF ctx = 0 /\ idx = 0 THEN Emit1(S, g, op[2])
  ELSE IF ctx = 0 /\ idx = 1 THEN Emit1(S, g, op[3])
  ELSE Emit3(S, g, op[1], idx, ctx)
PushFieldOps == <<"push_field", "push_field_0", "push_field_1">>
PopFieldOps == <<"pop_field", "pop_field_0", "pop_field_1">>

\* "emit_push_global": a block must be able to send #unknownGlobal: to self.
EmitPushGlobal(S, g, name) ==
  EmitWithLiteral(IF name \in KnownGlobals THEN S ELSE MarkSelfAccessed(S, g),
                  g, "push_global", <<"sym", name>>)

GenPushVariable(S, g, name) ==
  LET r == FindVar(S, g, name, 0)
  IN IF r.where # "none"
     THEN Emit3(MarkAccessed(WithUsers(S, r.users), r.var, r.ctx), g,
                IF r.where = "local" THEN "push_local" ELSE "push_argument",
                r.idx, r.ctx)
     ELSE IF HasField(S, g, name)
     THEN LET T == WithLiteral(S, g, <<"sym", name>>)
          IN MarkSelfAccessed(EmitFieldWithIndex(T, g, PushFieldOps,
               FieldIdx(T, g, name), MaxContextLevel(T, g)), g)
     ELSE EmitPushGlobal(S, g, name)

GenPopVariable(S, g, name) ==
  LET r == FindVar(S, g, name, 0)
  IN IF r.where # "none"
     THEN Emit3(MarkAccessed(WithUsers(S, r.users), r.var, r.ctx), g,
                IF r.where = "local" THEN "pop_local" ELSE "pop_argument",
                r.idx, r.ctx)
     ELSE MarkSelfAccessed(EmitFieldWithIndex(S, g, PopFieldOps,
            FieldIdx(S, g, name), MaxContextLevel(S, g)), g)

---------------------------------------------------------------------------
(* Jumps.                                                                  *)

NextOffset(S, g) == Len(S.gencs[g].code)

\* Answers the context after the jump; its offset is patched later, at
\* OffsetIdx of the context after it.
EmitJumpWithDummy(S, g, bc) == Emit3(S, g, bc, 0, 0)
OffsetIdx(S, g) == NextOffset(S, g) - 2

BooleanJump(ifTrue, needsPop) ==
  IF ifTrue THEN IF needsPop THEN "jump_on_false_pop" ELSE "jump_on_false_top_nil"
  ELSE IF needsPop THEN "jump_on_true_pop" ELSE "jump_on_true_top_nil"

\* "patch_jump_offset_to_point_to_next_instruction", with _check_jump_offset.
PatchJump(S, g, idx) ==
  LET offset == NextOffset(S, g) - (idx - 1)
      bc == S.gencs[g].code[idx]
  IN IF offset >= JumpBase * JumpBase THEN [S EXCEPT !.failed = TRUE]
     ELSE IF offset < JumpBase
     THEN [S EXCEPT !.gencs[g].code[idx + 1] = offset]
     ELSE [S EXCEPT
             !.gencs[g].code[idx] = IF bc \in ShortJumps THEN Lengthened[bc] ELSE bc,
             !.gencs[g].code[idx + 1] = offset % JumpBase,
             !.gencs[g].code[idx + 2] = offset \div JumpBase]

EmitBackwardsJump(S, g, loopBegin) ==
  LET offset == NextOffset(S, g) - loopBegin
  IN [Emit3(S, g, IF offset < JumpBase THEN "jump_backward" ELSE "jump2_backward",
            offset % JumpBase, offset \div JumpBase)
       EXCEPT !.gencs[g].loops = @ \cup {<<loopBegin, NextOffset(S, g)>>},
              !.failed = @ \/ offset >= JumpBase * JumpBase]
============================================================================
