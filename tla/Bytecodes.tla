---------------------------- MODULE Bytecodes ----------------------------
(***************************************************************************)
(* The instruction set of the bytecode interpreters                        *)
(* (interpreter/bc/bytecodes.py): the families of instructions, how many   *)
(* bytes each one takes and what it does to the height of the stack.       *)
(*                                                                         *)
(* An opcode is its name.  A method's code is a sequence of cells: the     *)
(* opcode, then its operands, which are numbers.  A cell is only compared  *)
(* with an opcode where an instruction starts.                             *)
(***************************************************************************)
LOCAL INSTANCE Naturals
LOCAL INSTANCE Integers

PushFrame == {"push_frame", "push_frame_0", "push_frame_1", "push_frame_2"}
PushInner == {"push_inner", "push_inner_0", "push_inner_1", "push_inner_2"}
PopFrame == {"pop_frame", "pop_frame_0", "pop_frame_1", "pop_frame_2"}
PopInner == {"pop_inner", "pop_inner_0", "pop_inner_1", "pop_inner_2"}
PushField == {"push_field", "push_field_0", "push_field_1"}
PopField == {"pop_field", "pop_field_0", "pop_field_1"}
PushBlock == {"push_block", "push_block_no_ctx"}
PushLiteral == {"push_constant", "push_constant_0", "push_constant_1",
                "push_constant_2"}
PushConst == PushLiteral \cup {"push_0", "push_1", "push_nil"}
Sends == {"send_1", "send_2", "send_3", "send_4", "send_n"}
QuickSuperSends == {"q_super_send_1", "q_super_send_2", "q_super_send_3",
                    "q_super_send_4", "q_super_send_n"}

\* Written by the compiler, replaced by an instruction on the frame or on
\* the inner when it is first executed.
Unresolved == {"push_local", "push_argument", "pop_local", "pop_argument",
               "nil_local"}

\* The instructions the peephole rewriting takes for a store that leaves
\* nothing on the stack.
PopX == {"pop_local", "pop_argument"} \cup PopField

\* Each jump with one byte of offset and the one with two bytes.
ShortJumps == {"jump", "jump_on_true_top_nil", "jump_on_false_top_nil",
               "jump_on_true_pop", "jump_on_false_pop", "jump_if_greater",
               "jump_backward"}
Lengthened ==
  [j \in ShortJumps |->
     CASE j = "jump" -> "jump2"
       [] j = "jump_on_true_top_nil" -> "jump2_on_true_top_nil"
       [] j = "jump_on_false_top_nil" -> "jump2_on_false_top_nil"
       [] j = "jump_on_true_pop" -> "jump2_on_true_pop"
       [] j = "jump_on_false_pop" -> "jump2_on_false_pop"
       [] j = "jump_if_greater" -> "jump2_if_greater"
       [] j = "jump_backward" -> "jump2_backward"]
LongJumps == {Lengthened[j] : j \in ShortJumps}
Jumps == ShortJumps \cup LongJumps

\* A block is never compiled to these, so inlining meets none of them.
NotExpectedInBlock == {"halt", "push_field_0", "push_field_1", "pop_field_0",
                       "pop_field_1", "return_self"}

BytecodeLength(bc) ==
  CASE bc \in PushFrame \cup PushInner \cup PopFrame \cup PopInner \cup Jumps
         \cup {"push_field", "pop_field"} \cup (Unresolved \ {"nil_local"}) -> 3
    [] bc \in Sends \cup QuickSuperSends \cup PushBlock
         \cup {"push_constant", "push_global", "super_send", "return_non_local",
               "nil_frame", "nil_inner", "nil_local"} -> 2
    [] OTHER -> 1

\* "stack_effect" of a send depends on the arguments, the receiver included.
BytecodeStackEffect(bc, args) ==
  CASE bc \in Sends \cup QuickSuperSends \cup {"super_send"} -> 1 - args
    [] bc \in PushFrame \cup PushInner \cup PushField \cup PushBlock
         \cup PushConst
         \cup {"dup", "dup_second", "push_global", "push_local",
               "push_argument"} -> 1
    [] bc \in PopFrame \cup PopInner \cup PopX
         \cup {"pop", "jump_on_true_pop", "jump_on_false_pop",
               "jump2_on_true_pop", "jump2_on_false_pop"} -> -1
    [] OTHER -> 0
============================================================================
