------------------------ MODULE TracingInterpreter ------------------------
(***************************************************************************)
(* The dispatch loop of the second tier (interpret_tier2).  Nothing is     *)
(* counted, and calls stay in this tier: they go through the entry points  *)
(* of invoke_1_tier2 to invoke_4_tier2.  The exceptions are invoke_n, the  *)
(* first use of a super send, the primitives of blocks, messages that are  *)
(* not understood and blocks that escaped.                                 *)
(***************************************************************************)
EXTENDS MachineState

\* The loop takes the branch of one of these instructions.
Dispatch2(ops) == /\ outcome = Running /\ ~top.escaped /\ top.tier = 2
                  /\ bc \in ops
                  /\ UNCHANGED <<program, setting>>

PushTier2 == Dispatch2(Reads) /\ Push(PushedValue) /\ SameCode
PushGlobalTier2 == Dispatch2({"push_global"}) /\ PushGlobal(TRUE)
PopTier2 == Dispatch2(Stores) /\ StoreValue /\ SameCode
IncOrDecTier2 == Dispatch2({"inc", "dec"}) /\ IncOrDec
PatchTier2 == Dispatch2(Unresolved) /\ Patch

SendTier2 == Dispatch2(Sends) /\ Send(TRUE) /\ SameCode

QuickSuperSendTier2(n) ==
  CASE n = 1 -> "q_super_send_1" [] n = 2 -> "q_super_send_2"
    [] n = 3 -> "q_super_send_3" [] n = 4 -> "q_super_send_4"
    [] OTHER -> "q_super_send_n"
SuperSendTier2 ==
  /\ Dispatch2({"super_send"})
  /\ SuperSend(QuickSuperSendTier2(Arity[Selector]))
  /\ UNCHANGED counts
QSuperSendTier2 ==
  Dispatch2(QuickSuperSends) /\ SuperSendAgain(bc # "q_super_send_n") /\ SameCode

ReturnLocalTier2 ==
  Dispatch2({"return_local"}) /\ AnswerFrom(Len(acts), FromTop(0)) /\ SameCode
ReturnNonLocalTier2 == Dispatch2({"return_non_local"}) /\ ReturnNonLocal /\ SameCode
ReturnSelfTier2 ==
  Dispatch2({"return_self"}) /\ AnswerFrom(Len(acts), top.frame[RcvrIdx + 1]) /\ SameCode

JumpTier2 == Dispatch2({"jump"}) /\ JumpTo(top.pc + Offset) /\ SameCode
JumpOnBooleanTier2 ==
  Dispatch2((OnTrue \cup OnFalse) \cap ShortJumps) /\ JumpOnBoolean /\ SameCode
JumpIfGreaterTier2 == Dispatch2({"jump_if_greater"}) /\ JumpIfGreater /\ SameCode
JumpBackwardTier2 == Dispatch2({"jump_backward"}) /\ JumpTo(top.pc - Offset) /\ SameCode
Jump2Tier2 == Dispatch2({"jump2"}) /\ JumpTo(top.pc + Offset) /\ SameCode
Jump2OnBooleanTier2 ==
  Dispatch2((OnTrue \cup OnFalse) \cap LongJumps) /\ JumpOnBoolean /\ SameCode
Jump2IfGreaterTier2 == Dispatch2({"jump2_if_greater"}) /\ JumpIfGreater /\ SameCode
Jump2BackwardTier2 == Dispatch2({"jump2_backward"}) /\ JumpTo(top.pc - Offset) /\ SameCode

InterpretTier2 ==
  \/ PushTier2 \/ PushGlobalTier2 \/ PopTier2 \/ IncOrDecTier2 \/ PatchTier2
  \/ SendTier2 \/ SuperSendTier2 \/ QSuperSendTier2
  \/ ReturnLocalTier2 \/ ReturnNonLocalTier2 \/ ReturnSelfTier2
  \/ JumpTier2 \/ JumpOnBooleanTier2 \/ JumpIfGreaterTier2 \/ JumpBackwardTier2
  \/ Jump2Tier2 \/ Jump2OnBooleanTier2 \/ Jump2IfGreaterTier2 \/ Jump2BackwardTier2
============================================================================
