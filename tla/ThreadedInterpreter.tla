------------------------ MODULE ThreadedInterpreter ------------------------
(***************************************************************************)
(* The dispatch loop of the first tier (interpret_tier1): one action for   *)
(* each group of instructions.  Some instructions are counted before they  *)
(* are executed; one that was counted too often moves the activation to    *)
(* the second tier instead.  Calls go through the entry points invoke_1 to *)
(* invoke_n.                                                               *)
(***************************************************************************)
EXTENDS MachineState

\* The loop takes the branch of one of these instructions.
Dispatch1(ops) == /\ outcome = Running /\ ~top.escaped /\ top.tier = 1
                  /\ bc \in ops
                  /\ UNCHANGED <<program, setting>>

Hybrid == setting.tiers = "hybrid"

\* What is counted; "_counts" of the method has a number for each.
Instrumented == {"send_n", "super_send", "return_local", "return_non_local",
                 "jump_backward", "jump_if_greater", "jump2", "jump2_backward"}
ShiftDue == /\ Hybrid
            /\ counts[top.m][top.pc + 1] > setting.threshold
            /\ ~top.shielded

(* Mutant: the activation is started again in the tier it was in.        *)
ContinueInTier1 ==
  Dispatch1(Instrumented) /\ ShiftDue /\ Continue(top) /\ SameCode

(* Mutant: the first tier resumes after the instruction it stopped at.    *)
ContinueAfterIt ==
  /\ Dispatch1(Instrumented) /\ ShiftDue
  /\ Continue([top EXCEPT !.tier = 2, !.pc = NextPc])
  /\ SameCode

\* "ContinueInTier2": nothing of the activation but its tier changes.
ContinueInTier2 ==
  /\ Dispatch1(Instrumented) /\ ShiftDue
  /\ Continue([top EXCEPT !.tier = 2])
  /\ SameCode

\* "incr_count", of an instruction that does not shift.
Counted == IF Hybrid THEN [counts EXCEPT ![top.m] =
                             ReplaceAt(@, top.pc + 1, @[top.pc + 1] + 1)]
           ELSE counts
IncrCount == ~ShiftDue /\ counts' = Counted /\ UNCHANGED code

---------------------------------------------------------------------------
(* Variables, fields, literals and globals.                                *)

PushTier1 == Dispatch1(Reads) /\ Push(PushedValue) /\ SameCode
PushGlobalTier1 == Dispatch1({"push_global"}) /\ PushGlobal(FALSE)
PopTier1 == Dispatch1(Stores) /\ StoreValue /\ SameCode

IncOrDecTier1 == Dispatch1({"inc", "dec"}) /\ IncOrDec

\* The instruction was rewritten and is executed next.
PatchTier1 == Dispatch1(Unresolved) /\ Patch

---------------------------------------------------------------------------
(* Sends.                                                                  *)

SendFewTier1 == Dispatch1({"send_1", "send_2"}) /\ Send(FALSE) /\ SameCode
SendMoreTier1 == Dispatch1({"send_3", "send_4"}) /\ Send(FALSE) /\ SameCode
SendNTier1 == Dispatch1({"send_n"}) /\ IncrCount /\ Send(FALSE)

\* Super sends keep the invokable and become an instruction that uses it.
\* The first call is on the slow path of invoke_1 to invoke_3 and invoke_n.
QuickSuperSendTier1(n) ==
  CASE n = 1 -> "q_super_send_1" [] n = 2 -> "q_super_send_2"
    [] n = 3 -> "q_super_send_3" [] OTHER -> "q_super_send_n"
SuperSendTier1 ==
  /\ Dispatch1({"super_send"}) /\ ~ShiftDue
  /\ counts' = Counted
  /\ SuperSend(QuickSuperSendTier1(Arity[Selector]))

\* The one for four arguments, which the second tier writes, is unknown here.
QSuperSendTier1 ==
  /\ Dispatch1(QuickSuperSends)
  /\ IF bc = "q_super_send_4"
     THEN /\ outcome' = Failed("unknown bytecode")
          /\ UNCHANGED <<acts, heap>>
     ELSE SuperSendAgain(FALSE)
  /\ SameCode

---------------------------------------------------------------------------
(* Returns.                                                                *)

ReturnLocalTier1 ==
  Dispatch1({"return_local"}) /\ IncrCount /\ AnswerFrom(Len(acts), FromTop(0))
ReturnNonLocalTier1 == Dispatch1({"return_non_local"}) /\ IncrCount /\ ReturnNonLocal
ReturnSelfTier1 ==
  Dispatch1({"return_self"}) /\ AnswerFrom(Len(acts), top.frame[RcvrIdx + 1]) /\ SameCode

---------------------------------------------------------------------------
(* Jumps.  The traversal stack keeps the instruction after a jump2, and    *)
(* nothing takes it away: the activation never shifts afterwards.          *)

JumpTier1 == Dispatch1({"jump"}) /\ JumpTo(top.pc + Offset) /\ SameCode
JumpOnBooleanTier1 ==
  Dispatch1((OnTrue \cup OnFalse) \cap ShortJumps) /\ JumpOnBoolean /\ SameCode
JumpBackwardTier1 == Dispatch1({"jump_backward"}) /\ IncrCount /\ JumpTo(top.pc - Offset)
JumpIfGreaterTier1 == Dispatch1({"jump_if_greater"}) /\ IncrCount /\ JumpIfGreater
Jump2Tier1 ==
  /\ Dispatch1({"jump2"}) /\ IncrCount
  /\ Continue([top EXCEPT !.pc = @ + Offset, !.shielded = TRUE])
Jump2OnBooleanTier1 ==
  Dispatch1((OnTrue \cup OnFalse) \cap LongJumps) /\ JumpOnBoolean /\ SameCode
Jump2IfGreaterTier1 == Dispatch1({"jump2_if_greater"}) /\ JumpIfGreater /\ SameCode
Jump2BackwardTier1 == Dispatch1({"jump2_backward"}) /\ IncrCount /\ JumpTo(top.pc - Offset)

---------------------------------------------------------------------------

InterpretTier1 ==
  \/ ContinueInTier2
  \/ PushTier1 \/ PushGlobalTier1 \/ PopTier1 \/ IncOrDecTier1 \/ PatchTier1
  \/ SendFewTier1 \/ SendMoreTier1 \/ SendNTier1 \/ SuperSendTier1 \/ QSuperSendTier1
  \/ ReturnLocalTier1 \/ ReturnNonLocalTier1 \/ ReturnSelfTier1
  \/ JumpTier1 \/ JumpOnBooleanTier1 \/ JumpBackwardTier1 \/ JumpIfGreaterTier1
  \/ Jump2Tier1 \/ Jump2OnBooleanTier1 \/ Jump2IfGreaterTier1 \/ Jump2BackwardTier1
============================================================================
