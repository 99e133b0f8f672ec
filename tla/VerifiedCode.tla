---------------------------- MODULE VerifiedCode ----------------------------
(***************************************************************************)
(* What the interpreters take for granted of the code they execute, and    *)
(* check nowhere: a verifier of bytecodes would.  Every instruction that   *)
(* can be reached is given the height of the operand stack before it, so   *)
(* that no instruction takes more than there is and all ways to an         *)
(* instruction agree (CodeIsVerified); classes and literals name methods   *)
(* that exist (NamesExist); loops are entered at their first instruction   *)
(* (LoopsHaveOneEntry).                                                    *)
(*                                                                         *)
(* Inv is what stays true of the machine while such code runs and rewrites *)
(* itself.                                                                 *)
(***************************************************************************)
EXTENDS ThreadedTraversal

CONSTANT Heights   \* program -> method -> offset -> height of the stack

Height(prog, m) == Heights[prog][m]

---------------------------------------------------------------------------
(* What one instruction does, in the code as it was compiled.              *)

SendLike == Sends \cup QuickSuperSends \cup {"super_send"}
ArgsAt(M, pc) ==
  IF M.code[pc + 1] \in SendLike THEN Arity[M.literals[M.code[pc + 2] + 1][2]] ELSE 0

\* How many elements of the stack it takes or looks at.
Takes(op, args) ==
  CASE op \in SendLike -> args
    [] op \in PopFrame \cup PopInner \cup PopX \cup OnTrue \cup OnFalse
         \cup {"pop", "inc", "dec", "dup", "return_local", "return_non_local"} -> 1
    [] op \in {"dup_second", "jump_if_greater", "jump2_if_greater"} -> 2
    [] OTHER -> 0

\* The instructions after it, with the height of the stack before them.
FlowsTo(M, pc, height) ==
  LET op == M.code[pc + 1]
      target == TargetAt(M.code, pc, JumpBase)
      next == NextAt(M.code, pc)
  IN CASE op \in Returns -> {}
       [] op \in {"jump", "jump2"} \cup BackwardJumps -> {<<target, height>>}
       [] op \in LeavesNil -> {<<target, height>>, <<next, height - 1>>}
       [] op \in (OnTrue \cup OnFalse) \ LeavesNil ->
            {<<target, height - 1>>, <<next, height - 1>>}
       [] op \in {"jump_if_greater", "jump2_if_greater"} ->
            {<<target, height - 2>>, <<next, height>>}
       [] OTHER -> {<<next, height + BytecodeStackEffect(op, ArgsAt(M, pc))>>}

---------------------------------------------------------------------------
(* Verified code.                                                          *)

IsSequence(s) == Len(s) \in Nat /\ s = [i \in 1..Len(s) |-> s[i]]

IsCode(M) ==
  /\ IsSequence(M.code)
  /\ 0 \in M.starts
  /\ \A pc \in M.starts :
       /\ pc \in 0..(Len(M.code) - 1)
       /\ NextAt(M.code, pc) \in M.starts \cup {Len(M.code)}
       /\ M.code[pc + 1] \notin QuickSuperSends
       /\ M.starts \cap ((pc + 1)..(NextAt(M.code, pc) - 1)) = {}

IsStackMap(M, h) ==
  /\ 0 \in DOMAIN h /\ h[0] = 0 /\ DOMAIN h \subseteq M.starts
  /\ M.maxStack \in Nat
  /\ \A pc \in DOMAIN h :
       /\ h[pc] \in 0..M.maxStack
       /\ ArgsAt(M, pc) \in Nat
       /\ Takes(M.code[pc + 1], ArgsAt(M, pc)) <= h[pc]
       /\ M.code[pc + 1] \in SendLike => ArgsAt(M, pc) > 0
       /\ \A e \in FlowsTo(M, pc, h[pc]) : e[1] \in DOMAIN h /\ h[e[1]] = e[2]

\* A value that is a block names the method it was made of.
NamesAMethod(prog, v) == v[1] = "block" => v[2] \in DOMAIN prog.methods

\* What an instruction finds by the numbers in it: the variable has a slot
\* behind the inner, a block literal is a method, no constant is a block.
OperandsExist(prog, m, pc) ==
  LET M == prog.methods[m]
      op == M.code[pc + 1]
      operand == M.code[pc + 2]
  IN /\ op \in {"push_local", "push_argument"} =>
          VariableOf(prog, m, op, operand, M.code[pc + 3]).access \in Nat \ {0}
     /\ op = "push_frame" => operand \in Nat \ {0}
     /\ op \in PushBlock => M.literals[operand + 1][2] \in DOMAIN prog.methods
     /\ op = "push_constant" => NamesAMethod(prog, M.literals[operand + 1])
     /\ op = "push_constant_0" => NamesAMethod(prog, M.literals[1])
     /\ op = "push_constant_1" => NamesAMethod(prog, M.literals[2])
     /\ op = "push_constant_2" => NamesAMethod(prog, M.literals[3])

CodeIsVerified(p, m) ==
  LET M == Programs[p].methods[m]
  IN /\ IsCode(M)
     /\ IsStackMap(M, Height(p, m))
     /\ \A pc \in M.starts : OperandsExist(Programs[p], m, pc)
     /\ M.sizeFrame \in Nat /\ M.sizeFrame >= 2

KnownPrimitives == BlockPrimitives \cup SystemPrimitives \cup Comparisons
                     \cup {"not", "abs", "+", "-", "*", "/", "%", "rem:", "max:", "min:"}
IsInvokable(prog, inv) ==
  \/ inv[1] = "method" /\ inv[2] \in DOMAIN prog.methods
  \/ inv[1] = "primitive" /\ inv[2] \in KnownPrimitives
  \/ inv = NoInvokable

TrivialKinds == {"literal_return", "global_read", "field_read", "field_write"}

NamesExist(prog) ==
  /\ \A m \in DOMAIN prog.methods :
       /\ prog.methods[m].kind \in TrivialKinds \cup {"bytecodes"}
       /\ prog.methods[m].kind = "literal_return" =>
            NamesAMethod(prog, prog.methods[m].value)
  /\ \A class \in DOMAIN prog.classes :
       \A selector \in DOMAIN prog.classes[class].methods :
         \E inv \in {prog.classes[class].methods[selector]} :
           /\ IsInvokable(prog, inv)
           /\ inv[1] = "primitive" /\ inv[2] \in BlockPrimitives => inv[2] = selector
  /\ prog.entry.method \in DOMAIN prog.methods
  /\ prog.methods[prog.entry.method].kind = "bytecodes"
  /\ IsSequence(prog.entry.args)
  /\ \A v \in Range(prog.entry.args) \cup Range(prog.entry.fields)
         \cup Range(prog.globals) : NamesAMethod(prog, v)

\* No way leads into a loop but to its first instruction.  The walk also goes
\* to what follows a jump2.
WalksTo(cells, pc) ==
  Successors(cells, JumpBase, pc)
    \cup (IF cells[pc + 1] = "jump2" THEN {NextAt(cells, pc)} ELSE {})
LoopsHaveOneEntry(M) ==
  /\ \A pc \in M.starts : WalksTo(M.code, pc) \subseteq M.starts
  /\ \A back \in {pc \in M.starts : M.code[pc + 1] \in BackwardJumps} :
       \E first \in {TargetAt(M.code, back, JumpBase)} :
         /\ first <= back
         /\ \A pc \in M.starts \ (first..back) :
              WalksTo(M.code, pc) \cap (first..back) \subseteq {first}

IsVerified(p) ==
  /\ NamesExist(Programs[p])
  /\ \A m \in DOMAIN Programs[p].methods :
       Programs[p].methods[m].kind = "bytecodes" =>
         CodeIsVerified(p, m) /\ LoopsHaveOneEntry(Programs[p].methods[m])

\* The compilers give every program such code.  No program changes its
\* methods: it holds in all states when it holds in the first.
CompiledCodeIsVerified == IsVerified(program)

---------------------------------------------------------------------------
(* The invariant.                                                          *)

\* What the first use of an instruction may make of it.
Variants(op) ==
  CASE op \in {"push_local", "push_argument"} -> {op} \cup PushFrame \cup PushInner
    [] op \in {"pop_local", "pop_argument"} -> {op} \cup PopFrame \cup PopInner
    [] op = "nil_local" -> {op, "nil_frame", "nil_inner"}
    [] op = "super_send" -> {op} \cup QuickSuperSends
    [] OTHER -> {op}

\* The code as rewritten: the operands of a variable are replaced as well,
\* those of a super send stay.
CellsFit(M, cells) ==
  /\ IsSequence(cells) /\ Len(cells) = Len(M.code)
  /\ \A pc \in M.starts :
       /\ cells[pc + 1] \in Variants(M.code[pc + 1])
       /\ cells[pc + 1] = M.code[pc + 1] \/ M.code[pc + 1] = "super_send" =>
            \A i \in (pc + 2)..NextAt(M.code, pc) : cells[i] = M.code[i]
       /\ cells[pc + 1] = "push_frame" => cells[pc + 2] \in Nat \ {0}
CodeFits(prog, c) ==
  /\ DOMAIN c = DOMAIN prog.methods
  /\ \A m \in DOMAIN prog.methods :
       IF prog.methods[m].kind = "bytecodes" THEN CellsFit(prog.methods[m], c[m])
       ELSE c[m] = <<>>

\* An activation is at an instruction the verifier has reached, and its stack
\* is as high as it said.
IsStack(prog, s) == IsSequence(s) /\ \A i \in 1..Len(s) : NamesAMethod(prog, s[i])
IsFrame(prog, f) ==
  2 \in DOMAIN f /\ \A i \in DOMAIN f \ {1} : NamesAMethod(prog, f[i])
ActivationFields ==
  {"m", "pc", "stack", "tier", "shielded", "catches", "escaped", "frame"}
ActivationFits(p, a) ==
  /\ DOMAIN a = ActivationFields
  /\ a.m \in DOMAIN Programs[p].methods
  /\ Programs[p].methods[a.m].kind = "bytecodes"
  /\ a.pc \in DOMAIN Height(p, a.m)
  /\ IsStack(Programs[p], a.stack) /\ Len(a.stack) = Height(p, a.m)[a.pc]
  /\ IsFrame(Programs[p], a.frame)

\* One that waits for an answer has the receiver on its stack.
ActivationsFit(p, calls) ==
  /\ IsSequence(calls)
  /\ \A k \in 1..Len(calls) : /\ ActivationFits(p, calls[k])
                              /\ k < Len(calls) => Len(calls[k].stack) > 0

InnersFit(prog, is) ==
  /\ IsSequence(is)
  /\ \A i \in 1..Len(is) : \A j \in DOMAIN is[i] : NamesAMethod(prog, is[i][j])
ObjectsFit(prog, os) ==
  \A o \in DOMAIN os : /\ "fields" \in DOMAIN os[o]
                       /\ \A j \in DOMAIN os[o].fields : NamesAMethod(prog, os[o].fields[j])
GlobalsFit(prog, gs) == \A name \in DOMAIN gs : NamesAMethod(prog, gs[name])

\* Whatever the tier, and after every rewriting, answer, non-local return and
\* change of tier: each activation is where the verifier of the compiled code
\* has been, with the stack it computed, and waits with a receiver on it; what
\* instructions were rewritten to does the same as they did; every block, in a
\* stack, frame, inner, object or global, names a method.
Inv == /\ CompiledCodeIsVerified
       /\ outcome = Running => acts # <<>>
       /\ CodeFits(P, code)
       /\ ActivationsFit(program, acts)
       /\ InnersFit(P, inners) /\ ObjectsFit(P, objects) /\ GlobalsFit(P, globals)
============================================================================
