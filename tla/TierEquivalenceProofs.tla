------------------------ MODULE TierEquivalenceProofs ------------------------
(***************************************************************************)
(* Proof that the two tiers together are the second tier alone, for every  *)
(* program whose code is verified and whose calls the tiers enter alike,   *)
(* every setting and every threshold.                                      *)
(***************************************************************************)
EXTENDS TierEquivalence, TwoTierMachineProofs

---------------------------------------------------------------------------
(* Two tiers do what one does.  The abstract machine (SecondTier) is the   *)
(* same but for the activations, the code and the counts.                  *)

\* The activations, all in the second tier.
Erased(calls) == [k \in DOMAIN calls |-> InOneTier(calls[k])]

\* As many, and each where it was.
LEMMA ErasedIs ==
  ASSUME NEW s, IsSequence(s)
  PROVE  /\ IsSequence(Erased(s)) /\ Len(Erased(s)) = Len(s) /\ DOMAIN Erased(s) = 1..Len(s)
         /\ \A k \in 1..Len(s) : Erased(s)[k] = InOneTier(s[k])
  <1> DEFINE S == {InOneTier(s[k]) : k \in 1..Len(s)}
  <1>1. DOMAIN s = 1..Len(s) /\ Len(s) \in Nat
    BY SequenceType
  <1>2. Erased(s) \in [1..Len(s) -> S]
    BY <1>1 DEF Erased
  <1>3. Erased(s) \in Seq(S)
    BY <1>1, <1>2, SeqDef
  <1>4. DOMAIN Erased(s) = 1..Len(s) /\ \A k \in 1..Len(s) : Erased(s)[k] = InOneTier(s[k])
    BY <1>1 DEF Erased
  <1>5. Len(Erased(s)) = Len(s)
    BY <1>1, <1>3, <1>4, LenProperties
  <1> QED BY <1>3, <1>4, <1>5, TypedSequence

\* The running activation of the abstract machine.
LEMMA ErasedActs == SecondTier!top = Erased(acts)[Len(Erased(acts))]
  BY DEF SecondTier!top, Erased

LEMMA SameProgram ==
  /\ SecondTier!P = P /\ \A m : SecondTier!Method(m) = Method(m)
  /\ SecondTier!Running = Running /\ \A why : SecondTier!Failed(why) = Failed(why)
  BY DEF SecondTier!P, P, SecondTier!Method, Method, SecondTier!Running, Running,
         SecondTier!Failed, Failed

\* It is the running activation but for its tier.
LEMMA SameTop ==
  ASSUME Inv, outcome = Running
  PROVE  /\ SecondTier!top = InOneTier(top)
         /\ DOMAIN SecondTier!top = DOMAIN top
         /\ SecondTier!top.m = top.m /\ SecondTier!top.pc = top.pc
         /\ SecondTier!top.stack = top.stack /\ SecondTier!top.frame = top.frame
         /\ SecondTier!top.catches = top.catches /\ SecondTier!top.escaped = top.escaped
         /\ SecondTier!top.tier = 2
  <1>1. IsSequence(acts) /\ Len(acts) \in 1..Len(acts) /\ DOMAIN top = ActivationFields
    BY RunningFits, AtInstruction DEF Inv, ActivationsFit
  <1>2. SecondTier!top = InOneTier(top)
    BY <1>1, ErasedActs, ErasedIs DEF top
  <1> QED BY <1>1, <1>2 DEF InOneTier, ActivationFields

\* A super send was rewritten to the instruction the second tier writes, and
\* has not four arguments.
SuperSendsFitIn(M, cells) ==
  \A pc \in M.starts :
    cells[pc + 1] \in QuickSuperSends =>
       /\ M.code[pc + 1] = "super_send"
       /\ cells[pc + 1] = QuickSuperSendTier2(Arity[SelectorAt(M, pc)])
       /\ Arity[SelectorAt(M, pc)] # 4
SuperSendsFit(prog, c) ==
  \A m \in DOMAIN prog.methods :
    prog.methods[m].kind = "bytecodes" => SuperSendsFitIn(prog.methods[m], c[m])

\* The code of the abstract machine (AsTier2Writes), of any program and code.
Tier2Writes(M, cells, i) ==
  IF i - 1 \in M.starts /\ cells[i] = "q_super_send_n"
  THEN QuickSuperSendTier2(Arity[M.literals[cells[i + 1] + 1][2]])
  ELSE cells[i]
Rewritten(prog, c) ==
  [m \in DOMAIN c |-> [i \in DOMAIN c[m] |-> Tier2Writes(prog.methods[m], c[m], i)]]

\* Where the super sends fit, it is the code itself.
LEMMA SameCells ==
  ASSUME NEW M, IsCode(M), NEW cells, CellsFit(M, cells), SuperSendsFitIn(M, cells)
  PROVE  [i \in DOMAIN cells |-> Tier2Writes(M, cells, i)] = cells
  <1>1. IsSequence(cells) /\ DOMAIN cells = 1..Len(cells) /\ Len(cells) \in Nat
    BY SequenceType DEF CellsFit
  <1>2. ASSUME NEW i \in 1..Len(cells) PROVE Tier2Writes(M, cells, i) = cells[i]
    <2> SUFFICES ASSUME i - 1 \in M.starts, cells[i] = "q_super_send_n"
                 PROVE  cells[i] = QuickSuperSendTier2(Arity[M.literals[cells[i + 1] + 1][2]])
      BY DEF Tier2Writes
    <2> DEFINE pc == i - 1
    <2>1. pc + 1 = i /\ pc + 2 = i + 1 /\ pc \in Nat /\ pc \in M.starts
      BY <1>1
    <2> HIDE DEF pc
    <2>2. /\ M.code[pc + 1] = "super_send"
          /\ cells[i] = QuickSuperSendTier2(Arity[SelectorAt(M, pc)])
      BY <2>1 DEF SuperSendsFitIn, QuickSuperSends
    <2>3. NextAt(M.code, pc) = pc + 2
      BY <2>1, <2>2, TheLongJumps DEF NextAt, BytecodeLength, PushInner, PushFrame,
         PopFrame,
         PopInner, Unresolved, Jumps, ShortJumps, Sends, QuickSuperSends, PushBlock
    <2>4. cells[pc + 2] = M.code[pc + 2]
      BY <2>1, <2>2, <2>3, AtCell
    <2> QED BY <2>1, <2>2, <2>4 DEF SelectorAt
  <1> QED BY <1>1, <1>2 DEF IsSequence

LEMMA SameMethods ==
  ASSUME NEW p, IsVerified(p), NEW c, CodeFits(Programs[p], c), SuperSendsFit(Programs[p], c)
  PROVE  /\ DOMAIN Rewritten(Programs[p], c) = DOMAIN c
         /\ \A m \in DOMAIN c : Rewritten(Programs[p], c)[m] = c[m]
  <1> DEFINE prog == Programs[p]
  <1>1. ASSUME NEW m \in DOMAIN c PROVE Rewritten(prog, c)[m] = c[m]
    <2>1. m \in DOMAIN prog.methods
      BY DEF CodeFits
    <2>2. CASE prog.methods[m].kind = "bytecodes"
      <3>1. /\ IsCode(prog.methods[m]) /\ CellsFit(prog.methods[m], c[m])
            /\ SuperSendsFitIn(prog.methods[m], c[m])
        BY <2>1, <2>2 DEF IsVerified, CodeIsVerified, CodeFits, SuperSendsFit
      <3> QED BY <3>1, SameCells DEF Rewritten
    <2>3. CASE prog.methods[m].kind # "bytecodes"
      <3>1. c[m] = <<>>
        BY <2>1, <2>3 DEF CodeFits
      <3> QED BY <3>1 DEF Rewritten
    <2> QED BY <2>2, <2>3
  <1> QED BY <1>1 DEF Rewritten

\* The invariant of the refinement: without the last part the code of the
\* abstract machine is another one, without the second the tiers differ.
BothTiersInv == Inv /\ SameEntryPoints(P) /\ SuperSendsFit(P, code)

\* Operators without state mean the same in the abstract machine.
LEMMA SameSets ==
  /\ SecondTier!PushFrame = PushFrame
  /\ SecondTier!PushInner = PushInner
  /\ SecondTier!PopFrame = PopFrame
  /\ SecondTier!PopInner = PopInner
  /\ SecondTier!PushField = PushField
  /\ SecondTier!PopField = PopField
  /\ SecondTier!PushBlock = PushBlock
  /\ SecondTier!PushLiteral = PushLiteral
  /\ SecondTier!PushConst = PushConst
  /\ SecondTier!Sends = Sends
  /\ SecondTier!QuickSuperSends = QuickSuperSends
  /\ SecondTier!Unresolved = Unresolved
  /\ SecondTier!PopX = PopX
  /\ SecondTier!ShortJumps = ShortJumps
  /\ SecondTier!Lengthened = Lengthened
  /\ SecondTier!LongJumps = LongJumps
  /\ SecondTier!Jumps = Jumps
  /\ \A op : SecondTier!BytecodeLength(op) = BytecodeLength(op)
  BY DEF SecondTier!PushFrame, PushFrame, SecondTier!PushInner, PushInner,
     SecondTier!PopFrame, PopFrame, SecondTier!PopInner, PopInner, SecondTier!PushField,
     PushField, SecondTier!PopField, PopField, SecondTier!PushBlock, PushBlock,
     SecondTier!PushLiteral, PushLiteral, SecondTier!PushConst, PushConst,
     SecondTier!Sends, Sends, SecondTier!QuickSuperSends, QuickSuperSends,
     SecondTier!Unresolved, Unresolved, SecondTier!PopX, PopX, SecondTier!ShortJumps,
     ShortJumps, SecondTier!Lengthened, Lengthened, SecondTier!LongJumps, LongJumps,
     SecondTier!Jumps, Jumps, SecondTier!BytecodeLength, BytecodeLength

LEMMA SameNames ==
  /\ SecondTier!OnTrue = OnTrue
  /\ SecondTier!OnFalse = OnFalse
  /\ SecondTier!LeavesNil = LeavesNil
  /\ SecondTier!Reads = Reads
  /\ SecondTier!Stores = Stores
  /\ SecondTier!SystemPrimitives = SystemPrimitives
  /\ SecondTier!BlockPrimitives = BlockPrimitives
  /\ SecondTier!Comparisons = Comparisons
  /\ SecondTier!Nil = Nil
  /\ SecondTier!True = True
  /\ SecondTier!Undefined = Undefined
  /\ SecondTier!NoAnswer = NoAnswer
  /\ SecondTier!RcvrIdx = RcvrIdx
  /\ SecondTier!ArgOffset = ArgOffset
  /\ \A b : SecondTier!Bool(b) = Bool(b)
  /\ \A s, i : SecondTier!Element(s, i) = Element(s, i)
  /\ \A s, n : SecondTier!Drop(s, n) = Drop(s, n)
  /\ \A s, v : SecondTier!PutOnTop(s, v) = PutOnTop(s, v)
  /\ \A v : SecondTier!ClassOfValue(v) = ClassOfValue(v)
  BY DEF SecondTier!PushFrame, PushFrame, SecondTier!PushInner, PushInner,
     SecondTier!PopFrame, PopFrame, SecondTier!PopInner, PopInner, SecondTier!PushField,
     PushField, SecondTier!PopField, PopField, SecondTier!PushBlock, PushBlock,
     SecondTier!PushLiteral, PushLiteral, SecondTier!PushConst, PushConst,
     SecondTier!Sends, Sends, SecondTier!QuickSuperSends, QuickSuperSends,
     SecondTier!Unresolved, Unresolved, SecondTier!PopX, PopX, SecondTier!ShortJumps,
     ShortJumps, SecondTier!Lengthened, Lengthened, SecondTier!LongJumps, LongJumps,
     SecondTier!Jumps, Jumps, SecondTier!OnTrue, OnTrue, SecondTier!OnFalse, OnFalse,
     SecondTier!LeavesNil, LeavesNil, SecondTier!Reads, Reads, SecondTier!Stores, Stores,
     SecondTier!SystemPrimitives, SystemPrimitives, SecondTier!BlockPrimitives,
     BlockPrimitives, SecondTier!Comparisons, Comparisons, SecondTier!Nil, Nil,
     SecondTier!True, True, SecondTier!Undefined, Undefined, SecondTier!NoAnswer, NoAnswer,
     SecondTier!RcvrIdx, RcvrIdx, SecondTier!ArgOffset, ArgOffset, SecondTier!Bool, Bool,
     SecondTier!Element, Element, SecondTier!Drop, Drop, SecondTier!PutOnTop, PutOnTop,
     SecondTier!ClassOfValue, ClassOfValue

\* The code of the abstract machine.
LEMMA AbstractCode ==
  /\ [m \in DOMAIN code |-> [i \in DOMAIN code[m] |-> AsTier2Writes(m, i)]]
       = Rewritten(P, code)
  /\ SecondTier!bc = Rewritten(P, code)[SecondTier!top.m][SecondTier!top.pc + 1]
  /\ \A n : SecondTier!Operand(n) = Rewritten(P, code)[SecondTier!top.m][SecondTier!top.pc + 1 + n]
  <1>1. [m \in DOMAIN code |-> [i \in DOMAIN code[m] |-> AsTier2Writes(m, i)]]
       = Rewritten(P, code)
    BY DEF AsTier2Writes, Rewritten, Tier2Writes, Method
  <1> QED BY <1>1 DEF SecondTier!bc, SecondTier!Operand

\* Both machines are at the same instruction.
LEMMA SameInstruction ==
  ASSUME BothTiersInv, outcome = Running
  PROVE  /\ SecondTier!bc = bc /\ \A n : SecondTier!Operand(n) = Operand(n)
         /\ SecondTier!NextPc = NextPc
         /\ \A n : SecondTier!Literal(n) = Literal(n)
  <1>1. top.m \in DOMAIN code
    BY AtInstruction DEF BothTiersInv
  <1>2. Rewritten(P, code)[top.m] = code[top.m]
    BY <1>1, SameMethods DEF BothTiersInv, Inv, P, CompiledCodeIsVerified
  <1>3. SecondTier!bc = bc /\ \A n : SecondTier!Operand(n) = Operand(n)
    BY <1>2, AbstractCode, SameTop DEF BothTiersInv, bc, Operand
  <1> QED BY <1>3, SameSets, SameTop, SameProgram DEF BothTiersInv, SecondTier!NextPc, NextPc,
     SecondTier!Literal, Literal

---------------------------------------------------------------------------
(* Values, classes and the heap are the same.                              *)

LEMMA SameIntegers ==
  /\ SecondTier!NoAnswer = NoAnswer /\ SecondTier!MachineInts = MachineInts
  /\ \A v : SecondTier!IsNumber(v) = IsNumber(v)
  /\ \A n : SecondTier!Integer(n) = Integer(n) /\ SecondTier!BigInteger(n) = BigInteger(n)
  /\ \A n : SecondTier!Ovfcheck(n) = Ovfcheck(n)
  /\ \A l, r, n : SecondTier!Promoted(l, r, n) = Promoted(l, r, n)
  /\ \A n, d : SecondTier!FloorDiv(n, d) = FloorDiv(n, d)
  /\ \A n : SecondTier!Magnitude(n) = Magnitude(n)
  BY DEF SecondTier!NoAnswer, NoAnswer, SecondTier!MinInt, MinInt,
     SecondTier!MachineInts, MachineInts, SecondTier!Integer, Integer,
     SecondTier!BigInteger, BigInteger, SecondTier!IsNumber, IsNumber, SecondTier!Ovfcheck,
     Ovfcheck, SecondTier!Promoted, Promoted, SecondTier!FloorDiv, FloorDiv,
     SecondTier!Magnitude, Magnitude

LEMMA SameDivisions ==
  /\ \A n, d : SecondTier!FloorMod(n, d) = FloorMod(n, d)
  /\ \A n, d : SecondTier!TruncatedMod(n, d) = TruncatedMod(n, d)
  BY SameIntegers DEF SecondTier!FloorMod, FloorMod, SecondTier!TruncatedMod,
     TruncatedMod

LEMMA SameArithmetic ==
  ASSUME NEW l, NEW r
  PROVE  /\ SecondTier!PrimAdd(l, r) = PrimAdd(l, r)
         /\ SecondTier!PrimSubtract(l, r) = PrimSubtract(l, r)
         /\ SecondTier!PrimMultiply(l, r) = PrimMultiply(l, r)
         /\ SecondTier!PrimIntDiv(l, r) = PrimIntDiv(l, r)
         /\ SecondTier!PrimModulo(l, r) = PrimModulo(l, r)
  <1>1. SecondTier!PrimAdd(l, r) = PrimAdd(l, r)
    BY SameIntegers, SameDivisions DEF SecondTier!PrimAdd, PrimAdd
  <1>2. SecondTier!PrimSubtract(l, r) = PrimSubtract(l, r)
    BY SameIntegers, SameDivisions DEF SecondTier!PrimSubtract, PrimSubtract
  <1>3. SecondTier!PrimMultiply(l, r) = PrimMultiply(l, r)
    BY SameIntegers, SameDivisions DEF SecondTier!PrimMultiply, PrimMultiply
  <1>4. SecondTier!PrimIntDiv(l, r) = PrimIntDiv(l, r)
    BY SameIntegers, SameDivisions DEF SecondTier!PrimIntDiv, PrimIntDiv
  <1>5. SecondTier!PrimModulo(l, r) = PrimModulo(l, r)
    BY SameIntegers, SameDivisions DEF SecondTier!PrimModulo, PrimModulo
  <1> QED BY <1>1, <1>2, <1>3, <1>4, <1>5

LEMMA SameRemainders ==
  ASSUME NEW l, NEW r
  PROVE  SecondTier!PrimRemainder(l, r) = PrimRemainder(l, r)
  <1>1. SecondTier!PrimRemainderInteger(l, r) = PrimRemainderInteger(l, r)
    BY SameIntegers, SameDivisions DEF SecondTier!PrimRemainderInteger,
       PrimRemainderInteger
  <1>2. SecondTier!PrimRemainderBigInteger(l, r) = PrimRemainderBigInteger(l, r)
    BY SameIntegers, SameDivisions
    DEF SecondTier!PrimRemainderBigInteger, PrimRemainderBigInteger
  <1> QED BY <1>1, <1>2 DEF SecondTier!PrimRemainder, PrimRemainder

LEMMA SameComparisons ==
  ASSUME NEW l, NEW r
  PROVE  /\ SecondTier!PrimLessThan(l, r) = PrimLessThan(l, r)
         /\ SecondTier!PrimLessThanOrEqual(l, r) = PrimLessThanOrEqual(l, r)
         /\ SecondTier!PrimGreaterThan(l, r) = PrimGreaterThan(l, r)
         /\ SecondTier!PrimGreaterThanOrEqual(l, r) = PrimGreaterThanOrEqual(l, r)
         /\ SecondTier!PrimEquals(l, r) = PrimEquals(l, r)
         /\ SecondTier!PrimUnequals(l, r) = PrimUnequals(l, r)
         /\ SecondTier!PrimMax(l, r) = PrimMax(l, r)
         /\ SecondTier!PrimMin(l, r) = PrimMin(l, r)
  <1>1. SecondTier!PrimLessThan(l, r) = PrimLessThan(l, r)
    BY SameIntegers DEF SecondTier!PrimLessThan, PrimLessThan
  <1>2. SecondTier!PrimLessThanOrEqual(l, r) = PrimLessThanOrEqual(l, r)
    BY SameIntegers DEF SecondTier!PrimLessThanOrEqual, PrimLessThanOrEqual
  <1>3. SecondTier!PrimGreaterThan(l, r) = PrimGreaterThan(l, r)
    BY SameIntegers DEF SecondTier!PrimGreaterThan, PrimGreaterThan
  <1>4. SecondTier!PrimGreaterThanOrEqual(l, r) = PrimGreaterThanOrEqual(l, r)
    BY SameIntegers DEF SecondTier!PrimGreaterThanOrEqual, PrimGreaterThanOrEqual
  <1>5. SecondTier!PrimEquals(l, r) = PrimEquals(l, r)
    BY SameIntegers DEF SecondTier!PrimEquals, PrimEquals
  <1>6. SecondTier!PrimUnequals(l, r) = PrimUnequals(l, r)
    BY SameIntegers DEF SecondTier!PrimUnequals, PrimUnequals
  <1>7. SecondTier!PrimMax(l, r) = PrimMax(l, r)
    BY <1>1 DEF SecondTier!PrimMax, PrimMax
  <1>8. SecondTier!PrimMin(l, r) = PrimMin(l, r)
    BY <1>1 DEF SecondTier!PrimMin, PrimMin
  <1> QED BY <1>1, <1>2, <1>3, <1>4, <1>5, <1>6, <1>7, <1>8

LEMMA SameSteps ==
  ASSUME NEW n
  PROVE  /\ SecondTier!PrimAbs(n) = PrimAbs(n)
         /\ SecondTier!PrimInc(n) = PrimInc(n) /\ SecondTier!PrimDec(n) = PrimDec(n)
  <1>1. SecondTier!PrimAbs(n) = PrimAbs(n)
    BY SameIntegers DEF SecondTier!PrimAbs, PrimAbs
  <1>2. SecondTier!PrimInc(n) = PrimInc(n)
    BY SameIntegers DEF SecondTier!PrimInc, PrimInc, SecondTier!PrimIncInteger,
       PrimIncInteger, SecondTier!PrimIncBigInteger, PrimIncBigInteger
  <1>3. SecondTier!PrimDec(n) = PrimDec(n)
    BY SameIntegers DEF SecondTier!PrimDec, PrimDec, SecondTier!PrimDecInteger,
       PrimDecInteger, SecondTier!PrimDecBigInteger, PrimDecBigInteger
  <1> QED BY <1>1, <1>2, <1>3

LEMMA SameAnswers ==
  ASSUME NEW name, NEW rcvr, NEW args
  PROVE  SecondTier!PrimitiveAnswer(name, rcvr, args) = PrimitiveAnswer(name, rcvr, args)
  <1>1. SecondTier!Compared(name, rcvr, args[1]) = Compared(name, rcvr, args[1])
    BY SameComparisons DEF SecondTier!Compared, Compared
  <1>2. SecondTier!Computed(name, rcvr, args[1]) = Computed(name, rcvr, args[1])
    BY SameArithmetic, SameRemainders, SameComparisons DEF SecondTier!Computed, Computed
  <1> QED BY <1>1, <1>2, SameSteps,  SameIntegers, SameNames
          DEF SecondTier!PrimitiveAnswer, PrimitiveAnswer

LEMMA SameSystem ==
  ASSUME NEW primitive, NEW gs, NEW args
  PROVE  /\ SecondTier!SystemAnswer(primitive, gs, args) = SystemAnswer(primitive, gs, args)
         /\ SecondTier!GlobalsAfter(primitive, gs, args) = GlobalsAfter(primitive, gs, args)
  BY SameNames DEF SecondTier!SystemAnswer, SystemAnswer, SecondTier!GlobalsAfter,
     GlobalsAfter

LEMMA SameHeap ==
  /\ \A i : SecondTier!InnerOf(i) = InnerOf(i)
  /\ \A v : SecondTier!ClassOf(v) = ClassOf(v)
  /\ \A obj, idx : SecondTier!Field(obj, idx) = Field(obj, idx)
  /\ \A class, selector : SecondTier!Understands(class, selector) = Understands(class, selector)
  /\ \A class, selector : SecondTier!Lookup(class, selector) = Lookup(class, selector)
  BY SameNames, SameProgram DEF SecondTier!InnerOf, InnerOf, SecondTier!ClassOf,
     ClassOf, SecondTier!Field, Field, SecondTier!Understands, Understands,
     SecondTier!Lookup, Lookup, SecondTier!NoInvokable, NoInvokable

LEMMA SameSelf == ASSUME NEW v PROVE SecondTier!OuterSelf(v) = OuterSelf(v)
  BY DEF SecondTier!OuterSelf, OuterSelf, SecondTier!Element, Element,
     SecondTier!InnerOf, InnerOf,
         SecondTier!RcvrIdx, RcvrIdx, SecondTier!Undefined, Undefined, SecondTier!NoAnswer, NoAnswer

LEMMA SameDetermined ==
  ASSUME NEW v, NEW ctx
  PROVE  SecondTier!DeterminedSelf(v, ctx) = DeterminedSelf(v, ctx)
  BY DEF SecondTier!DeterminedSelf, DeterminedSelf, SecondTier!Element, Element,
         SecondTier!InnerOf, InnerOf, SecondTier!RcvrIdx, RcvrIdx,
         SecondTier!Undefined, Undefined, SecondTier!NoAnswer, NoAnswer

\* The block ctx levels out of one.
BlockFrom(v, ctx) ==
  LET at[n \in 1..ctx] ==
        IF n = 1 THEN v ELSE Element(InnerOf(at[n - 1][3]), RcvrIdx + 1)
  IN at[ctx]
LEMMA SameBlocks ==
  /\ \A ctx : BlockAt(ctx) = BlockFrom(top.frame[RcvrIdx + 1], ctx)
  /\ \A ctx : SecondTier!BlockAt(ctx) = BlockFrom(SecondTier!top.frame[RcvrIdx + 1], ctx)
  BY DEF SecondTier!BlockAt, BlockAt, BlockFrom, SecondTier!Element, Element,
         SecondTier!InnerOf, InnerOf, SecondTier!RcvrIdx, RcvrIdx,
         SecondTier!Undefined, Undefined, SecondTier!NoAnswer, NoAnswer

---------------------------------------------------------------------------
(* What an instruction reads is the same.                                  *)

LEMMA SameOperands ==
  ASSUME BothTiersInv, outcome = Running
  PROVE  /\ \A n : SecondTier!FromTop(n) = FromTop(n)
         /\ \A op : SecondTier!SlotOf(op) = SlotOf(op)
         /\ \A op : SecondTier!Level(op) = Level(op)
         /\ \A op : SecondTier!FieldOf(op) = FieldOf(op)
         /\ SecondTier!Offset = Offset
         /\ SecondTier!Selector = Selector
         /\ \A n : SecondTier!Args(n) = Args(n)
         /\ SecondTier!SuperClass = SuperClass
         /\ \A op : SecondTier!ContextOf(op) = ContextOf(op)
  <1>1. \A n : SecondTier!FromTop(n) = FromTop(n)
    BY SameTop, SameNames DEF BothTiersInv, SecondTier!FromTop, FromTop
  <1>2. \A op : SecondTier!SlotOf(op) = SlotOf(op)
    BY SameInstruction, SameNames DEF SecondTier!SlotOf, SlotOf
  <1>3. \A op : SecondTier!Level(op) = Level(op)
    BY SameInstruction DEF SecondTier!Level, Level
  <1>4. \A op : SecondTier!FieldOf(op) = FieldOf(op)
    BY SameInstruction DEF SecondTier!FieldOf, FieldOf
  <1>5. SecondTier!Offset = Offset
    BY SameInstruction, SameSets DEF SecondTier!Offset, Offset
  <1>6. SecondTier!Selector = Selector
    BY SameInstruction DEF SecondTier!Selector, Selector
  <1>7. \A n : SecondTier!Args(n) = Args(n)
    BY SameTop DEF BothTiersInv, SecondTier!Args, Args
  <1>8. SecondTier!SuperClass = SuperClass
    BY SameTop, SameProgram DEF BothTiersInv, SecondTier!SuperClass, SuperClass
  <1>9. \A op : SecondTier!ContextOf(op) = ContextOf(op)
    BY SameInstruction DEF SecondTier!ContextOf, ContextOf
  <1> QED BY <1>1, <1>2, <1>3, <1>4, <1>5, <1>6, <1>7, <1>8, <1>9

LEMMA SameOuter ==
  ASSUME BothTiersInv, outcome = Running
  PROVE  /\ \A ctx : SecondTier!BlockAt(ctx) = BlockAt(ctx)
         /\ \A idx, ctx : SecondTier!OuterSlot(idx, ctx) = OuterSlot(idx, ctx)
         /\ \A ctx : SecondTier!Self(ctx) = Self(ctx)
         /\ SecondTier!Home = Home
  <1>1. \A ctx : SecondTier!BlockAt(ctx) = BlockAt(ctx)
    BY SameTop, SameBlocks DEF BothTiersInv
  <1>2. \A idx, ctx : SecondTier!OuterSlot(idx, ctx) = OuterSlot(idx, ctx)
    BY <1>1, SameNames, SameHeap DEF SecondTier!OuterSlot, OuterSlot
  <1>3. \A ctx : SecondTier!Self(ctx) = Self(ctx)
    BY <1>2, SameTop, SameNames DEF BothTiersInv, SecondTier!Self, Self
  <1>4. SecondTier!Home = Home
    BY <1>1, SameInstruction DEF SecondTier!Home, Home
  <1> QED BY <1>1, <1>2, <1>3, <1>4

LEMMA SameReads ==
  ASSUME BothTiersInv, outcome = Running, bc \in Reads
  PROVE  SecondTier!PushedValue = PushedValue
  <1>1. SecondTier!FrameRead = FrameRead
    BY SameTop, SameInstruction, SameOperands, SameNames DEF BothTiersInv, SecondTier!FrameRead,
       FrameRead
  <1>2. SecondTier!InnerRead = InnerRead
    BY SameTop, SameInstruction, SameOperands, SameOuter, SameNames, SameHeap
    DEF BothTiersInv, SecondTier!InnerRead, InnerRead
  <1>3. SecondTier!BlockLiteral = BlockLiteral
    BY SameTop, SameInstruction DEF BothTiersInv, SecondTier!BlockLiteral, BlockLiteral
  <1>4. SecondTier!ConstantRead = ConstantRead
    BY SameInstruction, SameNames DEF SecondTier!ConstantRead, ConstantRead
  <1>5. /\ SecondTier!Field(SecondTier!Self(SecondTier!Level(SecondTier!bc)),
                            SecondTier!FieldOf(SecondTier!bc))
             = Field(Self(Level(bc)), FieldOf(bc))
    BY SameInstruction, SameOperands, SameOuter, SameHeap
  <1> QED BY <1>1, <1>2, <1>3, <1>4, <1>5, SameInstruction, SameOperands, SameSets
          DEF SecondTier!PushedValue, PushedValue, Reads

LEMMA SameAccess ==
  ASSUME BothTiersInv, outcome = Running
  PROVE  /\ SecondTier!Accessed = Accessed
         /\ \A v : SecondTier!ResolvedOp(v) = ResolvedOp(v)
  <1>1. \A prog, m, op, idx, ctx :
          SecondTier!VariableOf(prog, m, op, idx, ctx) = VariableOf(prog, m, op, idx, ctx)
    BY DEF SecondTier!VariableOf, VariableOf, SecondTier!ScopeAt, ScopeAt
  <1>2. SecondTier!Accessed = Accessed
    BY <1>1, SameTop, SameProgram, SameInstruction, SameOperands
    DEF BothTiersInv, SecondTier!Accessed, Accessed
  <1>3. \A v : SecondTier!ResolvedOp(v) = ResolvedOp(v)
    BY SameInstruction, SameOperands, SameNames DEF SecondTier!ResolvedOp, ResolvedOp
  <1> QED BY <1>2, <1>3

---------------------------------------------------------------------------
\* What happens to an activation does not depend on its tier.
LEMMA OneTierKeeps ==
  ASSUME NEW a, DOMAIN a = ActivationFields, NEW s, NEW pc
  PROVE  /\ InOneTier([a EXCEPT !.pc = pc]) = [InOneTier(a) EXCEPT !.pc = pc]
         /\ InOneTier([a EXCEPT !.stack = s, !.pc = pc])
              = [InOneTier(a) EXCEPT !.stack = s, !.pc = pc]
         /\ InOneTier([a EXCEPT !.pc = pc, !.stack = s])
              = [InOneTier(a) EXCEPT !.pc = pc, !.stack = s]
         /\ InOneTier([a EXCEPT !.stack = s]) = [InOneTier(a) EXCEPT !.stack = s]
         /\ InOneTier([a EXCEPT !.frame = s]) = [InOneTier(a) EXCEPT !.frame = s]
         /\ InOneTier([a EXCEPT !.tier = 2]) = InOneTier(a)
         /\ InOneTier([a EXCEPT !.escaped = TRUE]) = [InOneTier(a) EXCEPT !.escaped = TRUE]
         /\ InOneTier([a EXCEPT !.pc = pc, !.shielded = TRUE]) = [InOneTier(a) EXCEPT !.pc = pc]
  <1> USE DEF InOneTier, ActivationFields
  <1>1. InOneTier([a EXCEPT !.pc = pc]) = [InOneTier(a) EXCEPT !.pc = pc]
    OBVIOUS
  <1>2. InOneTier([a EXCEPT !.stack = s, !.pc = pc])
              = [InOneTier(a) EXCEPT !.stack = s, !.pc = pc]
    OBVIOUS
  <1>3. InOneTier([a EXCEPT !.pc = pc, !.stack = s])
              = [InOneTier(a) EXCEPT !.pc = pc, !.stack = s]
    OBVIOUS
  <1>4. InOneTier([a EXCEPT !.stack = s]) = [InOneTier(a) EXCEPT !.stack = s]
    OBVIOUS
  <1>5. InOneTier([a EXCEPT !.frame = s]) = [InOneTier(a) EXCEPT !.frame = s]
    OBVIOUS
  <1>6. InOneTier([a EXCEPT !.tier = 2]) = InOneTier(a)
    OBVIOUS
  <1>7. InOneTier([a EXCEPT !.escaped = TRUE]) = [InOneTier(a) EXCEPT !.escaped = TRUE]
    OBVIOUS
  <1>8. InOneTier([a EXCEPT !.pc = pc, !.shielded = TRUE]) = [InOneTier(a) EXCEPT !.pc = pc]
    OBVIOUS
  <1> QED BY <1>1, <1>2, <1>3, <1>4, <1>5, <1>6, <1>7, <1>8

---------------------------------------------------------------------------
(* Sequences of activations, one by one.                                   *)

\* Sequences are equal when they have the same elements.
LEMMA SameSequence ==
  ASSUME NEW s, IsSequence(s), NEW t, IsSequence(t), Len(s) = Len(t),
         \A i \in 1..Len(s) : s[i] = t[i]
  PROVE  s = t
  BY DEF IsSequence

LEMMA ErasedAppend ==
  ASSUME NEW s, IsSequence(s), NEW a
  PROVE  Erased(Append(s, a)) = Append(Erased(s), InOneTier(a))
  <1> DEFINE one == InOneTier(a)
             left == Erased(Append(s, a))
             right == Append(Erased(s), one)
  <1>1. Len(s) \in Nat
    BY SequenceType
  <1>2. /\ IsSequence(Append(s, a)) /\ Len(Append(s, a)) = Len(s) + 1
        /\ \A i \in 1..Len(s) : Append(s, a)[i] = s[i]
        /\ Append(s, a)[Len(s) + 1] = a
    BY AppendTo
  <1>3. /\ IsSequence(Erased(s)) /\ Len(Erased(s)) = Len(s)
        /\ \A i \in 1..Len(s) : Erased(s)[i] = InOneTier(s[i])
    BY ErasedIs
  <1>4. /\ IsSequence(left) /\ Len(left) = Len(s) + 1
        /\ \A i \in 1..(Len(s) + 1) : left[i] = InOneTier(Append(s, a)[i])
    BY <1>2, ErasedIs
  <1> HIDE DEF left
  <1>5. /\ IsSequence(right) /\ Len(right) = Len(s) + 1
        /\ \A i \in 1..Len(s) : right[i] = Erased(s)[i]
        /\ right[Len(s) + 1] = one
    BY <1>3, AppendTo
  <1> HIDE DEF right
  <1>6. left[Len(s) + 1] = one
    BY <1>1, <1>2, <1>4
  <1> HIDE DEF one
  <1>7. ASSUME NEW i \in 1..(Len(s) + 1) PROVE left[i] = right[i]
    <2>1. CASE i = Len(s) + 1
      BY <2>1, <1>5, <1>6
    <2>2. CASE i # Len(s) + 1
      <3>1. i \in 1..Len(s)
        BY <2>2, <1>1
      <3> QED BY <3>1, <1>2, <1>3, <1>4, <1>5
    <2> QED BY <2>1, <2>2
  <1>8. left = right
    BY <1>4, <1>5, <1>7, SameSequence
  <1> QED BY <1>8 DEF left, right, one

LEMMA SubSequence ==
  ASSUME NEW s, IsSequence(s), NEW n \in 0..Len(s)
  PROVE  /\ IsSequence(SubSeq(s, 1, n)) /\ Len(SubSeq(s, 1, n)) = n
         /\ \A i \in 1..n : SubSeq(s, 1, n)[i] = s[i]
  <1>1. Len(s) \in Nat /\ Len(s) - n \in 0..Len(s) /\ Len(s) - (Len(s) - n) = n
    BY SequenceType
  <1> QED BY <1>1, Dropped DEF Drop

LEMMA ErasedSubSeq ==
  ASSUME NEW s, IsSequence(s), NEW n \in 0..Len(s)
  PROVE  Erased(SubSeq(s, 1, n)) = SubSeq(Erased(s), 1, n)
  <1> DEFINE left == Erased(SubSeq(s, 1, n))
             right == SubSeq(Erased(s), 1, n)
  <1>1. Len(s) \in Nat /\ \A i \in 1..n : i \in 1..Len(s)
    BY SequenceType
  <1>2. /\ IsSequence(SubSeq(s, 1, n)) /\ Len(SubSeq(s, 1, n)) = n
        /\ \A i \in 1..n : SubSeq(s, 1, n)[i] = s[i]
    BY SubSequence
  <1>3. /\ IsSequence(Erased(s)) /\ Len(Erased(s)) = Len(s)
        /\ \A i \in 1..Len(s) : Erased(s)[i] = InOneTier(s[i])
    BY ErasedIs
  <1>4. /\ IsSequence(left) /\ Len(left) = n
        /\ \A i \in 1..n : left[i] = InOneTier(SubSeq(s, 1, n)[i])
    BY <1>2, ErasedIs
  <1> HIDE DEF left
  <1>5. /\ IsSequence(right) /\ Len(right) = n
        /\ \A i \in 1..n : right[i] = Erased(s)[i]
    BY <1>3, SubSequence
  <1> HIDE DEF right
  <1>6. \A i \in 1..n : left[i] = right[i]
    BY <1>1, <1>2, <1>3, <1>4, <1>5
  <1>7. left = right
    BY <1>4, <1>5, <1>6, SameSequence
  <1> QED BY <1>7 DEF left, right

LEMMA ErasedFront ==
  ASSUME NEW s, IsSequence(s), s # <<>>
  PROVE  /\ Erased(Front(s)) = SecondTier!Front(Erased(s))
         /\ IsSequence(Front(s)) /\ Len(Front(s)) = Len(s) - 1
  <1>1. Len(s) \in Nat /\ Len(s) > 0
    BY SequenceType DEF IsSequence
  <1>2. Len(s) - 1 \in 0..Len(s)
    BY <1>1
  <1>3. Len(Erased(s)) = Len(s)
    BY ErasedIs
  <1>4. Erased(SubSeq(s, 1, Len(s) - 1)) = SubSeq(Erased(s), 1, Len(s) - 1)
    BY <1>2, ErasedSubSeq
  <1>5. IsSequence(SubSeq(s, 1, Len(s) - 1)) /\ Len(SubSeq(s, 1, Len(s) - 1)) = Len(s) - 1
    BY <1>2, SubSequence
  <1> QED BY <1>3, <1>4, <1>5 DEF Front, SecondTier!Front

---------------------------------------------------------------------------
\* The activations of the abstract machine.
LEMMA AbstractActs ==
  /\ [k \in DOMAIN acts |-> InOneTier(acts[k])] = Erased(acts)
  /\ [k \in DOMAIN acts' |-> InOneTier(acts'[k])] = Erased(acts')
  BY DEF Erased

LEMMA SameFront ==
  ASSUME Inv, outcome = Running
  PROVE  /\ SecondTier!Front(Erased(acts)) = Erased(Front(acts))
         /\ IsSequence(acts) /\ IsSequence(Front(acts))
         /\ Len(acts) \in Nat /\ Len(acts) > 0 /\ Len(Front(acts)) = Len(acts) - 1
         /\ Len(Erased(acts)) = Len(acts)
  <1>1. IsSequence(acts) /\ acts # <<>> /\ Len(acts) \in Nat /\ Len(acts) > 0
    BY RunningFits DEF ActivationsFit
  <1> QED BY <1>1, ErasedFront, ErasedIs

\* The activations after a step that continues, or calls.
LEMMA ContinuesAs ==
  ASSUME Inv, outcome = Running, NEW b, acts' = Append(Front(acts), b)
  PROVE  Erased(acts') = Append(SecondTier!Front(Erased(acts)), InOneTier(b))
  BY SameFront, ErasedAppend

LEMMA CallsAs ==
  ASSUME Inv, outcome = Running, NEW b, NEW c,
         acts' = Append(Append(Front(acts), b), c)
  PROVE  Erased(acts') = Append(Append(SecondTier!Front(Erased(acts)), InOneTier(b)),
                                InOneTier(c))
  <1>1. IsSequence(Append(Front(acts), b))
    BY SameFront, AppendTo
  <1>2. Erased(Append(Append(Front(acts), b), c))
          = Append(Erased(Append(Front(acts), b)), InOneTier(c))
    BY <1>1, ErasedAppend
  <1>3. Erased(Append(Front(acts), b)) = Append(Erased(Front(acts)), InOneTier(b))
    BY SameFront, ErasedAppend
  <1> QED BY <1>2, <1>3, SameFront

LEMMA ContinueMaps ==
  ASSUME Inv, outcome = Running, NEW b, Continue(b)
  PROVE  SecondTier!Continue(InOneTier(b))
  <1> DEFINE one == InOneTier(b)
  <1>1. acts' = Append(Front(acts), b) /\ UNCHANGED <<heap, outcome>>
    BY DEF Continue
  <1>2. Erased(acts') = Append(SecondTier!Front(Erased(acts)), one)
    BY <1>1, ContinuesAs
  <1> HIDE DEF one
  <1>3. SecondTier!Continue(one)
    BY <1>1, <1>2, AbstractActs DEF SecondTier!Continue, SecondTier!heap, heap
  <1> QED BY <1>3 DEF one

---------------------------------------------------------------------------
(* Reads and stores.                                                       *)

LEMMA OperandStackOfTop ==
  ASSUME Inv, outcome = Running
  PROVE  DOMAIN top = ActivationFields
  BY RunningFits DEF ActivationFits

LEMMA PushMaps ==
  ASSUME BothTiersInv, outcome = Running, NEW v, Push(v)
  PROVE  SecondTier!Push(v)
  <1> DEFINE b == [top EXCEPT !.stack = Append(@, v), !.pc = NextPc]
  <1>1. InOneTier(b) = [SecondTier!top EXCEPT !.stack = Append(@, v), !.pc = SecondTier!NextPc]
    <2>1. InOneTier([top EXCEPT !.stack = Append(top.stack, v), !.pc = NextPc])
            = [InOneTier(top) EXCEPT !.stack = Append(top.stack, v), !.pc = NextPc]
      BY OperandStackOfTop DEF BothTiersInv, InOneTier, ActivationFields
    <2> QED BY <2>1, SameTop, SameInstruction DEF BothTiersInv
  <1>2. SecondTier!Continue(InOneTier(b))
    BY ContinueMaps DEF Push, BothTiersInv
  <1> QED BY <1>1, <1>2 DEF SecondTier!Push

LEMMA SamePopped ==
  ASSUME BothTiersInv, outcome = Running
  PROVE  SecondTier!Popped = InOneTier(Popped)
  <1>1. InOneTier([top EXCEPT !.stack = Drop(top.stack, 1), !.pc = NextPc])
          = [InOneTier(top) EXCEPT !.stack = Drop(top.stack, 1), !.pc = NextPc]
    BY OperandStackOfTop DEF BothTiersInv, InOneTier, ActivationFields
  <1> QED BY <1>1, SameTop, SameInstruction, SameNames DEF BothTiersInv, SecondTier!Popped,
     Popped

LEMMA SameAssigned ==
  ASSUME NEW a, DOMAIN a = ActivationFields, NEW slot, NEW v
  PROVE  SecondTier!Assign(InOneTier(a), slot, v) = InOneTier(Assign(a, slot, v))
  <1>1. InOneTier([a EXCEPT !.frame = ReplaceAt(a.frame, slot + 1, v)])
          = [InOneTier(a) EXCEPT !.frame = ReplaceAt(a.frame, slot + 1, v)]
    BY OneTierKeeps
  <1>2. InOneTier(a).frame = a.frame
    BY DEF InOneTier, ActivationFields
  <1> QED BY <1>1, <1>2 DEF SecondTier!Assign, Assign, SecondTier!ReplaceAt, ReplaceAt

LEMMA SameAnswered ==
  ASSUME NEW a, DOMAIN a = ActivationFields, NEW v
  PROVE  SecondTier!WithAnswer(InOneTier(a), v) = InOneTier(WithAnswer(a, v))
  <1>1. InOneTier([a EXCEPT !.stack = PutOnTop(a.stack, v)])
          = [InOneTier(a) EXCEPT !.stack = PutOnTop(a.stack, v)]
    BY OneTierKeeps
  <1>2. InOneTier(a).stack = a.stack
    BY DEF InOneTier, ActivationFields
  <1> QED BY <1>1, <1>2, SameNames DEF SecondTier!WithAnswer, WithAnswer

LEMMA PassedMaps ==
  ASSUME BothTiersInv, outcome = Running, NEW pc
  PROVE  InOneTier([top EXCEPT !.pc = pc]) = [SecondTier!top EXCEPT !.pc = pc]
  <1>1. DOMAIN top = ActivationFields /\ SecondTier!top = InOneTier(top)
    BY OperandStackOfTop, SameTop DEF BothTiersInv
  <1> QED BY <1>1 DEF InOneTier, ActivationFields

LEMMA FieldsOfPopped ==
  ASSUME Inv, outcome = Running
  PROVE  DOMAIN Popped = ActivationFields /\ DOMAIN [top EXCEPT !.pc = NextPc] = ActivationFields
  BY OperandStackOfTop DEF Popped

LEMMA PopIntoFrameMaps ==
  ASSUME BothTiersInv, outcome = Running, NEW slot, NEW v, PopIntoFrame(slot, v)
  PROVE  SecondTier!PopIntoFrame(slot, v)
  <1>1. SecondTier!Continue(InOneTier(Assign(Popped, slot, v)))
    BY ContinueMaps DEF PopIntoFrame, BothTiersInv
  <1>2. InOneTier(Assign(Popped, slot, v)) = SecondTier!Assign(SecondTier!Popped, slot, v)
    BY FieldsOfPopped, SameAssigned, SamePopped DEF BothTiersInv
  <1> QED BY <1>1, <1>2 DEF SecondTier!PopIntoFrame

LEMMA PopIntoInnerMaps ==
  ASSUME BothTiersInv, outcome = Running, NEW slot, NEW v, NEW b, PopIntoInner(slot, v, b),
         NEW other, other = InOneTier(b)
  PROVE  SecondTier!PopIntoInner(slot, v, other)
  <1> DEFINE inner == IF Level(bc) = 0 THEN top.frame[1] ELSE BlockAt(Level(bc))[3]
             same == IF SecondTier!Level(SecondTier!bc) = 0 THEN SecondTier!top.frame[1]
                     ELSE SecondTier!BlockAt(SecondTier!Level(SecondTier!bc))[3]
  <1>1. inner = same
    BY SameTop, SameInstruction, SameOperands, SameOuter DEF BothTiersInv
  <1>2. CASE inner \in DOMAIN inners /\ slot + 1 \in DOMAIN inners[inner]
    <2>1. /\ acts' = Append(Front(acts), b)
          /\ inners' = [inners EXCEPT ![inner] = ReplaceAt(@, slot + 1, v)]
          /\ UNCHANGED <<objects, globals, outcome>>
      BY <1>2 DEF PopIntoInner
    <2> HIDE DEF inner
    <2>2. Erased(acts') = Append(SecondTier!Front(Erased(acts)), other)
      BY <2>1, ContinuesAs DEF BothTiersInv
    <2>3. inners' = [inners EXCEPT ![inner] = SecondTier!ReplaceAt(@, slot + 1, v)]
      BY <2>1 DEF ReplaceAt, SecondTier!ReplaceAt
    <2> QED BY <1>1, <1>2, <2>1, <2>2, <2>3, AbstractActs
            DEF SecondTier!PopIntoInner
  <1>3. CASE ~(inner \in DOMAIN inners /\ slot + 1 \in DOMAIN inners[inner])
    <2>1. outcome' = Failed("no slot") /\ UNCHANGED <<acts, heap>>
      BY <1>3 DEF PopIntoInner
    <2> HIDE DEF inner
    <2> QED BY <1>1, <1>3, <2>1, AbstractActs, SameProgram
            DEF SecondTier!PopIntoInner, SecondTier!heap, heap
  <1> QED BY <1>2, <1>3

LEMMA PopIntoFieldMaps ==
  ASSUME BothTiersInv, outcome = Running, NEW idx, NEW v, PopIntoField(idx, v)
  PROVE  SecondTier!PopIntoField(idx, v)
  <1> DEFINE rcvr == Self(Level(bc))[2]
  <1>1. /\ acts' = Append(Front(acts), Popped)
        /\ objects' = [objects EXCEPT ![rcvr] = WithField(@, idx, v)]
        /\ UNCHANGED <<inners, globals, outcome>>
    BY DEF PopIntoField
  <1>2. rcvr = SecondTier!Self(SecondTier!Level(SecondTier!bc))[2]
    BY SameInstruction, SameOperands, SameOuter
  <1> HIDE DEF rcvr
  <1>3. Erased(acts') = Append(SecondTier!Front(Erased(acts)), SecondTier!Popped)
    BY <1>1, ContinuesAs, SamePopped DEF BothTiersInv
  <1>4. \A o : SecondTier!WithField(o, idx, v) = WithField(o, idx, v)
    BY DEF SecondTier!WithField, WithField, SecondTier!ReplaceAt, ReplaceAt
  <1>5. objects' = [objects EXCEPT ![rcvr] = SecondTier!WithField(@, idx, v)]
    BY <1>1, <1>4
  <1> QED BY <1>1, <1>2, <1>3, <1>5, AbstractActs DEF SecondTier!PopIntoField

LEMMA StoreValueMaps ==
  ASSUME BothTiersInv, outcome = Running, bc \in Stores, StoreValue
  PROVE  SecondTier!StoreValue
  <1>1. CASE bc = "pop"
    <2>1. Continue(Popped)
      BY <1>1 DEF StoreValue, PopFrame, PopInner, PopField
    <2>2. SecondTier!Continue(SecondTier!Popped)
      BY <2>1, ContinueMaps, SamePopped DEF BothTiersInv
    <2> QED BY <1>1, <2>2, SameInstruction, SameOperands, SameSets, SameNames
            DEF SecondTier!StoreValue, PopFrame, PopInner, PopField
  <1>2. CASE bc \in {"nil_frame", "nil_inner"}
    <2> DEFINE b == [top EXCEPT !.pc = NextPc]
    <2>1. Continue(b)
      BY <1>2 DEF StoreValue, PopFrame, PopInner, PopField
    <2>2. InOneTier(b) = [SecondTier!top EXCEPT !.pc = SecondTier!NextPc]
      BY PassedMaps, SameInstruction
    <2>3. SecondTier!Continue(InOneTier(b))
      BY <2>1, ContinueMaps DEF BothTiersInv
    <2> HIDE DEF b
    <2> QED BY <1>2, <2>2, <2>3, SameInstruction, SameOperands, SameSets, SameNames
            DEF SecondTier!StoreValue, PopFrame, PopInner, PopField
  <1>3. CASE bc \in PopFrame
    <2>1. PopIntoFrame(SlotOf(bc), FromTop(0))
      BY <1>3 DEF StoreValue, PopFrame, PopInner, PopField
    <2>2. SecondTier!PopIntoFrame(SlotOf(bc), FromTop(0))
      BY <2>1, PopIntoFrameMaps
    <2> QED BY <1>3, <2>2, SameInstruction, SameOperands, SameSets, SameNames
            DEF SecondTier!StoreValue, PopFrame, PopInner, PopField
  <1>4. CASE bc \in PopInner
    <2>1. PopIntoInner(SlotOf(bc), FromTop(0), Popped)
      BY <1>4 DEF StoreValue, PopFrame, PopInner, PopField
    <2>2. SecondTier!PopIntoInner(SlotOf(bc), FromTop(0), SecondTier!Popped)
      BY <2>1, PopIntoInnerMaps, SamePopped
    <2> QED BY <1>4, <2>2, SameInstruction, SameOperands, SameSets, SameNames
            DEF SecondTier!StoreValue, PopFrame, PopInner, PopField
  <1>5. CASE bc \in PopField
    <2>1. PopIntoField(FieldOf(bc), FromTop(0))
      BY <1>5 DEF StoreValue, PopFrame, PopInner, PopField
    <2>2. SecondTier!PopIntoField(FieldOf(bc), FromTop(0))
      BY <2>1, PopIntoFieldMaps
    <2> QED BY <1>5, <2>2, SameInstruction, SameOperands, SameSets, SameNames
            DEF SecondTier!StoreValue, PopFrame, PopInner, PopField
  <1> QED BY <1>1, <1>2, <1>3, <1>4, <1>5 DEF Stores

---------------------------------------------------------------------------
(* Rewritten code.                                                         *)

\* The code of the abstract machine after a step.
LEMMA AbstractCodeAfter ==
  ([m \in DOMAIN code |-> [i \in DOMAIN code[m] |-> AsTier2Writes(m, i)]])' = Rewritten(P', code')
  BY DEF AsTier2Writes, Rewritten, Tier2Writes, Method

LEMMA ProgramStays ==
  ASSUME UNCHANGED program
  PROVE  P' = P
  BY DEF P

\* Counting changes how many times, not what is counted.
LEMMA CountsErased ==
  ASSUME counts' = counts \/ counts' = Counted
  PROVE  [m \in DOMAIN counts' |-> [i \in DOMAIN counts'[m] |-> 0]]
           = [m \in DOMAIN counts |-> [i \in DOMAIN counts[m] |-> 0]]
  <1>1. CASE counts' = counts
    BY <1>1
  <1>2. CASE counts' = Counted /\ counts' # counts
    <2> DEFINE row == ReplaceAt(counts[top.m], top.pc + 1, counts[top.m][top.pc + 1] + 1)
    <2>1. counts' = [counts EXCEPT ![top.m] = row]
      BY <1>2 DEF Counted
    <2>2. DOMAIN row = DOMAIN counts[top.m]
      BY DEF ReplaceAt
    <2> HIDE DEF row
    <2>3. DOMAIN counts' = DOMAIN counts
          /\ \A m \in DOMAIN counts : DOMAIN counts'[m] = DOMAIN counts[m]
      BY <2>1, <2>2
    <2> QED BY <2>3
  <1> QED BY <1>1, <1>2

LEMMA SameCodeMaps ==
  ASSUME UNCHANGED <<program, code>>, counts' = counts \/ counts' = Counted
  PROVE  SecondTier!SameCode
  <1>1. Rewritten(P', code') = Rewritten(P, code)
    BY ProgramStays
  <1> QED BY <1>1, AbstractCode, AbstractCodeAfter, CountsErased DEF SecondTier!SameCode

---------------------------------------------------------------------------
\* Rewriting one instruction keeps the others as they fit.
LEMMA OneSuperSend ==
  ASSUME NEW M, NEW cells, SuperSendsFitIn(M, cells), NEW pc, NEW op, NEW after,
         OneRewritten(M, cells, after, pc, op),
         op \in QuickSuperSends =>
           /\ M.code[pc + 1] = "super_send"
           /\ op = QuickSuperSendTier2(Arity[SelectorAt(M, pc)])
           /\ Arity[SelectorAt(M, pc)] # 4
  PROVE  SuperSendsFitIn(M, after)
  <1> SUFFICES ASSUME NEW other \in M.starts, after[other + 1] \in QuickSuperSends
               PROVE  /\ M.code[other + 1] = "super_send"
                      /\ after[other + 1] = QuickSuperSendTier2(Arity[SelectorAt(M, other)])
                      /\ Arity[SelectorAt(M, other)] # 4
    BY DEF SuperSendsFitIn
  <1>1. CASE other = pc
    BY <1>1 DEF OneRewritten
  <1>2. CASE other # pc
    BY <1>2 DEF OneRewritten, SuperSendsFitIn
  <1> QED BY <1>1, <1>2

LEMMA RewrittenCode ==
  ASSUME NEW prog, NEW c, SuperSendsFit(prog, c), DOMAIN c = DOMAIN prog.methods,
         NEW m \in DOMAIN c, NEW cells, SuperSendsFitIn(prog.methods[m], cells)
  PROVE  SuperSendsFit(prog, [c EXCEPT ![m] = cells])
  BY DEF SuperSendsFit

\* The code of the abstract machine after a method was rewritten.
LEMMA CodeAs ==
  ASSUME BothTiersInv, UNCHANGED program, NEW m \in DOMAIN code, NEW cells,
         code' = [code EXCEPT ![m] = cells], CodeFits(P, code'), SuperSendsFit(P, code')
  PROVE  Rewritten(P', code') = [Rewritten(P, code) EXCEPT ![m] = cells]
  <1> DEFINE before == Rewritten(P, code)
             after == Rewritten(P', code')
  <1>1. /\ DOMAIN before = DOMAIN code
        /\ \A n \in DOMAIN code : before[n] = code[n]
    BY SameMethods DEF BothTiersInv, Inv, P, CompiledCodeIsVerified
  <1>2. /\ DOMAIN after = DOMAIN code'
        /\ \A n \in DOMAIN code' : after[n] = code'[n]
    <2> DEFINE c == code'
    <2>1. /\ IsVerified(program) /\ CodeFits(Programs[program], c)
          /\ SuperSendsFit(Programs[program], c)
      BY DEF BothTiersInv, Inv, P, CompiledCodeIsVerified
    <2> HIDE DEF c
    <2>2. /\ DOMAIN Rewritten(Programs[program], c) = DOMAIN c
          /\ \A n \in DOMAIN c : Rewritten(Programs[program], c)[n] = c[n]
      BY <2>1, SameMethods
    <2> QED BY <2>2, ProgramStays DEF P, c
  <1>3. after = [n \in DOMAIN after |-> after[n]]
    BY DEF Rewritten
  <1> HIDE DEF after, before
  <1>4. after = [before EXCEPT ![m] = cells]
    BY <1>1, <1>2, <1>3
  <1> QED BY <1>4 DEF after, before

LEMMA PatchKeepsSuperSends ==
  ASSUME BothTiersInv, outcome = Running, UNCHANGED program, bc \in Unresolved, Patch
  PROVE  SuperSendsFit(P, code')
  <1>1. /\ top.m \in DOMAIN P.methods /\ top.m \in DOMAIN code
        /\ Here.kind = "bytecodes" /\ DOMAIN code = DOMAIN P.methods
    BY AtInstruction DEF BothTiersInv, Inv, CodeFits
  <1>2. SuperSendsFitIn(Here, code[top.m])
    BY <1>1 DEF BothTiersInv, SuperSendsFit, Here, Method
  <1>3. OneRewritten(Here, code[top.m], PatchedCells, top.pc, ResolvedOp(Accessed))
    BY PatchRewrites DEF BothTiersInv
  <1>4. ResolvedOp(Accessed) \notin QuickSuperSends
    BY ResolvedOps DEF Variants, Unresolved, QuickSuperSends, PushFrame, PushInner,
       PopFrame, PopInner
  <1>5. SuperSendsFitIn(Here, PatchedCells)
    BY <1>2, <1>3, <1>4, OneSuperSend
  <1>6. code' = [code EXCEPT ![top.m] = PatchedCells]
    BY DEF Patch, PatchedCells
  <1> QED BY <1>1, <1>5, <1>6, RewrittenCode DEF BothTiersInv, Here, Method

LEMMA PatchMaps ==
  ASSUME BothTiersInv, outcome = Running, UNCHANGED program, bc \in Unresolved, Patch
  PROVE  SecondTier!Patch
  <1> DEFINE v == Accessed
             before == Rewritten(P, code)
  <1>1. /\ code' = [code EXCEPT ![top.m] = PatchedCells]
        /\ UNCHANGED <<counts, acts, heap, outcome>>
    BY DEF Patch, PatchedCells
  <1>2. CodeFits(P, code') /\ SuperSendsFit(P, code') /\ top.m \in DOMAIN code
    BY PatchKeeps, PatchKeepsSuperSends, AtInstruction, ProgramStays DEF BothTiersInv, Inv
  <1>3. Rewritten(P', code') = [before EXCEPT ![top.m] = PatchedCells]
    BY <1>1, <1>2, CodeAs
  <1>4. before[top.m] = code[top.m]
    BY <1>2, SameMethods DEF BothTiersInv, Inv, P, CompiledCodeIsVerified
  <1>5. PatchedCells = SecondTier!ReplaceAt(SecondTier!ReplaceAt(before[top.m], top.pc + 1,
                                                  SecondTier!ResolvedOp(v)),
                                            top.pc + 2, v.access)
    BY <1>4, SameAccess DEF PatchedCells, SecondTier!ReplaceAt, ReplaceAt
  <1>6. SecondTier!Accessed = v /\ SecondTier!top.m = top.m /\ SecondTier!top.pc = top.pc
    BY SameAccess, SameTop DEF BothTiersInv
  <1>7. /\ [k \in DOMAIN counts' |-> [i \in DOMAIN counts'[k] |-> 0]]
             = [k \in DOMAIN counts |-> [i \in DOMAIN counts[k] |-> 0]]
        /\ Erased(acts') = Erased(acts)
    BY <1>1
  <1> HIDE DEF v, before
  <1>8. Rewritten(P', code')
          = [before EXCEPT ![SecondTier!top.m] =
               SecondTier!ReplaceAt(SecondTier!ReplaceAt(@, SecondTier!top.pc + 1,
                                        SecondTier!ResolvedOp(v)),
                                    SecondTier!top.pc + 2, v.access)]
    BY <1>3, <1>5, <1>6
  <1> QED BY <1>1, <1>6, <1>7, <1>8, AbstractCode, AbstractCodeAfter, AbstractActs
          DEF SecondTier!Patch, SecondTier!heap, heap, before

---------------------------------------------------------------------------
(* Calls.                                                                  *)

\* The fields of a call.
CallFields == {"inv", "rcvr", "args", "n", "tier2"}
\* The same call from another tier; no entry point is missing in only one.
SameCall(c, d) ==
  /\ DOMAIN c = CallFields /\ DOMAIN d = CallFields
  /\ d.inv = c.inv /\ d.rcvr = c.rcvr /\ d.args = c.args /\ d.n = c.n
  /\ TrivialCall(c) => (NoEntryPoint(c) <=> NoEntryPoint(d))

\* Operators on calls mean the same in the abstract machine.
LEMMA SameCalls ==
  /\ \A inv, rcvr, args, n, tier2 :
       SecondTier!Call(inv, rcvr, args, n, tier2) = Call(inv, rcvr, args, n, tier2)
  /\ \A n : SecondTier!Entry(n) = Entry(n) /\ SecondTier!SlowEntry(n) = SlowEntry(n)
  /\ \A c : SecondTier!TrivialCall(c) = TrivialCall(c)
  /\ \A c : SecondTier!NoEntryPoint(c) = NoEntryPoint(c)
  /\ \A c : SecondTier!IsUnknownGlobal(c) = IsUnknownGlobal(c)
  /\ \A c : SecondTier!NeedsInner(c) = NeedsInner(c)
  /\ SecondTier!NoInvokable = NoInvokable
  BY SameProgram DEF SecondTier!Call, Call, SecondTier!Entry, Entry,
     SecondTier!SlowEntry, SlowEntry,
     SecondTier!TrivialCall, TrivialCall, SecondTier!NoEntryPoint, NoEntryPoint,
     SecondTier!IsUnknownGlobal, IsUnknownGlobal, SecondTier!NeedsInner, NeedsInner,
     SecondTier!NoInvokable, NoInvokable

\* A trivial method answers, and stores, the same.
LEMMA SameTrivial ==
  ASSUME NEW c, NEW d, SameCall(c, d), TrivialCall(c),
         Method(c.inv[2]).kind \in TrivialKinds
  PROVE  /\ SecondTier!TrivialAnswer(d) = TrivialAnswer(c)
         /\ SecondTier!Stored(d) = Stored(c)
  <1>1. SecondTier!TrivialAnswer(d) = TrivialAnswer(c)
    BY SameProgram, SameNames, SameHeap, SameDetermined
    DEF SameCall, SecondTier!TrivialAnswer, TrivialAnswer, TrivialKinds
  <1>2. SecondTier!Stored(d) = Stored(c)
    BY SameProgram, SameNames
    DEF SameCall, SecondTier!Stored, Stored, SecondTier!StoredArgument, StoredArgument
  <1> QED BY <1>1, <1>2

\* Frames and inners are laid out alike.
LEMMA SameSlots ==
  ASSUME NEW size, NEW argInner, NEW args, NEW inInner, NEW empty
  PROVE  SecondTier!ArgumentSlots(size, argInner, args, inInner, empty)
           = ArgumentSlots(size, argInner, args, inInner, empty)
  BY DEF SecondTier!ArgumentSlots, ArgumentSlots, SecondTier!Cardinality, Cardinality,
     SecondTier!CountUpTo, CountUpTo,
         SecondTier!ArgOffset, ArgOffset

LEMMA SameFrames ==
  /\ \A size, argInner, rcvr, args, inner, none, empty :
       SecondTier!NewFrame(size, argInner, rcvr, args, inner, none, empty)
         = NewFrame(size, argInner, rcvr, args, inner, none, empty)
  /\ \A size, argInner, rcvr, args, onStack, empty :
       SecondTier!NewInner(size, argInner, rcvr, args, onStack, empty)
         = NewInner(size, argInner, rcvr, args, onStack, empty)
  BY SameSlots DEF SecondTier!NewFrame, NewFrame, SecondTier!NewInner, NewInner,
                   SecondTier!RcvrIdx, RcvrIdx

\* A new activation but for its tier.
LEMMA ActivationInOneTier ==
  ASSUME NEW m, NEW tier, NEW catches, NEW frame
  PROVE  InOneTier([m |-> m, pc |-> 0, stack |-> <<>>, tier |-> tier, shielded |-> FALSE,
                    catches |-> catches, escaped |-> FALSE, frame |-> frame])
           = [m |-> m, pc |-> 0, stack |-> <<>>, tier |-> 2, shielded |-> FALSE,
              catches |-> catches, escaped |-> FALSE, frame |-> frame]
  <1> DEFINE a == [m |-> m, pc |-> 0, stack |-> <<>>, tier |-> tier, shielded |-> FALSE,
                   catches |-> catches, escaped |-> FALSE, frame |-> frame]
             b == [m |-> m, pc |-> 0, stack |-> <<>>, tier |-> 2, shielded |-> FALSE,
                   catches |-> catches, escaped |-> FALSE, frame |-> frame]
             c == InOneTier(a)
  <1>1. b = [f \in ActivationFields |-> b[f]]
    BY DEF ActivationFields
  <1>2. DOMAIN a = ActivationFields
    BY DEF ActivationFields
  <1>3. c = [f \in ActivationFields |-> c[f]]
    BY <1>2 DEF InOneTier
  <1>4. /\ c.m = m /\ c.pc = 0 /\ c.stack = <<>> /\ c.tier = 2 /\ c.frame = frame
        /\ c.catches = catches /\ c.shielded = FALSE /\ c.escaped = FALSE
    BY DEF InOneTier
  <1>5. /\ b.m = m /\ b.pc = 0 /\ b.stack = <<>> /\ b.tier = 2 /\ b.frame = frame
        /\ b.catches = catches /\ b.shielded = FALSE /\ b.escaped = FALSE
    OBVIOUS
  <1> HIDE DEF a, b, c
  <1>6. c = b
    BY <1>1, <1>3, <1>4, <1>5 DEF ActivationFields
  <1> QED BY <1>6 DEF a, b, c

\* The activation of a call is the same, in whatever tier it starts.
LEMMA SameActivations ==
  ASSUME NEW c, NEW d, SameCall(c, d), NEW inner
  PROVE  /\ SecondTier!Activation(d, inner) = InOneTier(Activation(c, inner))
         /\ SecondTier!InnerFor(d) = InnerFor(c)
         /\ SecondTier!NeedsInner(d) <=> NeedsInner(c)
  <1>1. SecondTier!StartTier(d) = 2
    BY DEF SecondTier!StartTier, OneTier
  <1>2. SecondTier!Activation(d, inner) = InOneTier(Activation(c, inner))
    <2> DEFINE M == Method(c.inv[2])
               m == c.inv[2]
               catches == M.catches /\ c.n # 4
               frame == NewFrame(M.sizeFrame, M.argInner, c.rcvr, c.args, inner, 0, Nil)
               tier == StartTier(c)
    <2>1. Activation(c, inner) =
            [m |-> m, pc |-> 0, stack |-> <<>>, tier |-> tier, shielded |-> FALSE,
             catches |-> catches, escaped |-> FALSE, frame |-> frame]
      BY DEF Activation
    <2>2. /\ SecondTier!Method(d.inv[2]) = M /\ d.inv[2] = m /\ d.n = c.n
          /\ SecondTier!NewFrame(M.sizeFrame, M.argInner, d.rcvr, d.args, inner, 0,
                                 SecondTier!Nil) = frame
      BY SameProgram, SameFrames, SameNames DEF SameCall
    <2> HIDE DEF M, frame
    <2>3. SecondTier!Activation(d, inner) =
            [m |-> m, pc |-> 0, stack |-> <<>>, tier |-> 2, shielded |-> FALSE,
             catches |-> catches, escaped |-> FALSE, frame |-> frame]
      BY <1>1, <2>2 DEF SecondTier!Activation
    <2> HIDE DEF m, catches, tier
    <2> QED BY <2>1, <2>3, ActivationInOneTier
  <1>3. SecondTier!InnerFor(d) = InnerFor(c)
    BY SameProgram, SameFrames, SameNames DEF SameCall, SecondTier!InnerFor, InnerFor
  <1>4. SecondTier!NeedsInner(d) <=> NeedsInner(c)
    BY SameProgram DEF SameCall, SecondTier!NeedsInner, NeedsInner
  <1> QED BY <1>2, <1>3, <1>4

\* What a call leads to (Resolved) is the same call.
LEMMA EnteredAlike ==
  ASSUME NEW c, NEW d, SameCall(c, d)
  PROVE  SameCall(EnterBlock(c), SecondTier!EnterBlock(d))
  <1> DEFINE inv == IF c.rcvr[1] = "block" THEN <<"method", c.rcvr[2]>> ELSE NoInvokable
             c2 == EnterBlock(c)
             d2 == SecondTier!EnterBlock(d)
  <1>1. CASE c.inv[1] = "primitive" /\ c.inv[2] \in BlockPrimitives
    <2>1. c2 = [c EXCEPT !.inv = inv, !.tier2 = FALSE]
      BY <1>1 DEF EnterBlock
    <2>2. d2 = [d EXCEPT !.inv = inv, !.tier2 = FALSE]
      BY <1>1, SameNames, SameCalls DEF SecondTier!EnterBlock, SameCall
    <2> HIDE DEF inv, c2, d2
    <2>3. /\ DOMAIN c2 = CallFields /\ DOMAIN d2 = CallFields
          /\ c2.inv = inv /\ d2.inv = inv /\ c2.rcvr = c.rcvr /\ d2.rcvr = d.rcvr
          /\ c2.args = c.args /\ d2.args = d.args /\ c2.n = c.n /\ d2.n = d.n
          /\ ~c2.tier2 /\ ~d2.tier2
      BY <2>1, <2>2 DEF SameCall, CallFields
    <2>4. SameCall(c2, d2)
      BY <2>3 DEF SameCall, NoEntryPoint
    <2> QED BY <2>4 DEF c2, d2
  <1>2. CASE ~(c.inv[1] = "primitive" /\ c.inv[2] \in BlockPrimitives)
    <2>1. c2 = c
      BY <1>2 DEF EnterBlock
    <2>2. d2 = d
      BY <1>2, SameNames DEF SecondTier!EnterBlock, SameCall
    <2> QED BY <2>1, <2>2
  <1> QED BY <1>1, <1>2

LEMMA AskedAlike ==
  ASSUME NEW c, NEW d, SameCall(c, d)
  PROVE  SameCall(AskOuterSelf(c), SecondTier!AskOuterSelf(d))
  <1> DEFINE self == OuterSelf(c.rcvr)
             inv == Lookup(ClassOf(self), "unknownGlobal:")
             args == <<<<"sym", Method(c.inv[2]).name>>>>
             c2 == AskOuterSelf(c)
             d2 == SecondTier!AskOuterSelf(d)
  <1>1. SecondTier!IsUnknownGlobal(d) <=> IsUnknownGlobal(c)
    BY SameProgram DEF SameCall, SecondTier!IsUnknownGlobal, IsUnknownGlobal
  <1>2. CASE IsUnknownGlobal(c)
    <2>1. c2 = Call(inv, self, args, 2, c.tier2)
      BY <1>2 DEF AskOuterSelf
    <2>2. SecondTier!OuterSelf(d.rcvr) = self
      BY SameSelf DEF SameCall
    <2>3. SecondTier!Lookup(SecondTier!ClassOf(self), "unknownGlobal:") = inv
      BY SameHeap
    <2>4. <<<<"sym", SecondTier!Method(d.inv[2]).name>>>> = args
      BY SameProgram DEF SameCall
    <2>5. d2 = Call(inv, self, args, 2, d.tier2)
      BY <1>1, <1>2, <2>2, <2>3, <2>4 DEF SecondTier!AskOuterSelf, SecondTier!Call, Call
    <2> HIDE DEF inv, self, args, c2, d2
    <2>6. /\ DOMAIN c2 = CallFields /\ c2.inv = inv /\ c2.rcvr = self /\ c2.args = args /\ c2.n = 2
          /\ DOMAIN d2 = CallFields /\ d2.inv = inv /\ d2.rcvr = self /\ d2.args = args /\ d2.n = 2
      BY <2>1, <2>5 DEF Call, CallFields
    <2>7. SameCall(c2, d2)
      BY <2>6 DEF SameCall, NoEntryPoint
    <2> QED BY <2>7 DEF c2, d2
  <1>3. CASE ~IsUnknownGlobal(c)
    <2>1. c2 = c
      BY <1>3 DEF AskOuterSelf
    <2>2. d2 = d
      BY <1>1, <1>3 DEF SecondTier!AskOuterSelf
    <2> QED BY <2>1, <2>2
  <1> QED BY <1>2, <1>3

LEMMA ResolvedAlike ==
  ASSUME NEW c, NEW d, SameCall(c, d)
  PROVE  SameCall(Resolved(c), SecondTier!Resolved(d))
  BY EnteredAlike, AskedAlike DEF Resolved, SecondTier!Resolved

---------------------------------------------------------------------------
(* What is performed.                                                      *)

LEMMA StartMaps ==
  ASSUME BothTiersInv, outcome = Running, NEW c, NEW d, SameCall(c, d),
         NEW caller, NEW other, other = InOneTier(caller), Start(c, caller)
  PROVE  SecondTier!Start(d, other)
  <1> DEFINE inner == IF NeedsInner(c) THEN Len(inners) + 1 ELSE 0
             a == Activation(c, inner)
             next == SecondTier!Activation(d, IF SecondTier!NeedsInner(d) THEN Len(inners) + 1 ELSE 0)
  <1>1. /\ c.inv[1] = "method" /\ Method(c.inv[2]).kind = "bytecodes"
        /\ acts' = Append(Append(Front(acts), caller), a)
        /\ inners' = IF NeedsInner(c) THEN Append(inners, InnerFor(c)) ELSE inners
        /\ UNCHANGED <<objects, globals, outcome>>
    BY DEF Start
  <1>2. next = InOneTier(a)
    BY SameActivations
  <1>3. inners' = IF SecondTier!NeedsInner(d) THEN Append(inners, SecondTier!InnerFor(d)) ELSE inners
    BY <1>1, SameActivations
  <1> HIDE DEF a
  <1>4. Erased(acts') = Append(Append(SecondTier!Front(Erased(acts)), other), next)
    BY <1>1, <1>2, CallsAs DEF BothTiersInv
  <1>5. d.inv[1] = "method" /\ SecondTier!Method(d.inv[2]).kind = "bytecodes"
    BY <1>1, SameProgram DEF SameCall
  <1> QED BY <1>1, <1>3, <1>4, <1>5, AbstractActs DEF SecondTier!Start

LEMMA WithAnswerMaps ==
  ASSUME BothTiersInv, outcome = Running, NEW caller, DOMAIN caller = ActivationFields,
         NEW other, other = InOneTier(caller), NEW v,
         acts' = Append(Front(acts), WithAnswer(caller, v))
  PROVE  Erased(acts') = Append(SecondTier!Front(Erased(acts)), SecondTier!WithAnswer(other, v))
  BY ContinuesAs, SameAnswered DEF BothTiersInv

LEMMA AnswerTriviallyMaps ==
  ASSUME BothTiersInv, outcome = Running, NEW c, NEW d, SameCall(c, d), CallFits(P, c),
         NEW caller, DOMAIN caller = ActivationFields,
         NEW other, other = InOneTier(caller), AnswerTrivially(c, caller)
  PROVE  SecondTier!AnswerTrivially(d, other)
  <1> DEFINE M == Method(c.inv[2])
             stored == Stored(c)
  <1>1. /\ TrivialCall(c) /\ ~NoEntryPoint(c)
        /\ ~(M.kind = "field_write" /\ c.n = 1)
        /\ acts' = Append(Front(acts), WithAnswer(caller, TrivialAnswer(c)))
        /\ objects' = IF M.kind = "field_write"
                      THEN [objects EXCEPT ![c.rcvr[2]] = WithField(@, M.idx, stored)]
                      ELSE objects
        /\ UNCHANGED <<inners, globals, outcome>>
    BY DEF AnswerTrivially
  <1>2. c.inv[2] \in DOMAIN P.methods /\ c.inv[1] = "method" /\ M.kind # "bytecodes"
    BY <1>1 DEF CallFits, IsInvokable, NoInvokable, TrivialCall
  <1>3. M.kind \in TrivialKinds
    BY <1>2 DEF BothTiersInv, Inv, CompiledCodeIsVerified, IsVerified, NamesExist, Method, P
  <1>4. SecondTier!TrivialAnswer(d) = TrivialAnswer(c) /\ SecondTier!Stored(d) = stored
    BY <1>1, <1>3, SameTrivial
  <1>5. Erased(acts') = Append(SecondTier!Front(Erased(acts)),
                               SecondTier!WithAnswer(other, SecondTier!TrivialAnswer(d)))
    BY <1>1, <1>4, WithAnswerMaps
  <1>6. /\ SecondTier!TrivialCall(d) /\ ~SecondTier!NoEntryPoint(d)
        /\ SecondTier!Method(d.inv[2]) = M /\ d.n = c.n /\ d.rcvr = c.rcvr
    BY <1>1, SameCalls, SameProgram DEF SameCall, TrivialCall
  <1> HIDE DEF M, stored
  <1>7. \A o : SecondTier!WithField(o, M.idx, stored) = WithField(o, M.idx, stored)
    BY DEF SecondTier!WithField, WithField, SecondTier!ReplaceAt, ReplaceAt
  <1>8. objects' = IF M.kind = "field_write"
                   THEN [objects EXCEPT ![d.rcvr[2]] = SecondTier!WithField(@, M.idx, stored)]
                   ELSE objects
    BY <1>1, <1>6, <1>7
  <1> QED BY <1>1, <1>4, <1>5, <1>6, <1>8, AbstractActs DEF SecondTier!AnswerTrivially

LEMMA FailInTrivialMethodMaps ==
  ASSUME NEW c, NEW d, SameCall(c, d), FailInTrivialMethod(c)
  PROVE  SecondTier!FailInTrivialMethod(d)
  <1>1. /\ TrivialCall(c)
        /\ \/ NoEntryPoint(c)
           \/ Method(c.inv[2]).kind = "field_write" /\ c.n = 1
        /\ outcome' = Failed("entry point")
        /\ UNCHANGED <<acts, heap>>
    BY DEF FailInTrivialMethod
  <1>2. SecondTier!TrivialCall(d)
    BY <1>1, SameProgram DEF SameCall, TrivialCall, SecondTier!TrivialCall
  <1>3. NoEntryPoint(c) => SecondTier!NoEntryPoint(d)
    BY <1>1 DEF SameCall, NoEntryPoint, SecondTier!NoEntryPoint
  <1>4. SecondTier!Method(d.inv[2]) = Method(c.inv[2]) /\ d.n = c.n
    BY SameProgram DEF SameCall
  <1> QED BY <1>1, <1>2, <1>3, <1>4, AbstractActs, SameProgram
          DEF SecondTier!FailInTrivialMethod, SecondTier!heap, heap

LEMMA AnswerPrimitiveMaps ==
  ASSUME BothTiersInv, outcome = Running, NEW c, NEW d, SameCall(c, d),
         NEW caller, DOMAIN caller = ActivationFields,
         NEW other, other = InOneTier(caller), AnswerPrimitive(c, caller)
  PROVE  SecondTier!AnswerPrimitive(d, other)
  <1>1. /\ c.inv[1] = "primitive" /\ c.inv[2] \notin SystemPrimitives
        /\ PrimitiveAnswer(c.inv[2], c.rcvr, c.args) # NoAnswer
        /\ acts' = Append(Front(acts),
                     WithAnswer(caller, PrimitiveAnswer(c.inv[2], c.rcvr, c.args)))
        /\ UNCHANGED <<heap, outcome>>
    BY DEF AnswerPrimitive
  <1>2. SecondTier!PrimitiveAnswer(d.inv[2], d.rcvr, d.args)
          = PrimitiveAnswer(c.inv[2], c.rcvr, c.args)
    BY SameAnswers DEF SameCall
  <1>3. Erased(acts') = Append(SecondTier!Front(Erased(acts)),
                 SecondTier!WithAnswer(other, SecondTier!PrimitiveAnswer(d.inv[2], d.rcvr, d.args)))
    BY <1>1, <1>2, WithAnswerMaps
  <1>4. SecondTier!PrimitiveAnswer(d.inv[2], d.rcvr, d.args) # SecondTier!NoAnswer
    BY <1>1, <1>2 DEF SecondTier!NoAnswer, NoAnswer
  <1> QED BY <1>1, <1>3, <1>4, AbstractActs, SameNames
          DEF SameCall, SecondTier!AnswerPrimitive, SecondTier!heap, heap

LEMMA FailInPrimitiveMaps ==
  ASSUME NEW c, NEW d, SameCall(c, d), FailInPrimitive(c)
  PROVE  SecondTier!FailInPrimitive(d)
  <1>1. /\ c.inv[1] = "primitive" /\ c.inv[2] \notin SystemPrimitives
        /\ PrimitiveAnswer(c.inv[2], c.rcvr, c.args) = NoAnswer
        /\ outcome' = Failed("primitive")
        /\ UNCHANGED <<acts, heap>>
    BY DEF FailInPrimitive
  <1>2. SecondTier!PrimitiveAnswer(d.inv[2], d.rcvr, d.args) = SecondTier!NoAnswer
    BY <1>1, SameAnswers DEF SameCall, SecondTier!NoAnswer, NoAnswer
  <1> QED BY <1>1, <1>2, AbstractActs, SameNames, SameProgram
          DEF SameCall, SecondTier!FailInPrimitive, SecondTier!heap, heap

LEMMA AnswerSystemMaps ==
  ASSUME BothTiersInv, outcome = Running, NEW c, NEW d, SameCall(c, d),
         NEW caller, DOMAIN caller = ActivationFields,
         NEW other, other = InOneTier(caller), AnswerSystem(c, caller)
  PROVE  SecondTier!AnswerSystem(d, other)
  <1>1. /\ c.inv[1] = "primitive" /\ c.inv[2] \in SystemPrimitives
        /\ acts' = Append(Front(acts),
                     WithAnswer(caller, SystemAnswer(c.inv[2], globals, c.args)))
        /\ globals' = GlobalsAfter(c.inv[2], globals, c.args)
        /\ UNCHANGED <<inners, objects, outcome>>
    BY DEF AnswerSystem
  <1>2. /\ SecondTier!SystemAnswer(d.inv[2], globals, d.args)
             = SystemAnswer(c.inv[2], globals, c.args)
        /\ SecondTier!GlobalsAfter(d.inv[2], globals, d.args)
             = GlobalsAfter(c.inv[2], globals, c.args)
    BY SameSystem DEF SameCall
  <1>3. Erased(acts') = Append(SecondTier!Front(Erased(acts)),
                 SecondTier!WithAnswer(other, SecondTier!SystemAnswer(d.inv[2], globals, d.args)))
    BY <1>1, <1>2, WithAnswerMaps
  <1> QED BY <1>1, <1>2, <1>3, AbstractActs, SameNames DEF SameCall,
     SecondTier!AnswerSystem

LEMMA FailWithoutInvokableMaps ==
  ASSUME NEW c, NEW d, SameCall(c, d), FailWithoutInvokable(c)
  PROVE  SecondTier!FailWithoutInvokable(d)
  BY AbstractActs, SameCalls, SameProgram
  DEF SameCall, FailWithoutInvokable, SecondTier!FailWithoutInvokable, SecondTier!heap,
     heap

LEMMA PerformMaps ==
  ASSUME BothTiersInv, outcome = Running, NEW call, NEW same, SameCall(call, same), CallFits(P, call),
         NEW caller, DOMAIN caller = ActivationFields,
         NEW other, other = InOneTier(caller), Perform(call, caller)
  PROVE  SecondTier!Perform(same, other)
  <1> DEFINE c == Resolved(call)
             d == SecondTier!Resolved(same)
  <1>1. \/ Start(c, caller) \/ AnswerTrivially(c, caller) \/ FailInTrivialMethod(c)
        \/ AnswerPrimitive(c, caller) \/ FailInPrimitive(c) \/ AnswerSystem(c, caller)
        \/ FailWithoutInvokable(c)
    BY DEF Perform
  <1>2. SameCall(c, d) /\ CallFits(P, c)
    BY ResolvedAlike, ResolvedFits DEF BothTiersInv
  <1> HIDE DEF c, d
  <1>3. \/ SecondTier!Start(d, other) \/ SecondTier!AnswerTrivially(d, other)
        \/ SecondTier!FailInTrivialMethod(d)
        \/ SecondTier!AnswerPrimitive(d, other) \/ SecondTier!FailInPrimitive(d)
        \/ SecondTier!AnswerSystem(d, other) \/ SecondTier!FailWithoutInvokable(d)
    BY <1>1, <1>2, StartMaps, AnswerTriviallyMaps, FailInTrivialMethodMaps,
       AnswerPrimitiveMaps, FailInPrimitiveMaps, AnswerSystemMaps, FailWithoutInvokableMaps
  <1> QED BY <1>3 DEF SecondTier!Perform, d

---------------------------------------------------------------------------
(* Returns.                                                                *)

LEMMA ErasedFields ==
  ASSUME Inv
  PROVE  /\ IsSequence(acts) /\ Len(acts) \in Nat /\ DOMAIN acts = 1..Len(acts)
         /\ Len(Erased(acts)) = Len(acts) /\ DOMAIN Erased(acts) = 1..Len(acts)
         /\ \A k \in 1..Len(acts) :
              /\ DOMAIN acts[k] = ActivationFields
              /\ Erased(acts)[k] = InOneTier(acts[k])
              /\ Erased(acts)[k].frame = acts[k].frame
              /\ Erased(acts)[k].catches = acts[k].catches
  <1>1. IsSequence(acts) /\ \A k \in 1..Len(acts) : DOMAIN acts[k] = ActivationFields
    BY DEF Inv, ActivationsFit, ActivationFits
  <1>2. Len(acts) \in Nat /\ DOMAIN acts = 1..Len(acts)
    BY <1>1, SequenceType
  <1>3. /\ Len(Erased(acts)) = Len(acts) /\ DOMAIN Erased(acts) = 1..Len(acts)
        /\ \A k \in 1..Len(acts) : Erased(acts)[k] = InOneTier(acts[k])
    BY <1>1, ErasedIs
  <1>4. ASSUME NEW k \in 1..Len(acts)
        PROVE  /\ Erased(acts)[k].frame = acts[k].frame
               /\ Erased(acts)[k].catches = acts[k].catches
    BY <1>1, <1>3 DEF InOneTier, ActivationFields
  <1> QED BY <1>1, <1>2, <1>3, <1>4

\* The same markers are cleared.
LEMMA SameLeaving ==
  ASSUME Inv, NEW k \in 1..Len(acts)
  PROVE  SecondTier!InnersAfter(k) = InnersAfter(k)
  <1> DEFINE erased == Erased(acts)
  <1>1. Len(erased) = Len(acts) /\ Len(acts) \in Nat
    BY ErasedFields
  <1>2. \A j \in k..Len(acts) : /\ erased[j].frame = acts[j].frame
                                /\ erased[j].catches = acts[j].catches
    BY ErasedFields
  <1>3. SecondTier!Leaving(k)
          = {erased[j].frame[1] : j \in {i \in k..Len(erased) : erased[i].catches}}
    BY DEF SecondTier!Leaving, Erased
  <1> HIDE DEF erased
  <1>4. {i \in k..Len(erased) : erased[i].catches} = {i \in k..Len(acts) : acts[i].catches}
    BY <1>1, <1>2
  <1>5. SecondTier!Leaving(k) = Leaving(k)
    BY <1>2, <1>3, <1>4 DEF Leaving
  <1> QED BY <1>5, SameNames DEF SecondTier!InnersAfter, InnersAfter

LEMMA ErasedAnswerTo ==
  ASSUME Inv, NEW n \in 1..(Len(acts) - 1), NEW v
  PROVE  Erased(AnswerTo(acts, n, v))
           = [SubSeq(Erased(acts), 1, n) EXCEPT ![n] = SecondTier!WithAnswer(@, v)]
  <1> DEFINE front == SubSeq(acts, 1, n)
             same == SubSeq(Erased(acts), 1, n)
             answered == WithAnswer(acts[n], v)
             left == Erased(ReplaceAt(front, n, answered))
             right == ReplaceAt(same, n, SecondTier!WithAnswer(same[n], v))
  <1>1. /\ IsSequence(acts) /\ Len(acts) \in Nat /\ n \in 0..Len(acts) /\ n \in 1..n
        /\ DOMAIN acts[n] = ActivationFields
    BY ErasedFields
  <1>2. IsSequence(front) /\ Len(front) = n /\ \A i \in 1..n : front[i] = acts[i]
    BY <1>1, SubSequence
  <1>3. same = Erased(front)
    BY <1>1, ErasedSubSeq
  <1>4. IsSequence(same) /\ Len(same) = n /\ \A i \in 1..n : same[i] = InOneTier(front[i])
    BY <1>2, <1>3, ErasedIs
  <1>5. SecondTier!WithAnswer(same[n], v) = InOneTier(answered)
    BY <1>1, <1>2, <1>4, SameAnswered
  <1> HIDE DEF front, same, answered
  <1>6. /\ IsSequence(ReplaceAt(front, n, answered)) /\ Len(ReplaceAt(front, n, answered)) = n
        /\ ReplaceAt(front, n, answered)[n] = answered
        /\ \A i \in 1..n : i # n => ReplaceAt(front, n, answered)[i] = front[i]
    BY <1>1, <1>2, Replaced
  <1>7. /\ IsSequence(left) /\ Len(left) = n
        /\ \A i \in 1..n : left[i] = InOneTier(ReplaceAt(front, n, answered)[i])
    BY <1>6, ErasedIs
  <1>8. /\ IsSequence(right) /\ Len(right) = n
        /\ right[n] = SecondTier!WithAnswer(same[n], v)
        /\ \A i \in 1..n : i # n => right[i] = same[i]
    BY <1>1, <1>4, Replaced
  <1> HIDE DEF left, right
  <1>9. ASSUME NEW i \in 1..n PROVE left[i] = right[i]
    BY <1>4, <1>5, <1>6, <1>7, <1>8
  <1>10. left = right
    BY <1>7, <1>8, <1>9, SameSequence
  <1>11. AnswerTo(acts, n, v) = ReplaceAt(front, n, answered)
    BY <1>1, <1>2 DEF AnswerTo, ReplaceAt, front, answered
  <1>12. right = [same EXCEPT ![n] = SecondTier!WithAnswer(@, v)]
    BY DEF right, ReplaceAt
  <1> QED BY <1>10, <1>11, <1>12 DEF left, same

LEMMA AnswerFromMaps ==
  ASSUME Inv, NEW k \in 1..Len(acts), NEW v, AnswerFrom(k, v)
  PROVE  SecondTier!AnswerFrom(k, v)
  <1>1. inners' = SecondTier!InnersAfter(k) /\ UNCHANGED <<objects, globals>>
    BY SameLeaving DEF AnswerFrom
  <1>2. CASE k = 1
    <2>1. outcome' = <<"answer", v>> /\ acts' = <<>>
      BY <1>2 DEF AnswerFrom
    <2>2. Erased(<<>>) = <<>>
      BY DEF Erased
    <2> QED BY <1>1, <1>2, <2>1, <2>2, AbstractActs DEF SecondTier!AnswerFrom
  <1>3. CASE k # 1
    <2>1. acts' = AnswerTo(acts, k - 1, v) /\ UNCHANGED outcome
      BY <1>3 DEF AnswerFrom, AnswerTo
    <2>2. k - 1 \in 1..(Len(acts) - 1)
      BY <1>3, ErasedFields
    <2>3. Erased(acts') = [SubSeq(Erased(acts), 1, k - 1) EXCEPT
                             ![k - 1] = SecondTier!WithAnswer(@, v)]
      BY <2>1, <2>2, ErasedAnswerTo
    <2> QED BY <1>1, <1>3, <2>1, <2>3, AbstractActs DEF SecondTier!AnswerFrom
  <1> QED BY <1>2, <1>3

LEMMA ReturnNonLocalMaps ==
  ASSUME BothTiersInv, outcome = Running, bc = "return_non_local", ReturnNonLocal
  PROVE  SecondTier!ReturnNonLocal
  <1> DEFINE homes == {k \in DOMAIN acts : acts[k].catches /\ acts[k].frame[1] = Home}
             erased == Erased(acts)
             same == {k \in DOMAIN erased :
                        erased[k].catches /\ erased[k].frame[1] = SecondTier!Home}
             self == OuterSelf(top.frame[RcvrIdx + 1])
             inv == Lookup(ClassOf(self), "escapedBlock:")
             args == <<top.frame[RcvrIdx + 1]>>
             call == Call(inv, self, args, 2, FALSE)
             waiting == [top EXCEPT !.escaped = TRUE]
             other == [SecondTier!top EXCEPT !.escaped = TRUE]
  <1>1. IF Element(InnerOf(Home), 1) = True
        THEN \/ homes = {} /\ outcome' = Failed("not caught") /\ UNCHANGED <<acts, heap>>
             \/ homes # {} /\ \E k \in homes : AnswerFrom(k, FromTop(0))
        ELSE Perform(call, waiting)
    BY DEF ReturnNonLocal
  <1>2. homes = same
    <2>1. DOMAIN acts = DOMAIN erased
      BY ErasedFields DEF BothTiersInv
    <2>2. \A k \in DOMAIN acts : /\ erased[k].catches = acts[k].catches
                                 /\ erased[k].frame = acts[k].frame
      BY ErasedFields DEF BothTiersInv
    <2> HIDE DEF erased
    <2> QED BY <2>1, <2>2, SameOuter
  <1>3. /\ SecondTier!Element(SecondTier!InnerOf(SecondTier!Home), 1) = Element(InnerOf(Home), 1)
        /\ SecondTier!True = True /\ SecondTier!FromTop(0) = FromTop(0)
    BY SameOuter, SameNames, SameHeap, SameOperands
  <1>4. other = InOneTier(waiting) /\ DOMAIN waiting = ActivationFields
    <2>1. DOMAIN top = ActivationFields /\ SecondTier!top = InOneTier(top)
      BY OperandStackOfTop, SameTop DEF BothTiersInv
    <2> QED BY <2>1 DEF InOneTier, ActivationFields
  <1>5. SecondTier!Call(SecondTier!Lookup(SecondTier!ClassOf(self), "escapedBlock:"),
                        self, <<SecondTier!top.frame[SecondTier!RcvrIdx + 1]>>, 2, FALSE) = call
    BY SameCalls, SameHeap, SameTop, SameNames DEF BothTiersInv
  <1>6. SecondTier!OuterSelf(SecondTier!top.frame[SecondTier!RcvrIdx + 1]) = self
    BY SameSelf, SameTop, SameNames DEF BothTiersInv
  <1>7. CallFits(P, call) /\ SameCall(call, call)
    <2>1. NamesAMethod(P, top.frame[2])
      BY AtInstruction DEF BothTiersInv, IsFrame
    <2>2. NamesAMethod(P, self) /\ IsInvokable(P, inv)
      BY OuterSelfIsNoBlock, FoundByName DEF BothTiersInv
    <2>3. IsArguments(P, args)
      BY <2>1, Singleton DEF RcvrIdx
    <2> HIDE DEF self, inv, args
    <2> QED BY <2>2, <2>3 DEF CallFits, Call, SameCall, CallFields
  <1> HIDE DEF homes, call, waiting, other
  <1>8. CASE Element(InnerOf(Home), 1) = True /\ homes = {}
    <2>1. outcome' = Failed("not caught") /\ UNCHANGED <<acts, heap>>
      BY <1>1, <1>8
    <2> QED BY <1>2, <1>3, <1>8, <2>1, AbstractActs, SameProgram
            DEF SecondTier!ReturnNonLocal, SecondTier!heap, heap, Erased
  <1>9. CASE Element(InnerOf(Home), 1) = True /\ homes # {}
    <2>1. PICK k \in homes : AnswerFrom(k, FromTop(0))
      BY <1>1, <1>9
    <2>2. k \in 1..Len(acts)
      BY ErasedFields DEF BothTiersInv, homes
    <2>3. SecondTier!AnswerFrom(k, FromTop(0))
      BY <2>1, <2>2, AnswerFromMaps DEF BothTiersInv
    <2> QED BY <1>2, <1>3, <1>9, <2>3 DEF SecondTier!ReturnNonLocal, Erased
  <1>10. CASE Element(InnerOf(Home), 1) # True
    <2>1. SecondTier!Perform(call, other)
      BY <1>1, <1>4, <1>7, <1>10, PerformMaps
    <2> HIDE DEF self, same
    <2> QED BY <1>3, <1>5, <1>6, <1>10, <2>1 DEF SecondTier!ReturnNonLocal, other
  <1> QED BY <1>8, <1>9, <1>10

---------------------------------------------------------------------------
(* Globals, numbers and jumps.                                             *)

\* The tier of the caller makes a difference to four arguments only.
LEMMA AlikeInBothTiers ==
  ASSUME NEW inv, NEW rcvr, NEW args, NEW n, NEW t, NEW u,
         n # 4 \/ t = u \/ ~TrivialCall(Call(inv, rcvr, args, n, t))
  PROVE  SameCall(Call(inv, rcvr, args, n, t), Call(inv, rcvr, args, n, u))
  <1> DEFINE c == Call(inv, rcvr, args, n, t)
             d == Call(inv, rcvr, args, n, u)
  <1>1. /\ DOMAIN c = CallFields /\ DOMAIN d = CallFields
        /\ d.inv = c.inv /\ d.rcvr = c.rcvr /\ d.args = c.args
        /\ c.n = n /\ d.n = n
    BY DEF Call, CallFields
  <1>2. t = u => c = d
    OBVIOUS
  <1> HIDE DEF c, d
  <1>3. TrivialCall(c) => (NoEntryPoint(c) <=> NoEntryPoint(d))
    <2>1. CASE n # 4
      BY <1>1, <2>1 DEF NoEntryPoint
    <2>2. CASE t = u
      BY <1>2, <2>2
    <2>3. CASE ~TrivialCall(c)
      BY <2>3
    <2> QED BY <2>1, <2>2, <2>3 DEF c
  <1>4. SameCall(c, d)
    BY <1>1, <1>3 DEF SameCall
  <1> QED BY <1>4 DEF c, d

LEMMA PushGlobalMaps ==
  ASSUME BothTiersInv, outcome = Running, UNCHANGED program, bc = "push_global",
         NEW t, NEW u, PushGlobal(t)
  PROVE  SecondTier!PushGlobal(u)
  <1> DEFINE name == Literal(Operand(1))[2]
             self == OuterSelf(top.frame[RcvrIdx + 1])
             inv == Lookup(ClassOf(self), "unknownGlobal:")
             args == <<<<"sym", name>>>>
             call == Call(inv, self, args, 2, t)
             same == Call(inv, self, args, 2, u)
             waiting == [top EXCEPT !.stack = Append(@, self), !.pc = NextPc]
             other == [SecondTier!top EXCEPT !.stack = Append(@, self), !.pc = SecondTier!NextPc]
  <1>1. UNCHANGED <<code, counts>>
    BY DEF PushGlobal, SameCode
  <1>2. SecondTier!SameCode
    BY <1>1, SameCodeMaps
  <1>3. IF name \in DOMAIN globals THEN Push(globals[name]) ELSE Perform(call, waiting)
    BY DEF PushGlobal
  <1>4. /\ SecondTier!Literal(SecondTier!Operand(1))[2] = name
        /\ SecondTier!OuterSelf(SecondTier!top.frame[SecondTier!RcvrIdx + 1]) = self
        /\ SecondTier!Lookup(SecondTier!ClassOf(self), "unknownGlobal:") = inv
    BY SameInstruction, SameSelf, SameTop, SameNames, SameHeap DEF BothTiersInv
  <1>5. CASE name \in DOMAIN globals
    <2>1. SecondTier!Push(globals[name])
      BY <1>3, <1>5, PushMaps
    <2> QED BY <1>2, <1>4, <1>5, <2>1 DEF SecondTier!PushGlobal
  <1>6. CASE name \notin DOMAIN globals
    <2>1. NamesAMethod(P, self) /\ IsInvokable(P, inv) /\ IsArguments(P, args)
      BY OuterSelfIsNoBlock, FoundByName, Harmless, Singleton DEF BothTiersInv
    <2>2. DOMAIN waiting = ActivationFields /\ other = InOneTier(waiting)
      <3>1. DOMAIN top = ActivationFields /\ SecondTier!top = InOneTier(top)
            /\ SecondTier!NextPc = NextPc
        BY OperandStackOfTop, SameTop, SameInstruction DEF BothTiersInv
      <3> HIDE DEF self
      <3> QED BY <3>1 DEF InOneTier, ActivationFields
    <2>3. SameCall(call, same)
      BY AlikeInBothTiers
    <2>4. CallFits(P, call)
      <3> HIDE DEF inv, self, args
      <3> QED BY <2>1 DEF CallFits, Call
    <2>5. same = SecondTier!Call(inv, self, args, 2, u)
      BY DEF SecondTier!Call, Call
    <2> HIDE DEF call, same, waiting, other
    <2>6. SecondTier!Perform(same, other)
      BY <1>3, <1>6, <2>2, <2>3, <2>4, PerformMaps
    <2> HIDE DEF self, inv, args, name
    <2>7. SecondTier!Perform(SecondTier!Call(inv, self, args, 2, u), other)
      BY <2>5, <2>6
    <2> QED BY <1>2, <1>4, <1>6, <2>7 DEF SecondTier!PushGlobal, other, args
  <1> QED BY <1>5, <1>6

LEMMA IncOrDecMaps ==
  ASSUME BothTiersInv, outcome = Running, UNCHANGED program, IncOrDec
  PROVE  SecondTier!IncOrDec
  <1> DEFINE n == FromTop(0)
             result == IF bc = "inc" THEN PrimInc(n) ELSE PrimDec(n)
             b == [top EXCEPT !.stack = PutOnTop(@, result), !.pc = NextPc]
             other == [SecondTier!top EXCEPT !.stack = SecondTier!PutOnTop(@, result),
                                             !.pc = SecondTier!NextPc]
  <1>1. /\ SecondTier!FromTop(0) = n /\ SecondTier!bc = bc
        /\ SecondTier!IsNumber(n) <=> IsNumber(n)
        /\ SecondTier!PrimInc(n) = PrimInc(n) /\ SecondTier!PrimDec(n) = PrimDec(n)
    BY SameInstruction, SameOperands, SameIntegers, SameSteps
  <1>2. other = InOneTier(b)
    <2>1. DOMAIN top = ActivationFields /\ SecondTier!top = InOneTier(top)
          /\ SecondTier!NextPc = NextPc
          /\ SecondTier!PutOnTop(SecondTier!top.stack, result) = PutOnTop(top.stack, result)
      BY OperandStackOfTop, SameTop, SameInstruction, SameNames DEF BothTiersInv
    <2> HIDE DEF result
    <2> QED BY <2>1 DEF InOneTier, ActivationFields
  <1>3. CASE IsNumber(n)
    <2>1. Continue(b) /\ SameCode
      BY <1>3 DEF IncOrDec
    <2> HIDE DEF b
    <2>2. SecondTier!Continue(other)
      BY <1>2, <2>1, ContinueMaps DEF BothTiersInv
    <2>3. SecondTier!SameCode
      BY <2>1, SameCodeMaps DEF SameCode
    <2> QED BY <1>1, <1>3, <2>2, <2>3 DEF SecondTier!IncOrDec
  <1>4. CASE ~IsNumber(n)
    <2>1. outcome' = Failed("not yet implemented") /\ UNCHANGED <<code, counts, acts, heap>>
      BY <1>4 DEF IncOrDec, Fail
    <2>2. SecondTier!SameCode
      BY <2>1, SameCodeMaps
    <2> QED BY <1>1, <1>4, <2>1, <2>2, AbstractActs, SameProgram
            DEF SecondTier!IncOrDec, SecondTier!Fail, SecondTier!SameCode,
               SecondTier!heap, heap
  <1> QED BY <1>3, <1>4

---------------------------------------------------------------------------
LEMMA JumpToMaps ==
  ASSUME BothTiersInv, outcome = Running, NEW pc, JumpTo(pc)
  PROVE  SecondTier!JumpTo(pc)
  BY ContinueMaps, PassedMaps DEF BothTiersInv, JumpTo, SecondTier!JumpTo

LEMMA ShieldingJumpMaps ==
  ASSUME BothTiersInv, outcome = Running, Continue([top EXCEPT !.pc = @ + Offset, !.shielded = TRUE])
  PROVE  SecondTier!JumpTo(SecondTier!top.pc + SecondTier!Offset)
  <1> DEFINE b == [top EXCEPT !.pc = @ + Offset, !.shielded = TRUE]
  <1>1. /\ DOMAIN top = ActivationFields /\ SecondTier!top = InOneTier(top)
        /\ SecondTier!top.pc = top.pc /\ SecondTier!Offset = Offset
    BY OperandStackOfTop, SameTop, SameOperands DEF BothTiersInv
  <1>2. InOneTier(b) = [SecondTier!top EXCEPT !.pc = SecondTier!top.pc + SecondTier!Offset]
    BY <1>1 DEF InOneTier, ActivationFields
  <1> HIDE DEF b
  <1>3. SecondTier!Continue(InOneTier(b))
    BY ContinueMaps DEF BothTiersInv, b
  <1> QED BY <1>2, <1>3 DEF SecondTier!JumpTo

LEMMA JumpOnBooleanMaps ==
  ASSUME BothTiersInv, outcome = Running, JumpOnBoolean
  PROVE  SecondTier!JumpOnBoolean
  <1> DEFINE taken == FromTop(0) = Bool(bc \in OnTrue)
             pc == IF taken THEN top.pc + Offset ELSE NextPc
             stack == IF taken /\ bc \in LeavesNil THEN PutOnTop(top.stack, Nil)
                      ELSE Drop(top.stack, 1)
             b == [top EXCEPT !.pc = pc, !.stack = stack]
  <1>1. /\ DOMAIN top = ActivationFields /\ SecondTier!top = InOneTier(top)
        /\ SecondTier!top.pc = top.pc /\ SecondTier!top.stack = top.stack
    BY OperandStackOfTop, SameTop DEF BothTiersInv
  <1>2. Continue(b)
    BY DEF JumpOnBoolean
  <1>3. SecondTier!Continue(InOneTier(b))
    <2> HIDE DEF b
    <2> QED BY <1>2, ContinueMaps DEF BothTiersInv
  <1>4. InOneTier(b) = [SecondTier!top EXCEPT !.pc = pc, !.stack = stack]
    <2> HIDE DEF pc, stack
    <2> QED BY <1>1 DEF InOneTier, ActivationFields
  <1>5. (SecondTier!FromTop(0) = SecondTier!Bool(SecondTier!bc \in SecondTier!OnTrue)) <=> taken
    BY SameInstruction, SameOperands, SameNames
  <1>6. pc = IF SecondTier!FromTop(0) = SecondTier!Bool(SecondTier!bc \in SecondTier!OnTrue)
             THEN SecondTier!top.pc + SecondTier!Offset ELSE SecondTier!NextPc
    BY <1>1, <1>5, SameInstruction, SameOperands
  <1>7. stack = IF /\ SecondTier!FromTop(0) = SecondTier!Bool(SecondTier!bc \in SecondTier!OnTrue)
                   /\ SecondTier!bc \in SecondTier!LeavesNil
                THEN SecondTier!PutOnTop(SecondTier!top.stack, SecondTier!Nil)
                ELSE SecondTier!Drop(SecondTier!top.stack, 1)
    BY <1>1, <1>5, SameInstruction, SameNames
  <1>8. SecondTier!Continue([SecondTier!top EXCEPT !.pc = pc, !.stack = stack])
    BY <1>3, <1>4
  <1> HIDE DEF taken, pc, stack
  <1> QED BY <1>6, <1>7, <1>8 DEF SecondTier!JumpOnBoolean

LEMMA JumpIfGreaterMaps ==
  ASSUME BothTiersInv, outcome = Running, JumpIfGreater
  PROVE  SecondTier!JumpIfGreater
  <1> DEFINE gone == [top EXCEPT !.pc = @ + Offset, !.stack = Drop(@, 2)]
             stays == [top EXCEPT !.pc = NextPc]
  <1>1. /\ SecondTier!FromTop(0) = FromTop(0) /\ SecondTier!FromTop(1) = FromTop(1)
        /\ SecondTier!Offset = Offset /\ SecondTier!NextPc = NextPc
    BY SameInstruction, SameOperands
  <1>2. InOneTier(gone) = [SecondTier!top EXCEPT !.pc = @ + SecondTier!Offset,
                                                 !.stack = SecondTier!Drop(@, 2)]
    <2>1. /\ DOMAIN top = ActivationFields /\ SecondTier!top = InOneTier(top)
          /\ SecondTier!Drop(SecondTier!top.stack, 2) = Drop(top.stack, 2)
          /\ SecondTier!top.pc = top.pc
      BY OperandStackOfTop, SameTop, SameNames DEF BothTiersInv
    <2> QED BY <1>1, <2>1 DEF InOneTier, ActivationFields
  <1>3. InOneTier(stays) = [SecondTier!top EXCEPT !.pc = SecondTier!NextPc]
    BY <1>1, PassedMaps
  <1>4. CASE FromTop(0)[1] # "int" \/ FromTop(1)[1] # "int"
    <2>1. outcome' = Failed("not an integer") /\ UNCHANGED <<acts, heap>>
      BY <1>4 DEF JumpIfGreater
    <2> QED BY <1>1, <1>4, <2>1, AbstractActs, SameProgram
            DEF SecondTier!JumpIfGreater, SecondTier!heap, heap
  <1>5. CASE ~(FromTop(0)[1] # "int" \/ FromTop(1)[1] # "int") /\ FromTop(0)[2] > FromTop(1)[2]
    <2>1. Continue(gone)
      BY <1>5 DEF JumpIfGreater
    <2> HIDE DEF gone
    <2>2. SecondTier!Continue(InOneTier(gone))
      BY <2>1, ContinueMaps DEF BothTiersInv
    <2> QED BY <1>1, <1>2, <1>5, <2>2 DEF SecondTier!JumpIfGreater
  <1>6. CASE ~(FromTop(0)[1] # "int" \/ FromTop(1)[1] # "int") /\ ~(FromTop(0)[2] > FromTop(1)[2])
    <2>1. Continue(stays)
      BY <1>6 DEF JumpIfGreater
    <2> HIDE DEF stays
    <2>2. SecondTier!Continue(InOneTier(stays))
      BY <2>1, ContinueMaps DEF BothTiersInv
    <2> QED BY <1>1, <1>3, <1>6, <2>2 DEF SecondTier!JumpIfGreater
  <1> QED BY <1>4, <1>5, <1>6

---------------------------------------------------------------------------
(* Messages.                                                               *)

\* The caller without the arguments.
LEMMA AfterArgsMaps ==
  ASSUME BothTiersInv, outcome = Running, NEW n
  PROVE  SecondTier!AfterArgs(n) = InOneTier(AfterArgs(n))
  <1>1. /\ DOMAIN top = ActivationFields /\ SecondTier!top = InOneTier(top)
        /\ SecondTier!NextPc = NextPc
        /\ SecondTier!Drop(SecondTier!top.stack, n - 1) = Drop(top.stack, n - 1)
    BY OperandStackOfTop, SameTop, SameInstruction, SameNames DEF BothTiersInv
  <1>2. InOneTier([top EXCEPT !.stack = Drop(top.stack, n - 1), !.pc = NextPc])
          = [InOneTier(top) EXCEPT !.stack = Drop(top.stack, n - 1), !.pc = NextPc]
    BY <1>1 DEF InOneTier, ActivationFields
  <1> QED BY <1>1, <1>2 DEF SecondTier!AfterArgs, AfterArgs

\* A message of four arguments finds no method that only one tier can enter.
LEMMA FoundAlike ==
  ASSUME BothTiersInv, outcome = Running, NEW class, NEW rcvr, NEW args, NEW n,
         n = 4 => Arity[Selector] = 4, NEW t, NEW u
  PROVE  SameCall(Call(Lookup(class, Selector), rcvr, args, n, t),
                  Call(Lookup(class, Selector), rcvr, args, n, u))
  <1> DEFINE inv == Lookup(class, Selector)
  <1>1. n = 4 => ~TrivialCall(Call(inv, rcvr, args, n, t))
    <2> SUFFICES ASSUME n = 4, inv[1] = "method"
                 PROVE  Method(inv[2]).kind = "bytecodes"
      BY DEF TrivialCall, Call
    <2>1. Understands(class, Selector)
      BY DEF Lookup, NoInvokable
    <2>2. inv = P.classes[class].methods[Selector]
      BY <2>1 DEF Lookup
    <2> HIDE DEF inv
    <2> QED BY <2>1, <2>2 DEF BothTiersInv, SameEntryPoints, Understands, Method
  <1> HIDE DEF inv
  <1>2. SameCall(Call(inv, rcvr, args, n, t), Call(inv, rcvr, args, n, u))
    BY <1>1, AlikeInBothTiers
  <1> QED BY <1>2 DEF inv

\* What is called with the receiver and the arguments on the stack.
LEMMA SentMaps ==
  ASSUME BothTiersInv, outcome = Running, bc \in SendLike, NEW class, NEW n,
         n = 4 => Arity[Selector] = 4, NEW t, NEW u,
         Perform(Call(Lookup(class, Selector), FromTop(Arity[Selector] - 1),
                      Args(Arity[Selector]), n, t), AfterArgs(Arity[Selector]))
  PROVE  SecondTier!Perform(
           SecondTier!Call(SecondTier!Lookup(class, SecondTier!Selector),
                           SecondTier!FromTop(Arity[SecondTier!Selector] - 1),
                           SecondTier!Args(Arity[SecondTier!Selector]), n, u),
           SecondTier!AfterArgs(Arity[SecondTier!Selector]))
  <1> DEFINE k == Arity[Selector]
             inv == Lookup(class, Selector)
             rcvr == FromTop(k - 1)
             args == Args(k)
             call == Call(inv, rcvr, args, n, t)
             same == Call(inv, rcvr, args, n, u)
             waiting == AfterArgs(k)
             other == SecondTier!AfterArgs(k)
  <1>1. /\ SecondTier!Selector = Selector /\ SecondTier!FromTop(k - 1) = rcvr
        /\ SecondTier!Args(k) = args /\ SecondTier!Lookup(class, Selector) = inv
    BY SameOperands, SameHeap
  <1>2. SecondTier!Call(inv, rcvr, args, n, u) = same
    BY DEF SecondTier!Call, Call
  <1>3. SameCall(call, same)
    <2> HIDE DEF rcvr, args
    <2> QED BY FoundAlike
  <1>4. /\ NamesAMethod(P, rcvr) /\ IsInvokable(P, inv) /\ IsArguments(P, args)
        /\ DOMAIN waiting = ActivationFields
    BY SendingFits, FoundByName DEF BothTiersInv, ActivationFits
  <1>5. CallFits(P, call)
    <2> HIDE DEF rcvr, args, inv
    <2> QED BY <1>4 DEF CallFits, Call
  <1>6. other = InOneTier(waiting)
    BY AfterArgsMaps
  <1>7. Perform(call, waiting)
    OBVIOUS
  <1> HIDE DEF k, inv, rcvr, args, call, same, waiting, other
  <1>8. SecondTier!Perform(same, other)
    BY <1>3, <1>4, <1>5, <1>6, <1>7, PerformMaps
  <1> QED BY <1>1, <1>2, <1>8 DEF k, other

LEMMA NotUnderstoodMaps ==
  ASSUME BothTiersInv, outcome = Running, bc \in SendLike, SendDoesNotUnderstand(Arity[Selector])
  PROVE  SecondTier!SendDoesNotUnderstand(Arity[SecondTier!Selector])
  <1> DEFINE k == Arity[Selector]
             rcvr == FromTop(k - 1)
             inv == Lookup(ClassOf(rcvr), "doesNotUnderstand:arguments:")
             args == <<<<"sym", Selector>>, <<"array", Args(k)>>>>
             call == Call(inv, rcvr, args, 3, FALSE)
             waiting == AfterArgs(k)
             other == SecondTier!AfterArgs(k)
  <1>1. SecondTier!Selector = Selector /\ SecondTier!FromTop(k - 1) = rcvr
    BY SameOperands
  <1>2. SecondTier!Call(SecondTier!Lookup(SecondTier!ClassOf(rcvr), "doesNotUnderstand:arguments:"),
                        rcvr, <<<<"sym", Selector>>, <<"array", SecondTier!Args(k)>>>>, 3, FALSE)
          = call
    BY SameOperands, SameHeap, SameCalls
  <1>3. /\ NamesAMethod(P, rcvr) /\ IsInvokable(P, inv) /\ IsArguments(P, args)
        /\ DOMAIN waiting = ActivationFields
    BY SendingFits, FoundByName, Harmless, Pair DEF BothTiersInv, ActivationFits
  <1>4. CallFits(P, call) /\ SameCall(call, call)
    <2> HIDE DEF rcvr, args, inv
    <2> QED BY <1>3 DEF CallFits, Call, SameCall, CallFields
  <1>5. other = InOneTier(waiting)
    BY AfterArgsMaps
  <1>6. Perform(call, waiting)
    BY DEF SendDoesNotUnderstand
  <1> HIDE DEF call, waiting, other
  <1>7. SecondTier!Perform(call, other)
    BY <1>3, <1>4, <1>5, <1>6, PerformMaps
  <1> HIDE DEF k, rcvr
  <1> QED BY <1>1, <1>2, <1>7 DEF SecondTier!SendDoesNotUnderstand, k, other

LEMMA SendMaps ==
  ASSUME BothTiersInv, outcome = Running, bc \in SendLike, NEW t, NEW u, Send(t)
  PROVE  SecondTier!Send(u)
  <1> DEFINE k == Arity[Selector]
             rcvr == FromTop(k - 1)
             class == ClassOf(rcvr)
  <1>1. /\ SecondTier!Selector = Selector /\ SecondTier!P = P
        /\ SecondTier!ClassOf(SecondTier!FromTop(Arity[SecondTier!Selector] - 1)) = class
        /\ SecondTier!Understands(class, SecondTier!Selector) <=> Understands(class, Selector)
        /\ SecondTier!Entry(k) = Entry(k)
    BY SameOperands, SameHeap, SameProgram, SameCalls
  <1>2. CASE class \notin DOMAIN P.classes
    <2>1. outcome' = Failed("receiver") /\ UNCHANGED <<acts, heap>>
      BY <1>2 DEF Send
    <2> HIDE DEF class
    <2> QED BY <1>1, <1>2, <2>1, AbstractActs, SameProgram
            DEF SecondTier!Send, SecondTier!heap, heap
  <1>3. CASE class \in DOMAIN P.classes /\ Understands(class, Selector)
    <2>1. Perform(Call(Lookup(class, Selector), rcvr, Args(k), Entry(k), t), AfterArgs(k))
      BY <1>3 DEF Send
    <2>2. Entry(k) = 4 => k = 4
      <3>1. k \in 1..Len(top.stack) /\ Len(top.stack) \in Nat
        BY ArgumentsOfSend, AtInstruction DEF BothTiersInv
      <3> HIDE DEF k
      <3> QED BY <3>1 DEF Entry
    <2> DEFINE n == Entry(k)
    <2>3. n = 4 => Arity[Selector] = 4
      BY <2>2
    <2> HIDE DEF class, n
    <2>4. SecondTier!Perform(
           SecondTier!Call(SecondTier!Lookup(class, SecondTier!Selector),
                           SecondTier!FromTop(Arity[SecondTier!Selector] - 1),
                           SecondTier!Args(Arity[SecondTier!Selector]), n, u),
           SecondTier!AfterArgs(Arity[SecondTier!Selector]))
      BY <2>1, <2>3, SentMaps DEF n
    <2>5. SecondTier!Entry(Arity[SecondTier!Selector]) = n
      BY <1>1 DEF n
    <2> QED BY <1>1, <1>3, <2>4, <2>5 DEF SecondTier!Send
  <1>4. CASE class \in DOMAIN P.classes /\ ~Understands(class, Selector)
    <2>1. SendDoesNotUnderstand(k)
      BY <1>4 DEF Send
    <2>2. SecondTier!SendDoesNotUnderstand(Arity[SecondTier!Selector])
      BY <2>1, NotUnderstoodMaps
    <2> HIDE DEF class
    <2> QED BY <1>1, <1>4, <2>2 DEF SecondTier!Send
  <1> QED BY <1>2, <1>3, <1>4

---------------------------------------------------------------------------
(* Super sends.                                                            *)

\* The instruction the second tier makes of the super send it is at.
QuickHere == QuickSuperSendTier2(Arity[Selector])

\* At a super send.
LEMMA AtSuperSend ==
  ASSUME BothTiersInv, outcome = Running, bc = "super_send"
  PROVE  /\ bc \in SendLike /\ Compiled = "super_send"
         /\ Selector = SelectorAt(Here, top.pc) /\ Arity[Selector] # 4
         /\ QuickSuperSendTier1(Arity[Selector]) = QuickHere
         /\ QuickHere \in QuickSuperSends
  <1>1. bc \in SendLike /\ Compiled = "super_send"
    BY NotRewritten DEF BothTiersInv, SendLike, PushFrame, PushInner, PopFrame, PopInner,
       QuickSuperSends
  <1>2. BytecodeLength(bc) >= 2
    BY TheLongJumps DEF BytecodeLength, PushFrame, PushInner, PopFrame, PopInner,
       Unresolved, Jumps, ShortJumps, SendLike, Sends, QuickSuperSends, PushBlock
  <1>3. Operand(1) = Here.code[top.pc + 2]
    BY <1>1, <1>2, AsCompiled DEF BothTiersInv
  <1>4. Selector = SelectorAt(Here, top.pc)
    BY <1>3 DEF Selector, SelectorAt, Literal, Here
  <1>5. /\ top.m \in DOMAIN P.methods /\ Here.kind = "bytecodes" /\ top.pc \in Here.starts
        /\ Here.code[top.pc + 1] = "super_send"
    BY <1>1, AtInstruction DEF BothTiersInv, Compiled
  <1>6. Arity[Selector] # 4
    BY <1>4, <1>5 DEF BothTiersInv, SameEntryPoints, Here, Method
  <1>7. QuickSuperSendTier1(Arity[Selector]) = QuickHere /\ QuickHere \in QuickSuperSends
    BY <1>6, SendingOps DEF QuickHere, QuickSuperSendTier1, QuickSuperSendTier2
  <1> QED BY <1>1, <1>4, <1>6, <1>7

\* Which instruction the second tier writes.
LEMMA SameQuick ==
  \A n : SecondTier!QuickSuperSendTier2(n) = QuickSuperSendTier2(n)
  BY DEF SecondTier!QuickSuperSendTier2, QuickSuperSendTier2

\* The code after it was written.
LEMMA QuickCode ==
  ASSUME BothTiersInv, outcome = Running, bc = "super_send", UNCHANGED program, NEW cells,
         cells = ReplaceAt(code[top.m], top.pc + 1, QuickHere),
         code' = [code EXCEPT ![top.m] = cells]
  PROVE  /\ SuperSendsFit(P, code')
         /\ Rewritten(P', code')
              = [Rewritten(P, code) EXCEPT ![SecondTier!top.m] =
                   SecondTier!ReplaceAt(@, SecondTier!top.pc + 1, QuickHere)]
  <1> DEFINE before == Rewritten(P, code)
  <1>1. /\ top.m \in DOMAIN P.methods /\ top.m \in DOMAIN code
        /\ Here.kind = "bytecodes" /\ DOMAIN code = DOMAIN P.methods
        /\ IsCode(Here) /\ CellsFit(Here, code[top.m]) /\ top.pc \in Here.starts
    BY AtInstruction DEF BothTiersInv, Inv, CodeFits
  <1>2. /\ Here.code[top.pc + 1] = "super_send" /\ QuickHere \in QuickSuperSends
        /\ QuickHere = QuickSuperSendTier2(Arity[SelectorAt(Here, top.pc)])
        /\ Arity[SelectorAt(Here, top.pc)] # 4
    BY AtSuperSend DEF Compiled, QuickHere
  <1>3. CellsFit(Here, cells) /\ OneRewritten(Here, code[top.m], cells, top.pc, QuickHere)
    BY <1>1, <1>2, SuperSendRewritten
  <1>4. SuperSendsFitIn(Here, code[top.m])
    BY <1>1 DEF BothTiersInv, SuperSendsFit, Here, Method
  <1>5. code' = [code EXCEPT ![top.m] = cells]
    OBVIOUS
  <1>6. SuperSendsFitIn(Here, cells)
    BY <1>2, <1>3, <1>4, OneSuperSend
  <1>7. /\ Here = P.methods[top.m] /\ CodeFits(P, code) /\ SuperSendsFit(P, code)
    BY DEF BothTiersInv, Inv, Here, Method
  <1>8. CodeFits(P, code') /\ SuperSendsFit(P, code')
    <2> DEFINE m == top.m
    <2>1. m \in DOMAIN code /\ m \in DOMAIN P.methods
      BY <1>1
    <2>2. /\ CellsFit(P.methods[m], cells) /\ SuperSendsFitIn(P.methods[m], cells)
          /\ P.methods[m].kind = "bytecodes"
      BY <1>1, <1>3, <1>6, <1>7
    <2> HIDE DEF m
    <2>3. CodeFits(P, [code EXCEPT ![m] = cells])
      BY <1>1, <1>7, <2>1, <2>2, CodeRewritten
    <2>4. SuperSendsFit(P, [code EXCEPT ![m] = cells])
      BY <1>1, <1>7, <2>1, <2>2, RewrittenCode
    <2> QED BY <1>5, <2>3, <2>4 DEF m
  <1>9. Rewritten(P', code') = [before EXCEPT ![top.m] = cells]
    BY <1>1, <1>5, <1>8, CodeAs
  <1>10. before[top.m] = code[top.m]
    BY <1>1, SameMethods DEF BothTiersInv, Inv, P, CompiledCodeIsVerified
  <1>11. cells = SecondTier!ReplaceAt(before[top.m], SecondTier!top.pc + 1, QuickHere)
         /\ SecondTier!top.m = top.m
    BY <1>10, SameTop DEF BothTiersInv, SecondTier!ReplaceAt, ReplaceAt
  <1> QED BY <1>8, <1>9, <1>11

LEMMA SuperSendMaps ==
  ASSUME BothTiersInv, outcome = Running, bc = "super_send", UNCHANGED program, SuperSend(QuickHere)
  PROVE  /\ SecondTier!SuperSend(SecondTier!QuickSuperSendTier2(Arity[SecondTier!Selector]))
         /\ SuperSendsFit(P, code')
  <1> DEFINE k == Arity[Selector]
             class == SuperClass
             quick == SecondTier!QuickSuperSendTier2(Arity[SecondTier!Selector])
  <1>1. /\ SecondTier!Selector = Selector /\ SecondTier!SuperClass = class
        /\ SecondTier!Understands(class, SecondTier!Selector) <=> Understands(class, Selector)
        /\ SecondTier!SlowEntry(k) = SlowEntry(k)
    BY SameOperands, SameHeap, SameCalls
  <1>2. quick = QuickHere
    BY <1>1, SameQuick DEF QuickHere
  <1> HIDE DEF quick
  <1>3. CASE Understands(class, Selector)
    <2>1. /\ code' = [code EXCEPT ![top.m] = ReplaceAt(@, top.pc + 1, QuickHere)]
          /\ Perform(Call(Lookup(class, Selector), FromTop(k - 1), Args(k), SlowEntry(k), FALSE),
                     AfterArgs(k))
      BY <1>3 DEF SuperSend
    <2> DEFINE cells == ReplaceAt(code[top.m], top.pc + 1, QuickHere)
    <2>0. code' = [code EXCEPT ![top.m] = cells]
      BY <2>1
    <2> HIDE DEF cells
    <2>2. /\ SuperSendsFit(P, code')
          /\ Rewritten(P', code')
              = [Rewritten(P, code) EXCEPT ![SecondTier!top.m] =
                   SecondTier!ReplaceAt(@, SecondTier!top.pc + 1, quick)]
      BY <1>2, <2>0, QuickCode DEF cells
    <2>3. SlowEntry(k) # 4
      <3>1. k \in 1..Len(top.stack) /\ Len(top.stack) \in Nat
        BY AtSuperSend, ArgumentsOfSend, AtInstruction DEF BothTiersInv
      <3> HIDE DEF k
      <3> QED BY <3>1 DEF SlowEntry
    <2> DEFINE n == SlowEntry(k)
               no == FALSE
    <2>4. n = 4 => Arity[Selector] = 4
      BY <2>3
    <2>5. bc \in SendLike
      BY AtSuperSend
    <2>6. Perform(Call(Lookup(class, Selector), FromTop(k - 1), Args(k), n, no), AfterArgs(k))
      BY <2>1, Zenon
    <2> HIDE DEF class, n, no
    <2>7. SecondTier!Perform(
           SecondTier!Call(SecondTier!Lookup(class, SecondTier!Selector),
                           SecondTier!FromTop(Arity[SecondTier!Selector] - 1),
                           SecondTier!Args(Arity[SecondTier!Selector]), n, no),
           SecondTier!AfterArgs(Arity[SecondTier!Selector]))
      BY <2>4, <2>5, <2>6, SentMaps
    <2>8. SecondTier!SlowEntry(Arity[SecondTier!Selector]) = n
      BY <1>1 DEF n
    <2>9. SecondTier!Understands(class, SecondTier!Selector)
      BY <1>1, <1>3
    <2>10. SecondTier!SuperSend(quick)
      BY <1>1, <2>2, <2>7, <2>8, <2>9, AbstractCode, AbstractCodeAfter
      DEF SecondTier!SuperSend, no
    <2> QED BY <2>2, <2>10 DEF quick
  <1>4. CASE ~Understands(class, Selector)
    <2>1. outcome' = Failed("super") /\ UNCHANGED <<code, acts, heap>>
      BY <1>4 DEF SuperSend
    <2>2. Rewritten(P', code') = Rewritten(P, code)
      BY <2>1, ProgramStays
    <2>3. SuperSendsFit(P, code')
      BY <2>1 DEF BothTiersInv
    <2>4. SecondTier!SuperSend(quick)
      BY <1>1, <1>4, <2>1, <2>2, AbstractCode, AbstractCodeAfter, AbstractActs,
         SameProgram
      DEF SecondTier!SuperSend, SecondTier!heap, heap
    <2> QED BY <2>3, <2>4 DEF quick
  <1> QED BY <1>3, <1>4

\* At a super send that keeps its invokable.
LEMMA AtQuickSuperSend ==
  ASSUME BothTiersInv, outcome = Running, bc \in QuickSuperSends
  PROVE  bc # "q_super_send_4" /\ Arity[Selector] # 4 /\ bc \in SendLike
  <1>1. /\ top.m \in DOMAIN P.methods /\ Here.kind = "bytecodes" /\ top.pc \in Here.starts
    BY AtInstruction DEF BothTiersInv
  <1>2. SuperSendsFitIn(Here, code[top.m])
    BY <1>1 DEF BothTiersInv, SuperSendsFit, Here, Method
  <1>3. /\ Compiled = "super_send" /\ Arity[SelectorAt(Here, top.pc)] # 4
        /\ bc = QuickSuperSendTier2(Arity[SelectorAt(Here, top.pc)])
    BY <1>1, <1>2 DEF SuperSendsFitIn, bc, Compiled
  <1>4. bc # "q_super_send_4"
    BY <1>3 DEF QuickSuperSendTier2
  <1>5. BytecodeLength(bc) >= 2
    BY TheLongJumps DEF BytecodeLength, PushFrame, PushInner, PopFrame, PopInner,
       Unresolved, Jumps, ShortJumps, SendLike, Sends, QuickSuperSends, PushBlock
  <1>6. Operand(1) = Here.code[top.pc + 2]
    BY <1>3, <1>5, AsCompiled DEF BothTiersInv
  <1>7. Selector = SelectorAt(Here, top.pc)
    BY <1>6 DEF Selector, SelectorAt, Literal, Here
  <1> QED BY <1>3, <1>4, <1>7, SendingOps

LEMMA SuperSendAgainMaps ==
  ASSUME BothTiersInv, outcome = Running, bc \in QuickSuperSends, NEW t, NEW u, SuperSendAgain(t)
  PROVE  SecondTier!SuperSendAgain(u)
  <1> DEFINE k == Arity[Selector]
             class == SuperClass
             n == IF bc = "q_super_send_n" THEN 5 ELSE k
  <1>1. /\ SecondTier!Selector = Selector /\ SecondTier!SuperClass = class /\ SecondTier!bc = bc
    BY SameOperands, SameInstruction
  <1>2. Perform(Call(Lookup(class, Selector), FromTop(k - 1), Args(k), n, t), AfterArgs(k))
    BY DEF SuperSendAgain
  <1>3. (n = 4 => Arity[Selector] = 4) /\ bc \in SendLike
    BY AtQuickSuperSend
  <1>4. n = IF SecondTier!bc = "q_super_send_n" THEN 5 ELSE Arity[SecondTier!Selector]
    BY <1>1
  <1> HIDE DEF class, n
  <1>5. SecondTier!Perform(
           SecondTier!Call(SecondTier!Lookup(class, SecondTier!Selector),
                           SecondTier!FromTop(Arity[SecondTier!Selector] - 1),
                           SecondTier!Args(Arity[SecondTier!Selector]), n, u),
           SecondTier!AfterArgs(Arity[SecondTier!Selector]))
    BY <1>2, <1>3, SentMaps
  <1> QED BY <1>1, <1>4, <1>5 DEF SecondTier!SuperSendAgain

---------------------------------------------------------------------------
(* One step of either tier is a step of the second.                        *)

\* What either loop takes, the loop of the second tier takes.
LEMMA AsDispatched ==
  ASSUME BothTiersInv, NEW ops, Dispatch1(ops) \/ Dispatch2(ops)
  PROVE  outcome = Running /\ bc \in ops /\ UNCHANGED program /\ SecondTier!Dispatch2(ops)
  <1>1. outcome = Running /\ ~top.escaped /\ bc \in ops /\ UNCHANGED program
    BY DEF Dispatch1, Dispatch2
  <1> QED BY <1>1, SameTop, SameInstruction, SameProgram DEF BothTiersInv, SecondTier!Dispatch2

\* The same after a step that leaves the code alone.
LEMMA AsCounted ==
  ASSUME BothTiersInv, UNCHANGED program, SameCode \/ IncrCount
  PROVE  SecondTier!SameCode /\ SuperSendsFit(P, code')
  <1>1. UNCHANGED <<program, code>> /\ (counts' = counts \/ counts' = Counted)
    BY DEF SameCode, IncrCount
  <1>2. SuperSendsFit(P, code')
    BY <1>1 DEF BothTiersInv
  <1> QED BY <1>1, <1>2, SameCodeMaps

LEMMA PushTier2Maps ==
  ASSUME BothTiersInv, PushTier1 \/ PushTier2
  PROVE  SecondTier!PushTier2 /\ SuperSendsFit(P, code')
  <1>1. (Dispatch1(Reads) \/ Dispatch2(Reads)) /\ Push(PushedValue) /\ SameCode
    BY DEF PushTier1, PushTier2
  <1>2. outcome = Running /\ bc \in Reads /\ UNCHANGED program /\ SecondTier!Dispatch2(Reads)
    BY <1>1, AsDispatched
  <1>3. SecondTier!SameCode /\ SuperSendsFit(P, code')
    BY <1>1, <1>2, AsCounted
  <1>4. SecondTier!Push(SecondTier!PushedValue)
    BY <1>1, <1>2, PushMaps, SameReads
  <1> QED BY <1>2, <1>3, <1>4, SameNames DEF SecondTier!PushTier2

LEMMA PushGlobalTier2Maps ==
  ASSUME BothTiersInv, PushGlobalTier1 \/ PushGlobalTier2
  PROVE  SecondTier!PushGlobalTier2 /\ SuperSendsFit(P, code')
  <1> DEFINE ops == {"push_global"}
             yes == TRUE
             no == FALSE
  <1>1. \/ Dispatch1(ops) /\ PushGlobal(no)
        \/ Dispatch2(ops) /\ PushGlobal(yes)
    BY Zenon DEF PushGlobalTier1, PushGlobalTier2
  <1> HIDE DEF yes, no
  <1>2. outcome = Running /\ bc = "push_global" /\ UNCHANGED program /\ SecondTier!Dispatch2(ops)
    BY <1>1, AsDispatched
  <1>3. UNCHANGED code
    BY <1>1 DEF PushGlobal, SameCode
  <1>4. SuperSendsFit(P, code')
    BY <1>3 DEF BothTiersInv
  <1>5. SecondTier!PushGlobal(yes)
    BY <1>1, <1>2, PushGlobalMaps
  <1>6. SecondTier!PushGlobal(TRUE)
    BY <1>5, Zenon DEF yes
  <1> QED BY <1>2, <1>4, <1>6, Zenon DEF SecondTier!PushGlobalTier2

LEMMA PopTier2Maps ==
  ASSUME BothTiersInv, PopTier1 \/ PopTier2
  PROVE  SecondTier!PopTier2 /\ SuperSendsFit(P, code')
  <1>1. (Dispatch1(Stores) \/ Dispatch2(Stores)) /\ StoreValue /\ SameCode
    BY DEF PopTier1, PopTier2
  <1>2. outcome = Running /\ bc \in Stores /\ UNCHANGED program /\ SecondTier!Dispatch2(Stores)
    BY <1>1, AsDispatched
  <1>3. SecondTier!SameCode /\ SuperSendsFit(P, code')
    BY <1>1, <1>2, AsCounted
  <1>4. SecondTier!StoreValue
    BY <1>1, <1>2, StoreValueMaps
  <1> QED BY <1>2, <1>3, <1>4, SameNames DEF SecondTier!PopTier2

LEMMA IncOrDecTier2Maps ==
  ASSUME BothTiersInv, IncOrDecTier1 \/ IncOrDecTier2
  PROVE  SecondTier!IncOrDecTier2 /\ SuperSendsFit(P, code')
  <1> DEFINE ops == {"inc", "dec"}
  <1>1. (Dispatch1(ops) \/ Dispatch2(ops)) /\ IncOrDec
    BY DEF IncOrDecTier1, IncOrDecTier2
  <1>2. outcome = Running /\ UNCHANGED program /\ SecondTier!Dispatch2(ops)
    BY <1>1, AsDispatched
  <1>3. UNCHANGED code
    BY <1>1 DEF IncOrDec, SameCode, Fail
  <1>4. SuperSendsFit(P, code')
    BY <1>3 DEF BothTiersInv
  <1>5. SecondTier!IncOrDec
    BY <1>1, <1>2, IncOrDecMaps
  <1> QED BY <1>2, <1>4, <1>5 DEF SecondTier!IncOrDecTier2

LEMMA PatchTier2Maps ==
  ASSUME BothTiersInv, PatchTier1 \/ PatchTier2
  PROVE  SecondTier!PatchTier2 /\ SuperSendsFit(P, code')
  <1>1. (Dispatch1(Unresolved) \/ Dispatch2(Unresolved)) /\ Patch
    BY DEF PatchTier1, PatchTier2
  <1>2. /\ outcome = Running /\ UNCHANGED program /\ bc \in Unresolved
        /\ SecondTier!Dispatch2(Unresolved)
    BY <1>1, AsDispatched
  <1>3. SuperSendsFit(P, code')
    BY <1>1, <1>2, PatchKeepsSuperSends
  <1>4. SecondTier!Patch
    BY <1>1, <1>2, PatchMaps
  <1> QED BY <1>2, <1>3, <1>4, SameSets DEF SecondTier!PatchTier2

---------------------------------------------------------------------------
LEMMA SendTier2Maps ==
  ASSUME BothTiersInv, SendFewTier1 \/ SendMoreTier1 \/ SendNTier1 \/ SendTier2
  PROVE  SecondTier!SendTier2 /\ SuperSendsFit(P, code')
  <1> DEFINE yes == TRUE
             no == FALSE
  <1>1. /\ \/ Dispatch1({"send_1", "send_2"}) \/ Dispatch1({"send_3", "send_4"})
           \/ Dispatch1({"send_n"}) \/ Dispatch2(Sends)
        /\ Send(no) \/ Send(yes)
        /\ SameCode \/ IncrCount
    BY Zenon DEF SendFewTier1, SendMoreTier1, SendNTier1, SendTier2
  <1> HIDE DEF yes, no
  <1>2. outcome = Running /\ bc \in Sends /\ UNCHANGED program /\ SecondTier!Dispatch2(Sends)
    <2>1. CASE Dispatch1({"send_1", "send_2"})
      BY <2>1, AsDispatched DEF Sends, SecondTier!Dispatch2
    <2>2. CASE Dispatch1({"send_3", "send_4"})
      BY <2>2, AsDispatched DEF Sends, SecondTier!Dispatch2
    <2>3. CASE Dispatch1({"send_n"})
      BY <2>3, AsDispatched DEF Sends, SecondTier!Dispatch2
    <2>4. CASE Dispatch2(Sends)
      BY <2>4, AsDispatched
    <2> QED BY <1>1, <2>1, <2>2, <2>3, <2>4
  <1>3. SecondTier!SameCode /\ SuperSendsFit(P, code')
    BY <1>1, <1>2, AsCounted
  <1>4. bc \in SendLike
    BY <1>2, SendingOps
  <1>5. SecondTier!Send(yes)
    BY <1>1, <1>2, <1>4, SendMaps
  <1>6. SecondTier!Send(TRUE)
    BY <1>5, Zenon DEF yes
  <1>7. SecondTier!Dispatch2(SecondTier!Sends)
    BY <1>2, SameSets
  <1> QED BY <1>3, <1>6, <1>7, Zenon DEF SecondTier!SendTier2

LEMMA SuperSendTier2Maps ==
  ASSUME BothTiersInv, SuperSendTier1 \/ SuperSendTier2
  PROVE  SecondTier!SuperSendTier2 /\ SuperSendsFit(P, code')
  <1> DEFINE ops == {"super_send"}
  <1>1. /\ Dispatch1(ops) \/ Dispatch2(ops)
        /\ \/ SuperSend(QuickSuperSendTier1(Arity[Selector]))
           \/ SuperSend(QuickSuperSendTier2(Arity[Selector]))
        /\ counts' = counts \/ counts' = Counted
    BY DEF SuperSendTier1, SuperSendTier2
  <1>2. outcome = Running /\ bc = "super_send" /\ UNCHANGED program /\ SecondTier!Dispatch2(ops)
    BY <1>1, AsDispatched
  <1>3. SuperSend(QuickHere)
    BY <1>1, <1>2, AtSuperSend DEF QuickHere
  <1>4. /\ SecondTier!SuperSend(SecondTier!QuickSuperSendTier2(Arity[SecondTier!Selector]))
        /\ SuperSendsFit(P, code')
    BY <1>2, <1>3, SuperSendMaps
  <1> QED BY <1>1, <1>2, <1>4, CountsErased DEF SecondTier!SuperSendTier2

LEMMA QSuperSendTier2Maps ==
  ASSUME BothTiersInv, QSuperSendTier1 \/ QSuperSendTier2
  PROVE  SecondTier!QSuperSendTier2 /\ SuperSendsFit(P, code')
  <1> DEFINE yes == bc # "q_super_send_n"
             no == FALSE
             ops == QuickSuperSends
  <1>1. /\ Dispatch1(ops) \/ Dispatch2(ops)
        /\ bc = "q_super_send_4" \/ SuperSendAgain(no) \/ SuperSendAgain(yes)
        /\ SameCode
    BY Zenon DEF QSuperSendTier1, QSuperSendTier2
  <1> HIDE DEF yes, no
  <1>2. outcome = Running /\ bc \in ops /\ UNCHANGED program /\ SecondTier!Dispatch2(ops)
    BY <1>1, AsDispatched
  <1>3. SecondTier!SameCode /\ SuperSendsFit(P, code')
    BY <1>1, <1>2, AsCounted
  <1>4. SecondTier!SuperSendAgain(yes)
    BY <1>1, <1>2, AtQuickSuperSend, SuperSendAgainMaps
  <1>5. SecondTier!SuperSendAgain(SecondTier!bc # "q_super_send_n")
    <2>1. SecondTier!bc = bc
      BY <1>2, SameInstruction
    <2> QED BY <1>4, <2>1, Zenon DEF yes
  <1>6. SecondTier!Dispatch2(SecondTier!QuickSuperSends)
    BY <1>2, SameSets
  <1> QED BY <1>3, <1>5, <1>6, Zenon DEF SecondTier!QSuperSendTier2

---------------------------------------------------------------------------
LEMMA ReturnTier2Maps ==
  ASSUME BothTiersInv, \/ ReturnLocalTier1 \/ ReturnLocalTier2
               \/ ReturnSelfTier1 \/ ReturnSelfTier2
  PROVE  /\ SecondTier!ReturnLocalTier2 \/ SecondTier!ReturnSelfTier2
         /\ SuperSendsFit(P, code')
  <1>0. Len(Erased(acts)) = Len(acts)
    BY ErasedFields DEF BothTiersInv
  <1>1. CASE ReturnLocalTier1 \/ ReturnLocalTier2
    <2> DEFINE ops == {"return_local"}
    <2>1. /\ Dispatch1(ops) \/ Dispatch2(ops)
          /\ AnswerFrom(Len(acts), FromTop(0))
          /\ SameCode \/ IncrCount
      BY <1>1 DEF ReturnLocalTier1, ReturnLocalTier2
    <2>2. outcome = Running /\ UNCHANGED program /\ SecondTier!Dispatch2(ops)
      BY <2>1, AsDispatched
    <2>3. SecondTier!SameCode /\ SuperSendsFit(P, code')
      BY <2>1, <2>2, AsCounted
    <2>4. Len(acts) \in 1..Len(acts)
      BY <2>2, RunningFits DEF BothTiersInv
    <2>5. SecondTier!AnswerFrom(Len(Erased(acts)), SecondTier!FromTop(0))
      BY <1>0, <2>1, <2>2, <2>4, AnswerFromMaps, SameOperands DEF BothTiersInv
    <2> QED BY <2>2, <2>3, <2>5 DEF SecondTier!ReturnLocalTier2, Erased
  <1>2. CASE ReturnSelfTier1 \/ ReturnSelfTier2
    <2> DEFINE ops == {"return_self"}
    <2>1. /\ Dispatch1(ops) \/ Dispatch2(ops)
          /\ AnswerFrom(Len(acts), top.frame[RcvrIdx + 1])
          /\ SameCode \/ IncrCount
      BY <1>2 DEF ReturnSelfTier1, ReturnSelfTier2
    <2>2. outcome = Running /\ UNCHANGED program /\ SecondTier!Dispatch2(ops)
      BY <2>1, AsDispatched
    <2>3. SecondTier!SameCode /\ SuperSendsFit(P, code')
      BY <2>1, <2>2, AsCounted
    <2>4. Len(acts) \in 1..Len(acts)
      BY <2>2, RunningFits DEF BothTiersInv
    <2>5. SecondTier!AnswerFrom(Len(Erased(acts)),
                                SecondTier!top.frame[SecondTier!RcvrIdx + 1])
      BY <1>0, <2>1, <2>2, <2>4, AnswerFromMaps, SameTop, SameNames DEF BothTiersInv
    <2> QED BY <2>2, <2>3, <2>5 DEF SecondTier!ReturnSelfTier2, Erased
  <1> QED BY <1>1, <1>2

LEMMA ReturnNonLocalTier2Maps ==
  ASSUME BothTiersInv, ReturnNonLocalTier1 \/ ReturnNonLocalTier2
  PROVE  SecondTier!ReturnNonLocalTier2 /\ SuperSendsFit(P, code')
  <1> DEFINE ops == {"return_non_local"}
  <1>1. (Dispatch1(ops) \/ Dispatch2(ops)) /\ ReturnNonLocal /\ (SameCode \/ IncrCount)
    BY DEF ReturnNonLocalTier1, ReturnNonLocalTier2
  <1>2. /\ outcome = Running /\ bc = "return_non_local" /\ UNCHANGED program
        /\ SecondTier!Dispatch2(ops)
    BY <1>1, AsDispatched
  <1>3. SecondTier!SameCode /\ SuperSendsFit(P, code')
    BY <1>1, <1>2, AsCounted
  <1>4. SecondTier!ReturnNonLocal
    BY <1>1, <1>2, ReturnNonLocalMaps
  <1> QED BY <1>2, <1>3, <1>4 DEF SecondTier!ReturnNonLocalTier2

LEMMA ReturnEscapedMaps ==
  ASSUME BothTiersInv, ReturnEscaped
  PROVE  SecondTier!ReturnEscaped /\ SuperSendsFit(P, code')
  <1>1. /\ outcome = Running /\ top.escaped /\ AnswerFrom(Len(acts), FromTop(0)) /\ SameCode
        /\ UNCHANGED program
    BY DEF ReturnEscaped
  <1>2. SecondTier!SameCode /\ SuperSendsFit(P, code')
    BY <1>1, AsCounted
  <1>3. Len(acts) \in 1..Len(acts) /\ Len(Erased(acts)) = Len(acts)
    BY <1>1, RunningFits, ErasedFields DEF BothTiersInv
  <1>4. SecondTier!AnswerFrom(Len(Erased(acts)), SecondTier!FromTop(0))
    BY <1>1, <1>3, AnswerFromMaps, SameOperands DEF BothTiersInv
  <1>5. SecondTier!top.escaped /\ outcome = SecondTier!Running
    BY <1>1, SameTop, SameProgram DEF BothTiersInv
  <1> QED BY <1>1, <1>2, <1>4, <1>5 DEF SecondTier!ReturnEscaped, Erased

LEMMA JumpTier2Maps ==
  ASSUME BothTiersInv, JumpTier1 \/ JumpTier2
  PROVE  SecondTier!JumpTier2 /\ SuperSendsFit(P, code')
  <1> DEFINE ops == {"jump"}
  <1>1. /\ Dispatch1(ops) \/ Dispatch2(ops)
        /\ JumpTo(top.pc + Offset)
        /\ SameCode \/ IncrCount
    BY DEF JumpTier1, JumpTier2
  <1>2. /\ outcome = Running /\ UNCHANGED program
        /\ SecondTier!Dispatch2(ops)
    BY <1>1, AsDispatched
  <1>3. SecondTier!SameCode /\ SuperSendsFit(P, code')
    BY <1>1, <1>2, AsCounted
  <1>4. SecondTier!JumpTo(SecondTier!top.pc + SecondTier!Offset)
    BY <1>1, <1>2, JumpToMaps, SameTop, SameOperands DEF BothTiersInv
  <1> QED BY <1>2, <1>3, <1>4, SameSets, SameNames DEF SecondTier!JumpTier2

LEMMA JumpOnBooleanTier2Maps ==
  ASSUME BothTiersInv, JumpOnBooleanTier1 \/ JumpOnBooleanTier2
  PROVE  SecondTier!JumpOnBooleanTier2 /\ SuperSendsFit(P, code')
  <1> DEFINE ops == (OnTrue \cup OnFalse) \cap ShortJumps
  <1>1. /\ Dispatch1(ops) \/ Dispatch2(ops)
        /\ JumpOnBoolean
        /\ SameCode \/ IncrCount
    BY DEF JumpOnBooleanTier1, JumpOnBooleanTier2
  <1>2. /\ outcome = Running /\ UNCHANGED program
        /\ SecondTier!Dispatch2(ops)
    BY <1>1, AsDispatched
  <1>3. SecondTier!SameCode /\ SuperSendsFit(P, code')
    BY <1>1, <1>2, AsCounted
  <1>4. SecondTier!JumpOnBoolean
    BY <1>1, <1>2, JumpOnBooleanMaps
  <1> QED BY <1>2, <1>3, <1>4, SameSets, SameNames DEF SecondTier!JumpOnBooleanTier2

LEMMA JumpBackwardTier2Maps ==
  ASSUME BothTiersInv, JumpBackwardTier1 \/ JumpBackwardTier2
  PROVE  SecondTier!JumpBackwardTier2 /\ SuperSendsFit(P, code')
  <1> DEFINE ops == {"jump_backward"}
  <1>1. /\ Dispatch1(ops) \/ Dispatch2(ops)
        /\ JumpTo(top.pc - Offset)
        /\ SameCode \/ IncrCount
    BY DEF JumpBackwardTier1, JumpBackwardTier2
  <1>2. /\ outcome = Running /\ UNCHANGED program
        /\ SecondTier!Dispatch2(ops)
    BY <1>1, AsDispatched
  <1>3. SecondTier!SameCode /\ SuperSendsFit(P, code')
    BY <1>1, <1>2, AsCounted
  <1>4. SecondTier!JumpTo(SecondTier!top.pc - SecondTier!Offset)
    BY <1>1, <1>2, JumpToMaps, SameTop, SameOperands DEF BothTiersInv
  <1> QED BY <1>2, <1>3, <1>4, SameSets, SameNames DEF SecondTier!JumpBackwardTier2

LEMMA JumpIfGreaterTier2Maps ==
  ASSUME BothTiersInv, JumpIfGreaterTier1 \/ JumpIfGreaterTier2
  PROVE  SecondTier!JumpIfGreaterTier2 /\ SuperSendsFit(P, code')
  <1> DEFINE ops == {"jump_if_greater"}
  <1>1. /\ Dispatch1(ops) \/ Dispatch2(ops)
        /\ JumpIfGreater
        /\ SameCode \/ IncrCount
    BY DEF JumpIfGreaterTier1, JumpIfGreaterTier2
  <1>2. /\ outcome = Running /\ UNCHANGED program
        /\ SecondTier!Dispatch2(ops)
    BY <1>1, AsDispatched
  <1>3. SecondTier!SameCode /\ SuperSendsFit(P, code')
    BY <1>1, <1>2, AsCounted
  <1>4. SecondTier!JumpIfGreater
    BY <1>1, <1>2, JumpIfGreaterMaps
  <1> QED BY <1>2, <1>3, <1>4, SameSets, SameNames DEF SecondTier!JumpIfGreaterTier2

LEMMA Jump2Tier2Maps ==
  ASSUME BothTiersInv, Jump2Tier1 \/ Jump2Tier2
  PROVE  SecondTier!Jump2Tier2 /\ SuperSendsFit(P, code')
  <1> DEFINE ops == {"jump2"}
  <1>1. /\ Dispatch1(ops) \/ Dispatch2(ops)
        /\ \/ JumpTo(top.pc + Offset)
           \/ Continue([top EXCEPT !.pc = @ + Offset, !.shielded = TRUE])
        /\ SameCode \/ IncrCount
    BY DEF Jump2Tier1, Jump2Tier2
  <1>2. /\ outcome = Running /\ UNCHANGED program
        /\ SecondTier!Dispatch2(ops)
    BY <1>1, AsDispatched
  <1>3. SecondTier!SameCode /\ SuperSendsFit(P, code')
    BY <1>1, <1>2, AsCounted
  <1>4. SecondTier!JumpTo(SecondTier!top.pc + SecondTier!Offset)
    BY <1>1, <1>2, JumpToMaps, ShieldingJumpMaps, SameTop, SameOperands DEF BothTiersInv
  <1> QED BY <1>2, <1>3, <1>4, SameSets, SameNames DEF SecondTier!Jump2Tier2

LEMMA Jump2OnBooleanTier2Maps ==
  ASSUME BothTiersInv, Jump2OnBooleanTier1 \/ Jump2OnBooleanTier2
  PROVE  SecondTier!Jump2OnBooleanTier2 /\ SuperSendsFit(P, code')
  <1> DEFINE ops == (OnTrue \cup OnFalse) \cap LongJumps
  <1>1. /\ Dispatch1(ops) \/ Dispatch2(ops)
        /\ JumpOnBoolean
        /\ SameCode \/ IncrCount
    BY DEF Jump2OnBooleanTier1, Jump2OnBooleanTier2
  <1>2. /\ outcome = Running /\ UNCHANGED program
        /\ SecondTier!Dispatch2(ops)
    BY <1>1, AsDispatched
  <1>3. SecondTier!SameCode /\ SuperSendsFit(P, code')
    BY <1>1, <1>2, AsCounted
  <1>4. SecondTier!JumpOnBoolean
    BY <1>1, <1>2, JumpOnBooleanMaps
  <1> QED BY <1>2, <1>3, <1>4, SameSets, SameNames DEF SecondTier!Jump2OnBooleanTier2

LEMMA Jump2IfGreaterTier2Maps ==
  ASSUME BothTiersInv, Jump2IfGreaterTier1 \/ Jump2IfGreaterTier2
  PROVE  SecondTier!Jump2IfGreaterTier2 /\ SuperSendsFit(P, code')
  <1> DEFINE ops == {"jump2_if_greater"}
  <1>1. /\ Dispatch1(ops) \/ Dispatch2(ops)
        /\ JumpIfGreater
        /\ SameCode \/ IncrCount
    BY DEF Jump2IfGreaterTier1, Jump2IfGreaterTier2
  <1>2. /\ outcome = Running /\ UNCHANGED program
        /\ SecondTier!Dispatch2(ops)
    BY <1>1, AsDispatched
  <1>3. SecondTier!SameCode /\ SuperSendsFit(P, code')
    BY <1>1, <1>2, AsCounted
  <1>4. SecondTier!JumpIfGreater
    BY <1>1, <1>2, JumpIfGreaterMaps
  <1> QED BY <1>2, <1>3, <1>4, SameSets, SameNames DEF SecondTier!Jump2IfGreaterTier2

LEMMA Jump2BackwardTier2Maps ==
  ASSUME BothTiersInv, Jump2BackwardTier1 \/ Jump2BackwardTier2
  PROVE  SecondTier!Jump2BackwardTier2 /\ SuperSendsFit(P, code')
  <1> DEFINE ops == {"jump2_backward"}
  <1>1. /\ Dispatch1(ops) \/ Dispatch2(ops)
        /\ JumpTo(top.pc - Offset)
        /\ SameCode \/ IncrCount
    BY DEF Jump2BackwardTier1, Jump2BackwardTier2
  <1>2. /\ outcome = Running /\ UNCHANGED program
        /\ SecondTier!Dispatch2(ops)
    BY <1>1, AsDispatched
  <1>3. SecondTier!SameCode /\ SuperSendsFit(P, code')
    BY <1>1, <1>2, AsCounted
  <1>4. SecondTier!JumpTo(SecondTier!top.pc - SecondTier!Offset)
    BY <1>1, <1>2, JumpToMaps, SameTop, SameOperands DEF BothTiersInv
  <1> QED BY <1>2, <1>3, <1>4, SameSets, SameNames DEF SecondTier!Jump2BackwardTier2

---------------------------------------------------------------------------
\* An activation that goes on in the other tier stays where it is.
LEMMA ContinueInTier2Maps ==
  ASSUME BothTiersInv, ContinueInTier2
  PROVE  UNCHANGED SecondTier!vars /\ SuperSendsFit(P, code')
  <1> DEFINE b == [top EXCEPT !.tier = 2]
  <1>1. /\ outcome = Running /\ UNCHANGED <<program, code, counts>> /\ Continue(b)
    BY AtDispatch1 DEF ContinueInTier2, SameCode
  <1>2. acts' = Append(Front(acts), b) /\ UNCHANGED <<heap, outcome>>
    BY <1>1 DEF Continue
  <1>3. InOneTier(b) = InOneTier(top)
    BY <1>1, OperandStackOfTop DEF BothTiersInv, InOneTier, ActivationFields
  <1> HIDE DEF b
  <1>4. Erased(acts') = Append(SecondTier!Front(Erased(acts)), InOneTier(top))
    BY <1>1, <1>2, <1>3, ContinuesAs DEF BothTiersInv
  <1>5. Append(Front(acts), top) = acts
    <2> DEFINE s == Append(Front(acts), top)
    <2>1. /\ IsSequence(acts) /\ Len(acts) \in Nat /\ Len(acts) > 0
          /\ IsSequence(Front(acts)) /\ Len(Front(acts)) = Len(acts) - 1
      BY <1>1, SameFront DEF BothTiersInv
    <2>2. /\ IsSequence(s) /\ Len(s) = Len(acts) /\ s[Len(acts)] = top
          /\ \A i \in 1..(Len(acts) - 1) : s[i] = Front(acts)[i]
      BY <2>1, AppendTo
    <2>3. \A i \in 1..(Len(acts) - 1) : Front(acts)[i] = acts[i]
      BY <2>1, SubSequence DEF Front
    <2> HIDE DEF s
    <2>4. \A i \in 1..Len(s) : s[i] = acts[i]
      BY <2>1, <2>2, <2>3 DEF top
    <2>5. s = acts
      BY <2>1, <2>2, <2>4, SameSequence
    <2> QED BY <2>5 DEF s
  <1>6. Erased(acts) = Append(SecondTier!Front(Erased(acts)), InOneTier(top))
    BY <1>1, <1>5, SameFront, ErasedAppend DEF BothTiersInv
  <1>7. Erased(acts') = Erased(acts)
    BY <1>4, <1>6
  <1>8. SecondTier!SameCode /\ SuperSendsFit(P, code')
    BY <1>1, AsCounted DEF SameCode
  <1> QED BY <1>1, <1>2, <1>7, <1>8, AbstractActs DEF SecondTier!vars,
     SecondTier!SameCode, heap

LEMMA StepMaps ==
  ASSUME BothTiersInv, Step
  PROVE  [SecondTier!Next]_SecondTier!vars /\ SuperSendsFit(P, code')
  <1>1. CASE ContinueInTier2
    BY <1>1, ContinueInTier2Maps
  <1>2. CASE ReturnEscaped
    BY <1>2, ReturnEscapedMaps DEF SecondTier!Next, SecondTier!Step
  <1>3. CASE \/ PushTier1 \/ PushTier2 \/ PushGlobalTier1 \/ PushGlobalTier2
             \/ PopTier1 \/ PopTier2 \/ IncOrDecTier1 \/ IncOrDecTier2
             \/ PatchTier1 \/ PatchTier2
    <2>1. /\ \/ SecondTier!PushTier2 \/ SecondTier!PushGlobalTier2 \/ SecondTier!PopTier2
             \/ SecondTier!IncOrDecTier2 \/ SecondTier!PatchTier2
          /\ SuperSendsFit(P, code')
      BY <1>3, PushTier2Maps, PushGlobalTier2Maps, PopTier2Maps, IncOrDecTier2Maps,
         PatchTier2Maps
    <2> QED BY <2>1 DEF SecondTier!Next, SecondTier!Step, SecondTier!InterpretTier2
  <1>4. CASE \/ SendFewTier1 \/ SendMoreTier1 \/ SendNTier1 \/ SendTier2
             \/ SuperSendTier1 \/ SuperSendTier2 \/ QSuperSendTier1 \/ QSuperSendTier2
    <2>1. /\ \/ SecondTier!SendTier2 \/ SecondTier!SuperSendTier2
             \/ SecondTier!QSuperSendTier2
          /\ SuperSendsFit(P, code')
      BY <1>4, SendTier2Maps, SuperSendTier2Maps, QSuperSendTier2Maps
    <2> QED BY <2>1 DEF SecondTier!Next, SecondTier!Step, SecondTier!InterpretTier2
  <1>5. CASE \/ ReturnLocalTier1 \/ ReturnLocalTier2 \/ ReturnSelfTier1 \/ ReturnSelfTier2
             \/ ReturnNonLocalTier1 \/ ReturnNonLocalTier2
    <2>1. /\ \/ SecondTier!ReturnLocalTier2 \/ SecondTier!ReturnSelfTier2
             \/ SecondTier!ReturnNonLocalTier2
          /\ SuperSendsFit(P, code')
      BY <1>5, ReturnTier2Maps, ReturnNonLocalTier2Maps
    <2> QED BY <2>1 DEF SecondTier!Next, SecondTier!Step, SecondTier!InterpretTier2
  <1>6. CASE \/ JumpTier1 \/ JumpTier2 \/ JumpOnBooleanTier1 \/ JumpOnBooleanTier2
             \/ JumpBackwardTier1 \/ JumpBackwardTier2
             \/ JumpIfGreaterTier1 \/ JumpIfGreaterTier2
    <2>1. /\ \/ SecondTier!JumpTier2 \/ SecondTier!JumpOnBooleanTier2
             \/ SecondTier!JumpBackwardTier2 \/ SecondTier!JumpIfGreaterTier2
          /\ SuperSendsFit(P, code')
      BY <1>6, JumpTier2Maps, JumpOnBooleanTier2Maps, JumpBackwardTier2Maps,
         JumpIfGreaterTier2Maps
    <2> QED BY <2>1 DEF SecondTier!Next, SecondTier!Step, SecondTier!InterpretTier2
  <1>7. CASE \/ Jump2Tier1 \/ Jump2Tier2 \/ Jump2OnBooleanTier1 \/ Jump2OnBooleanTier2
             \/ Jump2IfGreaterTier1 \/ Jump2IfGreaterTier2
             \/ Jump2BackwardTier1 \/ Jump2BackwardTier2
    <2>1. /\ \/ SecondTier!Jump2Tier2 \/ SecondTier!Jump2OnBooleanTier2
             \/ SecondTier!Jump2IfGreaterTier2 \/ SecondTier!Jump2BackwardTier2
          /\ SuperSendsFit(P, code')
      BY <1>7, Jump2Tier2Maps, Jump2OnBooleanTier2Maps, Jump2IfGreaterTier2Maps,
         Jump2BackwardTier2Maps
    <2> QED BY <2>1 DEF SecondTier!Next, SecondTier!Step, SecondTier!InterpretTier2
  <1> QED BY <1>1, <1>2, <1>3, <1>4, <1>5, <1>6, <1>7 DEF Step, InterpretTier1,
     InterpretTier2

\* A step keeps the invariant and is a step of the second tier alone.
LEMMA NextMaps ==
  ASSUME BothTiersInv, [Next]_vars
  PROVE  [SecondTier!Next]_SecondTier!vars /\ BothTiersInv'
  <1>1. Inv'
    BY NextInv DEF BothTiersInv
  <1>2. UNCHANGED program
    BY DEF Next, Step, Done, vars, InterpretTier1, InterpretTier2, ContinueInTier2,
       PushTier1, PushTier2, PushGlobalTier1, PushGlobalTier2, PopTier1, PopTier2,
       IncOrDecTier1, IncOrDecTier2, PatchTier1, PatchTier2, SendFewTier1, SendMoreTier1,
       SendNTier1, SendTier2, SuperSendTier1, SuperSendTier2, QSuperSendTier1,
       QSuperSendTier2, ReturnLocalTier1, ReturnLocalTier2, ReturnNonLocalTier1,
       ReturnNonLocalTier2, ReturnSelfTier1, ReturnSelfTier2, JumpTier1, JumpTier2,
       JumpOnBooleanTier1, JumpOnBooleanTier2, JumpBackwardTier1, JumpBackwardTier2,
       JumpIfGreaterTier1, JumpIfGreaterTier2, Jump2Tier1, Jump2Tier2,
       Jump2OnBooleanTier1, Jump2OnBooleanTier2, Jump2IfGreaterTier1, Jump2IfGreaterTier2,
       Jump2BackwardTier1, Jump2BackwardTier2, ReturnEscaped, Dispatch1, Dispatch2
  <1>3. [SecondTier!Next]_SecondTier!vars /\ SuperSendsFit(P, code')
    <2>1. CASE Step
      BY <2>1, StepMaps
    <2>2. CASE UNCHANGED vars
      <3>1. UNCHANGED <<program, code, counts, acts, inners, objects, globals, outcome>>
        BY <2>2 DEF vars
      <3>2. SecondTier!SameCode /\ SuperSendsFit(P, code')
        BY <3>1, AsCounted DEF SameCode
      <3>3. Erased(acts') = Erased(acts)
        BY <3>1
      <3> QED BY <3>1, <3>2, <3>3, AbstractActs DEF SecondTier!vars, SecondTier!SameCode
    <2> QED BY <2>1, <2>2 DEF Next, Done
  <1>4. BothTiersInv'
    BY <1>1, <1>2, <1>3, ProgramStays DEF BothTiersInv
  <1> QED BY <1>3, <1>4

---------------------------------------------------------------------------
(* The theorem.                                                            *)

\* The first state.
LEMMA InitBothTiers ==
  ASSUME Init, CompiledCodeIsVerified, SameEntryPoints(P)
  PROVE  BothTiersInv
  <1>1. Inv
    BY InitInv
  <1>2. code = [m \in DOMAIN P.methods |->
                  IF P.methods[m].kind = "bytecodes" THEN P.methods[m].code ELSE <<>>]
    BY DEF Init
  <1>3. ASSUME NEW m \in DOMAIN P.methods, P.methods[m].kind = "bytecodes"
        PROVE  SuperSendsFitIn(P.methods[m], code[m])
    <2>1. IsCode(P.methods[m])
      BY <1>3 DEF CompiledCodeIsVerified, IsVerified, CodeIsVerified, P
    <2>2. code[m] = P.methods[m].code
      BY <1>2, <1>3
    <2> QED BY <2>1, <2>2 DEF SuperSendsFitIn, IsCode
  <1>4. SuperSendsFit(P, code)
    BY <1>3 DEF SuperSendsFit
  <1> QED BY <1>1, <1>4 DEF BothTiersInv

LEMMA ErasedSingle ==
  ASSUME NEW a
  PROVE  Erased(<<a>>) = <<InOneTier(a)>>
  <1> DEFINE s == <<a>>
             one == InOneTier(a)
             t == <<one>>
  <1>1. IsSequence(s) /\ Len(s) = 1 /\ s[1] = a
    BY DEF IsSequence
  <1>2. IsSequence(t) /\ Len(t) = 1 /\ t[1] = one
    <2> HIDE DEF one
    <2> QED BY DEF IsSequence
  <1> HIDE DEF s, t
  <1>3. IsSequence(Erased(s)) /\ Len(Erased(s)) = 1 /\ Erased(s)[1] = one
    BY <1>1, ErasedIs
  <1> HIDE DEF one
  <1>4. Erased(s) = t
    BY <1>2, <1>3, SameSequence
  <1> QED BY <1>4 DEF s, t, one

LEMMA InitMaps ==
  ASSUME Init, CompiledCodeIsVerified, SameEntryPoints(P)
  PROVE  SecondTier!Init
  <1> DEFINE n == Entry(Len(P.entry.args) + 1)
             no == FALSE
             c == Call(<<"method", P.entry.method>>, <<"obj", 1>>, P.entry.args, n, no)
             a == Activation(c, IF NeedsInner(c) THEN 1 ELSE 0)
             same == SecondTier!Call(<<"method", SecondTier!P.entry.method>>, <<"obj", 1>>,
                                     SecondTier!P.entry.args,
                                     SecondTier!Entry(Len(SecondTier!P.entry.args) + 1), FALSE)
  <1>1. /\ program \in DOMAIN Programs
        /\ code = [m \in DOMAIN P.methods |->
                     IF P.methods[m].kind = "bytecodes" THEN P.methods[m].code ELSE <<>>]
        /\ counts = [m \in DOMAIN code |-> [i \in DOMAIN code[m] |-> 0]]
        /\ globals = P.globals
        /\ objects = <<[class |-> P.entry.class, fields |-> P.entry.fields]>>
        /\ outcome = Running
    BY DEF Init
  <1>2. acts = <<a>> /\ inners = IF NeedsInner(c) THEN <<InnerFor(c)>> ELSE <<>>
    BY Zenon DEF Init
  <1>3. Rewritten(P, code) = code
    <2>1. BothTiersInv
      BY InitBothTiers
    <2>2. /\ DOMAIN Rewritten(P, code) = DOMAIN code
          /\ \A m \in DOMAIN code : Rewritten(P, code)[m] = code[m]
      BY <2>1, SameMethods DEF BothTiersInv, Inv, P, CompiledCodeIsVerified
    <2>3. Rewritten(P, code) = [m \in DOMAIN code |-> Rewritten(P, code)[m]]
      BY DEF Rewritten
    <2>4. code = [m \in DOMAIN code |-> code[m]]
      BY <1>1
    <2> QED BY <2>2, <2>3, <2>4
  <1>4. [m \in DOMAIN counts |-> [i \in DOMAIN counts[m] |-> 0]]
          = [m \in DOMAIN code |-> [i \in DOMAIN code[m] |-> 0]]
    BY <1>1
  <1>5. same = c
    BY SameCalls, SameProgram, Zenon
  <1>6. SameCall(c, c)
    <2>1. DOMAIN c = CallFields
      BY DEF Call, CallFields
    <2> QED BY <2>1 DEF SameCall
  <1> HIDE DEF c, same
  <1>7. \A i : SecondTier!Activation(c, i) = InOneTier(Activation(c, i))
    BY <1>6, SameActivations
  <1>8. SecondTier!InnerFor(c) = InnerFor(c) /\ (SecondTier!NeedsInner(c) <=> NeedsInner(c))
    BY <1>6, SameActivations
  <1>9. Erased(acts) = <<SecondTier!Activation(same, IF SecondTier!NeedsInner(same) THEN 1 ELSE 0)>>
    <2>1. SecondTier!Activation(same, IF SecondTier!NeedsInner(same) THEN 1 ELSE 0) = InOneTier(a)
      BY <1>5, <1>7, <1>8
    <2> HIDE DEF a
    <2> QED BY <1>2, <2>1, ErasedSingle
  <1>10. inners = IF SecondTier!NeedsInner(same) THEN <<SecondTier!InnerFor(same)>> ELSE <<>>
    BY <1>2, <1>5, <1>8
  <1>11. /\ [m \in DOMAIN code |-> [i \in DOMAIN code[m] |-> AsTier2Writes(m, i)]] = code
         /\ [k \in DOMAIN acts |-> InOneTier(acts[k])] = Erased(acts)
    BY <1>3, AbstractCode, AbstractActs
  <1>12. /\ OneTier \in {OneTier}
         /\ code = [m \in DOMAIN SecondTier!P.methods |->
                      IF SecondTier!P.methods[m].kind = "bytecodes"
                      THEN SecondTier!P.methods[m].code ELSE <<>>]
         /\ globals = SecondTier!P.globals
         /\ objects = <<[class |-> SecondTier!P.entry.class, fields |-> SecondTier!P.entry.fields]>>
         /\ outcome = SecondTier!Running
    BY <1>1, SameProgram
  <1> QED BY <1>1, <1>4, <1>9, <1>10, <1>11, <1>12 DEF SecondTier!Init, same

(* What both tiers do together, moving activations from the first to the   *)
(* second whenever they like, the second does alone, step by step, for     *)
(* every program whose code is verified and none of whose calls the tiers  *)
(* treat differently: no trivial method of four arguments, no super send   *)
(* of four arguments (SameEntryPoints; tier_shifting.py).                  *)
THEOREM Refinement ==
  Spec /\ CompiledCodeIsVerified /\ SameEntryPoints(P) => ShiftsAreInvisible
  <1>1. Init /\ CompiledCodeIsVerified /\ SameEntryPoints(P) => BothTiersInv /\ SecondTier!Init
    BY InitBothTiers, InitMaps
  <1>2. BothTiersInv /\ [Next]_vars => BothTiersInv' /\ [SecondTier!Next]_SecondTier!vars
    BY NextMaps
  <1> QED BY <1>1, <1>2, PTL DEF Spec, ShiftsAreInvisible
============================================================================
