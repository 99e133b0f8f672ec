------------------------ MODULE TwoTierMachineProofs ------------------------
(***************************************************************************)
(* Proofs about the bytecode interpreters.                                 *)
(*                                                                         *)
(* The operators a state is made of.  Frames and inners, for methods with  *)
(* any number of arguments and locals: what the compiler computes as the   *)
(* place of a variable is where the interpreters put it when the           *)
(* activation starts, and no two variables share a place.  Whole numbers   *)
(* of any width: no operation leaves a machine integer that does not fit   *)
(* in a machine word, promotion to big integers loses nothing, and where   *)
(* the code checks nothing the operands that go wrong are exactly those    *)
(* named here.                                                             *)
(*                                                                         *)
(* The machine, for every program whose code is verified, every setting of *)
(* the tiers and every threshold: it stays on the instructions of its      *)
(* code, whatever it jumps over, returns to, rewrites or continues in the  *)
(* other tier, no operand stack grows beyond the size the compiler         *)
(* computed, and the walk that generates threaded code sees all of it.     *)
(*                                                                         *)
(* Its values, for every program whose scopes are verified as well: what   *)
(* is on a stack, in a variable, a field, a context or a global is a value *)
(* the program may see.  The invariant (ScopesInv) says which method every *)
(* context was made for, that the blocks in the hands of the program hang  *)
(* on the contexts their code counts on, and that the self of a method     *)
(* with fields is the object.                                              *)
(***************************************************************************)
EXTENDS VerifiedScopes, FiniteSetTheorems, SequenceTheorems, WellFoundedInduction, TLAPS

---------------------------------------------------------------------------
(* Counting flags.                                                         *)

LEMMA CountIsNatural ==
  ASSUME NEW out, NEW n \in Nat, NEW flag
  PROVE  CountUpTo(out, n, flag) \in Nat
  <1> DEFINE S == {j \in 1..n : out[j] = flag}
  <1>1. IsFiniteSet(1..n)
    BY FS_Interval
  <1>2. S \in SUBSET (1..n)
    OBVIOUS
  <1>3. IsFiniteSet(S)
    BY <1>1, <1>2, FS_Subset
  <1> QED
    BY <1>3, FS_CardinalityType DEF CountUpTo

LEMMA CountNone == ASSUME NEW out, NEW flag PROVE CountUpTo(out, 0, flag) = 0
  <1>1. {j \in 1..0 : out[j] = flag} = {}
    BY SMT
  <1> QED
    BY <1>1, FS_EmptySet DEF CountUpTo

\* A variable with the flag adds one.
LEMMA CountNext ==
  ASSUME NEW out, NEW n \in Nat, NEW flag
  PROVE  CountUpTo(out, n + 1, flag) =
           CountUpTo(out, n, flag) + (IF out[n + 1] = flag THEN 1 ELSE 0)
  <1> DEFINE S == {j \in 1..n : out[j] = flag}
             T == {j \in 1..(n + 1) : out[j] = flag}
  <1>1. IsFiniteSet(1..n)
    BY FS_Interval
  <1>2. S \in SUBSET (1..n)
    OBVIOUS
  <1>3. IsFiniteSet(S)
    BY <1>1, <1>2, FS_Subset
  <1>4. CASE out[n + 1] = flag
    <2>1. T = S \cup {n + 1}
      BY <1>4
    <2>2. n + 1 \notin S
      OBVIOUS
    <2>3. Cardinality(T) = Cardinality(S) + 1
      BY <1>3, <2>1, <2>2, FS_AddElement
    <2> QED
      BY <1>4, <2>3 DEF CountUpTo
  <1>5. CASE out[n + 1] # flag
    <2>1. T = S
      BY <1>5
    <2>2. Cardinality(S) \in Nat
      BY <1>3, FS_CardinalityType
    <2> QED
      BY <1>5, <2>1, <2>2 DEF CountUpTo
  <1> QED
    BY <1>4, <1>5

LEMMA CountMonotone ==
  ASSUME NEW out, NEW m \in Nat, NEW n \in Nat, m <= n, NEW flag
  PROVE  CountUpTo(out, m, flag) <= CountUpTo(out, n, flag)
  <1> DEFINE S == {j \in 1..m : out[j] = flag}
             T == {j \in 1..n : out[j] = flag}
  <1>1. IsFiniteSet(1..n)
    BY FS_Interval
  <1>2. T \in SUBSET (1..n) /\ S \in SUBSET T
    OBVIOUS
  <1>3. IsFiniteSet(T)
    BY <1>1, <1>2, FS_Subset
  <1>4. Cardinality(S) <= Cardinality(T)
    BY <1>2, <1>3, FS_Subset
  <1> QED
    BY <1>4 DEF CountUpTo

\* Of two variables with the flag, the first has fewer before it.
LEMMA CountStrict ==
  ASSUME NEW out, NEW n \in Nat, NEW i \in 1..n, NEW flag, out[i] = flag
  PROVE  /\ CountUpTo(out, i - 1, flag) + 1 <= CountUpTo(out, n, flag)
         /\ CountUpTo(out, i - 1, flag) \in Nat
  <1>1. i - 1 \in Nat /\ (i - 1) + 1 = i /\ i \in Nat /\ i <= n
    OBVIOUS
  <1>2. CountUpTo(out, i, flag) = CountUpTo(out, i - 1, flag) + 1
    BY <1>1, CountNext
  <1>3. CountUpTo(out, i, flag) <= CountUpTo(out, n, flag)
    BY <1>1, CountMonotone
  <1>4. CountUpTo(out, i - 1, flag) \in Nat
    BY <1>1, CountIsNatural
  <1> QED
    BY <1>2, <1>3, <1>4

---------------------------------------------------------------------------
(* Places.                                                                 *)

Flags == Seq(BOOLEAN)

\* "_separate_variables" gives two variables of one kind different places.
LEMMA IndexesDiffer ==
  ASSUME NEW out \in Flags, NEW frameOffset \in Int, NEW innerOffset \in Int,
         NEW i \in DOMAIN out, NEW j \in DOMAIN out, i # j, out[i] = out[j]
  PROVE  AccessIndexes(out, frameOffset, innerOffset)[i]
           # AccessIndexes(out, frameOffset, innerOffset)[j]
  <1>1. ASSUME NEW a \in DOMAIN out, NEW b \in DOMAIN out, a < b, out[a] = out[b]
        PROVE  /\ CountUpTo(out, a - 1, out[a]) < CountUpTo(out, b - 1, out[b])
               /\ CountUpTo(out, a - 1, out[a]) \in Nat
               /\ CountUpTo(out, b - 1, out[b]) \in Nat
    <2>1. b - 1 \in Nat /\ a \in 1..(b - 1)
      BY <1>1 DEF Flags
    <2>2. CountUpTo(out, a - 1, out[a]) + 1 <= CountUpTo(out, b - 1, out[a])
      BY <2>1, CountStrict
    <2>3. CountUpTo(out, a - 1, out[a]) \in Nat
      BY <2>1, CountStrict
    <2>4. CountUpTo(out, b - 1, out[b]) \in Nat
      BY <2>1, CountIsNatural
    <2> QED
      BY <1>1, <2>2, <2>3, <2>4
  <1>2. i < j \/ j < i
    BY DEF Flags
  <1>3. out[i] \in BOOLEAN
    BY DEF Flags
  <1> QED
    BY <1>1, <1>2, <1>3 DEF AccessIndexes

\* How many variables only the frame needs to hold, and how many the inner.
Kept(list) == CountUpTo(list, Len(list), FALSE)
Shared(list) == CountUpTo(list, Len(list), TRUE)

LEMMA KeptAndShared ==
  ASSUME NEW list \in Flags
  PROVE  Kept(list) \in Nat /\ Shared(list) \in Nat
  <1>1. Len(list) \in Nat
    BY DEF Flags
  <1> QED
    BY <1>1, CountIsNatural DEF Kept, Shared

\* The place of a variable is after the offset of its list and before the end.
LEMMA IndexBounds ==
  ASSUME NEW out \in Flags, NEW frameOffset \in Int, NEW innerOffset \in Int,
         NEW i \in DOMAIN out
  PROVE  LET idx == AccessIndexes(out, frameOffset, innerOffset)[i]
         IN /\ idx \in Int
            /\ out[i] = TRUE => innerOffset <= idx /\ idx < innerOffset + Shared(out)
            /\ out[i] = FALSE => frameOffset <= idx /\ idx < frameOffset + Kept(out)
  <1> DEFINE idx == AccessIndexes(out, frameOffset, innerOffset)[i]
             shared == CountUpTo(out, i - 1, TRUE)
             kept == CountUpTo(out, i - 1, FALSE)
  <1>1. Len(out) \in Nat /\ i \in 1..Len(out) /\ out[i] \in BOOLEAN
    BY DEF Flags
  <1>2. CASE out[i] = TRUE
    <2>1. idx = shared + innerOffset
      BY <1>2 DEF AccessIndexes
    <2>2. shared + 1 <= Shared(out) /\ shared \in Nat
      BY <1>1, <1>2, CountStrict DEF Shared
    <2>3. Shared(out) \in Nat
      BY KeptAndShared
    <2> HIDE DEF shared, idx
    <2>4. idx \in Int /\ innerOffset <= idx /\ idx < innerOffset + Shared(out)
      BY <2>1, <2>2, <2>3
    <2> QED
      BY <1>2, <2>4 DEF idx
  <1>3. CASE out[i] = FALSE
    <2>1. idx = kept + frameOffset
      BY <1>3 DEF AccessIndexes
    <2>2. kept + 1 <= Kept(out) /\ kept \in Nat
      BY <1>1, <1>3, CountStrict DEF Kept
    <2>3. Kept(out) \in Nat
      BY KeptAndShared
    <2> HIDE DEF kept, idx
    <2>4. idx \in Int /\ frameOffset <= idx /\ idx < frameOffset + Kept(out)
      BY <2>1, <2>2, <2>3
    <2> QED
      BY <1>3, <2>4 DEF idx
  <1> QED
    BY <1>1, <1>2, <1>3

---------------------------------------------------------------------------
(* What the compiler promises of frames.                                   *)

LEMMA Sizes ==
  ASSUME NEW args \in Flags, NEW locals \in Flags, NEW needsContext \in BOOLEAN
  PROVE  /\ SizeFrame(args, locals) = 2 + Kept(args) + Kept(locals)
         /\ Shared(args) + Shared(locals) > 0
              => SizeInner(args, locals, needsContext) = 2 + Shared(args) + Shared(locals)
  <1> DEFINE shared == Shared(args) + Shared(locals)
  <1>1. shared \in Nat
    BY KeptAndShared
  <1>2. SizeInner(args, locals, needsContext) =
          IF needsContext \/ shared > 0 THEN shared + 2 ELSE 0
    BY DEF SizeInner, Shared
  <1>3. SizeFrame(args, locals) = 2 + Kept(args) + Kept(locals)
    BY DEF SizeFrame, Kept
  <1>4. shared > 0 => SizeInner(args, locals, needsContext) = 2 + shared
    <2> HIDE DEF shared
    <2> QED
      BY <1>1, <1>2
  <1> QED
    BY <1>3, <1>4, KeptAndShared

\* Where arguments and locals are in their lists.
LEMMA ArgBounds ==
  ASSUME NEW args \in Flags, NEW i \in DOMAIN args
  PROVE  /\ ArgIndexes(args)[i] \in Int
         /\ args[i] = TRUE => /\ 2 <= ArgIndexes(args)[i]
                             /\ ArgIndexes(args)[i] < 2 + Shared(args)
         /\ args[i] = FALSE => /\ 2 <= ArgIndexes(args)[i]
                              /\ ArgIndexes(args)[i] < 2 + Kept(args)
  <1>1. 2 \in Int
    OBVIOUS
  <1> QED
    BY <1>1, IndexBounds DEF ArgIndexes, ArgOffset

LEMMA LocalBounds ==
  ASSUME NEW args \in Flags, NEW locals \in Flags, NEW i \in DOMAIN locals
  PROVE  /\ LocalIndexes(args, locals)[i] \in Int
         /\ locals[i] = TRUE =>
              /\ 2 + Shared(args) <= LocalIndexes(args, locals)[i]
              /\ LocalIndexes(args, locals)[i] < 2 + Shared(args) + Shared(locals)
         /\ locals[i] = FALSE =>
              /\ 2 + Kept(args) <= LocalIndexes(args, locals)[i]
              /\ LocalIndexes(args, locals)[i] < 2 + Kept(args) + Kept(locals)
  <1> DEFINE inFrame == 2 + Kept(args)
             inInner == 2 + Shared(args)
  <1>1. inFrame \in Int /\ inInner \in Int
    BY KeptAndShared
  <1>2. LocalIndexes(args, locals) = AccessIndexes(locals, inFrame, inInner)
    BY DEF LocalIndexes, ArgOffset, Kept, Shared
  <1> HIDE DEF inFrame, inInner
  <1>3. /\ LocalIndexes(args, locals)[i] \in Int
        /\ locals[i] = TRUE => /\ inInner <= LocalIndexes(args, locals)[i]
                              /\ LocalIndexes(args, locals)[i] < inInner + Shared(locals)
        /\ locals[i] = FALSE => /\ inFrame <= LocalIndexes(args, locals)[i]
                               /\ LocalIndexes(args, locals)[i] < inFrame + Kept(locals)
    BY <1>1, <1>2, IndexBounds
  <1> QED
    BY <1>3 DEF inFrame, inInner

\* The list a variable with this flag lives in.
SizeOf(args, locals, needsContext, flag) ==
  IF flag THEN SizeInner(args, locals, needsContext) ELSE SizeFrame(args, locals)

(* Every variable has a place of its own in the list its flag names: above  *)
(* the receiver, before the end, the arguments before the locals            *)
(* (prepare_frame).                                                         *)
THEOREM PlacesFit ==
  ASSUME NEW args \in Flags, NEW locals \in Flags, NEW needsContext \in BOOLEAN
  PROVE  /\ \A i \in DOMAIN args :
              ArgIndexes(args)[i] \in
                ArgOffset .. SizeOf(args, locals, needsContext, args[i]) - 1
         /\ \A i \in DOMAIN locals :
              LocalIndexes(args, locals)[i] \in
                ArgOffset .. SizeOf(args, locals, needsContext, locals[i]) - 1
  <1> USE DEF ArgOffset
  <1>1. /\ Kept(args) \in Nat /\ Shared(args) \in Nat
        /\ Kept(locals) \in Nat /\ Shared(locals) \in Nat
    BY KeptAndShared
  <1>2. ASSUME NEW i \in DOMAIN args
        PROVE  ArgIndexes(args)[i] \in
                 ArgOffset .. SizeOf(args, locals, needsContext, args[i]) - 1
    <2> DEFINE idx == ArgIndexes(args)[i]
    <2>1. idx \in Int
      BY ArgBounds
    <2>2. CASE args[i] = TRUE
      <3>1. 2 <= idx /\ idx < 2 + Shared(args)
        BY <2>2, ArgBounds
      <3>2. SizeInner(args, locals, needsContext) =
              2 + Shared(args) + Shared(locals)
        BY <1>1, <2>1, <3>1, Sizes
      <3>3. idx \in 2 .. SizeInner(args, locals, needsContext) - 1
        BY <1>1, <2>1, <3>1, <3>2
      <3> QED
        BY <2>2, <3>3 DEF SizeOf
    <2>3. CASE args[i] = FALSE
      <3>1. 2 <= idx /\ idx < 2 + Kept(args)
        BY <2>3, ArgBounds
      <3>2. idx \in 2 .. SizeFrame(args, locals) - 1
        BY <1>1, <2>1, <3>1, Sizes
      <3> QED
        BY <2>3, <3>2 DEF SizeOf
    <2>4. args[i] \in BOOLEAN
      BY DEF Flags
    <2> QED
      BY <2>2, <2>3, <2>4
  <1>3. ASSUME NEW i \in DOMAIN locals
        PROVE  LocalIndexes(args, locals)[i] \in
                 ArgOffset .. SizeOf(args, locals, needsContext, locals[i]) - 1
    <2> DEFINE idx == LocalIndexes(args, locals)[i]
    <2>1. idx \in Int
      BY <1>1, LocalBounds
    <2>2. CASE locals[i] = TRUE
      <3>1. /\ 2 + Shared(args) <= idx
            /\ idx < 2 + Shared(args)
                       + Shared(locals)
        BY <1>1, <2>2, LocalBounds
      <3>2. SizeInner(args, locals, needsContext) =
              2 + Shared(args) + Shared(locals)
        BY <1>1, <2>1, <3>1, Sizes
      <3>3. idx \in 2 .. SizeInner(args, locals, needsContext) - 1
        BY <1>1, <2>1, <3>1, <3>2
      <3> QED
        BY <2>2, <3>3 DEF SizeOf
    <2>3. CASE locals[i] = FALSE
      <3>1. /\ 2 + Kept(args) <= idx
            /\ idx < 2 + Kept(args)
                       + Kept(locals)
        BY <1>1, <2>3, LocalBounds
      <3>2. idx \in 2 .. SizeFrame(args, locals) - 1
        BY <1>1, <2>1, <3>1, Sizes
      <3> QED
        BY <2>3, <3>2 DEF SizeOf
    <2>4. locals[i] \in BOOLEAN
      BY DEF Flags
    <2> QED
      BY <2>2, <2>3, <2>4
  <1> QED
    BY <1>2, <1>3

(* Two variables in the same list never share a place, two arguments, two    *)
(* locals, or an argument and a local: a write to one is not a write to      *)
(* another (prepare_frame).                                                  *)
THEOREM PlacesDiffer ==
  ASSUME NEW args \in Flags, NEW locals \in Flags
  PROVE  /\ \A i, j \in DOMAIN args :
              i # j /\ args[i] = args[j] => ArgIndexes(args)[i] # ArgIndexes(args)[j]
         /\ \A i, j \in DOMAIN locals :
              i # j /\ locals[i] = locals[j] =>
                LocalIndexes(args, locals)[i] # LocalIndexes(args, locals)[j]
         /\ \A i \in DOMAIN args, j \in DOMAIN locals :
              args[i] = locals[j] => ArgIndexes(args)[i] < LocalIndexes(args, locals)[j]
  <1> USE DEF ArgOffset
  <1>1. Kept(args) \in Nat /\ Shared(args) \in Nat
    BY KeptAndShared
  <1>2. ASSUME NEW i \in DOMAIN args, NEW j \in DOMAIN args, i # j, args[i] = args[j]
        PROVE  ArgIndexes(args)[i] # ArgIndexes(args)[j]
    BY <1>2, IndexesDiffer DEF ArgIndexes
  <1>3. ASSUME NEW i \in DOMAIN locals, NEW j \in DOMAIN locals, i # j,
               locals[i] = locals[j]
        PROVE  LocalIndexes(args, locals)[i] # LocalIndexes(args, locals)[j]
    <2>1. 2 + Kept(args) \in Int /\ 2 + Shared(args) \in Int
      BY <1>1
    <2>2. LocalIndexes(args, locals) = AccessIndexes(locals, 2 + Kept(args), 2 + Shared(args))
      BY DEF LocalIndexes, Kept, Shared
    <2> QED
      BY <1>3, <2>1, <2>2, IndexesDiffer
  <1>4. ASSUME NEW i \in DOMAIN args, NEW j \in DOMAIN locals, args[i] = locals[j]
        PROVE  ArgIndexes(args)[i] < LocalIndexes(args, locals)[j]
    <2>1. args[i] \in BOOLEAN
      BY DEF Flags
    <2>2. ArgIndexes(args)[i] \in Int /\ LocalIndexes(args, locals)[j] \in Int
      BY <1>1, ArgBounds, LocalBounds
    <2>3. CASE args[i] = TRUE
      <3>1. ArgIndexes(args)[i] < 2 + Shared(args)
        BY <2>3, ArgBounds
      <3>2. 2 + Shared(args) <= LocalIndexes(args, locals)[j]
        BY <1>1, <1>4, <2>3, LocalBounds
      <3> QED
        BY <1>1, <2>2, <3>1, <3>2
    <2>4. CASE args[i] = FALSE
      <3>1. ArgIndexes(args)[i] < 2 + Kept(args)
        BY <2>4, ArgBounds
      <3>2. 2 + Kept(args) <= LocalIndexes(args, locals)[j]
        BY <1>1, <1>4, <2>4, LocalBounds
      <3> QED
        BY <1>1, <2>2, <3>1, <3>2
    <2> QED
      BY <2>1, <2>3, <2>4
  <1> QED
    BY <1>2, <1>3, <1>4

---------------------------------------------------------------------------
(* Activations.                                                            *)

\* In the list for one flag, the values of the arguments with that flag are at
\* the places the compiler computed, and the rest is empty.
HoldsArguments(list, size, flags, values, flag, empty) ==
  /\ DOMAIN list = 1..size
  /\ \A i \in DOMAIN flags : flags[i] = flag /\ ArgIndexes(flags)[i] < size =>
       list[ArgIndexes(flags)[i] + 1] = values[i]
  /\ \A s \in 1..size :
       (\A i \in DOMAIN flags : flags[i] = flag => ArgIndexes(flags)[i] # s - 1)
         => list[s] = empty

LEMMA SlotsHoldArguments ==
  ASSUME NEW flags \in Flags, NEW values, DOMAIN values = DOMAIN flags,
         NEW flag \in BOOLEAN, NEW size \in Nat, NEW empty
  PROVE  HoldsArguments(ArgumentSlots(size, flags, values, flag, empty),
                        size, flags, values, flag, empty)
  <1> USE DEF ArgOffset
  <1> DEFINE kept == {i \in DOMAIN values : flags[i] = flag}
             slot(i) == ArgOffset + CountUpTo(flags, i - 1, flag) + 1
             slots == ArgumentSlots(size, flags, values, flag, empty)
  <1>1. slots = [s \in 1..size |-> IF \E i \in kept : slot(i) = s
                                   THEN values[CHOOSE i \in kept : slot(i) = s]
                                   ELSE empty]
    BY DEF ArgumentSlots
  <1>2. ASSUME NEW i \in kept
        PROVE  /\ slot(i) = ArgIndexes(flags)[i] + 1
               /\ ArgIndexes(flags)[i] \in Int /\ ArgIndexes(flags)[i] >= 2
    <2>1. i \in DOMAIN flags /\ flags[i] = flag
      OBVIOUS
    <2>2. ArgIndexes(flags)[i] = CountUpTo(flags, i - 1, flag) + 2
      BY <2>1 DEF ArgIndexes, AccessIndexes
    <2>3. CountUpTo(flags, i - 1, flag) \in Nat
      <3>1. Len(flags) \in Nat /\ i \in 1..Len(flags)
        BY <2>1 DEF Flags
      <3> QED
        BY <2>1, <3>1, CountStrict
    <2> QED
      BY <2>2, <2>3
  <1>3. ASSUME NEW i \in kept, NEW j \in kept, slot(i) = slot(j)
        PROVE  i = j
    <2>1. /\ i \in DOMAIN flags /\ j \in DOMAIN flags /\ flags[i] = flags[j]
      OBVIOUS
    <2>2. ArgIndexes(flags)[i] = ArgIndexes(flags)[j]
      BY <1>2, <1>3
    <2> QED
      BY <2>1, <2>2, IndexesDiffer DEF ArgIndexes
  <1>4. ASSUME NEW i \in DOMAIN flags, flags[i] = flag, ArgIndexes(flags)[i] < size
        PROVE  slots[ArgIndexes(flags)[i] + 1] = values[i]
    <2>1. i \in kept
      BY <1>4
    <2>2. slot(i) \in 1..size /\ slot(i) = ArgIndexes(flags)[i] + 1
      BY <1>2, <1>4, <2>1
    <2>3. (CHOOSE k \in kept : slot(k) = slot(i)) = i
      BY <1>3, <2>1
    <2>4. slots[slot(i)] = values[CHOOSE k \in kept : slot(k) = slot(i)]
      BY <1>1, <2>1, <2>2
    <2> HIDE DEF slots
    <2> QED
      BY <2>2, <2>3, <2>4
  <1>5. ASSUME NEW s \in 1..size,
               \A i \in DOMAIN flags : flags[i] = flag => ArgIndexes(flags)[i] # s - 1
        PROVE  slots[s] = empty
    <2>1. ~ \E i \in kept : slot(i) = s
      BY <1>2, <1>5
    <2> QED
      BY <1>1, <2>1
  <1>6. DOMAIN slots = 1..size
    BY <1>1
  <1> HIDE DEF slots
  <1> QED
    BY <1>4, <1>5, <1>6 DEF slots, HoldsArguments

\* Writing the first two slots leaves the others.
WithFirstTwo(slots, x, y) == [slots EXCEPT ![1] = x, ![RcvrIdx + 1] = y]

LEMMA FirstTwoSlots ==
  ASSUME NEW size \in Nat, size >= 2, NEW slots, DOMAIN slots = 1..size, NEW x, NEW y
  PROVE  /\ WithFirstTwo(slots, x, y)[1] = x
         /\ WithFirstTwo(slots, x, y)[2] = y
         /\ \A s \in 3..size : WithFirstTwo(slots, x, y)[s] = slots[s]
  <1>1. /\ 1 \in 1..size /\ 2 \in 1..size
        /\ \A s \in 3..size : s \in 1..size /\ s # 1 /\ s # 2
    OBVIOUS
  <1> DEFINE list == [slots EXCEPT ![1] = x, ![2] = y]
  <1>2. WithFirstTwo(slots, x, y) = list
    BY DEF WithFirstTwo, RcvrIdx
  <1>3. list[1] = x /\ list[2] = y
    BY <1>1
  <1>4. \A s \in 3..size : list[s] = slots[s]
    BY <1>1
  <1> HIDE DEF list
  <1> QED
    BY <1>2, <1>3, <1>4

\* Without an inner there is no variable that blocks use.
LEMMA NoInnerNoSharing ==
  ASSUME NEW args \in Flags, NEW locals \in Flags, NEW needsContext \in BOOLEAN
  PROVE  /\ SizeInner(args, locals, needsContext) \in Nat
         /\ SizeInner(args, locals, needsContext) # 0 =>
              SizeInner(args, locals, needsContext) >= 2
         /\ SizeInner(args, locals, needsContext) = 0 =>
              /\ \A i \in DOMAIN args : args[i] = FALSE
              /\ \A i \in DOMAIN locals : locals[i] = FALSE
  <1> DEFINE shared == Shared(args) + Shared(locals)
  <1>1. shared \in Nat /\ Shared(args) \in Nat /\ Shared(locals) \in Nat
    BY KeptAndShared
  <1>2. SizeInner(args, locals, needsContext) =
          IF needsContext \/ shared > 0 THEN shared + 2 ELSE 0
    BY DEF SizeInner, Shared
  <1>3. ASSUME NEW list \in Flags, NEW i \in DOMAIN list, list[i] = TRUE
        PROVE  Shared(list) > 0
    <2> DEFINE before == CountUpTo(list, i - 1, TRUE)
    <2>1. Len(list) \in Nat /\ i \in 1..Len(list)
      BY DEF Flags
    <2>2. before + 1 <= Shared(list) /\ before \in Nat
      BY <1>3, <2>1, CountStrict DEF Shared
    <2>3. Shared(list) \in Nat
      BY KeptAndShared
    <2> HIDE DEF before
    <2> QED
      BY <2>2, <2>3
  <1>4. /\ SizeInner(args, locals, needsContext) \in Nat
        /\ SizeInner(args, locals, needsContext) # 0 =>
             SizeInner(args, locals, needsContext) >= 2
        /\ SizeInner(args, locals, needsContext) = 0 => ~(shared > 0)
    <2> HIDE DEF shared
    <2> QED
      BY <1>1, <1>2
  <1>5. ASSUME ~(shared > 0)
        PROVE  ~(Shared(args) > 0) /\ ~(Shared(locals) > 0)
    BY <1>1, <1>5
  <1>6. ASSUME NEW list \in Flags, ~(Shared(list) > 0), NEW i \in DOMAIN list
        PROVE  list[i] = FALSE
    <2>1. list[i] \in BOOLEAN
      BY DEF Flags
    <2> QED
      BY <1>3, <1>6, <2>1
  <1> QED
    BY <1>4, <1>5, <1>6

(* When an activation starts, every argument is at the place the compiled   *)
(* accesses read, in the frame or in the inner, whichever entry point was   *)
(* used; every local is nil; and the receiver is in both lists              *)
(* (create_frame_1 to create_frame_args).                                   *)
THEOREM ArgumentsArrive ==
  ASSUME NEW args \in Flags, NEW locals \in Flags, NEW needsContext \in BOOLEAN,
         NEW values, DOMAIN values = DOMAIN args,
         NEW rcvr, NEW inner, NEW none, NEW onStack, NEW empty,
         inner = none <=> SizeInner(args, locals, needsContext) = 0
  PROVE  LET frame == NewFrame(SizeFrame(args, locals), args, rcvr, values, inner, none,
                               empty)
             slots == NewInner(SizeInner(args, locals, needsContext), args, rcvr, values,
                               onStack, empty)
         IN /\ frame[1] = inner /\ frame[2] = rcvr
            /\ inner # none => slots[1] = onStack /\ slots[2] = rcvr
            /\ \A i \in DOMAIN args :
                 /\ args[i] = FALSE => frame[ArgIndexes(args)[i] + 1] = values[i]
                 /\ args[i] = TRUE => /\ inner # none
                                     /\ slots[ArgIndexes(args)[i] + 1] = values[i]
            /\ \A i \in DOMAIN locals :
                 /\ locals[i] = FALSE => frame[LocalIndexes(args, locals)[i] + 1] = empty
                 /\ locals[i] = TRUE =>
                      /\ inner # none
                      /\ slots[LocalIndexes(args, locals)[i] + 1] = empty
  <1> DEFINE sf == SizeFrame(args, locals)
             si == SizeInner(args, locals, needsContext)
             inFrame == ArgumentSlots(sf, args, values, FALSE, empty)
             inInner == ArgumentSlots(si, args, values, TRUE, empty)
             frame == NewFrame(sf, args, rcvr, values, inner, none, empty)
             slots == NewInner(si, args, rcvr, values, onStack, empty)
  <1>1. /\ sf \in Nat /\ sf >= 2
        /\ si \in Nat /\ (si # 0 => si >= 2)
    <2>1. sf = 2 + Kept(args) + Kept(locals)
      BY Sizes
    <2>2. sf \in Nat /\ sf >= 2
      BY <2>1, KeptAndShared
    <2> QED
      BY <2>2, NoInnerNoSharing
  <1>2. si = 0 => [i \in DOMAIN values |-> FALSE] = args
    <2>1. ASSUME si = 0 PROVE \A i \in DOMAIN args : args[i] = FALSE
      BY <2>1, NoInnerNoSharing
    <2>2. args = [i \in DOMAIN args |-> args[i]]
      BY DEF Flags
    <2> QED
      BY <2>1, <2>2
  <1>3. frame = WithFirstTwo(inFrame, inner, rcvr)
    BY <1>2 DEF NewFrame, WithFirstTwo
  <1>4. slots = WithFirstTwo(inInner, onStack, rcvr)
    BY DEF NewInner, WithFirstTwo
  <1>5. HoldsArguments(inFrame, sf, args, values, FALSE, empty)
    BY <1>1, SlotsHoldArguments
  <1>6. HoldsArguments(inInner, si, args, values, TRUE, empty)
    BY <1>1, SlotsHoldArguments
  <1> HIDE DEF sf, si, inFrame, inInner, frame, slots
  <1>7. frame[1] = inner /\ frame[2] = rcvr /\ \A s \in 3..sf : frame[s] = inFrame[s]
    BY <1>1, <1>3, <1>5, FirstTwoSlots DEF HoldsArguments
  <1>8. ASSUME si # 0
        PROVE  slots[1] = onStack /\ slots[2] = rcvr /\ \A s \in 3..si : slots[s] = inInner[s]
    <2>1. si >= 2
      BY <1>1, <1>8
    <2> QED
      BY <1>1, <1>4, <1>6, <2>1, FirstTwoSlots DEF HoldsArguments
  <1>9. ASSUME NEW i \in DOMAIN args
        PROVE  /\ args[i] = FALSE => frame[ArgIndexes(args)[i] + 1] = values[i]
               /\ args[i] = TRUE => si # 0 /\ slots[ArgIndexes(args)[i] + 1] = values[i]
    <2> DEFINE idx == ArgIndexes(args)[i]
    <2>1. CASE args[i] = FALSE
      <3>1. idx \in 2..(sf - 1)
        BY <2>1, PlacesFit DEF SizeOf, ArgOffset, sf
      <3>2. inFrame[idx + 1] = values[i]
        BY <1>1, <1>5, <2>1, <3>1 DEF HoldsArguments
      <3>3. idx + 1 \in 3..sf
        BY <1>1, <3>1
      <3> QED
        BY <1>7, <2>1, <3>2, <3>3
    <2>2. CASE args[i] = TRUE
      <3>1. idx \in 2..(si - 1)
        BY <2>2, PlacesFit DEF SizeOf, ArgOffset, si
      <3>2. inInner[idx + 1] = values[i]
        BY <1>1, <1>6, <2>2, <3>1 DEF HoldsArguments
      <3>3. idx + 1 \in 3..si /\ si # 0
        BY <1>1, <3>1
      <3> QED
        BY <1>8, <2>2, <3>2, <3>3
    <2>3. args[i] \in BOOLEAN
      BY DEF Flags
    <2> QED
      BY <2>1, <2>2, <2>3
  <1>10. ASSUME NEW i \in DOMAIN locals
        PROVE  /\ locals[i] = FALSE => frame[LocalIndexes(args, locals)[i] + 1] = empty
               /\ locals[i] = TRUE =>
                    si # 0 /\ slots[LocalIndexes(args, locals)[i] + 1] = empty
    <2> DEFINE idx == LocalIndexes(args, locals)[i]
    <2>1. ASSUME NEW j \in DOMAIN args, args[j] = locals[i]
          PROVE  ArgIndexes(args)[j] # (idx + 1) - 1
      <3>1. ArgIndexes(args)[j] < idx
        BY <2>1, PlacesDiffer
      <3>2. ArgIndexes(args)[j] \in Int /\ idx \in Int
        BY ArgBounds, LocalBounds
      <3> HIDE DEF idx
      <3> QED
        BY <3>1, <3>2
    <2>2. CASE locals[i] = FALSE
      <3>1. idx \in 2..(sf - 1)
        BY <2>2, PlacesFit DEF SizeOf, ArgOffset, sf
      <3>2. idx + 1 \in 3..sf /\ idx + 1 \in 1..sf
        BY <1>1, <3>1
      <3>3. inFrame[idx + 1] = empty
        BY <1>5, <2>1, <2>2, <3>2 DEF HoldsArguments
      <3> QED
        BY <1>7, <2>2, <3>2, <3>3
    <2>3. CASE locals[i] = TRUE
      <3>1. idx \in 2..(si - 1)
        BY <2>3, PlacesFit DEF SizeOf, ArgOffset, si
      <3>2. idx + 1 \in 3..si /\ idx + 1 \in 1..si /\ si # 0
        BY <1>1, <3>1
      <3>3. inInner[idx + 1] = empty
        BY <1>6, <2>1, <2>3, <3>2 DEF HoldsArguments
      <3> QED
        BY <1>8, <2>3, <3>2, <3>3
    <2>4. locals[i] \in BOOLEAN
      BY DEF Flags
    <2> QED
      BY <2>2, <2>3, <2>4
  <1>11. inner # none <=> si # 0
    BY DEF si
  <1>12. /\ frame[1] = inner /\ frame[2] = rcvr
         /\ inner # none => slots[1] = onStack /\ slots[2] = rcvr
         /\ \A i \in DOMAIN args :
              /\ args[i] = FALSE => frame[ArgIndexes(args)[i] + 1] = values[i]
              /\ args[i] = TRUE => inner # none /\ slots[ArgIndexes(args)[i] + 1] = values[i]
         /\ \A i \in DOMAIN locals :
              /\ locals[i] = FALSE => frame[LocalIndexes(args, locals)[i] + 1] = empty
              /\ locals[i] = TRUE =>
                   inner # none /\ slots[LocalIndexes(args, locals)[i] + 1] = empty
    BY <1>7, <1>8, <1>9, <1>10, <1>11
  <1> QED
    BY <1>12 DEF frame, slots, sf, si

---------------------------------------------------------------------------
(* Representations.                                                        *)

LEMMA Width == MaxInt \in Nat /\ MaxInt > 0 /\ MinInt = -MaxInt - 1 /\ MinInt \in Int
  BY MaxIntAssumption DEF MinInt

LEMMA NumberShape ==
  ASSUME NEW v \in Numbers
  PROVE  /\ v = <<v[1], v[2]>> /\ v[2] \in Int /\ v[1] \in {"int", "big"}
         /\ v[1] = "int" => v[2] \in MachineInts
  BY Width DEF Numbers, MachineInts

LEMMA IntegerIsNumber == ASSUME NEW n \in MachineInts PROVE Integer(n) \in Numbers
  BY DEF Integer, Numbers

LEMMA BigIsNumber == ASSUME NEW n \in Int PROVE BigInteger(n) \in Numbers
  BY DEF BigInteger, Numbers

LEMMA CheckedIsNumber ==
  ASSUME NEW n \in Int
  PROVE  Ovfcheck(n) \in Numbers /\ Ovfcheck(n)[2] = n
  BY IntegerIsNumber, BigIsNumber DEF Ovfcheck, Integer, BigInteger

LEMMA PromotedIsNumber ==
  ASSUME NEW l, NEW r, NEW n \in Int
  PROVE  Promoted(l, r, n) \in Numbers /\ Promoted(l, r, n)[2] = n
  BY CheckedIsNumber, BigIsNumber DEF Promoted, BigInteger

---------------------------------------------------------------------------
(* Division.                                                               *)

LEMMA PositiveDivision ==
  ASSUME NEW n \in Int, NEW d \in Nat \ {0}
  PROVE  /\ n \div d \in Int /\ n % d \in Int
         /\ n = d * (n \div d) + (n % d)
         /\ 0 <= n % d /\ n % d < d
  OBVIOUS

LEMMA SignOfProduct == \A a, b \in Int : a * b \in Int /\ (-a) * b = -(a * b)
  OBVIOUS

LEMMA FloorDivision ==
  ASSUME NEW n \in Int, NEW d \in Int, d # 0
  PROVE  /\ FloorDiv(n, d) \in Int /\ FloorMod(n, d) \in Int
         /\ n = d * FloorDiv(n, d) + FloorMod(n, d)
         /\ d > 0 => 0 <= FloorMod(n, d) /\ FloorMod(n, d) < d
         /\ d < 0 => d < FloorMod(n, d) /\ FloorMod(n, d) <= 0
  <1>1. CASE d > 0
    <2>1. d \in Nat \ {0}
      BY <1>1
    <2>2. FloorDiv(n, d) = n \div d
      BY <1>1 DEF FloorDiv
    <2> DEFINE q == n \div d
    <2>3. q \in Int /\ n = d * q + (n % d) /\ 0 <= n % d /\ n % d < d /\ n % d \in Int
      BY <2>1, PositiveDivision
    <2>4. FloorMod(n, d) = n - d * q
      BY <2>2 DEF FloorMod
    <2>5. d * q \in Int
      BY <2>3
    <2> QED
      BY <1>1, <2>2, <2>3, <2>4, <2>5
  <1>2. CASE d < 0
    <2>1. -d \in Nat \ {0} /\ -n \in Int
      BY <1>2
    <2>2. FloorDiv(n, d) = (-n) \div (-d)
      BY <1>2 DEF FloorDiv
    <2> DEFINE q == (-n) \div (-d)
               m == (-n) % (-d)
    <2>3. q \in Int /\ -n = (-d) * q + m /\ 0 <= m /\ m < -d /\ m \in Int
      BY <2>1, PositiveDivision
    <2>4. FloorMod(n, d) = n - d * q
      BY <2>2 DEF FloorMod
    <2>5. d * q \in Int /\ (-d) * q = -(d * q)
      <3> HIDE DEF q
      <3> QED
        BY <2>3, SignOfProduct
    <2> HIDE DEF q, m
    <2> DEFINE p == d * q
    <2>6. p \in Int /\ -n = -p + m
      BY <2>3, <2>5
    <2>7. FloorMod(n, d) = n - p /\ d * FloorDiv(n, d) = p
      BY <2>2, <2>4 DEF q
    <2> HIDE DEF p
    <2> QED
      BY <1>2, <2>2, <2>3, <2>6, <2>7 DEF q
  <1> QED
    BY <1>1, <1>2

LEMMA ProductBound == \A a, b \in Nat : a >= 1 => a * b \in Nat /\ b <= a * b
  OBVIOUS

LEMMA ProductGrows == \A a, b \in Nat : a >= 2 /\ b >= 1 => b < a * b
  OBVIOUS

\* A quotient is not further from zero than the dividend.
LEMMA QuotientBound ==
  ASSUME NEW n \in Int, NEW d \in Nat \ {0}
  PROVE  /\ n \div d \in Int
         /\ n >= 0 => 0 <= n \div d /\ n \div d <= n
         /\ n < 0 => n <= n \div d /\ n \div d < 0
         /\ n >= 1 /\ d >= 2 => n \div d < n
  <1> DEFINE q == n \div d
             m == n % d
  <1>1. q \in Int /\ m \in Int /\ n = d * q + m /\ 0 <= m /\ m < d
    BY PositiveDivision
  <1> HIDE DEF q, m
  <1>2. d * q \in Int
    BY <1>1
  <1>3. q < 0 => d <= -(d * q) /\ -q <= -(d * q)
    <2> SUFFICES ASSUME q < 0 PROVE d <= -(d * q) /\ -q <= -(d * q)
      OBVIOUS
    <2>1. -q \in Nat /\ -q >= 1 /\ d \in Nat /\ d >= 1
      BY <1>1
    <2>2. -q <= d * (-q)
      BY <2>1, ProductBound
    <2>3. d <= (-q) * d
      BY <2>1, ProductBound
    <2>4. (-q) * d = -(q * d) /\ q * d = d * q /\ d * (-q) = (-q) * d
      BY <1>1, <2>1, SignOfProduct
    <2> QED
      BY <2>2, <2>3, <2>4
  <1>4. q >= 0 => q <= d * q
    BY <1>1, ProductBound
  <1>5. q >= 1 /\ d >= 2 => q < d * q
    BY <1>1, ProductGrows
  <1> DEFINE p == d * q
  <1>6. /\ p \in Int /\ n = p + m
        /\ q < 0 => d <= -p /\ -q <= -p
        /\ q >= 0 => q <= p
        /\ q >= 1 /\ d >= 2 => q < p
    BY <1>1, <1>2, <1>3, <1>4, <1>5
  <1> HIDE DEF p
  <1>7. /\ n >= 0 => 0 <= q /\ q <= n
        /\ n < 0 => n <= q /\ q < 0
        /\ n >= 1 /\ d >= 2 => q < n
    <2>1. CASE q < 0
      BY <1>1, <1>6, <2>1
    <2>2. CASE q = 0
      <3>1. p = 0
        BY <1>1, <2>2 DEF p
      <3> QED
        BY <1>1, <1>6, <2>2, <3>1
    <2>3. CASE q >= 1
      BY <1>1, <1>6, <2>3
    <2> QED
      BY <1>1, <2>1, <2>2, <2>3
  <1> QED
    BY <1>1, <1>7 DEF q

\* The one quotient of machine integers that is not a machine integer.
LEMMA QuotientFits ==
  ASSUME NEW n \in MachineInts, NEW d \in MachineInts, d # 0
  PROVE  FloorDiv(n, d) \in MachineInts <=> ~(n = MinInt /\ d = -1)
  <1>1. n \in Int /\ d \in Int /\ MinInt <= n /\ n <= MaxInt
    BY Width DEF MachineInts
  <1>2. CASE d > 0
    <2>1. d \in Nat \ {0}
      BY <1>1, <1>2
    <2>2. FloorDiv(n, d) = n \div d
      BY <1>2 DEF FloorDiv
    <2> DEFINE q == n \div d
    <2>3. q \in Int /\ (n >= 0 => 0 <= q /\ q <= n) /\ (n < 0 => n <= q /\ q < 0)
      BY <1>1, <2>1, QuotientBound
    <2> HIDE DEF q
    <2>4. q \in MachineInts
      BY <1>1, <2>3, Width DEF MachineInts
    <2> QED
      BY <1>1, <1>2, <2>2, <2>4 DEF q
  <1>3. CASE d < 0
    <2>1. -d \in Nat \ {0} /\ -n \in Int
      BY <1>1, <1>3
    <2>2. FloorDiv(n, d) = (-n) \div (-d)
      BY <1>1, <1>3 DEF FloorDiv
    <2> DEFINE q == (-n) \div (-d)
    <2>3. /\ q \in Int
          /\ -n >= 0 => 0 <= q /\ q <= -n
          /\ -n < 0 => -n <= q /\ q < 0
          /\ -n >= 1 /\ -d >= 2 => q < -n
      BY <2>1, QuotientBound
    <2>4. CASE d = -1
      <3>1. q = -n
        BY <1>1, <2>4
      <3> HIDE DEF q
      <3>2. q \in MachineInts <=> n # MinInt
        BY <1>1, <3>1, Width DEF MachineInts
      <3> QED
        BY <2>2, <2>4, <3>2 DEF q
    <2>5. CASE d # -1
      <3>1. -d >= 2
        BY <1>1, <1>3, <2>5
      <3> HIDE DEF q
      <3>2. q \in MachineInts
        BY <1>1, <2>3, <3>1, Width DEF MachineInts
      <3> QED
        BY <2>2, <2>5, <3>2 DEF q
    <2> QED
      BY <2>4, <2>5
  <1> QED
    BY <1>1, <1>2, <1>3

---------------------------------------------------------------------------
(* Results.                                                                *)

(* Sums, differences and products are exact, and stay machine integers as    *)
(* long as they fit and no big integer takes part (Integer.prim_add,         *)
(* prim_subtract, prim_multiply with ovfcheck, and those of BigInteger).     *)
THEOREM ResultsAreExact ==
  ASSUME NEW l \in Numbers, NEW r \in Numbers
  PROVE  /\ PrimAdd(l, r) \in Numbers /\ PrimAdd(l, r)[2] = l[2] + r[2]
         /\ PrimSubtract(l, r) \in Numbers /\ PrimSubtract(l, r)[2] = l[2] - r[2]
         /\ PrimMultiply(l, r) \in Numbers /\ PrimMultiply(l, r)[2] = l[2] * r[2]
         /\ l[1] = "int" /\ r[1] = "int" =>
              /\ PrimAdd(l, r)[1] = "int" <=> l[2] + r[2] \in MachineInts
              /\ PrimSubtract(l, r)[1] = "int" <=> l[2] - r[2] \in MachineInts
              /\ PrimMultiply(l, r)[1] = "int" <=> l[2] * r[2] \in MachineInts
  <1>1. l[2] \in Int /\ r[2] \in Int
    BY NumberShape
  <1>2. l[2] + r[2] \in Int /\ l[2] - r[2] \in Int /\ l[2] * r[2] \in Int
    BY <1>1
  <1>3. ASSUME NEW n \in Int
        PROVE  l[1] = "int" /\ r[1] = "int" =>
                 (Promoted(l, r, n)[1] = "int" <=> n \in MachineInts)
    BY DEF Promoted, Ovfcheck, Integer, BigInteger
  <1> QED
    BY <1>2, <1>3, PromotedIsNumber DEF PrimAdd, PrimSubtract, PrimMultiply

(* The division of whole numbers rounds down, the modulo has the sign of the *)
(* divisor, and together they give the dividend.  Besides the division by    *)
(* zero only the smallest machine integer divided by -1 has no answer: the   *)
(* code does not check it (Integer.prim_int_div, prim_modulo).               *)
THEOREM DivisionRoundsDown ==
  ASSUME NEW l \in Numbers, NEW r \in Numbers
  PROVE  /\ PrimIntDiv(l, r) = NoAnswer <=>
              \/ r[2] = 0
              \/ l = <<"int", MinInt>> /\ r = <<"int", -1>>
         /\ PrimIntDiv(l, r) # NoAnswer => PrimIntDiv(l, r) \in Numbers
         /\ PrimModulo(l, r) = NoAnswer <=> r[2] = 0
         /\ PrimModulo(l, r) # NoAnswer =>
              /\ PrimModulo(l, r) \in Numbers
              /\ r[2] > 0 => 0 <= PrimModulo(l, r)[2] /\ PrimModulo(l, r)[2] < r[2]
              /\ r[2] < 0 => r[2] < PrimModulo(l, r)[2] /\ PrimModulo(l, r)[2] <= 0
         /\ PrimIntDiv(l, r) # NoAnswer =>
              l[2] = r[2] * PrimIntDiv(l, r)[2] + PrimModulo(l, r)[2]
  <1> DEFINE n == l[2]
             d == r[2]
             q == FloorDiv(n, d)
             m == FloorMod(n, d)
  <1>1. /\ n \in Int /\ d \in Int
        /\ l = <<l[1], n>> /\ r = <<r[1], d>>
        /\ l[1] \in {"int", "big"} /\ r[1] \in {"int", "big"}
        /\ l[1] = "int" => n \in MachineInts
        /\ r[1] = "int" => d \in MachineInts
    BY NumberShape
  <1>2. CASE d = 0
    <2>1. PrimIntDiv(l, r) = NoAnswer /\ PrimModulo(l, r) = NoAnswer
      BY <1>2 DEF PrimIntDiv, PrimModulo
    <2> QED
      BY <1>2, <2>1
  <1>3. CASE d # 0
    <2>1. /\ q \in Int /\ m \in Int /\ n = d * q + m
          /\ d > 0 => 0 <= m /\ m < d
          /\ d < 0 => d < m /\ m <= 0
      BY <1>1, <1>3, FloorDivision
    <2>2. Integer(q) # NoAnswer /\ BigInteger(q) # NoAnswer /\ Integer(m) # NoAnswer
            /\ BigInteger(m) # NoAnswer
      BY DEF Integer, BigInteger, NoAnswer
    <2>3. CASE l[1] = "int" /\ r[1] = "int"
      <3>1. q \in MachineInts <=> ~(n = MinInt /\ d = -1)
        BY <1>1, <1>3, <2>3, QuotientFits
      <3>2. m \in MachineInts
        <4> HIDE DEF n, d, q, m
        <4> QED
          BY <1>1, <1>3, <2>1, <2>3, Width DEF MachineInts
      <3>3. PrimModulo(l, r) = Integer(m)
        BY <1>3, <2>3 DEF PrimModulo
      <3>4. PrimIntDiv(l, r) = IF q \in MachineInts THEN Integer(q) ELSE NoAnswer
        BY <1>3, <2>3 DEF PrimIntDiv
      <3>5. n = MinInt /\ d = -1 <=> l = <<"int", MinInt>> /\ r = <<"int", -1>>
        BY <1>1, <2>3
      <3>6. Integer(q)[2] = q /\ Integer(m)[2] = m
        BY DEF Integer
      <3>7. Integer(m) \in Numbers /\ (q \in MachineInts => Integer(q) \in Numbers)
        BY <3>2, IntegerIsNumber
      <3> HIDE DEF n, d, q, m
      <3>8. PrimIntDiv(l, r) = NoAnswer <=> l = <<"int", MinInt>> /\ r = <<"int", -1>>
        BY <2>2, <3>1, <3>4, <3>5
      <3> QED
        BY <1>3, <2>1, <2>2, <3>3, <3>4, <3>6, <3>7, <3>8 DEF n, d
    <2>4. CASE ~(l[1] = "int" /\ r[1] = "int")
      <3>1. PrimModulo(l, r) = BigInteger(m) /\ PrimIntDiv(l, r) = BigInteger(q)
        BY <1>3, <2>4 DEF PrimModulo, PrimIntDiv
      <3>2. ~(l = <<"int", MinInt>> /\ r = <<"int", -1>>)
        BY <2>4
      <3>3. BigInteger(q)[2] = q /\ BigInteger(m)[2] = m
        BY DEF BigInteger
      <3>4. BigInteger(q) \in Numbers /\ BigInteger(m) \in Numbers
        BY <2>1, BigIsNumber
      <3> HIDE DEF n, d, q, m
      <3> QED
        BY <1>3, <2>1, <2>2, <3>1, <3>2, <3>3, <3>4 DEF n, d
    <2> QED
      BY <2>3, <2>4
  <1> QED
    BY <1>2, <1>3

(* The compiler of the bytecode interpreters writes inc for + 1 and dec for  *)
(* - 1.  The first is the same for every number; the second for machine      *)
(* integers only: of big integers only 1 is decremented rightly, because     *)
(* BigInteger.prim_dec subtracts the number from 1.                          *)
THEOREM IncIsPlusOne ==
  ASSUME NEW v \in Numbers
  PROVE  /\ PrimInc(v) = PrimAdd(v, Integer(1))
         /\ PrimDec(v) = PrimSubtract(v, Integer(1)) <=> v[1] = "int" \/ v[2] = 1
  <1>1. v[2] \in Int /\ v[1] \in {"int", "big"}
    BY NumberShape
  <1>2. Integer(1)[1] = "int" /\ Integer(1)[2] = 1
    BY DEF Integer
  <1>3. CASE v[1] = "int"
    BY <1>1, <1>2, <1>3
      DEF PrimInc, PrimDec, PrimIncInteger, PrimDecInteger, PrimAdd, PrimSubtract, Promoted
  <1>4. CASE v[1] = "big"
    <2>1. PrimAdd(v, Integer(1)) = BigInteger(v[2] + 1)
      BY <1>2, <1>4 DEF PrimAdd, Promoted
    <2>2. PrimSubtract(v, Integer(1)) = BigInteger(v[2] - 1)
      BY <1>2, <1>4 DEF PrimSubtract, Promoted
    <2>3. PrimInc(v) = BigInteger(1 + v[2]) /\ PrimDec(v) = BigInteger(1 - v[2])
      BY <1>4 DEF PrimInc, PrimDec, PrimIncBigInteger, PrimDecBigInteger
    <2>4. 1 + v[2] = v[2] + 1
      BY <1>1
    <2>5. \A a, b : BigInteger(a) = BigInteger(b) <=> a = b
      BY DEF BigInteger
    <2>6. 1 - v[2] = v[2] - 1 <=> v[2] = 1
      BY <1>1
    <2> QED
      BY <1>4, <2>1, <2>2, <2>3, <2>4, <2>5, <2>6
  <1> QED
    BY <1>1, <1>3, <1>4

LEMMA MagnitudeIsNatural ==
  ASSUME NEW n \in Int
  PROVE  Magnitude(n) \in Nat /\ (Magnitude(n) = 0 <=> n = 0)
  BY DEF Magnitude

LEMMA TruncatedBounds ==
  ASSUME NEW n \in Int, NEW d \in Int, d # 0
  PROVE  /\ TruncatedMod(n, d) \in Int
         /\ Magnitude(TruncatedMod(n, d)) < Magnitude(d)
         /\ n > 0 => TruncatedMod(n, d) >= 0
         /\ n <= 0 => TruncatedMod(n, d) <= 0
  <1> DEFINE a == Magnitude(n)
             b == Magnitude(d)
             m == a % b
  <1>1. a \in Int /\ b \in Nat \ {0}
    BY MagnitudeIsNatural
  <1>2. m \in Int /\ 0 <= m /\ m < b
    <2> HIDE DEF a, b
    <2> QED
      BY <1>1, PositiveDivision
  <1>3. TruncatedMod(n, d) = IF n > 0 THEN m ELSE -m
    BY DEF TruncatedMod
  <1> HIDE DEF m, b
  <1> QED
    BY <1>1, <1>2, <1>3 DEF Magnitude, b

(* The remainder has the sign of the dividend, and is smaller than the       *)
(* divisor, for machine integers (Integer.prim_remainder).                   *)
THEOREM RemainderOfIntegers ==
  ASSUME NEW l \in Numbers, NEW r \in Numbers, l[1] = "int", r[2] # 0
  PROVE  /\ PrimRemainder(l, r) \in Numbers
         /\ Magnitude(PrimRemainder(l, r)[2]) < Magnitude(r[2])
         /\ l[2] > 0 => PrimRemainder(l, r)[2] >= 0
         /\ l[2] <= 0 => PrimRemainder(l, r)[2] <= 0
  <1> DEFINE m == TruncatedMod(l[2], r[2])
  <1>1. /\ l[2] \in Int /\ r[2] \in Int /\ r[1] \in {"int", "big"}
        /\ r[1] = "int" => r[2] \in MachineInts
    BY NumberShape
  <1>2. /\ m \in Int /\ Magnitude(m) < Magnitude(r[2])
        /\ l[2] > 0 => m >= 0
        /\ l[2] <= 0 => m <= 0
    BY <1>1, TruncatedBounds
  <1>3. PrimRemainder(l, r) = IF r[1] = "int" THEN Integer(m) ELSE BigInteger(m)
    BY DEF PrimRemainder, PrimRemainderInteger
  <1> HIDE DEF m
  <1>4. r[1] = "int" => m \in MachineInts
    BY <1>1, <1>2, Width DEF MachineInts, Magnitude
  <1>5. CASE r[1] = "int"
    <2>1. PrimRemainder(l, r) = Integer(m) /\ Integer(m)[2] = m
      BY <1>3, <1>5 DEF Integer
    <2> QED
      BY <1>2, <1>4, <1>5, <2>1, IntegerIsNumber
  <1>6. CASE r[1] = "big"
    <2>1. PrimRemainder(l, r) = BigInteger(m) /\ BigInteger(m)[2] = m
      BY <1>3, <1>6 DEF BigInteger
    <2> QED
      BY <1>2, <1>6, <2>1, BigIsNumber
  <1> QED
    BY <1>1, <1>5, <1>6

(* The remainder of two big integers is always zero: the dividend is divided *)
(* by itself (BigInteger.prim_remainder).                                    *)
THEOREM RemainderOfBigIntegers ==
  ASSUME NEW l \in Numbers, NEW r \in Numbers, l[1] = "big", r[1] = "big", l[2] # 0
  PROVE  PrimRemainder(l, r) = BigInteger(0)
  <1> DEFINE a == Magnitude(l[2])
  <1>1. l[2] \in Int /\ a \in Nat /\ a # 0
    BY NumberShape, MagnitudeIsNatural
  <1>2. a % a = 0
    <2> HIDE DEF a
    <2>1. /\ a \div a \in Int /\ a % a \in Int
          /\ a = a * (a \div a) + (a % a) /\ 0 <= a % a /\ a % a < a
      BY <1>1, PositiveDivision
    <2> QED
      BY <1>1, <2>1
  <1>3. TruncatedMod(l[2], l[2]) = 0
    BY <1>2 DEF TruncatedMod
  <1> QED
    BY <1>3 DEF PrimRemainder, PrimRemainderBigInteger

(* The absolute value has no answer for the smallest machine integer only,   *)
(* whose magnitude is not a machine integer (Integer.prim_abs).              *)
THEOREM AbsoluteValues ==
  ASSUME NEW v \in Numbers
  PROVE  /\ PrimAbs(v) = NoAnswer <=> v = <<"int", MinInt>>
         /\ PrimAbs(v) # NoAnswer =>
              PrimAbs(v) \in Numbers /\ PrimAbs(v)[2] = Magnitude(v[2])
  <1> DEFINE a == Magnitude(v[2])
  <1>1. /\ v = <<v[1], v[2]>> /\ v[2] \in Int /\ v[1] \in {"int", "big"}
        /\ v[1] = "int" => v[2] \in MachineInts
    BY NumberShape
  <1>2. a \in Int
    BY <1>1, MagnitudeIsNatural
  <1>3. /\ Integer(a) # NoAnswer /\ BigInteger(a) # NoAnswer
        /\ Integer(a)[2] = a /\ BigInteger(a)[2] = a
    BY DEF Integer, BigInteger, NoAnswer
  <1>4. CASE v[1] = "big"
    <2>1. PrimAbs(v) = BigInteger(a) /\ v # <<"int", MinInt>>
      BY <1>4 DEF PrimAbs
    <2> QED
      BY <1>2, <1>3, <2>1, BigIsNumber
  <1>5. CASE v[1] = "int"
    <2>1. a \in MachineInts <=> v[2] # MinInt
      BY <1>1, <1>5, Width DEF MachineInts, Magnitude
    <2>2. PrimAbs(v) = IF a \in MachineInts THEN Integer(a) ELSE NoAnswer
      BY <1>5 DEF PrimAbs
    <2>3. v = <<"int", MinInt>> <=> v[2] = MinInt
      BY <1>1, <1>5
    <2> HIDE DEF a
    <2> QED
      BY <1>3, <2>1, <2>2, <2>3, IntegerIsNumber DEF a
  <1> QED
    BY <1>1, <1>4, <1>5

---------------------------------------------------------------------------
(* Sequences of anything.                                                  *)

Elements(s) == {s[i] : i \in 1..Len(s)}

LEMMA SequenceType ==
  ASSUME NEW s, IsSequence(s)
  PROVE  s \in Seq(Elements(s)) /\ DOMAIN s = 1..Len(s) /\ Len(s) \in Nat
  <1>1. Len(s) \in Nat /\ s = [i \in 1..Len(s) |-> s[i]]
    BY DEF IsSequence
  <1>2. \A i \in 1..Len(s) : s[i] \in Elements(s)
    BY DEF Elements
  <1>3. s \in [1..Len(s) -> Elements(s)]
    BY <1>1, <1>2
  <1> QED BY <1>1, <1>3, SeqDef

LEMMA TypedSequence ==
  ASSUME NEW S, NEW s \in Seq(S)
  PROVE  IsSequence(s)
  BY DEF IsSequence

LEMMA EmptySequence == IsSequence(<<>>) /\ Len(<<>>) = 0
  BY DEF IsSequence

LEMMA AppendTo ==
  ASSUME NEW s, IsSequence(s), NEW e
  PROVE  /\ IsSequence(Append(s, e)) /\ Len(Append(s, e)) = Len(s) + 1
         /\ \A i \in 1..Len(s) : Append(s, e)[i] = s[i]
         /\ Append(s, e)[Len(s) + 1] = e
  <1> DEFINE S == Elements(s) \cup {e}
  <1>1. s \in Seq(S) /\ e \in S
    BY SequenceType
  <1>2. /\ Append(s, e) \in Seq(S) /\ Len(Append(s, e)) = Len(s) + 1
        /\ \A i \in 1..Len(s) : Append(s, e)[i] = s[i]
        /\ Append(s, e)[Len(s) + 1] = e
    BY <1>1, AppendProperties
  <1> QED BY <1>2, TypedSequence

LEMMA Dropped ==
  ASSUME NEW s, IsSequence(s), NEW n \in 0..Len(s)
  PROVE  /\ IsSequence(Drop(s, n)) /\ Len(Drop(s, n)) = Len(s) - n
         /\ \A i \in 1..(Len(s) - n) : Drop(s, n)[i] = s[i]
  <1>1. s \in Seq(Elements(s)) /\ Len(s) \in Nat
    BY SequenceType
  <1>2. Len(s) - n \in 0..Len(s)
    BY <1>1
  <1>3. Drop(s, n) \in Seq(Elements(s))
    BY <1>1, <1>2 DEF Drop
  <1>4. Len(Drop(s, n)) = Len(s) - n /\ \A i \in 1..(Len(s) - n) : Drop(s, n)[i] = s[i]
    BY <1>1, <1>2 DEF Drop
  <1> QED BY <1>3, <1>4, TypedSequence

LEMMA Replaced ==
  ASSUME NEW s, IsSequence(s), NEW i \in 1..Len(s), NEW e
  PROVE  /\ IsSequence(ReplaceAt(s, i, e)) /\ Len(ReplaceAt(s, i, e)) = Len(s)
         /\ ReplaceAt(s, i, e)[i] = e
         /\ \A j \in 1..Len(s) : j # i => ReplaceAt(s, i, e)[j] = s[j]
  <1> DEFINE S == Elements(s) \cup {e}
  <1>1. s \in Seq(S) /\ e \in S /\ DOMAIN s = 1..Len(s)
    BY SequenceType
  <1>2. ReplaceAt(s, i, e) \in Seq(S) /\ Len(ReplaceAt(s, i, e)) = Len(s)
    BY <1>1 DEF ReplaceAt
  <1>3. ReplaceAt(s, i, e)[i] = e /\ \A j \in 1..Len(s) : j # i => ReplaceAt(s, i, e)[j] = s[j]
    BY <1>1 DEF ReplaceAt
  <1> QED BY <1>2, <1>3, TypedSequence

---------------------------------------------------------------------------
(* Stacks and activations.                                                 *)

LEMMA Harmless ==
  ASSUME NEW prog
  PROVE  /\ NamesAMethod(prog, Undefined) /\ NamesAMethod(prog, Nil)
         /\ \A b : NamesAMethod(prog, Bool(b))
         /\ \A n : NamesAMethod(prog, Integer(n)) /\ NamesAMethod(prog, BigInteger(n))
         /\ \A x : NamesAMethod(prog, <<"sym", x>>) /\ NamesAMethod(prog, <<"array", x>>)
         /\ \A x : NamesAMethod(prog, <<"int", x>>) /\ NamesAMethod(prog, <<"obj", x>>)
  BY DEF NamesAMethod, Undefined, NoAnswer, Nil, Bool, Integer, BigInteger

LEMMA ElementOf ==
  ASSUME NEW prog, NEW s, \A i \in DOMAIN s : NamesAMethod(prog, s[i])
  PROVE  \A i : NamesAMethod(prog, Element(s, i))
  BY Harmless DEF Element

LEMMA OnStack ==
  ASSUME NEW prog, NEW s, IsStack(prog, s)
  PROVE  \A i : NamesAMethod(prog, Element(s, i))
  BY ElementOf, SequenceType DEF IsStack

LEMMA Pushed ==
  ASSUME NEW prog, NEW s, IsStack(prog, s), NEW v, NamesAMethod(prog, v)
  PROVE  IsStack(prog, Append(s, v)) /\ Len(Append(s, v)) = Len(s) + 1
  <1>1. /\ IsSequence(Append(s, v)) /\ Len(Append(s, v)) = Len(s) + 1
        /\ \A i \in 1..Len(s) : Append(s, v)[i] = s[i]
        /\ Append(s, v)[Len(s) + 1] = v
    BY AppendTo DEF IsStack
  <1>2. Len(s) \in Nat
    BY SequenceType DEF IsStack
  <1>3. ASSUME NEW i \in 1..(Len(s) + 1) PROVE NamesAMethod(prog, Append(s, v)[i])
    BY <1>1, <1>2, <1>3 DEF IsStack
  <1> QED BY <1>1, <1>3 DEF IsStack

LEMMA Taken ==
  ASSUME NEW prog, NEW s, IsStack(prog, s), NEW n \in 0..Len(s)
  PROVE  IsStack(prog, Drop(s, n)) /\ Len(Drop(s, n)) = Len(s) - n
  <1>1. /\ IsSequence(Drop(s, n)) /\ Len(Drop(s, n)) = Len(s) - n
        /\ \A i \in 1..(Len(s) - n) : Drop(s, n)[i] = s[i]
    BY Dropped DEF IsStack
  <1>2. Len(s) \in Nat
    BY SequenceType DEF IsStack
  <1>3. ASSUME NEW i \in 1..(Len(s) - n) PROVE NamesAMethod(prog, Drop(s, n)[i])
    BY <1>1, <1>2, <1>3 DEF IsStack
  <1> QED BY <1>1, <1>3 DEF IsStack

LEMMA Answered ==
  ASSUME NEW prog, NEW s, IsStack(prog, s), Len(s) > 0, NEW v, NamesAMethod(prog, v)
  PROVE  IsStack(prog, PutOnTop(s, v)) /\ Len(PutOnTop(s, v)) = Len(s)
  <1>1. Len(s) \in Nat
    BY SequenceType DEF IsStack
  <1>2. IsStack(prog, Drop(s, 1)) /\ Len(Drop(s, 1)) = Len(s) - 1
    BY <1>1, Taken
  <1>3. /\ IsStack(prog, Append(Drop(s, 1), v))
        /\ Len(Append(Drop(s, 1), v)) = Len(Drop(s, 1)) + 1
    BY <1>2, Pushed
  <1> QED BY <1>1, <1>2, <1>3 DEF PutOnTop

\* An activation that is the same but for its place and its stack.
LEMMA MovedOn ==
  ASSUME NEW p, NEW a, ActivationFits(p, a), NEW b,
         DOMAIN b = DOMAIN a, b.m = a.m, b.frame = a.frame,
         b.pc \in DOMAIN Height(p, a.m),
         IsStack(Programs[p], b.stack), Len(b.stack) = Height(p, a.m)[b.pc]
  PROVE  ActivationFits(p, b)
  BY DEF ActivationFits

LEMMA CallsFit ==
  ASSUME NEW p, NEW calls, ActivationsFit(p, calls)
  PROVE  /\ IsSequence(calls) /\ Len(calls) \in Nat
         /\ \A k \in 1..Len(calls) : ActivationFits(p, calls[k])
         /\ \A k \in 1..Len(calls) : k < Len(calls) => Len(calls[k].stack) > 0
  <1>1. IsSequence(calls)
    BY DEF ActivationsFit
  <1>2. Len(calls) \in Nat
    BY <1>1, SequenceType
  <1> QED BY <1>1, <1>2 DEF ActivationsFit

LEMMA AllButLast ==
  ASSUME NEW p, NEW calls, ActivationsFit(p, calls), calls # <<>>
  PROVE  /\ Len(calls) \in Nat /\ Len(calls) > 0 /\ ActivationFits(p, calls[Len(calls)])
         /\ ActivationsFit(p, Front(calls)) /\ Len(Front(calls)) = Len(calls) - 1
         /\ \A k \in 1..Len(Front(calls)) : Front(calls)[k] = calls[k]
         /\ \A k \in 1..Len(Front(calls)) : Len(Front(calls)[k].stack) > 0
  <1> DEFINE front == Front(calls)
  <1>1. IsSequence(calls) /\ Len(calls) \in Nat
    BY CallsFit
  <1>2. Len(calls) > 0
    <2>1. calls \in Seq(Elements(calls))
      BY <1>1, SequenceType
    <2> QED BY <1>1, <2>1, EmptySeq
  <1>3. front = Drop(calls, 1)
    BY DEF Front, Drop
  <1> HIDE DEF front
  <1>4. 1 \in 0..Len(calls)
    BY <1>1, <1>2
  <1>5. /\ IsSequence(front) /\ Len(front) = Len(calls) - 1
        /\ \A k \in 1..(Len(calls) - 1) : front[k] = calls[k]
    BY <1>1, <1>3, <1>4, Dropped
  <1>6. \A k \in 1..(Len(calls) - 1) : k \in 1..Len(calls) /\ k < Len(calls)
    BY <1>1
  <1>7. \A k \in 1..(Len(calls) - 1) :
          ActivationFits(p, front[k]) /\ Len(front[k].stack) > 0
    BY <1>5, <1>6, CallsFit
  <1>8. ActivationsFit(p, front)
    BY <1>5, <1>7 DEF ActivationsFit
  <1>9. Len(calls) \in 1..Len(calls)
    BY <1>1, <1>2
  <1>10. ActivationFits(p, calls[Len(calls)])
    BY <1>9, CallsFit
  <1> QED BY <1>1, <1>2, <1>5, <1>7, <1>8, <1>10 DEF front

LEMMA OneMore ==
  ASSUME NEW p, NEW calls, ActivationsFit(p, calls), NEW a, ActivationFits(p, a),
         \A k \in 1..Len(calls) : Len(calls[k].stack) > 0
  PROVE  /\ ActivationsFit(p, Append(calls, a)) /\ Append(calls, a) # <<>>
         /\ Len(Append(calls, a)) = Len(calls) + 1 /\ Append(calls, a)[Len(calls) + 1] = a
         /\ \A k \in 1..Len(calls) : Append(calls, a)[k] = calls[k]
  <1> DEFINE more == Append(calls, a)
  <1>1. IsSequence(calls) /\ Len(calls) \in Nat
    BY CallsFit
  <1>2. /\ IsSequence(more) /\ Len(more) = Len(calls) + 1
        /\ \A i \in 1..Len(calls) : more[i] = calls[i]
        /\ more[Len(calls) + 1] = a
    BY <1>1, AppendTo
  <1> HIDE DEF more
  <1>3. more # <<>>
    BY <1>1, <1>2, EmptySequence
  <1>4. \A k \in 1..(Len(calls) + 1) :
          k = Len(calls) + 1 \/ k \in 1..Len(calls)
    BY <1>1
  <1>5. \A k \in 1..(Len(calls) + 1) : ActivationFits(p, more[k])
    BY <1>2, <1>4, CallsFit
  <1>6. \A k \in 1..(Len(calls) + 1) : k < Len(calls) + 1 => Len(more[k].stack) > 0
    <2> TAKE k \in 1..(Len(calls) + 1)
    <2> HAVE k < Len(calls) + 1
    <2>1. k \in 1..Len(calls)
      BY <1>1
    <2> QED BY <1>2, <2>1
  <1>7. ActivationsFit(p, more)
    BY <1>2, <1>5, <1>6 DEF ActivationsFit
  <1> QED BY <1>2, <1>3, <1>7 DEF more

\* The running activation goes on as another one.
LEMMA Continued ==
  ASSUME NEW p, NEW calls, ActivationsFit(p, calls), calls # <<>>, NEW a, ActivationFits(p, a)
  PROVE  ActivationsFit(p, Append(Front(calls), a)) /\ Append(Front(calls), a) # <<>>
  <1>1. ActivationsFit(p, Front(calls))
    BY AllButLast
  <1>2. \A k \in 1..Len(Front(calls)) : Len(Front(calls)[k].stack) > 0
    BY AllButLast
  <1> QED BY <1>1, <1>2, OneMore

LEMMA Called ==
  ASSUME NEW p, NEW calls, ActivationsFit(p, calls), calls # <<>>,
         NEW a, ActivationFits(p, a), Len(a.stack) > 0, NEW b, ActivationFits(p, b)
  PROVE  /\ ActivationsFit(p, Append(Append(Front(calls), a), b))
         /\ Append(Append(Front(calls), a), b) # <<>>
  <1> DEFINE front == Front(calls)
             waiting == Append(front, a)
  <1>1. ActivationsFit(p, front) /\ \A k \in 1..Len(front) : Len(front[k].stack) > 0
    BY AllButLast
  <1>2. Len(front) \in Nat
    BY <1>1, CallsFit
  <1> HIDE DEF front
  <1>3. /\ ActivationsFit(p, waiting) /\ Len(waiting) = Len(front) + 1
        /\ waiting[Len(front) + 1] = a
        /\ \A k \in 1..Len(front) : waiting[k] = front[k]
    BY <1>1, OneMore
  <1> HIDE DEF waiting
  <1>4. \A k \in 1..(Len(front) + 1) : k = Len(front) + 1 \/ k \in 1..Len(front)
    BY <1>2
  <1>5. \A k \in 1..Len(waiting) : Len(waiting[k].stack) > 0
    BY <1>1, <1>3, <1>4
  <1>6. ActivationsFit(p, Append(waiting, b)) /\ Append(waiting, b) # <<>>
    BY <1>3, <1>5, OneMore
  <1> QED BY <1>6 DEF waiting, front

\* An activation gets the answer it waited for.
LEMMA AnswerReceived ==
  ASSUME NEW p, NEW a, ActivationFits(p, a), Len(a.stack) > 0,
         NEW v, NamesAMethod(Programs[p], v)
  PROVE  /\ ActivationFits(p, WithAnswer(a, v))
         /\ Len(WithAnswer(a, v).stack) = Len(a.stack)
  <1> DEFINE b == WithAnswer(a, v)
  <1>1. /\ DOMAIN b = DOMAIN a /\ b.m = a.m /\ b.frame = a.frame
        /\ b.pc = a.pc /\ b.stack = PutOnTop(a.stack, v)
    BY DEF ActivationFits, ActivationFields, WithAnswer
  <1> HIDE DEF b
  <1>2. IsStack(Programs[p], a.stack) /\ Len(a.stack) = Height(p, a.m)[a.pc]
        /\ a.pc \in DOMAIN Height(p, a.m)
    BY DEF ActivationFits
  <1>3. IsStack(Programs[p], b.stack) /\ Len(b.stack) = Len(a.stack)
    BY <1>1, <1>2, Answered
  <1>4. ActivationFits(p, b)
    BY <1>1, <1>2, <1>3, MovedOn
  <1> QED BY <1>3, <1>4 DEF b

\* The first n activations stay, and the last of them gets an answer.
AnswerTo(calls, n, v) == [SubSeq(calls, 1, n) EXCEPT ![n] = WithAnswer(@, v)]

LEMMA Returned ==
  ASSUME NEW p, NEW calls, ActivationsFit(p, calls), NEW n \in 1..(Len(calls) - 1),
         NEW v, NamesAMethod(Programs[p], v)
  PROVE  ActivationsFit(p, AnswerTo(calls, n, v)) /\ AnswerTo(calls, n, v) # <<>>
  <1>1. IsSequence(calls) /\ Len(calls) \in Nat
    BY CallsFit
  <1>2. /\ \A k \in 1..n : k \in 1..Len(calls) /\ k < Len(calls)
        /\ n \in 1..n
        /\ Len(calls) - n \in 0..Len(calls) /\ Len(calls) - (Len(calls) - n) = n
    BY <1>1
  <1> DEFINE front == SubSeq(calls, 1, n)
             a == WithAnswer(front[n], v)
             answered == ReplaceAt(front, n, a)
  <1>3. front = Drop(calls, Len(calls) - n)
    BY <1>2 DEF Drop
  <1>4. answered = AnswerTo(calls, n, v)
    BY DEF ReplaceAt, AnswerTo
  <1> HIDE DEF front
  <1>5. /\ IsSequence(front) /\ Len(front) = n
        /\ \A k \in 1..n : front[k] = calls[k]
    BY <1>1, <1>2, <1>3, Dropped
  <1> HIDE DEF a
  <1>6. n \in 1..Len(front)
    BY <1>2, <1>5
  <1>7. /\ IsSequence(answered) /\ Len(answered) = n /\ answered[n] = a
        /\ \A k \in 1..n : k # n => answered[k] = front[k]
    BY <1>5, <1>6, Replaced
  <1> HIDE DEF answered
  <1>8. \A k \in 1..n : ActivationFits(p, front[k]) /\ Len(front[k].stack) > 0
    BY <1>2, <1>5, CallsFit
  <1>9. ActivationFits(p, a)
    BY <1>2, <1>8, AnswerReceived DEF a
  <1>10. \A k \in 1..n : ActivationFits(p, answered[k])
    BY <1>7, <1>8, <1>9
  <1>11. \A k \in 1..n : k < n => Len(answered[k].stack) > 0
    BY <1>7, <1>8
  <1>12. ActivationsFit(p, answered)
    BY <1>7, <1>10, <1>11 DEF ActivationsFit
  <1>13. answered # <<>>
    BY <1>2, <1>7, EmptySequence
  <1> QED BY <1>4, <1>12, <1>13

---------------------------------------------------------------------------
(* Instructions.                                                           *)

LEMMA TheLongJumps ==
  LongJumps = {"jump2", "jump2_on_true_top_nil", "jump2_on_false_top_nil",
               "jump2_on_true_pop", "jump2_on_false_pop", "jump2_if_greater",
               "jump2_backward"}
  BY DEF LongJumps, Lengthened, ShortJumps

\* What an instruction is rewritten to is as long, takes and leaves as much
\* on the stack, and sends, jumps and returns when the other does.
Alike(op, other) ==
  /\ BytecodeLength(other) = BytecodeLength(op)
  /\ \A args \in Nat : BytecodeStackEffect(other, args) = BytecodeStackEffect(op, args)
  /\ \A args \in Nat : Takes(other, args) = Takes(op, args)
  /\ other \in SendLike <=> op \in SendLike
  /\ other \in Jumps \cup Returns => op = other

LEMMA VariantsAreAlike ==
  ASSUME NEW op, NEW other \in Variants(op)
  PROVE  Alike(op, other)
  <1>1. CASE op \in {"push_local", "push_argument"}
    <2>1. other \in {op} \cup PushFrame \cup PushInner
      BY <1>1 DEF Variants
    <2>2. BytecodeLength(other) = 3 /\ BytecodeLength(op) = 3
      BY <1>1, <2>1, TheLongJumps DEF BytecodeLength, PushFrame, PushInner, PopFrame,
           PopInner, Unresolved, Jumps, ShortJumps, Sends, QuickSuperSends, PushBlock
    <2>3. \A args \in Nat : /\ BytecodeStackEffect(other, args) = 1
                    /\ BytecodeStackEffect(op, args) = 1
      BY <1>1, <2>1 DEF BytecodeStackEffect, PopFrame, PopInner, PopX, PopField,
           Sends, QuickSuperSends, PushFrame, PushInner, PushField, PushBlock, PushConst,
           PushLiteral
    <2>4. \A args \in Nat : Takes(other, args) = 0 /\ Takes(op, args) = 0
      BY <1>1, <2>1 DEF Takes, SendLike, Sends, QuickSuperSends, PushFrame, PushInner,
           PopFrame, PopInner, PopX, PopField, OnTrue, OnFalse
    <2>5. other \notin SendLike /\ op \notin SendLike
      BY <1>1, <2>1 DEF SendLike, Sends, QuickSuperSends, PushFrame, PushInner
    <2>6. other \notin Jumps \cup Returns
      BY <1>1, <2>1, TheLongJumps DEF Jumps, ShortJumps, Returns, PushFrame, PushInner
    <2> QED BY <2>2, <2>3, <2>4, <2>5, <2>6 DEF Alike
  <1>2. CASE op \in {"pop_local", "pop_argument"}
    <2>1. other \in {op} \cup PopFrame \cup PopInner
      BY <1>2 DEF Variants
    <2>2. BytecodeLength(other) = 3 /\ BytecodeLength(op) = 3
      BY <1>2, <2>1, TheLongJumps DEF BytecodeLength, PushFrame, PushInner, PopFrame,
           PopInner, Unresolved, Jumps, ShortJumps, Sends, QuickSuperSends, PushBlock
    <2>3. \A args \in Nat : /\ BytecodeStackEffect(other, args) = -1
                    /\ BytecodeStackEffect(op, args) = -1
      BY <1>2, <2>1 DEF BytecodeStackEffect, PopFrame, PopInner, PopX, PopField,
           Sends, QuickSuperSends, PushFrame, PushInner, PushField, PushBlock, PushConst,
           PushLiteral
    <2>4. \A args \in Nat : Takes(other, args) = 1 /\ Takes(op, args) = 1
      BY <1>2, <2>1 DEF Takes, SendLike, Sends, QuickSuperSends, PopFrame, PopInner, PopX
    <2>5. other \notin SendLike /\ op \notin SendLike
      BY <1>2, <2>1 DEF SendLike, Sends, QuickSuperSends, PopFrame, PopInner
    <2>6. other \notin Jumps \cup Returns
      BY <1>2, <2>1, TheLongJumps DEF Jumps, ShortJumps, Returns, PopFrame, PopInner
    <2> QED BY <2>2, <2>3, <2>4, <2>5, <2>6 DEF Alike
  <1>3. CASE op = "nil_local"
    <2>1. other \in {op, "nil_frame", "nil_inner"}
      BY <1>3 DEF Variants
    <2>2. BytecodeLength(other) = 2 /\ BytecodeLength(op) = 2
      BY <1>3, <2>1, TheLongJumps DEF BytecodeLength, PushFrame, PushInner, PopFrame,
           PopInner, Unresolved, Jumps, ShortJumps, Sends, QuickSuperSends, PushBlock
    <2>3. \A args \in Nat : /\ BytecodeStackEffect(other, args) = 0
                    /\ BytecodeStackEffect(op, args) = 0
      BY <1>3, <2>1 DEF BytecodeStackEffect, PopFrame, PopInner, PopX, PopField,
           Sends, QuickSuperSends, PushFrame, PushInner, PushField, PushBlock, PushConst,
           PushLiteral
    <2>4. \A args \in Nat : Takes(other, args) = 0 /\ Takes(op, args) = 0
      BY <1>3, <2>1 DEF Takes, SendLike, Sends, QuickSuperSends,
           PopFrame, PopInner, PopX, PopField, OnTrue, OnFalse
    <2>5. other \notin SendLike /\ op \notin SendLike
      BY <1>3, <2>1 DEF SendLike, Sends, QuickSuperSends
    <2>6. other \notin Jumps \cup Returns
      BY <1>3, <2>1, TheLongJumps DEF Jumps, ShortJumps, Returns
    <2> QED BY <2>2, <2>3, <2>4, <2>5, <2>6 DEF Alike
  <1>4. CASE op = "super_send"
    <2>1. other \in {op} \cup QuickSuperSends
      BY <1>4 DEF Variants
    <2>2. BytecodeLength(other) = 2 /\ BytecodeLength(op) = 2
      BY <1>4, <2>1, TheLongJumps DEF BytecodeLength, PushFrame, PushInner, PopFrame,
           PopInner, Unresolved, Jumps, ShortJumps, Sends, QuickSuperSends, PushBlock
    <2>3. ASSUME NEW args \in Nat
          PROVE  BytecodeStackEffect(other, args) = BytecodeStackEffect(op, args)
      <3>1. BytecodeStackEffect(other, args) = 1 - args
        BY <1>4, <2>1 DEF BytecodeStackEffect, PopFrame, PopInner, PopX, PopField, Sends,
           QuickSuperSends, PushFrame, PushInner, PushField, PushBlock, PushConst, PushLiteral
      <3>2. BytecodeStackEffect(op, args) = 1 - args
        BY <1>4 DEF BytecodeStackEffect, PopFrame, PopInner, PopX, PopField, Sends,
           QuickSuperSends, PushFrame, PushInner, PushField, PushBlock, PushConst, PushLiteral
      <3> QED BY <3>1, <3>2
    <2>4. other \in SendLike /\ op \in SendLike
      BY <1>4, <2>1 DEF SendLike, Sends, QuickSuperSends
    <2>5. ASSUME NEW args \in Nat
          PROVE  Takes(other, args) = Takes(op, args)
      <3>1. Takes(other, args) = args
        BY <1>4, <2>1 DEF Takes, SendLike, Sends, QuickSuperSends, PopFrame, PopInner,
             PopX, PopField, OnTrue, OnFalse
      <3>2. Takes(op, args) = args
        BY <1>4 DEF Takes, SendLike, Sends, QuickSuperSends, PopFrame, PopInner,
             PopX, PopField, OnTrue, OnFalse
      <3> QED BY <3>1, <3>2
    <2>6. other \notin Jumps \cup Returns
      BY <1>4, <2>1, TheLongJumps DEF Jumps, ShortJumps, Returns, QuickSuperSends
    <2> QED BY <2>2, <2>3, <2>4, <2>5, <2>6 DEF Alike
  <1>5. CASE op \notin {"push_local", "push_argument", "pop_local", "pop_argument",
                        "nil_local", "super_send"}
    <2>1. other = op
      BY <1>5 DEF Variants
    <2> QED BY <2>1 DEF Alike
  <1> QED BY <1>1, <1>2, <1>3, <1>4, <1>5

---------------------------------------------------------------------------
(* The stack map along the ways the instructions lead.                     *)

LEMMA OnwardFlow ==
  ASSUME NEW M, NEW pc, NEW height, M.code[pc + 1] \notin Jumps \cup Returns
  PROVE  FlowsTo(M, pc, height) =
           {<<NextAt(M.code, pc),
              height + BytecodeStackEffect(M.code[pc + 1], ArgsAt(M, pc))>>}
  BY TheLongJumps DEF FlowsTo, Jumps, ShortJumps, Returns, BackwardJumps, LeavesNil,
     OnTrue, OnFalse

LEMMA JumpFlow ==
  ASSUME NEW M, NEW pc, NEW height,
         M.code[pc + 1] \in {"jump", "jump2"} \cup BackwardJumps
  PROVE  FlowsTo(M, pc, height) = {<<TargetAt(M.code, pc, JumpBase), height>>}
  BY DEF FlowsTo, Returns, BackwardJumps, LeavesNil, OnTrue, OnFalse

LEMMA NilFlow ==
  ASSUME NEW M, NEW pc, NEW height, M.code[pc + 1] \in LeavesNil
  PROVE  FlowsTo(M, pc, height) =
           {<<TargetAt(M.code, pc, JumpBase), height>>,
            <<NextAt(M.code, pc), height - 1>>}
  BY DEF FlowsTo, Returns, BackwardJumps, LeavesNil, OnTrue, OnFalse

LEMMA PopFlow ==
  ASSUME NEW M, NEW pc, NEW height, M.code[pc + 1] \in (OnTrue \cup OnFalse) \ LeavesNil
  PROVE  FlowsTo(M, pc, height) =
           {<<TargetAt(M.code, pc, JumpBase), height - 1>>,
            <<NextAt(M.code, pc), height - 1>>}
  BY DEF FlowsTo, Returns, BackwardJumps, LeavesNil, OnTrue, OnFalse

LEMMA LoopFlow ==
  ASSUME NEW M, NEW pc, NEW height,
         M.code[pc + 1] \in {"jump_if_greater", "jump2_if_greater"}
  PROVE  FlowsTo(M, pc, height) =
           {<<TargetAt(M.code, pc, JumpBase), height - 2>>,
            <<NextAt(M.code, pc), height>>}
  BY DEF FlowsTo, Returns, BackwardJumps, LeavesNil, OnTrue, OnFalse

LEMMA StackMapAlong ==
  ASSUME NEW M, NEW h, IsStackMap(M, h), NEW pc \in DOMAIN h,
         NEW to, NEW height, <<to, height>> \in FlowsTo(M, pc, h[pc])
  PROVE  to \in DOMAIN h /\ h[to] = height
  <1>1. \A e \in FlowsTo(M, pc, h[pc]) : e[1] \in DOMAIN h /\ h[e[1]] = e[2]
    BY DEF IsStackMap
  <1> QED BY <1>1

LEMMA StackMapAt ==
  ASSUME NEW M, NEW h, IsStackMap(M, h), NEW pc \in DOMAIN h
  PROVE  /\ h[pc] \in Nat /\ h[pc] <= M.maxStack /\ pc \in M.starts
         /\ ArgsAt(M, pc) \in Nat /\ Takes(M.code[pc + 1], ArgsAt(M, pc)) <= h[pc]
         /\ M.code[pc + 1] \in SendLike => ArgsAt(M, pc) > 0
  <1>1. M.maxStack \in Nat /\ h[pc] \in 0..M.maxStack /\ DOMAIN h \subseteq M.starts
    BY DEF IsStackMap
  <1>2. /\ ArgsAt(M, pc) \in Nat /\ Takes(M.code[pc + 1], ArgsAt(M, pc)) <= h[pc]
        /\ M.code[pc + 1] \in SendLike => ArgsAt(M, pc) > 0
    BY DEF IsStackMap
  <1> QED BY <1>1, <1>2

---------------------------------------------------------------------------
(* The machine at an instruction.                                          *)

Here == Method(top.m)
HeightHere == Height(program, top.m)
ArgsHere == ArgsAt(Here, top.pc)

LEMMA RunningFits ==
  ASSUME Inv, outcome = Running
  PROVE  /\ acts # <<>> /\ ActivationsFit(program, acts) /\ Len(acts) \in Nat
         /\ Len(acts) > 0 /\ ActivationFits(program, top)
  <1>1. acts # <<>> /\ ActivationsFit(program, acts)
    BY DEF Inv
  <1> QED BY <1>1, AllButLast DEF top

LEMMA AtInstruction ==
  ASSUME Inv, outcome = Running
  PROVE  /\ top.m \in DOMAIN P.methods /\ top.m \in DOMAIN code
         /\ Here.kind = "bytecodes" /\ IsCode(Here) /\ IsStackMap(Here, HeightHere)
         /\ CellsFit(Here, code[top.m])
         /\ \A pc \in Here.starts : OperandsExist(P, top.m, pc)
         /\ top.pc \in DOMAIN HeightHere /\ top.pc \in Here.starts
         /\ Len(top.stack) = HeightHere[top.pc] /\ Len(top.stack) \in Nat
         /\ IsStack(P, top.stack) /\ IsFrame(P, top.frame)
         /\ DOMAIN top = ActivationFields
  <1>1. ActivationFits(program, top)
    BY RunningFits
  <1>2. /\ top.m \in DOMAIN P.methods /\ Here.kind = "bytecodes"
        /\ top.pc \in DOMAIN HeightHere /\ Len(top.stack) = HeightHere[top.pc]
        /\ IsStack(P, top.stack) /\ IsFrame(P, top.frame)
        /\ DOMAIN top = ActivationFields
    BY <1>1 DEF ActivationFits, Here, HeightHere, Method, P
  <1>3. IsVerified(program) /\ CodeFits(P, code)
    BY DEF Inv, CompiledCodeIsVerified
  <1>4. CodeIsVerified(program, top.m)
    BY <1>2, <1>3 DEF IsVerified, Here, Method, P
  <1>5. /\ IsCode(Here) /\ IsStackMap(Here, HeightHere)
        /\ \A pc \in Here.starts : OperandsExist(P, top.m, pc)
    BY <1>4 DEF CodeIsVerified, Here, HeightHere, Method, P
  <1>6. top.m \in DOMAIN code /\ CellsFit(Here, code[top.m])
    BY <1>2, <1>3 DEF CodeFits, Here, Method
  <1>7. top.pc \in Here.starts /\ HeightHere[top.pc] \in Nat
    BY <1>2, <1>5, StackMapAt
  <1> QED BY <1>2, <1>5, <1>6, <1>7

\* The instruction as rewritten and as compiled.
Compiled == Here.code[top.pc + 1]

LEMMA AtCell ==
  ASSUME NEW M, IsCode(M), NEW cells, CellsFit(M, cells), NEW pc \in M.starts
  PROVE  /\ pc \in Nat /\ pc + 1 \in 1..Len(M.code)
         /\ cells[pc + 1] \in Variants(M.code[pc + 1])
         /\ NextAt(cells, pc) = NextAt(M.code, pc)
         /\ cells[pc + 1] = M.code[pc + 1] \/ M.code[pc + 1] = "super_send" =>
              \A i \in (pc + 2)..NextAt(M.code, pc) : cells[i] = M.code[i]
  <1>1. pc \in 0..(Len(M.code) - 1) /\ Len(M.code) \in Nat
    BY DEF IsCode, IsSequence
  <1>2. /\ cells[pc + 1] \in Variants(M.code[pc + 1])
        /\ cells[pc + 1] = M.code[pc + 1] \/ M.code[pc + 1] = "super_send" =>
             \A i \in (pc + 2)..NextAt(M.code, pc) : cells[i] = M.code[i]
    BY DEF CellsFit
  <1>3. BytecodeLength(cells[pc + 1]) = BytecodeLength(M.code[pc + 1])
    BY <1>2, VariantsAreAlike DEF Alike
  <1>4. NextAt(cells, pc) = NextAt(M.code, pc)
    BY <1>3 DEF NextAt
  <1>5. pc \in Nat /\ pc + 1 \in 1..Len(M.code)
    BY <1>1
  <1> QED BY <1>2, <1>4, <1>5

LEMMA CompiledAs ==
  ASSUME Inv, outcome = Running
  PROVE  /\ bc \in Variants(Compiled) /\ Alike(Compiled, bc)
         /\ NextPc = NextAt(Here.code, top.pc)
         /\ top.pc \in Nat /\ top.pc + 1 \in 1..Len(Here.code)
  <1>1. IsCode(Here) /\ CellsFit(Here, code[top.m]) /\ top.pc \in Here.starts
    BY AtInstruction
  <1>2. /\ bc \in Variants(Compiled) /\ NextPc = NextAt(Here.code, top.pc)
        /\ top.pc \in Nat /\ top.pc + 1 \in 1..Len(Here.code)
    BY <1>1, AtCell DEF bc, Compiled, NextPc, NextAt
  <1> QED BY <1>2, VariantsAreAlike

\* An instruction that goes on to the next one.
LEMMA Onward ==
  ASSUME Inv, outcome = Running, bc \notin Jumps \cup Returns
  PROVE  /\ NextPc \in DOMAIN HeightHere
         /\ HeightHere[NextPc] = Len(top.stack) + BytecodeStackEffect(bc, ArgsHere)
         /\ ArgsHere \in Nat /\ Takes(bc, ArgsHere) <= Len(top.stack)
         /\ bc \in SendLike => ArgsHere > 0
  <1>1. /\ IsStackMap(Here, HeightHere) /\ top.pc \in DOMAIN HeightHere
        /\ Len(top.stack) = HeightHere[top.pc] /\ Len(top.stack) \in Nat
    BY AtInstruction
  <1>2. Alike(Compiled, bc) /\ bc \in Variants(Compiled) /\ NextPc = NextAt(Here.code, top.pc)
    BY CompiledAs
  <1>3. /\ ArgsHere \in Nat /\ Takes(Compiled, ArgsHere) <= Len(top.stack)
        /\ Compiled \in SendLike => ArgsHere > 0
    BY <1>1, StackMapAt DEF Compiled, ArgsHere
  <1>4. Compiled \notin Jumps \cup Returns
    <2>1. CASE Compiled = bc
      BY <2>1
    <2>2. CASE Compiled \in {"push_local", "push_argument", "pop_local", "pop_argument",
                             "nil_local", "super_send"}
      BY <2>2, TheLongJumps DEF Jumps, ShortJumps, Returns
    <2> QED BY <1>2, <2>1, <2>2 DEF Variants
  <1>5. FlowsTo(Here, top.pc, Len(top.stack)) =
          {<<NextPc, Len(top.stack) + BytecodeStackEffect(Compiled, ArgsHere)>>}
    BY <1>2, <1>4, OnwardFlow DEF Compiled, ArgsHere
  <1>6. /\ NextPc \in DOMAIN HeightHere
        /\ HeightHere[NextPc] = Len(top.stack) + BytecodeStackEffect(Compiled, ArgsHere)
    <2> DEFINE height == Len(top.stack) + BytecodeStackEffect(Compiled, ArgsHere)
    <2>1. <<NextPc, height>> \in FlowsTo(Here, top.pc, HeightHere[top.pc])
      BY <1>1, <1>5
    <2> HIDE DEF height
    <2>2. NextPc \in DOMAIN HeightHere /\ HeightHere[NextPc] = height
      BY <1>1, <2>1, StackMapAlong
    <2> QED BY <2>2 DEF height
  <1>7. /\ BytecodeStackEffect(Compiled, ArgsHere) = BytecodeStackEffect(bc, ArgsHere)
        /\ Takes(Compiled, ArgsHere) = Takes(bc, ArgsHere)
        /\ Compiled \in SendLike <=> bc \in SendLike
    BY <1>2, <1>3 DEF Alike
  <1> QED BY <1>3, <1>6, <1>7

---------------------------------------------------------------------------
(* Values.  What a program gets to see is no block, or a block whose       *)
(* method exists.                                                          *)

LEMMA NumbersNameNoMethod ==
  ASSUME NEW prog, NEW l, NEW r
  PROVE  /\ NamesAMethod(prog, PrimAdd(l, r)) /\ NamesAMethod(prog, PrimSubtract(l, r))
         /\ NamesAMethod(prog, PrimMultiply(l, r)) /\ NamesAMethod(prog, PrimIntDiv(l, r))
         /\ NamesAMethod(prog, PrimModulo(l, r)) /\ NamesAMethod(prog, PrimRemainder(l, r))
         /\ NamesAMethod(prog, PrimAbs(l))
         /\ NamesAMethod(prog, PrimInc(l)) /\ NamesAMethod(prog, PrimDec(l))
  <1>1. \A n : NamesAMethod(prog, Ovfcheck(n)) /\ NamesAMethod(prog, Promoted(l, r, n))
    BY Harmless DEF Ovfcheck, Promoted
  <1>2. /\ NamesAMethod(prog, PrimAdd(l, r)) /\ NamesAMethod(prog, PrimSubtract(l, r))
        /\ NamesAMethod(prog, PrimMultiply(l, r))
    BY <1>1 DEF PrimAdd, PrimSubtract, PrimMultiply
  <1>3. NamesAMethod(prog, PrimIntDiv(l, r)) /\ NamesAMethod(prog, PrimModulo(l, r))
    BY Harmless DEF PrimIntDiv, PrimModulo, Undefined
  <1>4. NamesAMethod(prog, PrimRemainder(l, r))
    BY Harmless DEF PrimRemainder, PrimRemainderInteger, PrimRemainderBigInteger, Undefined
  <1>5. NamesAMethod(prog, PrimAbs(l))
    BY Harmless DEF PrimAbs, Undefined
  <1>6. NamesAMethod(prog, PrimInc(l)) /\ NamesAMethod(prog, PrimDec(l))
    BY <1>1, Harmless DEF PrimInc, PrimDec, PrimIncInteger, PrimDecInteger,
       PrimIncBigInteger, PrimDecBigInteger
  <1> QED BY <1>1, <1>2, <1>3, <1>4, <1>5, <1>6

LEMMA PrimitivesAnswer ==
  ASSUME NEW prog, NEW name \in KnownPrimitives \ (BlockPrimitives \cup SystemPrimitives),
         NEW rcvr, NEW args
  PROVE  NamesAMethod(prog, PrimitiveAnswer(name, rcvr, args))
  <1>1. \A b : NamesAMethod(prog, Bool(b))
    BY Harmless
  <1>2. NamesAMethod(prog, PrimAbs(rcvr)) /\ NamesAMethod(prog, NoAnswer)
    BY Harmless, NumbersNameNoMethod DEF Undefined
  <1>3. ASSUME IsNumber(rcvr), IsNumber(args[1]),
               name \in {"+", "-", "*", "/", "%", "rem:", "max:", "min:"}
        PROVE  NamesAMethod(prog, Computed(name, rcvr, args[1]))
    <2> DEFINE r == args[1]
    <2> HIDE DEF r
    <2>1. CASE name \in {"max:", "min:"}
      <3>1. NamesAMethod(prog, rcvr) /\ (IsNumber(r) => NamesAMethod(prog, r))
        BY <1>3 DEF IsNumber, NamesAMethod
      <3>2. IsNumber(r)
        BY <1>3 DEF r
      <3>3. NamesAMethod(prog, PrimMax(rcvr, r)) /\ NamesAMethod(prog, PrimMin(rcvr, r))
        BY <3>1, <3>2 DEF PrimMax, PrimMin
      <3>4. NamesAMethod(prog, Computed(name, rcvr, r))
        BY <2>1, <3>3 DEF Computed
      <3> QED BY <3>4 DEF r
    <2>2. CASE name \in {"+", "-", "*", "/", "%", "rem:"}
      <3>1. NamesAMethod(prog, Computed(name, rcvr, r))
        BY <2>2, NumbersNameNoMethod DEF Computed
      <3> QED BY <3>1 DEF r
    <2> QED BY <1>3, <2>1, <2>2
  <1>4. name \in {"not", "abs"} \cup Comparisons
                   \cup {"+", "-", "*", "/", "%", "rem:", "max:", "min:"}
    BY DEF KnownPrimitives
  <1> QED BY <1>1, <1>2, <1>3, <1>4 DEF PrimitiveAnswer

LEMMA OuterSelfIsNoBlock ==
  ASSUME NEW v
  PROVE  NamesAMethod(P, OuterSelf(v))
  <1>1. \A last : NamesAMethod(P, IF last[1] = "block" THEN Undefined ELSE last)
    BY Harmless DEF NamesAMethod
  <1> QED BY <1>1 DEF OuterSelf

LEMMA InnersHold ==
  ASSUME InnersFit(P, inners)
  PROVE  \A inner, i : NamesAMethod(P, Element(InnerOf(inner), i))
  <1> TAKE inner, i
  <1>1. CASE inner \in DOMAIN inners
    <2>1. inner \in 1..Len(inners)
      BY <1>1, SequenceType DEF InnersFit
    <2>2. \A j \in DOMAIN InnerOf(inner) : NamesAMethod(P, InnerOf(inner)[j])
      BY <1>1, <2>1 DEF InnersFit, InnerOf
    <2> QED BY <2>2, ElementOf
  <1>2. CASE inner \notin DOMAIN inners
    BY <1>2, Harmless DEF InnerOf, Element
  <1> QED BY <1>1, <1>2

LEMMA ObjectsHold ==
  ASSUME ObjectsFit(P, objects)
  PROVE  \A obj, idx : NamesAMethod(P, Field(obj, idx))
  <1> TAKE obj, idx
  <1>1. CASE obj[1] = "obj" /\ obj[2] \in DOMAIN objects
    <2>1. \A j \in DOMAIN objects[obj[2]].fields : NamesAMethod(P, objects[obj[2]].fields[j])
      BY <1>1 DEF ObjectsFit
    <2> QED BY <1>1, <2>1, ElementOf DEF Field
  <1>2. CASE ~(obj[1] = "obj" /\ obj[2] \in DOMAIN objects)
    BY <1>2, Harmless DEF Field
  <1> QED BY <1>1, <1>2

LEMMA GlobalsHold ==
  ASSUME NEW gs, GlobalsFit(P, gs)
  PROVE  \A name : NamesAMethod(P, Element(gs, name))
  BY ElementOf DEF GlobalsFit

---------------------------------------------------------------------------
(* Steps.                                                                  *)

LEMMA InvAfter ==
  ASSUME Inv, UNCHANGED program, outcome' = Running => acts' # <<>>,
         CodeFits(P, code'), ActivationsFit(program, acts'),
         InnersFit(P, inners'), ObjectsFit(P, objects'), GlobalsFit(P, globals')
  PROVE  Inv'
  <1>1. P' = P
    BY DEF P
  <1>2. CompiledCodeIsVerified'
    BY DEF Inv, CompiledCodeIsVerified
  <1>3. /\ CodeFits(P', code') /\ ActivationsFit(program', acts')
        /\ InnersFit(P', inners') /\ ObjectsFit(P', objects') /\ GlobalsFit(P', globals')
    BY <1>1
  <1> QED BY <1>2, <1>3 DEF Inv

LEMMA Stuttered ==
  ASSUME Inv, UNCHANGED vars
  PROVE  Inv'
  <1>1. /\ CodeFits(P, code) /\ ActivationsFit(program, acts)
        /\ InnersFit(P, inners) /\ ObjectsFit(P, objects) /\ GlobalsFit(P, globals)
        /\ outcome = Running => acts # <<>>
    BY DEF Inv
  <1>2. UNCHANGED <<program, code, acts, inners, objects, globals, outcome>>
    BY DEF vars
  <1> QED BY <1>1, <1>2, InvAfter

\* The machine stops.
LEMMA Stopped ==
  ASSUME Inv, UNCHANGED <<program, acts, heap>>, CodeFits(P, code'), outcome' # Running
  PROVE  Inv'
  <1>1. /\ ActivationsFit(program, acts)
        /\ InnersFit(P, inners) /\ ObjectsFit(P, objects) /\ GlobalsFit(P, globals)
    BY DEF Inv
  <1>2. UNCHANGED <<program, acts, inners, objects, globals>>
    BY DEF heap
  <1> QED BY <1>1, <1>2, InvAfter

LEMMA FailedIsNotRunning == \A why : Failed(why) # Running
  BY DEF Failed, Running

\* The running activation goes on as another one, and nothing else changes.
LEMMA Continues ==
  ASSUME Inv, outcome = Running, UNCHANGED <<program, code>>,
         NEW b, ActivationFits(program, b), Continue(b)
  PROVE  Inv'
  <1>1. acts' = Append(Front(acts), b) /\ UNCHANGED <<inners, objects, globals, outcome>>
    BY DEF Continue, heap
  <1>2. ActivationsFit(program, acts') /\ acts' # <<>>
    BY <1>1, RunningFits, Continued
  <1>3. /\ CodeFits(P, code)
        /\ InnersFit(P, inners) /\ ObjectsFit(P, objects) /\ GlobalsFit(P, globals)
    BY DEF Inv
  <1> QED BY <1>1, <1>2, <1>3, InvAfter

\* Another place in the same method.
LEMMA Goes ==
  ASSUME Inv, outcome = Running,
         NEW b, DOMAIN b = DOMAIN top, b.m = top.m, b.frame = top.frame,
         b.pc \in DOMAIN HeightHere, IsStack(P, b.stack), Len(b.stack) = HeightHere[b.pc]
  PROVE  ActivationFits(program, b)
  BY RunningFits, MovedOn DEF HeightHere, P

---------------------------------------------------------------------------
(* Calls.                                                                  *)

IsArguments(prog, args) ==
  IsSequence(args) /\ \A i \in 1..Len(args) : NamesAMethod(prog, args[i])
CallFits(prog, c) ==
  /\ DOMAIN c = {"inv", "rcvr", "args", "n", "tier2"}
  /\ IsInvokable(prog, c.inv)
  /\ NamesAMethod(prog, c.rcvr) /\ IsArguments(prog, c.args)

LEMMA SlotsOfCall ==
  ASSUME NEW prog, NEW size, NEW argInner, NEW args, NEW flag, IsArguments(prog, args)
  PROVE  /\ DOMAIN ArgumentSlots(size, argInner, args, flag, Nil) = 1..size
         /\ \A s \in 1..size :
              NamesAMethod(prog, ArgumentSlots(size, argInner, args, flag, Nil)[s])
  <1>1. \A i \in DOMAIN args : NamesAMethod(prog, args[i])
    BY SequenceType DEF IsArguments
  <1> QED BY <1>1, Harmless DEF ArgumentSlots

LEMMA FrameOfCall ==
  ASSUME NEW prog, NEW size \in Nat, size >= 2, NEW argInner, NEW rcvr, NEW args, NEW inner,
         NEW none, NamesAMethod(prog, rcvr), IsArguments(prog, args)
  PROVE  IsFrame(prog, NewFrame(size, argInner, rcvr, args, inner, none, Nil))
  <1> DEFINE flags == IF inner = none THEN [i \in DOMAIN args |-> FALSE] ELSE argInner
             slots == ArgumentSlots(size, flags, args, FALSE, Nil)
             frame == NewFrame(size, argInner, rcvr, args, inner, none, Nil)
  <1> HIDE DEF flags
  <1>1. DOMAIN slots = 1..size /\ \A s \in 1..size : NamesAMethod(prog, slots[s])
    BY SlotsOfCall
  <1>2. frame = [slots EXCEPT ![1] = inner, ![2] = rcvr]
    BY DEF NewFrame, RcvrIdx, flags
  <1> HIDE DEF slots, frame
  <1>3. /\ DOMAIN frame = 1..size /\ frame[2] = rcvr
        /\ \A i \in (1..size) \ {1, 2} : frame[i] = slots[i]
    BY <1>1, <1>2
  <1>4. IsFrame(prog, frame)
    BY <1>1, <1>3 DEF IsFrame
  <1> QED BY <1>4 DEF frame

LEMMA InnerOfCall ==
  ASSUME NEW prog, NEW size, NEW argInner, NEW rcvr, NEW args,
         NamesAMethod(prog, rcvr), IsArguments(prog, args)
  PROVE  \A i \in DOMAIN NewInner(size, argInner, rcvr, args, True, Nil) :
           NamesAMethod(prog, NewInner(size, argInner, rcvr, args, True, Nil)[i])
  <1> DEFINE slots == ArgumentSlots(size, argInner, args, TRUE, Nil)
             inner == NewInner(size, argInner, rcvr, args, True, Nil)
  <1>1. DOMAIN slots = 1..size /\ \A s \in 1..size : NamesAMethod(prog, slots[s])
    BY SlotsOfCall
  <1>2. inner = [slots EXCEPT ![1] = True, ![2] = rcvr]
    BY DEF NewInner, RcvrIdx
  <1> HIDE DEF slots, inner
  <1>3. NamesAMethod(prog, True)
    BY Harmless DEF True
  <1>4. \A i \in DOMAIN inner : NamesAMethod(prog, inner[i])
    BY <1>1, <1>2, <1>3
  <1> QED BY <1>4 DEF inner

LEMMA ActivationOfCall ==
  ASSUME CompiledCodeIsVerified, NEW c, CallFits(P, c), c.inv[1] = "method",
         Method(c.inv[2]).kind = "bytecodes", NEW inner
  PROVE  ActivationFits(program, Activation(c, inner))
  <1> DEFINE M == Method(c.inv[2])
             frame == NewFrame(M.sizeFrame, M.argInner, c.rcvr, c.args, inner, 0, Nil)
             a == Activation(c, inner)
  <1>1. c.inv[2] \in DOMAIN P.methods
    BY DEF CallFits, IsInvokable, NoInvokable
  <1>2. CodeIsVerified(program, c.inv[2])
    BY <1>1 DEF CompiledCodeIsVerified, IsVerified, Method, P
  <1>3. /\ IsStackMap(M, Height(program, c.inv[2]))
        /\ M.sizeFrame \in Nat /\ M.sizeFrame >= 2
    BY <1>2 DEF CodeIsVerified, Method, P
  <1>4. IsFrame(P, frame)
    BY <1>3, FrameOfCall DEF CallFits
  <1>5. /\ DOMAIN a = ActivationFields /\ a.m = c.inv[2] /\ a.pc = 0 /\ a.stack = <<>>
        /\ a.frame = frame
    BY DEF Activation, ActivationFields
  <1>6. IsStack(P, <<>>) /\ Len(<<>>) = 0
    BY EmptySequence DEF IsStack
  <1>7. /\ 0 \in DOMAIN Height(program, c.inv[2]) /\ Height(program, c.inv[2])[0] = 0
    BY <1>3 DEF IsStackMap
  <1> HIDE DEF a, frame
  <1>8. ActivationFits(program, a)
    BY <1>1, <1>4, <1>5, <1>6, <1>7 DEF ActivationFits, Method, P
  <1> QED BY <1>8 DEF a

LEMMA FoundByName ==
  ASSUME Inv, NEW class, NEW selector
  PROVE  /\ IsInvokable(P, Lookup(class, selector))
         /\ selector \notin BlockPrimitives =>
              ~(Lookup(class, selector)[1] = "primitive"
                  /\ Lookup(class, selector)[2] \in BlockPrimitives)
  <1>1. NamesExist(P)
    BY DEF Inv, CompiledCodeIsVerified, IsVerified, P
  <1>2. CASE Understands(class, selector)
    BY <1>1, <1>2 DEF NamesExist, Lookup, Understands
  <1>3. CASE ~Understands(class, selector)
    BY <1>3 DEF Lookup, IsInvokable, NoInvokable
  <1> QED BY <1>2, <1>3

NoBlockPrimitive(c) == ~(c.inv[1] = "primitive" /\ c.inv[2] \in BlockPrimitives)

LEMMA Singleton ==
  ASSUME NEW prog, NEW v, NamesAMethod(prog, v)
  PROVE  IsArguments(prog, <<v>>)
  BY DEF IsArguments, IsSequence

LEMMA Pair ==
  ASSUME NEW prog, NEW v, NamesAMethod(prog, v), NEW w, NamesAMethod(prog, w)
  PROVE  IsArguments(prog, <<v, w>>)
  BY DEF IsArguments, IsSequence

\* What is called in the end: the method of a block, unknownGlobal: or what
\* was to be called.
LEMMA ResolvedFits ==
  ASSUME Inv, NEW call, CallFits(P, call)
  PROVE  CallFits(P, Resolved(call)) /\ NoBlockPrimitive(Resolved(call))
  <1> DEFINE c == EnterBlock(call)
  <1>1. CallFits(P, c) /\ NoBlockPrimitive(c)
    <2>1. CASE call.inv[1] = "primitive" /\ call.inv[2] \in BlockPrimitives
      <3> DEFINE inv == IF call.rcvr[1] = "block" THEN <<"method", call.rcvr[2]>>
                        ELSE NoInvokable
      <3>1. c = [call EXCEPT !.inv = inv, !.tier2 = FALSE]
        BY <2>1 DEF EnterBlock
      <3>2. IsInvokable(P, inv)
        BY DEF IsInvokable, CallFits, NamesAMethod
      <3>3. inv[1] # "primitive"
        BY DEF NoInvokable
      <3> HIDE DEF c, inv
      <3>4. /\ DOMAIN c = DOMAIN call /\ c.inv = inv /\ c.rcvr = call.rcvr
            /\ c.args = call.args
        BY <3>1 DEF CallFits
      <3> QED BY <3>2, <3>3, <3>4 DEF CallFits, NoBlockPrimitive
    <2>2. CASE ~(call.inv[1] = "primitive" /\ call.inv[2] \in BlockPrimitives)
      BY <2>2 DEF EnterBlock, NoBlockPrimitive
    <2> QED BY <2>1, <2>2
  <1> HIDE DEF c
  <1>2. CASE IsUnknownGlobal(c)
    <2> DEFINE self == OuterSelf(c.rcvr)
               inv == Lookup(ClassOf(self), "unknownGlobal:")
               args == <<<<"sym", Method(c.inv[2]).name>>>>
               asked == Call(inv, self, args, 2, c.tier2)
    <2>1. AskOuterSelf(c) = asked
      BY <1>2 DEF AskOuterSelf
    <2>2. NamesAMethod(P, self)
      BY OuterSelfIsNoBlock
    <2>3. IsArguments(P, args)
      BY Harmless, Singleton
    <2>4. /\ IsInvokable(P, inv)
          /\ ~(inv[1] = "primitive" /\ inv[2] \in BlockPrimitives)
      BY FoundByName DEF BlockPrimitives
    <2> HIDE DEF self, inv, args
    <2>5. CallFits(P, asked) /\ NoBlockPrimitive(asked)
      BY <2>2, <2>3, <2>4 DEF Call, CallFits, NoBlockPrimitive
    <2> QED BY <2>1, <2>5 DEF Resolved, c
  <1>3. CASE ~IsUnknownGlobal(c)
    BY <1>1, <1>3 DEF AskOuterSelf, Resolved, c
  <1> QED BY <1>2, <1>3

LEMMA StartKeeps ==
  ASSUME Inv, outcome = Running, UNCHANGED program, CodeFits(P, code'),
         NEW c, CallFits(P, c),
         NEW caller, ActivationFits(program, caller), Len(caller.stack) > 0,
         Start(c, caller)
  PROVE  Inv'
  <1> DEFINE inner == IF NeedsInner(c) THEN Len(inners) + 1 ELSE 0
             a == Activation(c, inner)
  <1>1. /\ c.inv[1] = "method" /\ Method(c.inv[2]).kind = "bytecodes"
        /\ acts' = Append(Append(Front(acts), caller), a)
        /\ inners' = IF NeedsInner(c) THEN Append(inners, InnerFor(c)) ELSE inners
        /\ UNCHANGED <<objects, globals, outcome>>
    BY DEF Start
  <1> HIDE DEF inner
  <1>2. ActivationFits(program, a)
    BY <1>1, ActivationOfCall DEF Inv
  <1> HIDE DEF a
  <1>3. ActivationsFit(program, acts') /\ acts' # <<>>
    BY <1>1, <1>2, RunningFits, Called
  <1>4. InnersFit(P, inners')
    <2>1. InnersFit(P, inners)
      BY DEF Inv
    <2>2. \A i \in DOMAIN InnerFor(c) : NamesAMethod(P, InnerFor(c)[i])
      BY InnerOfCall DEF InnerFor, CallFits
    <2>3. /\ IsSequence(Append(inners, InnerFor(c)))
          /\ Len(Append(inners, InnerFor(c))) = Len(inners) + 1
          /\ \A i \in 1..Len(inners) : Append(inners, InnerFor(c))[i] = inners[i]
          /\ Append(inners, InnerFor(c))[Len(inners) + 1] = InnerFor(c)
      BY <2>1, AppendTo DEF InnersFit
    <2>4. \A i \in 1..(Len(inners) + 1) : i \in 1..Len(inners) \/ i = Len(inners) + 1
      BY <2>1, SequenceType DEF InnersFit
    <2>5. InnersFit(P, Append(inners, InnerFor(c)))
      BY <2>1, <2>2, <2>3, <2>4 DEF InnersFit
    <2> QED BY <1>1, <2>1, <2>5
  <1>5. ObjectsFit(P, objects) /\ GlobalsFit(P, globals)
    BY DEF Inv
  <1> QED BY <1>1, <1>3, <1>4, <1>5, InvAfter

LEMMA AnswerKeeps ==
  ASSUME Inv, outcome = Running, UNCHANGED <<program, outcome>>, CodeFits(P, code'),
         NEW caller, ActivationFits(program, caller), Len(caller.stack) > 0,
         NEW v, NamesAMethod(P, v), acts' = Append(Front(acts), WithAnswer(caller, v)),
         InnersFit(P, inners'), ObjectsFit(P, objects'), GlobalsFit(P, globals')
  PROVE  Inv'
  <1>1. ActivationFits(program, WithAnswer(caller, v))
    BY AnswerReceived DEF P
  <1>2. ActivationsFit(program, acts') /\ acts' # <<>>
    BY <1>1, RunningFits, Continued
  <1> QED BY <1>2, InvAfter

LEMMA FieldAssigned ==
  ASSUME NEW prog, NEW os, ObjectsFit(prog, os), NEW o, NEW idx, NEW v, NamesAMethod(prog, v)
  PROVE  ObjectsFit(prog, [os EXCEPT ![o] = WithField(@, idx, v)])
  <1> DEFINE assigned == [os EXCEPT ![o] = WithField(os[o], idx, v)]
  <1>1. \A x \in DOMAIN os :
          /\ "fields" \in DOMAIN os[x]
          /\ \A j \in DOMAIN os[x].fields : NamesAMethod(prog, os[x].fields[j])
    BY DEF ObjectsFit
  <1>2. CASE o \in DOMAIN os
    <2> DEFINE fields == os[o].fields
    <2>1. /\ "fields" \in DOMAIN WithField(os[o], idx, v)
          /\ WithField(os[o], idx, v).fields = ReplaceAt(fields, idx + 1, v)
      BY <1>1, <1>2 DEF WithField
    <2>2. \A j \in DOMAIN ReplaceAt(fields, idx + 1, v) :
            NamesAMethod(prog, ReplaceAt(fields, idx + 1, v)[j])
      BY <1>1, <1>2 DEF ReplaceAt
    <2>3. ObjectsFit(prog, assigned)
      BY <1>1, <1>2, <2>1, <2>2 DEF ObjectsFit
    <2> QED BY <2>3
  <1>3. CASE o \notin DOMAIN os
    <2>1. ObjectsFit(prog, assigned)
      BY <1>1, <1>3 DEF ObjectsFit
    <2> QED BY <2>1
  <1> QED BY <1>2, <1>3

LEMMA Elements2 ==
  ASSUME NEW prog, NEW rcvr, NamesAMethod(prog, rcvr), NEW args, IsArguments(prog, args)
  PROVE  \A i : NamesAMethod(prog, Element(<<rcvr>> \o args, i))
  <1> DEFINE all == <<rcvr>> \o args
             S == Elements(args) \cup {rcvr}
  <1>1. args \in Seq(S) /\ <<rcvr>> \in Seq(S) /\ Len(<<rcvr>>) = 1 /\ Len(args) \in Nat
    BY SequenceType DEF IsArguments
  <1>2. /\ all \in Seq(S) /\ Len(all) = 1 + Len(args)
        /\ \A i \in 1..Len(all) : all[i] = IF i <= 1 THEN <<rcvr>>[i] ELSE args[i - 1]
    BY <1>1, ConcatProperties
  <1> HIDE DEF all
  <1>3. DOMAIN all = 1..Len(all)
    BY <1>2
  <1>4. ASSUME NEW i \in 1..Len(all) PROVE NamesAMethod(prog, all[i])
    <2>1. CASE i = 1
      BY <1>2, <2>1
    <2>2. CASE i # 1
      <3>1. i - 1 \in 1..Len(args) /\ ~(i <= 1)
        BY <1>1, <1>2, <2>2
      <3> QED BY <1>2, <3>1 DEF IsArguments
    <2> QED BY <2>1, <2>2
  <1>5. \A i : NamesAMethod(prog, Element(all, i))
    BY <1>3, <1>4, ElementOf
  <1> QED BY <1>5 DEF all

LEMMA AnswerTriviallyKeeps ==
  ASSUME Inv, outcome = Running, UNCHANGED program, CodeFits(P, code'),
         NEW c, CallFits(P, c),
         NEW caller, ActivationFits(program, caller), Len(caller.stack) > 0,
         AnswerTrivially(c, caller)
  PROVE  Inv'
  <1> DEFINE M == Method(c.inv[2])
  <1>1. /\ c.inv[1] = "method" /\ M.kind # "bytecodes"
        /\ acts' = Append(Front(acts), WithAnswer(caller, TrivialAnswer(c)))
        /\ objects' = IF M.kind = "field_write"
                      THEN [objects EXCEPT ![c.rcvr[2]] = WithField(@, M.idx, Stored(c))]
                      ELSE objects
        /\ UNCHANGED <<inners, globals, outcome>>
    BY DEF AnswerTrivially, TrivialCall
  <1>2. /\ NamesAMethod(P, c.rcvr) /\ IsArguments(P, c.args) /\ c.inv[2] \in DOMAIN P.methods
    BY <1>1 DEF CallFits, IsInvokable, NoInvokable
  <1>3. /\ M.kind \in TrivialKinds
        /\ M.kind = "literal_return" => NamesAMethod(P, M.value)
    BY <1>1, <1>2 DEF Inv, CompiledCodeIsVerified, IsVerified, NamesExist, Method, P
  <1>4. InnersFit(P, inners) /\ ObjectsFit(P, objects) /\ GlobalsFit(P, globals)
    BY DEF Inv
  <1>5. NamesAMethod(P, TrivialAnswer(c))
    BY <1>2, <1>3, <1>4, ObjectsHold, GlobalsHold DEF TrivialAnswer, TrivialKinds
  <1>6. NamesAMethod(P, Stored(c))
    BY <1>2, Elements2 DEF Stored
  <1>7. ObjectsFit(P, objects')
    BY <1>1, <1>4, <1>6, FieldAssigned
  <1>8. InnersFit(P, inners') /\ GlobalsFit(P, globals')
    BY <1>1, <1>4
  <1> QED BY <1>1, <1>5, <1>7, <1>8, AnswerKeeps

LEMMA AnswerPrimitiveKeeps ==
  ASSUME Inv, outcome = Running, UNCHANGED program, CodeFits(P, code'),
         NEW c, CallFits(P, c), NoBlockPrimitive(c),
         NEW caller, ActivationFits(program, caller), Len(caller.stack) > 0,
         AnswerPrimitive(c, caller)
  PROVE  Inv'
  <1>1. /\ c.inv[1] = "primitive" /\ c.inv[2] \notin SystemPrimitives
        /\ acts' = Append(Front(acts),
             WithAnswer(caller, PrimitiveAnswer(c.inv[2], c.rcvr, c.args)))
        /\ UNCHANGED <<inners, objects, globals, outcome>>
    BY DEF AnswerPrimitive, heap
  <1>2. c.inv[2] \in KnownPrimitives \ (BlockPrimitives \cup SystemPrimitives)
    BY <1>1 DEF CallFits, IsInvokable, NoInvokable, NoBlockPrimitive
  <1>3. NamesAMethod(P, PrimitiveAnswer(c.inv[2], c.rcvr, c.args))
    BY <1>2, PrimitivesAnswer
  <1>4. InnersFit(P, inners') /\ ObjectsFit(P, objects') /\ GlobalsFit(P, globals')
    BY <1>1 DEF Inv
  <1> QED BY <1>1, <1>3, <1>4, AnswerKeeps

LEMMA AnswerSystemKeeps ==
  ASSUME Inv, outcome = Running, UNCHANGED program, CodeFits(P, code'),
         NEW c, CallFits(P, c),
         NEW caller, ActivationFits(program, caller), Len(caller.stack) > 0,
         AnswerSystem(c, caller)
  PROVE  Inv'
  <1>1. /\ c.inv[2] \in SystemPrimitives
        /\ acts' = Append(Front(acts),
             WithAnswer(caller, SystemAnswer(c.inv[2], globals, c.args)))
        /\ globals' = GlobalsAfter(c.inv[2], globals, c.args)
        /\ UNCHANGED <<inners, objects, outcome>>
    BY DEF AnswerSystem
  <1>2. InnersFit(P, inners) /\ ObjectsFit(P, objects) /\ GlobalsFit(P, globals)
    BY DEF Inv
  <1>3. NamesAMethod(P, Element(c.args, 2))
    <2>1. \A i \in DOMAIN c.args : NamesAMethod(P, c.args[i])
      BY SequenceType DEF CallFits, IsArguments
    <2> QED BY <2>1, ElementOf
  <1>4. NamesAMethod(P, SystemAnswer(c.inv[2], globals, c.args))
    BY <1>1, <1>2, <1>3, Harmless DEF SystemAnswer, SystemPrimitives, GlobalsFit
  <1>5. GlobalsFit(P, globals')
    BY <1>1, <1>2, <1>3 DEF GlobalsAfter, GlobalsFit
  <1>6. InnersFit(P, inners') /\ ObjectsFit(P, objects')
    BY <1>1, <1>2
  <1> QED BY <1>1, <1>4, <1>5, <1>6, AnswerKeeps

LEMMA PerformKeeps ==
  ASSUME Inv, outcome = Running, UNCHANGED program, CodeFits(P, code'),
         NEW call, CallFits(P, call),
         NEW caller, ActivationFits(program, caller), Len(caller.stack) > 0,
         Perform(call, caller)
  PROVE  Inv'
  <1> DEFINE c == Resolved(call)
  <1>1. CallFits(P, c) /\ NoBlockPrimitive(c)
    BY ResolvedFits
  <1>2. \/ Start(c, caller) \/ AnswerTrivially(c, caller) \/ FailInTrivialMethod(c)
        \/ AnswerPrimitive(c, caller) \/ FailInPrimitive(c) \/ AnswerSystem(c, caller)
        \/ FailWithoutInvokable(c)
    BY DEF Perform
  <1> HIDE DEF c
  <1>3. CASE Start(c, caller)
    BY <1>1, <1>3, StartKeeps
  <1>4. CASE AnswerTrivially(c, caller)
    BY <1>1, <1>4, AnswerTriviallyKeeps
  <1>5. CASE FailInTrivialMethod(c)
    BY <1>5, Stopped, FailedIsNotRunning DEF FailInTrivialMethod
  <1>6. CASE AnswerPrimitive(c, caller)
    BY <1>1, <1>6, AnswerPrimitiveKeeps
  <1>7. CASE AnswerSystem(c, caller)
    BY <1>1, <1>7, AnswerSystemKeeps
  <1>8. CASE FailWithoutInvokable(c)
    BY <1>8, Stopped, FailedIsNotRunning DEF FailWithoutInvokable
  <1>9. CASE FailInPrimitive(c)
    BY <1>9, Stopped, FailedIsNotRunning DEF FailInPrimitive
  <1> QED BY <1>2, <1>3, <1>4, <1>5, <1>6, <1>7, <1>8, <1>9

---------------------------------------------------------------------------
(* Returns.                                                                *)

LEMMA MarkersCleared ==
  ASSUME InnersFit(P, inners), NEW k
  PROVE  InnersFit(P, InnersAfter(k))
  <1> DEFINE after == InnersAfter(k)
             cleared(i) == [inners[i] EXCEPT ![1] = Bool(FALSE)]
  <1>1. /\ Len(inners) \in Nat /\ DOMAIN inners = 1..Len(inners)
        /\ \A i \in 1..Len(inners) : \A j \in DOMAIN inners[i] : NamesAMethod(P, inners[i][j])
    BY SequenceType DEF InnersFit
  <1>2. \A i \in 1..Len(inners) : \A j \in DOMAIN cleared(i) : NamesAMethod(P, cleared(i)[j])
    BY <1>1, Harmless
  <1> HIDE DEF cleared
  <1>3. /\ after = [i \in 1..Len(inners) |-> after[i]]
        /\ \A i \in 1..Len(inners) : after[i] = cleared(i) \/ after[i] = inners[i]
    BY <1>1 DEF InnersAfter, cleared
  <1> HIDE DEF after
  <1>4. Len(after) = Len(inners)
    BY <1>1, <1>3
  <1>5. IsSequence(after)
    BY <1>1, <1>3, <1>4 DEF IsSequence
  <1>6. InnersFit(P, after)
    BY <1>1, <1>2, <1>3, <1>4, <1>5 DEF InnersFit
  <1> QED BY <1>6 DEF after

LEMMA NoActivations ==
  ASSUME NEW p
  PROVE  ActivationsFit(p, <<>>)
  BY EmptySequence DEF ActivationsFit

LEMMA AnswerFromKeeps ==
  ASSUME Inv, outcome = Running, UNCHANGED <<program, code>>,
         NEW k \in 1..Len(acts), NEW v, NamesAMethod(P, v), AnswerFrom(k, v)
  PROVE  Inv'
  <1>1. /\ CodeFits(P, code') /\ ObjectsFit(P, objects') /\ GlobalsFit(P, globals')
        /\ InnersFit(P, inners')
    BY MarkersCleared DEF Inv, AnswerFrom
  <1>2. CASE k = 1
    <2>1. outcome' = <<"answer", v>> /\ acts' = <<>>
      BY <1>2 DEF AnswerFrom
    <2>2. outcome' # Running
      BY <2>1 DEF Running
    <2> QED BY <1>1, <2>1, <2>2, NoActivations, InvAfter
  <1>3. CASE k # 1
    <2>1. acts' = AnswerTo(acts, k - 1, v)
      BY <1>3 DEF AnswerFrom, AnswerTo
    <2>2. k - 1 \in 1..(Len(acts) - 1)
      BY <1>3, RunningFits
    <2>3. ActivationsFit(program, acts') /\ acts' # <<>>
      BY <2>1, <2>2, RunningFits, Returned DEF P
    <2> QED BY <1>1, <2>3, InvAfter
  <1> QED BY <1>2, <1>3

LEMMA ReturnEscapedKeeps ==
  ASSUME Inv, ReturnEscaped
  PROVE  Inv'
  <1>1. /\ outcome = Running /\ UNCHANGED <<program, code>>
        /\ AnswerFrom(Len(acts), FromTop(0))
    BY DEF ReturnEscaped, SameCode
  <1>2. NamesAMethod(P, FromTop(0)) /\ Len(acts) \in 1..Len(acts)
    BY <1>1, RunningFits, AtInstruction, OnStack DEF FromTop
  <1> QED BY <1>1, <1>2, AnswerFromKeeps

\* A return is executed as it was compiled, and all but return_self have
\* what they answer on the stack.
LEMMA AtReturn ==
  ASSUME Inv, outcome = Running, bc \in {"return_local", "return_non_local"}
  PROVE  Len(top.stack) > 0
  <1>1. Compiled = bc /\ Takes(bc, ArgsHere) = 1
    <2>1. bc \in Jumps \cup Returns
      BY DEF Returns
    <2>2. Compiled = bc
      BY <2>1, CompiledAs DEF Alike
    <2>3. Takes(bc, ArgsHere) = 1
      BY DEF Takes, SendLike, Sends, QuickSuperSends, PopFrame, PopInner, PopX, PopField,
         OnTrue, OnFalse
    <2> QED BY <2>2, <2>3
  <1>2. Takes(Compiled, ArgsHere) <= Len(top.stack) /\ Len(top.stack) \in Nat
    BY AtInstruction, StackMapAt DEF Compiled, ArgsHere
  <1> QED BY <1>1, <1>2

LEMMA ReturnNonLocalKeeps ==
  ASSUME Inv, outcome = Running, UNCHANGED <<program, code>>,
         bc = "return_non_local", ReturnNonLocal
  PROVE  Inv'
  <1> DEFINE homes == {k \in DOMAIN acts : acts[k].catches /\ acts[k].frame[1] = Home}
             self == OuterSelf(top.frame[RcvrIdx + 1])
             inv == Lookup(ClassOf(self), "escapedBlock:")
             args == <<top.frame[RcvrIdx + 1]>>
             call == Call(inv, self, args, 2, FALSE)
             waiting == [top EXCEPT !.escaped = TRUE]
  <1>1. \/ outcome' = Failed("not caught") /\ UNCHANGED <<acts, heap>>
        \/ \E k \in homes : AnswerFrom(k, FromTop(0))
        \/ Perform(call, waiting)
    BY DEF ReturnNonLocal
  <1>2. NamesAMethod(P, FromTop(0)) /\ DOMAIN acts = 1..Len(acts)
    BY RunningFits, AtInstruction, OnStack, CallsFit, SequenceType DEF FromTop
  <1>3. NamesAMethod(P, top.frame[2])
    BY AtInstruction DEF IsFrame
  <1>4. CallFits(P, call)
    <2>1. NamesAMethod(P, self) /\ IsInvokable(P, inv)
      BY OuterSelfIsNoBlock, FoundByName
    <2>2. IsArguments(P, args)
      BY <1>3, Singleton DEF RcvrIdx
    <2> HIDE DEF self, inv, args
    <2> QED BY <2>1, <2>2 DEF CallFits, Call
  <1>5. ActivationFits(program, waiting) /\ Len(waiting.stack) > 0
    <2>1. /\ DOMAIN waiting = DOMAIN top /\ waiting.m = top.m /\ waiting.frame = top.frame
          /\ waiting.pc = top.pc /\ waiting.stack = top.stack
      BY AtInstruction DEF ActivationFields
    <2> HIDE DEF waiting
    <2>2. ActivationFits(program, waiting)
      BY <2>1, AtInstruction, Goes
    <2> QED BY <2>1, <2>2, AtReturn
  <1>6. CodeFits(P, code')
    BY DEF Inv
  <1> HIDE DEF call, waiting
  <1>7. CASE outcome' = Failed("not caught") /\ UNCHANGED <<acts, heap>>
    BY <1>6, <1>7, Stopped, FailedIsNotRunning
  <1>8. CASE \E k \in homes : AnswerFrom(k, FromTop(0))
    BY <1>2, <1>8, AnswerFromKeeps
  <1>9. CASE Perform(call, waiting)
    BY <1>4, <1>5, <1>6, <1>9, PerformKeeps
  <1> QED BY <1>1, <1>7, <1>8, <1>9

---------------------------------------------------------------------------
(* What the instructions do to the height of the stack.                    *)

LEMMA OnwardOnly ==
  ASSUME NEW op \in Reads \cup Stores \cup SendLike \cup {"push_global", "inc", "dec"}
  PROVE  op \notin Jumps \cup Returns
  BY TheLongJumps DEF Jumps, ShortJumps, Returns, Reads, Stores, SendLike, Sends,
     QuickSuperSends, PushFrame, PushInner, PushField, PushBlock, PushConst, PushLiteral,
     PopFrame, PopInner, PopField

LEMMA EffectOfReads ==
  ASSUME NEW op \in Reads \cup {"push_global"}, NEW args \in Nat
  PROVE  BytecodeStackEffect(op, args) = 1
  BY DEF BytecodeStackEffect, Reads, Sends, QuickSuperSends, PushFrame, PushInner,
     PushField, PushBlock, PushConst, PushLiteral, PopFrame, PopInner, PopX, PopField

LEMMA EffectOfStores ==
  ASSUME NEW op \in Stores \ {"nil_frame", "nil_inner"}, NEW args \in Nat
  PROVE  BytecodeStackEffect(op, args) = -1 /\ Takes(op, args) = 1
  <1>1. BytecodeStackEffect(op, args) = -1
    BY DEF BytecodeStackEffect, Stores, Sends, QuickSuperSends, PushFrame, PushInner,
       PushField, PushBlock, PushConst, PushLiteral, PopFrame, PopInner, PopX, PopField
  <1>2. Takes(op, args) = 1
    BY DEF Takes, Stores, SendLike, Sends, QuickSuperSends, PopFrame, PopInner, PopX,
       PopField
  <1> QED BY <1>1, <1>2

LEMMA EffectInPlace ==
  ASSUME NEW op \in {"nil_frame", "nil_inner", "inc", "dec"}, NEW args \in Nat
  PROVE  /\ BytecodeStackEffect(op, args) = 0
         /\ op \in {"inc", "dec"} => Takes(op, args) = 1
  <1>1. BytecodeStackEffect(op, args) = 0
    BY DEF BytecodeStackEffect, Sends, QuickSuperSends, PushFrame, PushInner,
       PushField, PushBlock, PushConst, PushLiteral, PopFrame, PopInner, PopX, PopField
  <1>2. op \in {"inc", "dec"} => Takes(op, args) = 1
    BY DEF Takes, SendLike, Sends, QuickSuperSends, PopFrame, PopInner, PopX, PopField,
       OnTrue, OnFalse
  <1> QED BY <1>1, <1>2

LEMMA EffectOfSends ==
  ASSUME NEW op \in SendLike, NEW args \in Nat
  PROVE  BytecodeStackEffect(op, args) = 1 - args /\ Takes(op, args) = args
  <1>1. BytecodeStackEffect(op, args) = 1 - args
    BY DEF BytecodeStackEffect, SendLike, Sends, QuickSuperSends, PushFrame, PushInner,
       PushField, PushBlock, PushConst, PushLiteral, PopFrame, PopInner, PopX, PopField
  <1>2. Takes(op, args) = args
    BY DEF Takes, SendLike, Sends, QuickSuperSends, PopFrame, PopInner, PopX, PopField,
       OnTrue, OnFalse
  <1> QED BY <1>1, <1>2

---------------------------------------------------------------------------
(* Reads.                                                                  *)

LEMMA AsCompiled ==
  ASSUME Inv, outcome = Running, bc = Compiled \/ Compiled = "super_send"
  PROVE  /\ BytecodeLength(bc) >= 2 => Operand(1) = Here.code[top.pc + 2]
         /\ BytecodeLength(bc) = 3 => Operand(2) = Here.code[top.pc + 3]
  <1>1. /\ \A i \in (top.pc + 2)..NextAt(Here.code, top.pc) : code[top.m][i] = Here.code[i]
        /\ NextAt(Here.code, top.pc) = top.pc + BytecodeLength(bc) /\ top.pc \in Nat
    <2>1. IsCode(Here) /\ CellsFit(Here, code[top.m]) /\ top.pc \in Here.starts
      BY AtInstruction
    <2> QED BY <2>1, AtCell DEF bc, Compiled, NextAt
  <1>2. BytecodeLength(bc) \in {1, 2, 3}
    BY DEF BytecodeLength
  <1>3. BytecodeLength(bc) >= 2 => top.pc + 2 \in (top.pc + 2)..(top.pc + BytecodeLength(bc))
    BY <1>1, <1>2
  <1>4. BytecodeLength(bc) = 3 => top.pc + 3 \in (top.pc + 2)..(top.pc + BytecodeLength(bc))
    BY <1>1
  <1>5. Operand(1) = code[top.m][top.pc + 2] /\ Operand(2) = code[top.m][top.pc + 3]
    BY <1>1 DEF Operand
  <1> QED BY <1>1, <1>3, <1>4, <1>5

LEMMA NotRewritten ==
  ASSUME Inv, outcome = Running,
         bc \notin PushFrame \cup PushInner \cup PopFrame \cup PopInner
                     \cup {"nil_frame", "nil_inner"} \cup QuickSuperSends
  PROVE  bc = Compiled
  BY CompiledAs DEF Variants

LEMMA LiteralsHold ==
  ASSUME Inv, outcome = Running, bc \in PushConst \cup PushBlock
  PROVE  /\ bc \in PushConst => NamesAMethod(P, ConstantRead)
         /\ bc \in PushBlock => NamesAMethod(P, BlockLiteral)
  <1>1. bc = Compiled
    BY NotRewritten DEF PushConst, PushLiteral, PushBlock, PushFrame, PushInner, PopFrame,
       PopInner, QuickSuperSends
  <1>2. OperandsExist(P, top.m, top.pc)
    BY AtInstruction
  <1>3. BytecodeLength(bc) >= 2 => Operand(1) = Here.code[top.pc + 2]
    BY <1>1, AsCompiled
  <1>4. bc \in PushBlock \cup {"push_constant"} => BytecodeLength(bc) = 2
    BY TheLongJumps DEF BytecodeLength, PushFrame, PushInner, PopFrame, PopInner,
       Unresolved, Jumps, ShortJumps, Sends, QuickSuperSends, PushBlock
  <1>5. bc \in PushBlock => Literal(Operand(1))[2] \in DOMAIN P.methods
    <2>1. bc \in PushBlock =>
            Here.literals[Here.code[top.pc + 2] + 1][2] \in DOMAIN P.methods
      <3>1. P.methods[top.m] = Here /\ Here.code[top.pc + 1] = bc
        BY <1>1 DEF Here, Method, Compiled
      <3> QED BY <1>2, <3>1, Zenon DEF OperandsExist
    <2>2. bc \in PushBlock => Literal(Operand(1)) = Here.literals[Here.code[top.pc + 2] + 1]
      BY <1>3, <1>4 DEF Literal, Here
    <2> QED BY <2>1, <2>2
  <1>6. bc \in PushBlock => NamesAMethod(P, BlockLiteral)
    BY <1>5 DEF BlockLiteral, NamesAMethod
  <1> DEFINE literals == P.methods[top.m].literals
  <1>7. /\ bc = "push_constant" => NamesAMethod(P, Literal(Operand(1)))
        /\ bc = "push_constant_0" => NamesAMethod(P, Literal(0))
        /\ bc = "push_constant_1" => NamesAMethod(P, Literal(1))
        /\ bc = "push_constant_2" => NamesAMethod(P, Literal(2))
    <2>1. bc = "push_constant" => NamesAMethod(P, literals[Here.code[top.pc + 2] + 1])
      BY <1>1, <1>2 DEF OperandsExist, Here, Method, Compiled
    <2>2. /\ bc = "push_constant_0" => NamesAMethod(P, literals[1])
          /\ bc = "push_constant_1" => NamesAMethod(P, literals[2])
          /\ bc = "push_constant_2" => NamesAMethod(P, literals[3])
      BY <1>1, <1>2 DEF OperandsExist, Here, Method, Compiled
    <2>3. bc = "push_constant" => Literal(Operand(1)) = literals[Here.code[top.pc + 2] + 1]
      BY <1>3, <1>4 DEF Literal, Method
    <2>4. Literal(0) = literals[1] /\ Literal(1) = literals[2] /\ Literal(2) = literals[3]
      BY DEF Literal, Method
    <2> QED BY <2>1, <2>2, <2>3, <2>4
  <1>8. bc \in PushConst => NamesAMethod(P, ConstantRead)
    BY <1>7, Harmless DEF ConstantRead, PushConst, PushLiteral
  <1> QED BY <1>6, <1>8

LEMMA FrameHolds ==
  ASSUME Inv, outcome = Running, bc \in PushFrame
  PROVE  NamesAMethod(P, FrameRead)
  <1>1. bc = "push_frame" => Operand(1) \in Nat \ {0}
    <2>1. CellsFit(Here, code[top.m]) /\ top.pc \in Here.starts /\ top.pc \in Nat
      BY AtInstruction, CompiledAs
    <2>2. top.pc + 1 + 1 = top.pc + 2
      BY <2>1
    <2> QED BY <2>1, <2>2 DEF CellsFit, bc, Operand
  <1>2. SlotOf(bc) \in Nat \ {0}
    BY <1>1 DEF SlotOf, PushFrame, RcvrIdx
  <1>3. SlotOf(bc) + 1 # 1
    BY <1>2
  <1>4. \A i \in DOMAIN top.frame \ {1} : NamesAMethod(P, top.frame[i])
    BY AtInstruction DEF IsFrame
  <1> QED BY <1>3, <1>4, Harmless DEF FrameRead, Element

LEMMA PushedValuesHold ==
  ASSUME Inv, outcome = Running, bc \in Reads
  PROVE  NamesAMethod(P, PushedValue)
  <1>1. InnersFit(P, inners) /\ ObjectsFit(P, objects)
    BY DEF Inv
  <1>2. NamesAMethod(P, FromTop(0)) /\ NamesAMethod(P, FromTop(1))
    BY AtInstruction, OnStack DEF FromTop
  <1>3. bc \in PushFrame => NamesAMethod(P, FrameRead)
    BY FrameHolds
  <1>4. NamesAMethod(P, InnerRead)
    BY <1>1, InnersHold DEF InnerRead, OuterSlot
  <1>5. NamesAMethod(P, Field(Self(Level(bc)), FieldOf(bc)))
    BY <1>1, ObjectsHold
  <1>6. /\ bc \in PushConst => NamesAMethod(P, ConstantRead)
        /\ bc \in PushBlock => NamesAMethod(P, BlockLiteral)
    BY LiteralsHold
  <1> QED BY <1>2, <1>3, <1>4, <1>5, <1>6 DEF PushedValue, Reads

LEMMA PushedFits ==
  ASSUME Inv, outcome = Running, bc \in Reads \cup {"push_global"},
         NEW v, NamesAMethod(P, v)
  PROVE  /\ ActivationFits(program, [top EXCEPT !.stack = Append(@, v), !.pc = NextPc])
         /\ Len([top EXCEPT !.stack = Append(@, v), !.pc = NextPc].stack) > 0
  <1> DEFINE b == [top EXCEPT !.stack = Append(@, v), !.pc = NextPc]
  <1>1. /\ DOMAIN b = DOMAIN top /\ b.m = top.m /\ b.frame = top.frame
        /\ b.pc = NextPc /\ b.stack = Append(top.stack, v)
    BY AtInstruction DEF ActivationFields
  <1> HIDE DEF b
  <1>2. IsStack(P, b.stack) /\ Len(b.stack) = Len(top.stack) + 1
    BY <1>1, AtInstruction, Pushed
  <1>3. NextPc \in DOMAIN HeightHere /\ HeightHere[NextPc] = Len(top.stack) + 1
    BY OnwardOnly, Onward, EffectOfReads
  <1>4. ActivationFits(program, b)
    BY <1>1, <1>2, <1>3, Goes
  <1>5. Len(b.stack) > 0
    BY <1>2, AtInstruction
  <1> QED BY <1>4, <1>5 DEF b

LEMMA PushKeeps ==
  ASSUME Inv, outcome = Running, UNCHANGED <<program, code>>,
         bc \in Reads \cup {"push_global"}, NEW v, NamesAMethod(P, v), Push(v)
  PROVE  Inv'
  BY PushedFits, Continues DEF Push

LEMMA PushGlobalKeeps ==
  ASSUME Inv, outcome = Running, UNCHANGED program, bc = "push_global",
         NEW tier2, PushGlobal(tier2)
  PROVE  Inv'
  <1> DEFINE name == Literal(Operand(1))[2]
             self == OuterSelf(top.frame[RcvrIdx + 1])
             inv == Lookup(ClassOf(self), "unknownGlobal:")
             args == <<<<"sym", name>>>>
             call == Call(inv, self, args, 2, tier2)
             waiting == [top EXCEPT !.stack = Append(@, self), !.pc = NextPc]
  <1>1. UNCHANGED code
    BY DEF PushGlobal, SameCode
  <1>2. \/ name \in DOMAIN globals /\ Push(globals[name])
        \/ Perform(call, waiting)
    BY DEF PushGlobal
  <1>3. CASE name \in DOMAIN globals /\ Push(globals[name])
    <2>1. NamesAMethod(P, globals[name])
      BY <1>3 DEF Inv, GlobalsFit
    <2> QED BY <1>1, <1>3, <2>1, PushKeeps
  <1>4. CASE Perform(call, waiting)
    <2>1. NamesAMethod(P, self) /\ IsInvokable(P, inv) /\ IsArguments(P, args)
      BY OuterSelfIsNoBlock, FoundByName, Harmless, Singleton
    <2> HIDE DEF self, inv, args
    <2>2. CallFits(P, call)
      BY <2>1 DEF CallFits, Call
    <2>3. ActivationFits(program, waiting) /\ Len(waiting.stack) > 0
      BY <2>1, PushedFits
    <2>4. CodeFits(P, code')
      BY <1>1 DEF Inv
    <2> HIDE DEF call, waiting
    <2> QED BY <1>4, <2>2, <2>3, <2>4, PerformKeeps
  <1> QED BY <1>2, <1>3, <1>4

---------------------------------------------------------------------------
(* Stores.                                                                 *)

LEMMA PoppedFits ==
  ASSUME Inv, outcome = Running, bc \in Stores \ {"nil_frame", "nil_inner"}
  PROVE  ActivationFits(program, Popped)
  <1> DEFINE b == Popped
  <1>1. /\ DOMAIN b = DOMAIN top /\ b.m = top.m /\ b.frame = top.frame
        /\ b.pc = NextPc /\ b.stack = Drop(top.stack, 1)
    BY AtInstruction DEF ActivationFields, Popped
  <1> HIDE DEF b
  <1>2. /\ NextPc \in DOMAIN HeightHere /\ HeightHere[NextPc] = Len(top.stack) - 1
        /\ 1 <= Len(top.stack)
    BY OnwardOnly, Onward, EffectOfStores, AtInstruction
  <1>3. IsStack(P, b.stack) /\ Len(b.stack) = Len(top.stack) - 1
    BY <1>1, <1>2, AtInstruction, Taken
  <1>4. ActivationFits(program, b)
    BY <1>1, <1>2, <1>3, Goes
  <1> QED BY <1>4 DEF b

LEMMA PassedFits ==
  ASSUME Inv, outcome = Running, bc \in {"nil_frame", "nil_inner"}
  PROVE  ActivationFits(program, [top EXCEPT !.pc = NextPc])
  <1> DEFINE b == [top EXCEPT !.pc = NextPc]
  <1>1. /\ DOMAIN b = DOMAIN top /\ b.m = top.m /\ b.frame = top.frame
        /\ b.pc = NextPc /\ b.stack = top.stack
    BY AtInstruction DEF ActivationFields
  <1> HIDE DEF b
  <1>2. NextPc \in DOMAIN HeightHere /\ HeightHere[NextPc] = Len(top.stack)
    <2>1. bc \in Stores
      BY DEF Stores
    <2> QED BY <2>1, OnwardOnly, Onward, EffectInPlace, AtInstruction
  <1>3. ActivationFits(program, b)
    BY <1>1, <1>2, AtInstruction, Goes
  <1> QED BY <1>3 DEF b

LEMMA AssignedFits ==
  ASSUME NEW p, NEW a, ActivationFits(p, a), NEW slot, NEW v, NamesAMethod(Programs[p], v)
  PROVE  ActivationFits(p, Assign(a, slot, v))
  <1> DEFINE b == Assign(a, slot, v)
  <1>1. /\ DOMAIN b = DOMAIN a /\ b.m = a.m /\ b.pc = a.pc /\ b.stack = a.stack
        /\ b.frame = ReplaceAt(a.frame, slot + 1, v)
    BY DEF ActivationFits, ActivationFields, Assign
  <1> HIDE DEF b
  <1>2. IsFrame(Programs[p], ReplaceAt(a.frame, slot + 1, v))
    BY DEF ActivationFits, IsFrame, ReplaceAt
  <1>3. ActivationFits(p, b)
    BY <1>1, <1>2 DEF ActivationFits
  <1> QED BY <1>3 DEF b

LEMMA InnerAssigned ==
  ASSUME NEW prog, NEW is, InnersFit(prog, is), NEW inner \in DOMAIN is, NEW i,
         NEW v, NamesAMethod(prog, v)
  PROVE  InnersFit(prog, [is EXCEPT ![inner] = ReplaceAt(@, i, v)])
  <1> DEFINE assigned == ReplaceAt(is, inner, ReplaceAt(is[inner], i, v))
  <1>1. IsSequence(is) /\ DOMAIN is = 1..Len(is)
    BY SequenceType DEF InnersFit
  <1>2. /\ IsSequence(assigned) /\ Len(assigned) = Len(is)
        /\ assigned[inner] = ReplaceAt(is[inner], i, v)
        /\ \A j \in 1..Len(is) : j # inner => assigned[j] = is[j]
    BY <1>1, Replaced
  <1>3. \A j \in DOMAIN ReplaceAt(is[inner], i, v) :
          NamesAMethod(prog, ReplaceAt(is[inner], i, v)[j])
    BY <1>1 DEF InnersFit, ReplaceAt
  <1> HIDE DEF assigned
  <1>4. InnersFit(prog, assigned)
    BY <1>1, <1>2, <1>3 DEF InnersFit
  <1> QED BY <1>4 DEF assigned, ReplaceAt

\* The running activation goes on, and the heap changes.
LEMMA GoesOnWith ==
  ASSUME Inv, outcome = Running, UNCHANGED <<program, code, globals>>,
         NEW b, ActivationFits(program, b), acts' = Append(Front(acts), b),
         InnersFit(P, inners'), ObjectsFit(P, objects')
  PROVE  Inv'
  <1>1. ActivationsFit(program, acts') /\ acts' # <<>>
    BY RunningFits, Continued
  <1>2. CodeFits(P, code') /\ GlobalsFit(P, globals')
    BY DEF Inv
  <1> QED BY <1>1, <1>2, InvAfter

LEMMA PopIntoInnerKeeps ==
  ASSUME Inv, outcome = Running, UNCHANGED <<program, code>>,
         NEW slot, NEW v, NamesAMethod(P, v), NEW b, ActivationFits(program, b),
         PopIntoInner(slot, v, b)
  PROVE  Inv'
  <1> DEFINE inner == IF Level(bc) = 0 THEN top.frame[1] ELSE BlockAt(Level(bc))[3]
  <1>1. \/ /\ inner \in DOMAIN inners /\ acts' = Append(Front(acts), b)
           /\ inners' = [inners EXCEPT ![inner] = ReplaceAt(@, slot + 1, v)]
           /\ UNCHANGED <<objects, globals, outcome>>
        \/ outcome' = Failed("no slot") /\ UNCHANGED <<acts, heap>>
    BY DEF PopIntoInner
  <1> HIDE DEF inner
  <1>2. InnersFit(P, inners) /\ ObjectsFit(P, objects) /\ CodeFits(P, code')
    BY DEF Inv
  <1>3. CASE /\ inner \in DOMAIN inners /\ acts' = Append(Front(acts), b)
             /\ inners' = [inners EXCEPT ![inner] = ReplaceAt(@, slot + 1, v)]
             /\ UNCHANGED <<objects, globals, outcome>>
    <2>1. InnersFit(P, inners')
      BY <1>2, <1>3, InnerAssigned
    <2> QED BY <1>2, <1>3, <2>1, GoesOnWith
  <1>4. CASE outcome' = Failed("no slot") /\ UNCHANGED <<acts, heap>>
    BY <1>2, <1>4, Stopped, FailedIsNotRunning
  <1> QED BY <1>1, <1>3, <1>4

LEMMA StoreValueKeeps ==
  ASSUME Inv, outcome = Running, UNCHANGED <<program, code>>, bc \in Stores, StoreValue
  PROVE  Inv'
  <1>1. NamesAMethod(P, FromTop(0))
    BY AtInstruction, OnStack DEF FromTop
  <1>2. CASE bc = "pop"
    <2>1. Continue(Popped)
      BY <1>2 DEF StoreValue, PopFrame, PopInner, PopField
    <2> QED BY <1>2, <2>1, PoppedFits, Continues
  <1>3. CASE bc \in {"nil_frame", "nil_inner"}
    <2>1. Continue([top EXCEPT !.pc = NextPc])
      BY <1>3 DEF StoreValue, PopFrame, PopInner, PopField
    <2> QED BY <1>3, <2>1, PassedFits, Continues
  <1>4. CASE bc \in PopFrame
    <2>1. bc \in Stores \ {"nil_frame", "nil_inner"}
      BY <1>4 DEF Stores, PopFrame
    <2>2. Continue(Assign(Popped, SlotOf(bc), FromTop(0)))
      BY <1>4 DEF StoreValue, PopFrame, PopInner, PopField, PopIntoFrame
    <2>3. ActivationFits(program, Assign(Popped, SlotOf(bc), FromTop(0)))
      BY <1>1, <2>1, PoppedFits, AssignedFits DEF P
    <2> QED BY <2>2, <2>3, Continues
  <1>5. CASE bc \in PopInner
    <2>1. bc \in Stores \ {"nil_frame", "nil_inner"}
      BY <1>5 DEF Stores, PopInner
    <2>2. PopIntoInner(SlotOf(bc), FromTop(0), Popped)
      BY <1>5 DEF StoreValue, PopFrame, PopInner, PopField
    <2> QED BY <1>1, <2>1, <2>2, PoppedFits, PopIntoInnerKeeps
  <1>6. CASE bc \in PopField
    <2>1. bc \in Stores \ {"nil_frame", "nil_inner"}
      BY <1>6 DEF Stores, PopField
    <2>2. PopIntoField(FieldOf(bc), FromTop(0))
      BY <1>6 DEF StoreValue, PopFrame, PopInner, PopField
    <2>3. /\ acts' = Append(Front(acts), Popped) /\ UNCHANGED <<inners, globals, outcome>>
          /\ objects' = [objects EXCEPT ![Self(Level(bc))[2]] =
                                          WithField(@, FieldOf(bc), FromTop(0))]
      BY <2>2 DEF PopIntoField
    <2>4. InnersFit(P, inners) /\ ObjectsFit(P, objects)
      BY DEF Inv
    <2>5. ObjectsFit(P, objects')
      BY <1>1, <2>3, <2>4, FieldAssigned
    <2> QED BY <2>1, <2>3, <2>4, <2>5, PoppedFits, GoesOnWith
  <1> QED BY <1>2, <1>3, <1>4, <1>5, <1>6 DEF Stores

LEMMA IncOrDecKeeps ==
  ASSUME Inv, outcome = Running, UNCHANGED program, bc \in {"inc", "dec"}, IncOrDec
  PROVE  Inv'
  <1> DEFINE n == FromTop(0)
             result == IF bc = "inc" THEN PrimInc(n) ELSE PrimDec(n)
             b == [top EXCEPT !.stack = PutOnTop(@, result), !.pc = NextPc]
  <1>1. \/ Continue(b) /\ UNCHANGED <<code, counts>>
        \/ Fail("not yet implemented")
    BY DEF IncOrDec, SameCode
  <1>2. NamesAMethod(P, result)
    BY NumbersNameNoMethod
  <1> HIDE DEF result
  <1>3. /\ DOMAIN b = DOMAIN top /\ b.m = top.m /\ b.frame = top.frame
        /\ b.pc = NextPc /\ b.stack = PutOnTop(top.stack, result)
    BY AtInstruction DEF ActivationFields
  <1> HIDE DEF b
  <1>4. /\ NextPc \in DOMAIN HeightHere /\ HeightHere[NextPc] = Len(top.stack)
        /\ Len(top.stack) > 0
    BY OnwardOnly, Onward, EffectInPlace, AtInstruction
  <1>5. IsStack(P, b.stack) /\ Len(b.stack) = Len(top.stack)
    BY <1>2, <1>3, <1>4, AtInstruction, Answered
  <1>6. ActivationFits(program, b)
    BY <1>3, <1>4, <1>5, Goes
  <1>7. CASE Continue(b) /\ UNCHANGED <<code, counts>>
    BY <1>6, <1>7, Continues
  <1>8. CASE Fail("not yet implemented")
    <2>1. /\ outcome' = Failed("not yet implemented")
          /\ UNCHANGED <<code, counts, acts, heap>>
      BY <1>8 DEF Fail
    <2>2. CodeFits(P, code')
      BY <2>1 DEF Inv
    <2> QED BY <2>1, <2>2, Stopped, FailedIsNotRunning
  <1> QED BY <1>1, <1>7, <1>8

---------------------------------------------------------------------------
(* Rewriting.                                                              *)

\* Code in which one instruction is rewritten.
LEMMA CodeRewritten ==
  ASSUME NEW prog, NEW c, CodeFits(prog, c), NEW m \in DOMAIN prog.methods,
         prog.methods[m].kind = "bytecodes", NEW cells, CellsFit(prog.methods[m], cells)
  PROVE  CodeFits(prog, [c EXCEPT ![m] = cells])
  BY DEF CodeFits

\* No instruction starts among the operands of another.
LEMMA OperandsApart ==
  ASSUME NEW M, IsCode(M), NEW pc \in M.starts, NEW other \in M.starts, other # pc
  PROVE  /\ other + 1 \notin (pc + 1)..NextAt(M.code, pc)
         /\ pc + 1 \notin (other + 1)..NextAt(M.code, other)
         /\ NextAt(M.code, pc) \in Nat /\ NextAt(M.code, other) \in Nat
         /\ NextAt(M.code, pc) <= Len(M.code)
         /\ other < pc => NextAt(M.code, other) <= pc
         /\ pc < other => NextAt(M.code, pc) <= other
  <1>1. Len(M.code) \in Nat
    BY DEF IsCode, IsSequence
  <1>2. /\ pc \in 0..(Len(M.code) - 1) /\ other \in 0..(Len(M.code) - 1)
        /\ NextAt(M.code, pc) \in M.starts \cup {Len(M.code)}
        /\ NextAt(M.code, other) \in M.starts \cup {Len(M.code)}
        /\ pc \notin (other + 1)..(NextAt(M.code, other) - 1)
        /\ other \notin (pc + 1)..(NextAt(M.code, pc) - 1)
    BY DEF IsCode
  <1>3. \A i \in M.starts : i \in 0..(Len(M.code) - 1)
    BY DEF IsCode
  <1>4. /\ NextAt(M.code, pc) \in 0..Len(M.code)
        /\ NextAt(M.code, other) \in 0..Len(M.code)
    BY <1>1, <1>2, <1>3
  <1>5. /\ other < pc => NextAt(M.code, other) <= pc
        /\ pc < other => NextAt(M.code, pc) <= other
    BY <1>2, <1>4
  <1> QED BY <1>1, <1>2, <1>4, <1>5

\* One instruction, and none other, has become another.
OneRewritten(M, cells, rewritten, pc, op) ==
  /\ rewritten[pc + 1] = op
  /\ \A other \in M.starts : other # pc => rewritten[other + 1] = cells[other + 1]

LEMMA Patched ==
  ASSUME NEW M, IsCode(M), NEW cells, CellsFit(M, cells), NEW pc \in M.starts,
         NEW op \in Variants(M.code[pc + 1]), op # M.code[pc + 1],
         M.code[pc + 1] # "super_send", NEW slot, op = "push_frame" => slot \in Nat \ {0}
  PROVE  /\ CellsFit(M, ReplaceAt(ReplaceAt(cells, pc + 1, op), pc + 2, slot))
         /\ OneRewritten(M, cells, ReplaceAt(ReplaceAt(cells, pc + 1, op), pc + 2, slot), pc, op)
  <1> DEFINE once == ReplaceAt(cells, pc + 1, op)
             twice == ReplaceAt(once, pc + 2, slot)
  <1>1. IsSequence(cells) /\ Len(cells) = Len(M.code) /\ Len(M.code) \in Nat
    BY DEF CellsFit, IsCode, IsSequence
  <1>2. pc \in Nat /\ pc + 1 \in 1..Len(M.code)
    BY AtCell
  <1>3. pc + 2 \in 1..Len(M.code) /\ NextAt(M.code, pc) >= pc + 2
    <2>1. M.code[pc + 1] \in Unresolved
      BY DEF Variants, Unresolved
    <2>2. BytecodeLength(M.code[pc + 1]) >= 2
      BY <2>1, TheLongJumps DEF BytecodeLength, Unresolved, PushFrame, PushInner, PopFrame,
         PopInner, Jumps, ShortJumps, Sends, QuickSuperSends, PushBlock
    <2>3. NextAt(M.code, pc) \in 0..Len(M.code)
      BY <1>1 DEF IsCode
    <2>4. BytecodeLength(M.code[pc + 1]) \in 1..3
      BY DEF BytecodeLength
    <2> QED BY <1>1, <1>2, <2>2, <2>3, <2>4 DEF NextAt
  <1>4. /\ IsSequence(once) /\ Len(once) = Len(M.code) /\ once[pc + 1] = op
        /\ \A j \in 1..Len(M.code) : j # pc + 1 => once[j] = cells[j]
    BY <1>1, <1>2, Replaced
  <1> HIDE DEF once
  <1>5. /\ IsSequence(twice) /\ Len(twice) = Len(M.code) /\ twice[pc + 2] = slot
        /\ \A j \in 1..Len(M.code) : j # pc + 2 => twice[j] = once[j]
    BY <1>3, <1>4, Replaced
  <1> HIDE DEF twice
  <1>6. twice[pc + 1] = op
    BY <1>2, <1>4, <1>5
  <1>7. \A j \in 1..Len(M.code) : j # pc + 1 /\ j # pc + 2 => twice[j] = cells[j]
    BY <1>4, <1>5
  <1>8. ASSUME NEW other \in M.starts
        PROVE  /\ twice[other + 1] \in Variants(M.code[other + 1])
               /\ twice[other + 1] = M.code[other + 1] \/ M.code[other + 1] = "super_send" =>
                    \A i \in (other + 2)..NextAt(M.code, other) : twice[i] = M.code[i]
               /\ twice[other + 1] = "push_frame" => twice[other + 2] \in Nat \ {0}
    <2>1. CASE other = pc
      BY <1>5, <1>6, <2>1
    <2>2. CASE other # pc
      <3>1. /\ other \in Nat /\ other + 1 \in 1..Len(M.code)
            /\ cells[other + 1] \in Variants(M.code[other + 1])
            /\ cells[other + 1] = M.code[other + 1] \/ M.code[other + 1] = "super_send" =>
                 \A i \in (other + 2)..NextAt(M.code, other) : cells[i] = M.code[i]
        BY AtCell
      <3>2. cells[other + 1] = "push_frame" => cells[other + 2] \in Nat \ {0}
        BY DEF CellsFit
      <3>3. /\ NextAt(M.code, pc) \in Nat /\ NextAt(M.code, other) \in Nat
            /\ NextAt(M.code, other) <= Len(M.code)
            /\ other < pc => NextAt(M.code, other) <= pc
            /\ pc < other => NextAt(M.code, pc) <= other
        BY <2>2, OperandsApart
      <3>4. other + 1 # pc + 1 /\ other + 1 # pc + 2
        BY <1>2, <1>3, <2>2, <3>1, <3>3
      <3>5. \A i \in (other + 2)..NextAt(M.code, other) :
              i \in 1..Len(M.code) /\ i # pc + 1 /\ i # pc + 2
        BY <1>2, <1>3, <2>2, <3>1, <3>3
      <3>6. twice[other + 1] = cells[other + 1]
        BY <1>7, <3>1, <3>4
      <3>7. \A i \in (other + 2)..NextAt(M.code, other) : twice[i] = cells[i]
        BY <1>7, <3>5
      <3>8. twice[other + 1] = "push_frame" => twice[other + 2] = cells[other + 2]
        <4>1. SUFFICES ASSUME cells[other + 1] = "push_frame"
                       PROVE  twice[other + 2] = cells[other + 2]
          BY <3>6
        <4>2. BytecodeLength(cells[other + 1]) = 3
          BY <4>1, TheLongJumps DEF BytecodeLength, PushFrame, PushInner, PopFrame,
             PopInner, Unresolved, Jumps, ShortJumps, Sends, QuickSuperSends, PushBlock
        <4>3. NextAt(M.code, other) = other + 3
          BY <4>2, AtCell DEF NextAt
        <4>4. other + 2 \in (other + 2)..NextAt(M.code, other)
          BY <3>1, <4>3
        <4> QED BY <3>7, <4>4
      <3> QED BY <3>1, <3>2, <3>6, <3>7, <3>8
    <2> QED BY <2>1, <2>2
  <1>9. CellsFit(M, twice)
    BY <1>1, <1>5, <1>8 DEF CellsFit
  <1>10. ASSUME NEW other \in M.starts, other # pc
         PROVE  twice[other + 1] = cells[other + 1]
    <2>1. /\ other \in Nat /\ other + 1 \in 1..Len(M.code)
          /\ NextAt(M.code, pc) \in Nat
          /\ pc < other => NextAt(M.code, pc) <= other
      BY <1>10, AtCell, OperandsApart
    <2>2. other + 1 # pc + 1 /\ other + 1 # pc + 2
      BY <1>2, <1>3, <1>10, <2>1
    <2> QED BY <1>7, <2>1, <2>2
  <1>11. OneRewritten(M, cells, twice, pc, op)
    BY <1>6, <1>10 DEF OneRewritten
  <1> QED BY <1>9, <1>11 DEF twice, once

LEMMA ResolvedOps ==
  ASSUME bc \in Unresolved, NEW v
  PROVE  /\ ResolvedOp(v) \in Variants(bc) \ {bc}
         /\ ResolvedOp(v) = "push_frame" => bc \in {"push_local", "push_argument"}
  <1> DEFINE d == v.access - RcvrIdx
             near == ContextOf(bc) = 0 /\ d \in 0..2 /\ bc # "nil_local"
             n == IF near THEN d + 2 ELSE 1
  <1>1. n \in 1..4 /\ (bc = "nil_local" => n = 1)
    <2> HIDE DEF d
    <2> QED OBVIOUS
  <1> HIDE DEF n
  <1>2. CASE bc \in {"push_local", "push_argument"}
    <2>1. ResolvedOp(v) =
            (IF v.out THEN <<"push_inner", "push_inner_0", "push_inner_1", "push_inner_2">>
             ELSE <<"push_frame", "push_frame_0", "push_frame_1", "push_frame_2">>)[n]
      BY <1>2 DEF ResolvedOp, n
    <2>2. ResolvedOp(v) \in PushFrame \cup PushInner
      BY <1>1, <2>1 DEF PushFrame, PushInner
    <2> QED BY <1>2, <2>2 DEF Variants, PushFrame, PushInner
  <1>3. CASE bc \in {"pop_local", "pop_argument"}
    <2>1. ResolvedOp(v) =
            (IF v.out THEN <<"pop_inner", "pop_inner_0", "pop_inner_1", "pop_inner_2">>
             ELSE <<"pop_frame", "pop_frame_0", "pop_frame_1", "pop_frame_2">>)[n]
      BY <1>3 DEF ResolvedOp, n
    <2>2. ResolvedOp(v) \in PopFrame \cup PopInner
      BY <1>1, <2>1 DEF PopFrame, PopInner
    <2> QED BY <1>3, <2>2 DEF Variants, PopFrame, PopInner
  <1>4. CASE bc = "nil_local"
    <2>1. ResolvedOp(v) = (IF v.out THEN <<"nil_inner">> ELSE <<"nil_frame">>)[n]
      BY <1>4 DEF ResolvedOp, n
    <2>2. ResolvedOp(v) \in {"nil_inner", "nil_frame"}
      BY <1>1, <1>4, <2>1
    <2> QED BY <1>4, <2>2 DEF Variants
  <1> QED BY <1>2, <1>3, <1>4 DEF Unresolved

\* The cells of the running method after "patch_variable_access".
PatchedCells ==
  ReplaceAt(ReplaceAt(code[top.m], top.pc + 1, ResolvedOp(Accessed)),
            top.pc + 2, Accessed.access)

LEMMA PatchRewrites ==
  ASSUME Inv, outcome = Running, bc \in Unresolved
  PROVE  /\ CellsFit(Here, PatchedCells)
         /\ OneRewritten(Here, code[top.m], PatchedCells, top.pc, ResolvedOp(Accessed))
  <1> DEFINE v == Accessed
  <1>1. bc = Compiled
    BY NotRewritten DEF Unresolved, PushFrame, PushInner, PopFrame, PopInner, QuickSuperSends
  <1>2. /\ IsCode(Here) /\ CellsFit(Here, code[top.m]) /\ top.pc \in Here.starts
        /\ OperandsExist(P, top.m, top.pc) /\ top.m \in DOMAIN P.methods
    BY AtInstruction
  <1>3. ResolvedOp(v) = "push_frame" => v.access \in Nat \ {0}
    <2>1. SUFFICES ASSUME ResolvedOp(v) = "push_frame" PROVE v.access \in Nat \ {0}
      OBVIOUS
    <2>2. bc \in {"push_local", "push_argument"}
      BY <2>1, ResolvedOps
    <2>3. BytecodeLength(bc) = 3
      BY <2>2, TheLongJumps DEF BytecodeLength, PushFrame, PushInner, PopFrame,
         PopInner, Unresolved, Jumps, ShortJumps, Sends, QuickSuperSends, PushBlock
    <2>4. Operand(1) = Here.code[top.pc + 2] /\ Operand(2) = Here.code[top.pc + 3]
      BY <1>1, <2>3, AsCompiled
    <2>5. v = VariableOf(P, top.m, Compiled, Here.code[top.pc + 2], Here.code[top.pc + 3])
      BY <1>1, <2>2, <2>4 DEF Accessed, ContextOf
    <2> QED BY <1>1, <1>2, <2>2, <2>5 DEF OperandsExist, Compiled, Here, Method
  <1> HIDE DEF v
  <1>4. /\ ResolvedOp(v) \in Variants(Compiled) /\ ResolvedOp(v) # Compiled
        /\ Compiled # "super_send"
    BY <1>1, ResolvedOps DEF Unresolved
  <1> DEFINE op == ResolvedOp(v)
             slot == v.access
             cells == code[top.m]
             after == ReplaceAt(ReplaceAt(cells, top.pc + 1, op), top.pc + 2, slot)
  <1> HIDE DEF op, slot, cells
  <1>5. /\ IsCode(Here) /\ CellsFit(Here, cells) /\ top.pc \in Here.starts
        /\ op \in Variants(Here.code[top.pc + 1]) /\ op # Here.code[top.pc + 1]
        /\ Here.code[top.pc + 1] # "super_send" /\ (op = "push_frame" => slot \in Nat \ {0})
    BY <1>2, <1>3, <1>4 DEF Compiled, op, slot, cells
  <1>6. CellsFit(Here, after) /\ OneRewritten(Here, cells, after, top.pc, op)
    BY <1>5, Patched
  <1> QED BY <1>6 DEF PatchedCells, op, slot, cells, v

LEMMA PatchKeeps ==
  ASSUME Inv, outcome = Running, UNCHANGED program, bc \in Unresolved, Patch
  PROVE  Inv'
  <1>1. /\ code' = [code EXCEPT ![top.m] = PatchedCells]
        /\ UNCHANGED <<acts, inners, objects, globals, outcome>>
    BY DEF Patch, PatchedCells, heap
  <1>2. CodeFits(P, code)
    BY DEF Inv
  <1>3. CodeFits(P, code')
    BY <1>1, <1>2, PatchRewrites, AtInstruction, CodeRewritten DEF Here, Method
  <1>4. /\ ActivationsFit(program, acts') /\ InnersFit(P, inners') /\ ObjectsFit(P, objects')
        /\ GlobalsFit(P, globals') /\ acts' # <<>>
    BY <1>1 DEF Inv
  <1> QED BY <1>3, <1>4, InvAfter

---------------------------------------------------------------------------
(* Sends.                                                                  *)

LEMMA ArgumentsOfSend ==
  ASSUME Inv, outcome = Running, bc \in SendLike
  PROVE  /\ Arity[Selector] = ArgsHere /\ Arity[Selector] \in 1..Len(top.stack)
         /\ NextPc \in DOMAIN HeightHere
         /\ HeightHere[NextPc] = Len(top.stack) + (1 - Arity[Selector])
  <1>1. bc = Compiled \/ Compiled = "super_send"
    BY CompiledAs DEF Variants, SendLike, Sends, QuickSuperSends, PushFrame, PushInner,
       PopFrame, PopInner
  <1>2. BytecodeLength(bc) = 2
    BY TheLongJumps DEF BytecodeLength, PushFrame, PushInner, PopFrame, PopInner,
       Unresolved, Jumps, ShortJumps, SendLike, Sends, QuickSuperSends, PushBlock
  <1>3. Operand(1) = Here.code[top.pc + 2]
    BY <1>1, <1>2, AsCompiled
  <1>4. Compiled \in SendLike
    BY <1>1 DEF SendLike
  <1>5. ArgsHere = Arity[Selector]
    BY <1>3, <1>4 DEF ArgsHere, ArgsAt, Compiled, Selector, Literal, Here
  <1>6. bc \notin Jumps \cup Returns
    BY OnwardOnly
  <1>7. /\ ArgsHere \in Nat /\ ArgsHere > 0 /\ Takes(bc, ArgsHere) <= Len(top.stack)
        /\ NextPc \in DOMAIN HeightHere
        /\ HeightHere[NextPc] = Len(top.stack) + BytecodeStackEffect(bc, ArgsHere)
    BY <1>6, Onward
  <1>8. BytecodeStackEffect(bc, ArgsHere) = 1 - ArgsHere /\ Takes(bc, ArgsHere) = ArgsHere
    BY <1>7, EffectOfSends
  <1> QED BY <1>5, <1>7, <1>8, AtInstruction

LEMMA SendingFits ==
  ASSUME Inv, outcome = Running, bc \in SendLike
  PROVE  /\ ActivationFits(program, AfterArgs(Arity[Selector]))
         /\ Len(AfterArgs(Arity[Selector]).stack) > 0
         /\ IsArguments(P, Args(Arity[Selector]))
         /\ NamesAMethod(P, FromTop(Arity[Selector] - 1))
  <1> DEFINE n == Arity[Selector]
             s == top.stack
             b == AfterArgs(n)
  <1>1. /\ n \in 1..Len(s) /\ NextPc \in DOMAIN HeightHere
        /\ HeightHere[NextPc] = Len(s) + (1 - n)
    BY ArgumentsOfSend
  <1>2. IsStack(P, s) /\ IsSequence(s) /\ Len(s) \in Nat
    BY AtInstruction DEF IsStack
  <1>3. /\ DOMAIN b = DOMAIN top /\ b.m = top.m /\ b.frame = top.frame
        /\ b.pc = NextPc /\ b.stack = Drop(s, n - 1)
    BY AtInstruction DEF ActivationFields, AfterArgs
  <1> HIDE DEF n, b
  <1>4. n - 1 \in 0..Len(s)
    BY <1>1, <1>2
  <1>5. IsStack(P, b.stack) /\ Len(b.stack) = Len(s) - (n - 1)
    BY <1>2, <1>3, <1>4, Taken
  <1>6. Len(b.stack) = HeightHere[b.pc] /\ Len(b.stack) > 0
    BY <1>1, <1>2, <1>3, <1>5
  <1>7. ActivationFits(program, b)
    BY <1>1, <1>3, <1>5, <1>6, Goes
  <1>8. IsArguments(P, Args(n))
    <2> DEFINE args == SubSeq(s, Len(s) - n + 2, Len(s))
    <2>1. s \in Seq(Elements(s))
      BY <1>2, SequenceType
    <2>2. Len(s) - n + 2 \in 1..(Len(s) + 1)
      BY <1>1, <1>2
    <2>3. /\ args \in Seq(Elements(s)) /\ Len(args) = n - 1
          /\ \A i \in 1..(n - 1) : args[i] = s[Len(s) - n + 2 + i - 1]
      BY <1>1, <1>2, <2>1, <2>2
    <2> HIDE DEF args
    <2>4. \A i \in 1..(n - 1) : Len(s) - n + 2 + i - 1 \in 1..Len(s)
      BY <1>1, <1>2
    <2>5. \A i \in 1..(n - 1) : NamesAMethod(P, args[i])
      BY <1>2, <2>3, <2>4 DEF IsStack
    <2>6. IsArguments(P, args)
      BY <2>3, <2>5, TypedSequence DEF IsArguments
    <2> QED BY <2>6 DEF args, Args
  <1>9. NamesAMethod(P, FromTop(n - 1))
    BY <1>2, OnStack DEF FromTop
  <1> QED BY <1>6, <1>7, <1>8, <1>9 DEF n, b

LEMMA SendFoundKeeps ==
  ASSUME Inv, outcome = Running, UNCHANGED program, CodeFits(P, code'), bc \in SendLike,
         NEW class, NEW entry, NEW tier2,
         Perform(Call(Lookup(class, Selector), FromTop(Arity[Selector] - 1),
                      Args(Arity[Selector]), entry, tier2), AfterArgs(Arity[Selector]))
  PROVE  Inv'
  <1> DEFINE n == Arity[Selector]
             inv == Lookup(class, Selector)
             rcvr == FromTop(n - 1)
             args == Args(n)
             call == Call(inv, rcvr, args, entry, tier2)
  <1>1. IsInvokable(P, inv)
    BY FoundByName
  <1>2. /\ ActivationFits(program, AfterArgs(n)) /\ Len(AfterArgs(n).stack) > 0
        /\ IsArguments(P, args) /\ NamesAMethod(P, rcvr)
    BY SendingFits
  <1>3. Perform(call, AfterArgs(n))
    OBVIOUS
  <1> HIDE DEF n, inv, rcvr, args
  <1>4. CallFits(P, call)
    BY <1>1, <1>2 DEF CallFits, Call
  <1> HIDE DEF call
  <1> QED BY <1>2, <1>3, <1>4, PerformKeeps

LEMMA NotUnderstoodKeeps ==
  ASSUME Inv, outcome = Running, UNCHANGED program, CodeFits(P, code'), bc \in SendLike,
         SendDoesNotUnderstand(Arity[Selector])
  PROVE  Inv'
  <1> DEFINE n == Arity[Selector]
             rcvr == FromTop(n - 1)
             inv == Lookup(ClassOf(rcvr), "doesNotUnderstand:arguments:")
             args == <<<<"sym", Selector>>, <<"array", Args(n)>>>>
             call == Call(inv, rcvr, args, 3, FALSE)
  <1>1. IsInvokable(P, inv) /\ IsArguments(P, args)
    BY FoundByName, Harmless, Pair
  <1>2. /\ ActivationFits(program, AfterArgs(n)) /\ Len(AfterArgs(n).stack) > 0
        /\ NamesAMethod(P, rcvr)
    BY SendingFits
  <1>3. Perform(call, AfterArgs(n))
    BY DEF SendDoesNotUnderstand
  <1> HIDE DEF n, inv, rcvr, args
  <1>4. CallFits(P, call)
    BY <1>1, <1>2 DEF CallFits, Call
  <1> HIDE DEF call
  <1> QED BY <1>2, <1>3, <1>4, PerformKeeps

LEMMA SendKeeps ==
  ASSUME Inv, outcome = Running, UNCHANGED <<program, code>>, bc \in SendLike,
         NEW tier2, Send(tier2)
  PROVE  Inv'
  <1> DEFINE n == Arity[Selector]
             rcvr == FromTop(n - 1)
             class == ClassOf(rcvr)
  <1>1. CodeFits(P, code')
    BY DEF Inv
  <1>2. \/ outcome' = Failed("receiver") /\ UNCHANGED <<acts, heap>>
        \/ Perform(Call(Lookup(class, Selector), rcvr, Args(n), Entry(n), tier2), AfterArgs(n))
        \/ SendDoesNotUnderstand(n)
    BY DEF Send
  <1>3. CASE outcome' = Failed("receiver") /\ UNCHANGED <<acts, heap>>
    BY <1>1, <1>3, Stopped, FailedIsNotRunning
  <1>4. CASE Perform(Call(Lookup(class, Selector), rcvr, Args(n), Entry(n), tier2),
                     AfterArgs(n))
    <2> HIDE DEF class
    <2> QED BY <1>1, <1>4, SendFoundKeeps
  <1>5. CASE SendDoesNotUnderstand(n)
    BY <1>1, <1>5, NotUnderstoodKeeps
  <1> QED BY <1>2, <1>3, <1>4, <1>5

LEMMA SuperSendRewritten ==
  ASSUME NEW M, IsCode(M), NEW cells, CellsFit(M, cells), NEW pc \in M.starts,
         M.code[pc + 1] = "super_send", NEW quick \in QuickSuperSends
  PROVE  /\ CellsFit(M, ReplaceAt(cells, pc + 1, quick))
         /\ OneRewritten(M, cells, ReplaceAt(cells, pc + 1, quick), pc, quick)
  <1> DEFINE rewritten == ReplaceAt(cells, pc + 1, quick)
  <1>1. IsSequence(cells) /\ Len(cells) = Len(M.code) /\ Len(M.code) \in Nat
    BY DEF CellsFit, IsCode, IsSequence
  <1>2. pc \in Nat /\ pc + 1 \in 1..Len(M.code)
    BY AtCell
  <1>3. /\ IsSequence(rewritten) /\ Len(rewritten) = Len(M.code)
        /\ rewritten[pc + 1] = quick
        /\ \A j \in 1..Len(M.code) : j # pc + 1 => rewritten[j] = cells[j]
    BY <1>1, <1>2, Replaced
  <1> HIDE DEF rewritten
  <1>4. quick # "push_frame"
    BY DEF QuickSuperSends
  <1>5. ASSUME NEW other \in M.starts
        PROVE  /\ rewritten[other + 1] \in Variants(M.code[other + 1])
               /\ rewritten[other + 1] = M.code[other + 1] \/ M.code[other + 1] = "super_send" =>
                    \A i \in (other + 2)..NextAt(M.code, other) : rewritten[i] = M.code[i]
               /\ rewritten[other + 1] = "push_frame" => rewritten[other + 2] \in Nat \ {0}
    <2>1. /\ other \in Nat /\ other + 1 \in 1..Len(M.code)
          /\ cells[other + 1] \in Variants(M.code[other + 1])
          /\ cells[other + 1] = M.code[other + 1] \/ M.code[other + 1] = "super_send" =>
               \A i \in (other + 2)..NextAt(M.code, other) : cells[i] = M.code[i]
      BY AtCell
    <2>2. cells[other + 1] = "push_frame" => cells[other + 2] \in Nat \ {0}
      BY DEF CellsFit
    <2>3. NextAt(M.code, other) \in 0..Len(M.code)
      BY <1>1 DEF IsCode
    <2>4. \A i \in (other + 2)..NextAt(M.code, other) : i \in 1..Len(M.code) /\ i # pc + 1
      <3>1. CASE other = pc
        BY <1>1, <1>2, <2>1, <2>3, <3>1
      <3>2. CASE other # pc
        BY <1>1, <1>2, <2>1, <2>3, <3>2, OperandsApart
      <3> QED BY <3>1, <3>2
    <2>5. \A i \in (other + 2)..NextAt(M.code, other) : rewritten[i] = cells[i]
      BY <1>3, <2>4
    <2>6. CASE other = pc
      <3>1. rewritten[other + 1] \in Variants(M.code[other + 1])
        BY <1>3, <2>6 DEF Variants
      <3> QED BY <1>3, <1>4, <2>1, <2>5, <2>6, <3>1
    <2>7. CASE other # pc
      <3>1. rewritten[other + 1] = cells[other + 1]
        BY <1>2, <1>3, <2>1, <2>7
      <3>2. rewritten[other + 1] = "push_frame" => rewritten[other + 2] = cells[other + 2]
        <4>1. SUFFICES ASSUME cells[other + 1] = "push_frame"
                       PROVE  rewritten[other + 2] = cells[other + 2]
          BY <3>1
        <4>2. BytecodeLength(cells[other + 1]) = 3
          BY <4>1, TheLongJumps DEF BytecodeLength, PushFrame, PushInner, PopFrame,
             PopInner, Unresolved, Jumps, ShortJumps, Sends, QuickSuperSends, PushBlock
        <4>3. NextAt(M.code, other) = other + 3
          BY <4>2, AtCell DEF NextAt
        <4>4. other + 2 \in (other + 2)..NextAt(M.code, other)
          BY <2>1, <4>3
        <4> QED BY <2>5, <4>4
      <3> QED BY <2>1, <2>2, <2>5, <3>1, <3>2
    <2> QED BY <2>6, <2>7
  <1>6. CellsFit(M, rewritten)
    BY <1>1, <1>3, <1>5 DEF CellsFit
  <1>7. ASSUME NEW other \in M.starts, other # pc
        PROVE  rewritten[other + 1] = cells[other + 1]
    BY <1>1, <1>2, <1>3, <1>7, AtCell
  <1>8. OneRewritten(M, cells, rewritten, pc, quick)
    BY <1>3, <1>7 DEF OneRewritten
  <1> QED BY <1>6, <1>8 DEF rewritten

LEMMA SuperSendKeeps ==
  ASSUME Inv, outcome = Running, UNCHANGED program, bc = "super_send",
         NEW quick \in QuickSuperSends, SuperSend(quick)
  PROVE  Inv'
  <1> DEFINE n == Arity[Selector]
  <1>1. bc \in SendLike /\ bc = Compiled
    BY NotRewritten DEF SendLike, PushFrame, PushInner, PopFrame, PopInner, QuickSuperSends
  <1>2. CodeFits(P, code)
    BY DEF Inv
  <1>3. \/ /\ code' = [code EXCEPT ![top.m] = ReplaceAt(@, top.pc + 1, quick)]
           /\ Perform(Call(Lookup(SuperClass, Selector), FromTop(n - 1), Args(n),
                           SlowEntry(n), FALSE), AfterArgs(n))
        \/ outcome' = Failed("super") /\ UNCHANGED <<code, acts, heap>>
    BY DEF SuperSend
  <1>4. CASE /\ code' = [code EXCEPT ![top.m] = ReplaceAt(@, top.pc + 1, quick)]
             /\ Perform(Call(Lookup(SuperClass, Selector), FromTop(n - 1), Args(n),
                             SlowEntry(n), FALSE), AfterArgs(n))
    <2> DEFINE cells == ReplaceAt(code[top.m], top.pc + 1, quick)
    <2>1. code' = [code EXCEPT ![top.m] = cells]
      BY <1>4
    <2>2. CellsFit(Here, cells)
      BY <1>1, AtInstruction, SuperSendRewritten DEF Compiled
    <2> HIDE DEF cells
    <2>3. CodeFits(P, code')
      BY <1>2, <2>1, <2>2, AtInstruction, CodeRewritten DEF Here, Method
    <2> QED BY <1>1, <1>4, <2>3, SendFoundKeeps
  <1>5. CASE outcome' = Failed("super") /\ UNCHANGED <<code, acts, heap>>
    BY <1>2, <1>5, Stopped, FailedIsNotRunning
  <1> QED BY <1>3, <1>4, <1>5

LEMMA SuperSendAgainKeeps ==
  ASSUME Inv, outcome = Running, UNCHANGED <<program, code>>, bc \in QuickSuperSends,
         NEW tier2, SuperSendAgain(tier2)
  PROVE  Inv'
  <1>1. bc \in SendLike
    BY DEF SendLike
  <1>2. CodeFits(P, code')
    BY DEF Inv
  <1> QED BY <1>1, <1>2, SendFoundKeeps DEF SuperSendAgain

---------------------------------------------------------------------------
(* Jumps.                                                                  *)

Target == TargetAt(Here.code, top.pc, JumpBase)

LEMMA AtJump ==
  ASSUME Inv, outcome = Running, bc \in Jumps
  PROVE  /\ bc = Compiled /\ NextPc = NextAt(Here.code, top.pc)
         /\ bc \notin BackwardJumps => top.pc + Offset = Target
         /\ bc \in BackwardJumps => top.pc - Offset = Target
  <1>1. bc = Compiled /\ NextPc = NextAt(Here.code, top.pc)
    BY CompiledAs DEF Alike
  <1>2. BytecodeLength(bc) = 3
    BY TheLongJumps DEF BytecodeLength, PushFrame, PushInner, PopFrame, PopInner,
       Unresolved, Jumps, ShortJumps, Sends, QuickSuperSends, PushBlock
  <1>3. Operand(1) = Here.code[top.pc + 2] /\ Operand(2) = Here.code[top.pc + 3]
    BY <1>1, <1>2, AsCompiled
  <1>4. Offset = OffsetAt(Here.code, top.pc, JumpBase)
    BY <1>1, <1>3 DEF Offset, OffsetAt, Compiled
  <1> QED BY <1>1, <1>4 DEF Target, TargetAt, Compiled

LEMMA WayTo ==
  ASSUME Inv, outcome = Running, NEW to, NEW height,
         <<to, height>> \in FlowsTo(Here, top.pc, Len(top.stack))
  PROVE  to \in DOMAIN HeightHere /\ HeightHere[to] = height
  BY AtInstruction, StackMapAlong

LEMMA JumpedFits ==
  ASSUME Inv, outcome = Running, NEW pc, pc \in DOMAIN HeightHere,
         HeightHere[pc] = Len(top.stack)
  PROVE  ActivationFits(program, [top EXCEPT !.pc = pc])
  <1> DEFINE b == [top EXCEPT !.pc = pc]
  <1>1. /\ DOMAIN b = DOMAIN top /\ b.m = top.m /\ b.frame = top.frame
        /\ b.pc = pc /\ b.stack = top.stack
    BY AtInstruction DEF ActivationFields
  <1> HIDE DEF b
  <1>2. ActivationFits(program, b)
    BY <1>1, AtInstruction, Goes
  <1> QED BY <1>2 DEF b

LEMMA JumpKeeps ==
  ASSUME Inv, outcome = Running, UNCHANGED <<program, code>>, NEW pc, JumpTo(pc),
         \/ bc \in {"jump", "jump2"} /\ pc = top.pc + Offset
         \/ bc \in BackwardJumps /\ pc = top.pc - Offset
  PROVE  Inv'
  <1>1. bc \in {"jump", "jump2"} \cup BackwardJumps /\ bc \in Jumps
    BY TheLongJumps DEF Jumps, ShortJumps, BackwardJumps
  <1>2. bc \in {"jump", "jump2"} => bc \notin BackwardJumps
    BY DEF BackwardJumps
  <1>3. pc = Target
    BY <1>1, <1>2, AtJump
  <1>4. <<Target, Len(top.stack)>> \in FlowsTo(Here, top.pc, Len(top.stack))
    BY <1>1, AtJump, JumpFlow DEF Target, Compiled
  <1>5. pc \in DOMAIN HeightHere /\ HeightHere[pc] = Len(top.stack)
    BY <1>3, <1>4, WayTo
  <1>6. ActivationFits(program, [top EXCEPT !.pc = pc])
    BY <1>5, JumpedFits
  <1> QED BY <1>6, Continues DEF JumpTo

LEMMA ShieldingJumpKeeps ==
  ASSUME Inv, outcome = Running, UNCHANGED <<program, code>>, bc = "jump2",
         Continue([top EXCEPT !.pc = @ + Offset, !.shielded = TRUE])
  PROVE  Inv'
  <1> DEFINE b == [top EXCEPT !.pc = @ + Offset, !.shielded = TRUE]
  <1>1. bc \in Jumps /\ bc \in {"jump", "jump2"} \cup BackwardJumps /\ bc \notin BackwardJumps
    BY TheLongJumps DEF Jumps, ShortJumps, BackwardJumps
  <1>2. top.pc + Offset = Target
    BY <1>1, AtJump
  <1>3. <<Target, Len(top.stack)>> \in FlowsTo(Here, top.pc, Len(top.stack))
    BY <1>1, AtJump, JumpFlow DEF Target, Compiled
  <1>4. Target \in DOMAIN HeightHere /\ HeightHere[Target] = Len(top.stack)
    BY <1>3, WayTo
  <1>5. /\ DOMAIN b = DOMAIN top /\ b.m = top.m /\ b.frame = top.frame
        /\ b.pc = Target /\ b.stack = top.stack
    BY <1>2, AtInstruction DEF ActivationFields
  <1> HIDE DEF b
  <1>6. ActivationFits(program, b)
    BY <1>4, <1>5, AtInstruction, Goes
  <1>7. Continue(b)
    BY DEF b
  <1> QED BY <1>6, <1>7, Continues

LEMMA TakesOfJumps ==
  ASSUME Inv, outcome = Running, bc \in Jumps
  PROVE  /\ bc \in OnTrue \cup OnFalse => Len(top.stack) > 0
         /\ bc \in {"jump_if_greater", "jump2_if_greater"} => Len(top.stack) >= 2
  <1>1. bc = Compiled
    BY AtJump
  <1>2. Takes(Compiled, ArgsHere) <= Len(top.stack) /\ Len(top.stack) \in Nat
    BY AtInstruction, StackMapAt DEF Compiled, ArgsHere
  <1>3. /\ bc \in OnTrue \cup OnFalse => Takes(bc, ArgsHere) = 1
        /\ bc \in {"jump_if_greater", "jump2_if_greater"} => Takes(bc, ArgsHere) = 2
    BY DEF Takes, SendLike, Sends, QuickSuperSends, PopFrame, PopInner, PopX, PopField,
       OnTrue, OnFalse
  <1> QED BY <1>1, <1>2, <1>3

LEMMA JumpOnBooleanKeeps ==
  ASSUME Inv, outcome = Running, UNCHANGED <<program, code>>, bc \in OnTrue \cup OnFalse,
         JumpOnBoolean
  PROVE  Inv'
  <1> DEFINE taken == FromTop(0) = Bool(bc \in OnTrue)
             pc == IF taken THEN top.pc + Offset ELSE NextPc
             s == IF taken /\ bc \in LeavesNil THEN PutOnTop(top.stack, Nil)
                  ELSE Drop(top.stack, 1)
             b == [top EXCEPT !.pc = pc, !.stack = s]
  <1>1. bc \in Jumps /\ bc \notin BackwardJumps
    BY TheLongJumps DEF Jumps, ShortJumps, BackwardJumps, OnTrue, OnFalse
  <1>2. /\ top.pc + Offset = Target /\ NextPc = NextAt(Here.code, top.pc) /\ bc = Compiled
        /\ Len(top.stack) > 0 /\ Len(top.stack) \in Nat /\ IsStack(P, top.stack)
    BY <1>1, AtJump, TakesOfJumps, AtInstruction
  <1>3. Continue(b)
    BY DEF JumpOnBoolean
  <1>4. /\ IsStack(P, PutOnTop(top.stack, Nil))
        /\ Len(PutOnTop(top.stack, Nil)) = Len(top.stack)
        /\ IsStack(P, Drop(top.stack, 1)) /\ Len(Drop(top.stack, 1)) = Len(top.stack) - 1
    BY <1>2, Answered, Taken, Harmless
  <1>5. /\ NextPc \in DOMAIN HeightHere /\ HeightHere[NextPc] = Len(top.stack) - 1
        /\ Target \in DOMAIN HeightHere
        /\ HeightHere[Target] = IF bc \in LeavesNil THEN Len(top.stack) ELSE Len(top.stack) - 1
    <2>1. CASE bc \in LeavesNil
      <3>1. /\ <<Target, Len(top.stack)>> \in FlowsTo(Here, top.pc, Len(top.stack))
            /\ <<NextPc, Len(top.stack) - 1>> \in FlowsTo(Here, top.pc, Len(top.stack))
        BY <1>2, <2>1, NilFlow DEF Target, Compiled
      <3> QED BY <2>1, <3>1, WayTo
    <2>2. CASE bc \notin LeavesNil
      <3>1. /\ <<Target, Len(top.stack) - 1>> \in FlowsTo(Here, top.pc, Len(top.stack))
            /\ <<NextPc, Len(top.stack) - 1>> \in FlowsTo(Here, top.pc, Len(top.stack))
        BY <1>2, <2>2, PopFlow DEF Target, Compiled
      <3> QED BY <2>2, <3>1, WayTo
    <2> QED BY <2>1, <2>2
  <1>6. pc \in DOMAIN HeightHere /\ IsStack(P, s) /\ Len(s) = HeightHere[pc]
    <2>1. CASE taken
      BY <1>2, <1>4, <1>5, <2>1
    <2>2. CASE ~taken
      BY <1>4, <1>5, <2>2
    <2> QED BY <2>1, <2>2
  <1> HIDE DEF pc, s
  <1>7. /\ DOMAIN b = DOMAIN top /\ b.m = top.m /\ b.frame = top.frame
        /\ b.pc = pc /\ b.stack = s
    BY AtInstruction DEF ActivationFields
  <1> HIDE DEF b
  <1>8. ActivationFits(program, b)
    BY <1>6, <1>7, Goes
  <1> QED BY <1>3, <1>8, Continues

LEMMA JumpIfGreaterKeeps ==
  ASSUME Inv, outcome = Running, UNCHANGED <<program, code>>,
         bc \in {"jump_if_greater", "jump2_if_greater"}, JumpIfGreater
  PROVE  Inv'
  <1> DEFINE gone == [top EXCEPT !.pc = @ + Offset, !.stack = Drop(@, 2)]
             stays == [top EXCEPT !.pc = NextPc]
  <1>1. bc \in Jumps /\ bc \notin BackwardJumps
    BY TheLongJumps DEF Jumps, ShortJumps, BackwardJumps
  <1>2. /\ top.pc + Offset = Target /\ NextPc = NextAt(Here.code, top.pc) /\ bc = Compiled
        /\ Len(top.stack) >= 2 /\ Len(top.stack) \in Nat /\ IsStack(P, top.stack)
    BY <1>1, AtJump, TakesOfJumps, AtInstruction
  <1>3. \/ outcome' = Failed("not an integer") /\ UNCHANGED <<acts, heap>>
        \/ Continue(gone)
        \/ Continue(stays)
    BY DEF JumpIfGreater
  <1>4. /\ <<Target, Len(top.stack) - 2>> \in FlowsTo(Here, top.pc, Len(top.stack))
        /\ <<NextPc, Len(top.stack)>> \in FlowsTo(Here, top.pc, Len(top.stack))
    BY <1>2, LoopFlow DEF Target, Compiled
  <1>5. /\ Target \in DOMAIN HeightHere /\ HeightHere[Target] = Len(top.stack) - 2
        /\ NextPc \in DOMAIN HeightHere /\ HeightHere[NextPc] = Len(top.stack)
    BY <1>4, WayTo
  <1>6. CASE outcome' = Failed("not an integer") /\ UNCHANGED <<acts, heap>>
    <2>1. CodeFits(P, code')
      BY DEF Inv
    <2> QED BY <1>6, <2>1, Stopped, FailedIsNotRunning
  <1>7. CASE Continue(gone)
    <2>1. /\ DOMAIN gone = DOMAIN top /\ gone.m = top.m /\ gone.frame = top.frame
          /\ gone.pc = Target /\ gone.stack = Drop(top.stack, 2)
      BY <1>2, AtInstruction DEF ActivationFields
    <2> HIDE DEF gone
    <2>2. IsStack(P, gone.stack) /\ Len(gone.stack) = Len(top.stack) - 2
      BY <1>2, <2>1, Taken
    <2>3. ActivationFits(program, gone)
      BY <1>5, <2>1, <2>2, Goes
    <2> QED BY <1>7, <2>3, Continues
  <1>8. CASE Continue(stays)
    BY <1>5, <1>8, JumpedFits, Continues
  <1> QED BY <1>3, <1>6, <1>7, <1>8

---------------------------------------------------------------------------
(* The first tier.                                                         *)

LEMMA AtDispatch1 ==
  ASSUME NEW ops, Dispatch1(ops)
  PROVE  outcome = Running /\ bc \in ops /\ UNCHANGED program
  BY DEF Dispatch1

LEMMA Counting ==
  (SameCode => UNCHANGED code) /\ (IncrCount => UNCHANGED code)
  BY DEF SameCode, IncrCount

\* An activation that goes on in the other tier is at the same instruction.
LEMMA ContinueInTier2Keeps == ASSUME Inv, ContinueInTier2 PROVE Inv'
  <1> DEFINE b == [top EXCEPT !.tier = 2]
  <1>1. outcome = Running /\ UNCHANGED <<program, code>> /\ Continue(b)
    BY AtDispatch1, Counting DEF ContinueInTier2
  <1>2. /\ DOMAIN b = DOMAIN top /\ b.m = top.m /\ b.frame = top.frame
        /\ b.pc = top.pc /\ b.stack = top.stack
    BY <1>1, AtInstruction DEF ActivationFields
  <1> HIDE DEF b
  <1>3. ActivationFits(program, b)
    BY <1>1, <1>2, AtInstruction, Goes
  <1> QED BY <1>1, <1>3, Continues

LEMMA VariablesTier1 ==
  ASSUME Inv, \/ PushTier1 \/ PushGlobalTier1 \/ PopTier1 \/ IncOrDecTier1 \/ PatchTier1
  PROVE  Inv'
  <1>1. CASE PushTier1
    <2>1. /\ outcome = Running /\ bc \in Reads /\ UNCHANGED <<program, code>>
          /\ Push(PushedValue)
      BY <1>1, AtDispatch1, Counting DEF PushTier1
    <2>2. NamesAMethod(P, PushedValue)
      BY <2>1, PushedValuesHold
    <2>3. bc \in Reads \cup {"push_global"}
      BY <2>1
    <2> QED BY <2>1, <2>2, <2>3, PushKeeps
  <1>2. CASE PushGlobalTier1
    <2> DEFINE tier2 == FALSE
    <2>1. Dispatch1({"push_global"}) /\ PushGlobal(tier2)
      BY <1>2, Zenon DEF PushGlobalTier1
    <2> HIDE DEF tier2
    <2>2. outcome = Running /\ UNCHANGED program /\ bc = "push_global"
      BY <2>1, AtDispatch1
    <2> QED BY <2>1, <2>2, PushGlobalKeeps
  <1>3. CASE PopTier1
    <2>1. /\ outcome = Running /\ UNCHANGED <<program, code>> /\ bc \in Stores /\ StoreValue
      BY <1>3, AtDispatch1, Counting DEF PopTier1
    <2> QED BY <2>1, StoreValueKeeps
  <1>4. CASE IncOrDecTier1
    BY <1>4, AtDispatch1, IncOrDecKeeps DEF IncOrDecTier1
  <1>5. CASE PatchTier1
    BY <1>5, AtDispatch1, PatchKeeps DEF PatchTier1
  <1> QED BY <1>1, <1>2, <1>3, <1>4, <1>5

LEMMA SendingOps ==
  /\ Sends \subseteq SendLike /\ QuickSuperSends \subseteq SendLike
  /\ \A n : /\ QuickSuperSendTier1(n) \in QuickSuperSends
            /\ QuickSuperSendTier2(n) \in QuickSuperSends
  BY DEF SendLike, QuickSuperSends, QuickSuperSendTier1, QuickSuperSendTier2

LEMMA SendsTier1 ==
  ASSUME Inv, \/ SendFewTier1 \/ SendMoreTier1 \/ SendNTier1
              \/ SuperSendTier1 \/ QSuperSendTier1
  PROVE  Inv'
  <1>1. CASE SendFewTier1 \/ SendMoreTier1 \/ SendNTier1
    <2>1. /\ outcome = Running /\ UNCHANGED <<program, code>> /\ Send(FALSE)
          /\ bc \in {"send_1", "send_2", "send_3", "send_4", "send_n"}
      BY <1>1, AtDispatch1, Counting DEF SendFewTier1, SendMoreTier1, SendNTier1
    <2>2. bc \in SendLike
      BY <2>1 DEF SendLike, Sends
    <2> QED BY <2>1, <2>2, SendKeeps
  <1>2. CASE SuperSendTier1
    BY <1>2, AtDispatch1, SendingOps, SuperSendKeeps DEF SuperSendTier1
  <1>3. CASE QSuperSendTier1
    <2>1. /\ outcome = Running /\ UNCHANGED <<program, code>> /\ bc \in QuickSuperSends
          /\ \/ outcome' = Failed("unknown bytecode") /\ UNCHANGED <<acts, heap>>
             \/ SuperSendAgain(FALSE)
      BY <1>3, AtDispatch1, Counting DEF QSuperSendTier1
    <2>2. CodeFits(P, code')
      BY <2>1 DEF Inv
    <2>3. CASE outcome' = Failed("unknown bytecode") /\ UNCHANGED <<acts, heap>>
      BY <2>1, <2>2, <2>3, Stopped, FailedIsNotRunning
    <2>4. CASE SuperSendAgain(FALSE)
      BY <2>1, <2>4, SuperSendAgainKeeps
    <2> QED BY <2>1, <2>3, <2>4
  <1> QED BY <1>1, <1>2, <1>3

\* What the returns answer.
LEMMA ReturnKeeps ==
  ASSUME Inv, outcome = Running, UNCHANGED <<program, code>>,
         NEW v \in {FromTop(0), top.frame[RcvrIdx + 1]}, AnswerFrom(Len(acts), v)
  PROVE  Inv'
  <1>1. NamesAMethod(P, FromTop(0)) /\ Len(acts) \in 1..Len(acts)
    BY RunningFits, AtInstruction, OnStack DEF FromTop
  <1>2. NamesAMethod(P, top.frame[RcvrIdx + 1])
    BY AtInstruction DEF IsFrame, RcvrIdx
  <1> QED BY <1>1, <1>2, AnswerFromKeeps

LEMMA ReturnsTier1 ==
  ASSUME Inv, ReturnLocalTier1 \/ ReturnNonLocalTier1 \/ ReturnSelfTier1
  PROVE  Inv'
  <1>1. CASE ReturnLocalTier1
    BY <1>1, AtDispatch1, Counting, ReturnKeeps DEF ReturnLocalTier1
  <1>2. CASE ReturnNonLocalTier1
    BY <1>2, AtDispatch1, Counting, ReturnNonLocalKeeps DEF ReturnNonLocalTier1
  <1>3. CASE ReturnSelfTier1
    BY <1>3, AtDispatch1, Counting, ReturnKeeps DEF ReturnSelfTier1
  <1> QED BY <1>1, <1>2, <1>3

LEMMA JumpsTier1 ==
  ASSUME Inv, \/ JumpTier1 \/ JumpOnBooleanTier1 \/ JumpBackwardTier1 \/ JumpIfGreaterTier1
              \/ Jump2Tier1 \/ Jump2OnBooleanTier1 \/ Jump2IfGreaterTier1
              \/ Jump2BackwardTier1
  PROVE  Inv'
  <1>1. CASE JumpTier1
    BY <1>1, AtDispatch1, Counting, JumpKeeps DEF JumpTier1
  <1>2. CASE JumpOnBooleanTier1
    BY <1>2, AtDispatch1, Counting, JumpOnBooleanKeeps DEF JumpOnBooleanTier1
  <1>3. CASE JumpBackwardTier1
    BY <1>3, AtDispatch1, Counting, JumpKeeps DEF JumpBackwardTier1, BackwardJumps
  <1>4. CASE JumpIfGreaterTier1
    BY <1>4, AtDispatch1, Counting, JumpIfGreaterKeeps DEF JumpIfGreaterTier1
  <1>5. CASE Jump2Tier1
    BY <1>5, AtDispatch1, Counting, ShieldingJumpKeeps DEF Jump2Tier1
  <1>6. CASE Jump2OnBooleanTier1
    BY <1>6, AtDispatch1, Counting, JumpOnBooleanKeeps DEF Jump2OnBooleanTier1
  <1>7. CASE Jump2IfGreaterTier1
    BY <1>7, AtDispatch1, Counting, JumpIfGreaterKeeps DEF Jump2IfGreaterTier1
  <1>8. CASE Jump2BackwardTier1
    BY <1>8, AtDispatch1, Counting, JumpKeeps DEF Jump2BackwardTier1, BackwardJumps
  <1> QED BY <1>1, <1>2, <1>3, <1>4, <1>5, <1>6, <1>7, <1>8

LEMMA InterpretTier1Keeps == ASSUME Inv, InterpretTier1 PROVE Inv'
  BY ContinueInTier2Keeps, VariablesTier1, SendsTier1, ReturnsTier1, JumpsTier1
     DEF InterpretTier1

---------------------------------------------------------------------------
(* The second tier.                                                        *)

LEMMA AtDispatch2 ==
  ASSUME NEW ops, Dispatch2(ops)
  PROVE  outcome = Running /\ bc \in ops /\ UNCHANGED program
  BY DEF Dispatch2

LEMMA VariablesTier2 ==
  ASSUME Inv, \/ PushTier2 \/ PushGlobalTier2 \/ PopTier2 \/ IncOrDecTier2 \/ PatchTier2
  PROVE  Inv'
  <1>1. CASE PushTier2
    <2>1. /\ outcome = Running /\ bc \in Reads /\ UNCHANGED <<program, code>>
          /\ Push(PushedValue)
      BY <1>1, AtDispatch2, Counting DEF PushTier2
    <2>2. NamesAMethod(P, PushedValue)
      BY <2>1, PushedValuesHold
    <2>3. bc \in Reads \cup {"push_global"}
      BY <2>1
    <2> QED BY <2>1, <2>2, <2>3, PushKeeps
  <1>2. CASE PushGlobalTier2
    <2> DEFINE tier2 == TRUE
    <2>1. Dispatch2({"push_global"}) /\ PushGlobal(tier2)
      BY <1>2, Zenon DEF PushGlobalTier2
    <2> HIDE DEF tier2
    <2>2. outcome = Running /\ UNCHANGED program /\ bc = "push_global"
      BY <2>1, AtDispatch2
    <2> QED BY <2>1, <2>2, PushGlobalKeeps
  <1>3. CASE PopTier2
    <2>1. /\ outcome = Running /\ UNCHANGED <<program, code>> /\ bc \in Stores /\ StoreValue
      BY <1>3, AtDispatch2, Counting DEF PopTier2
    <2> QED BY <2>1, StoreValueKeeps
  <1>4. CASE IncOrDecTier2
    BY <1>4, AtDispatch2, IncOrDecKeeps DEF IncOrDecTier2
  <1>5. CASE PatchTier2
    BY <1>5, AtDispatch2, PatchKeeps DEF PatchTier2
  <1> QED BY <1>1, <1>2, <1>3, <1>4, <1>5

LEMMA SendsTier2 ==
  ASSUME Inv, SendTier2 \/ SuperSendTier2 \/ QSuperSendTier2
  PROVE  Inv'
  <1>1. CASE SendTier2
    BY <1>1, AtDispatch2, Counting, SendingOps, SendKeeps DEF SendTier2
  <1>2. CASE SuperSendTier2
    BY <1>2, AtDispatch2, SendingOps, SuperSendKeeps DEF SuperSendTier2
  <1>3. CASE QSuperSendTier2
    <2> DEFINE tier2 == bc # "q_super_send_n"
    <2>1. /\ outcome = Running /\ UNCHANGED <<program, code>> /\ bc \in QuickSuperSends
          /\ SuperSendAgain(tier2)
      BY <1>3, AtDispatch2, Counting DEF QSuperSendTier2
    <2> HIDE DEF tier2
    <2> QED BY <2>1, SuperSendAgainKeeps
  <1> QED BY <1>1, <1>2, <1>3

LEMMA ReturnsTier2 ==
  ASSUME Inv, ReturnLocalTier2 \/ ReturnNonLocalTier2 \/ ReturnSelfTier2
  PROVE  Inv'
  <1>1. CASE ReturnLocalTier2
    BY <1>1, AtDispatch2, Counting, ReturnKeeps DEF ReturnLocalTier2
  <1>2. CASE ReturnNonLocalTier2
    BY <1>2, AtDispatch2, Counting, ReturnNonLocalKeeps DEF ReturnNonLocalTier2
  <1>3. CASE ReturnSelfTier2
    BY <1>3, AtDispatch2, Counting, ReturnKeeps DEF ReturnSelfTier2
  <1> QED BY <1>1, <1>2, <1>3

LEMMA JumpsTier2 ==
  ASSUME Inv, \/ JumpTier2 \/ JumpOnBooleanTier2 \/ JumpIfGreaterTier2 \/ JumpBackwardTier2
              \/ Jump2Tier2 \/ Jump2OnBooleanTier2 \/ Jump2IfGreaterTier2
              \/ Jump2BackwardTier2
  PROVE  Inv'
  <1>1. CASE JumpTier2
    BY <1>1, AtDispatch2, Counting, JumpKeeps DEF JumpTier2
  <1>2. CASE JumpOnBooleanTier2
    BY <1>2, AtDispatch2, Counting, JumpOnBooleanKeeps DEF JumpOnBooleanTier2
  <1>3. CASE JumpIfGreaterTier2
    BY <1>3, AtDispatch2, Counting, JumpIfGreaterKeeps DEF JumpIfGreaterTier2
  <1>4. CASE JumpBackwardTier2
    BY <1>4, AtDispatch2, Counting, JumpKeeps DEF JumpBackwardTier2, BackwardJumps
  <1>5. CASE Jump2Tier2
    BY <1>5, AtDispatch2, Counting, JumpKeeps DEF Jump2Tier2
  <1>6. CASE Jump2OnBooleanTier2
    BY <1>6, AtDispatch2, Counting, JumpOnBooleanKeeps DEF Jump2OnBooleanTier2
  <1>7. CASE Jump2IfGreaterTier2
    BY <1>7, AtDispatch2, Counting, JumpIfGreaterKeeps DEF Jump2IfGreaterTier2
  <1>8. CASE Jump2BackwardTier2
    BY <1>8, AtDispatch2, Counting, JumpKeeps DEF Jump2BackwardTier2, BackwardJumps
  <1> QED BY <1>1, <1>2, <1>3, <1>4, <1>5, <1>6, <1>7, <1>8

LEMMA InterpretTier2Keeps == ASSUME Inv, InterpretTier2 PROVE Inv'
  BY VariablesTier2, SendsTier2, ReturnsTier2, JumpsTier2 DEF InterpretTier2

LEMMA NextInv == ASSUME Inv, [Next]_vars PROVE Inv'
  BY InterpretTier1Keeps, InterpretTier2Keeps, ReturnEscapedKeeps, Stuttered
     DEF Next, Step, Done

---------------------------------------------------------------------------
(* The first state.                                                        *)

LEMMA CellsOfCompiled ==
  ASSUME NEW p, NEW m, CodeIsVerified(p, m)
  PROVE  CellsFit(Programs[p].methods[m], Programs[p].methods[m].code)
  <1> DEFINE M == Programs[p].methods[m]
  <1>1. IsCode(M) /\ \A pc \in M.starts : OperandsExist(Programs[p], m, pc)
    BY DEF CodeIsVerified
  <1>2. \A op : op \in Variants(op)
    BY DEF Variants
  <1>3. \A pc \in M.starts : M.code[pc + 1] = "push_frame" => M.code[pc + 2] \in Nat \ {0}
    BY <1>1 DEF OperandsExist
  <1> QED BY <1>1, <1>2, <1>3 DEF CellsFit, IsCode

LEMMA InitInv == ASSUME Init, CompiledCodeIsVerified PROVE Inv
  <1> DEFINE c == Call(<<"method", P.entry.method>>, <<"obj", 1>>, P.entry.args,
                       Entry(Len(P.entry.args) + 1), FALSE)
             a == Activation(c, IF NeedsInner(c) THEN 1 ELSE 0)
  <1>1. /\ code = [m \in DOMAIN P.methods |->
                     IF P.methods[m].kind = "bytecodes" THEN P.methods[m].code ELSE <<>>]
        /\ globals = P.globals
        /\ objects = <<[class |-> P.entry.class, fields |-> P.entry.fields]>>
        /\ acts = <<a>> /\ inners = IF NeedsInner(c) THEN <<InnerFor(c)>> ELSE <<>>
    BY DEF Init
  <1>2. NamesExist(P) /\ IsVerified(program)
    BY DEF CompiledCodeIsVerified, IsVerified, P
  <1>3. CodeFits(P, code)
    BY <1>1, <1>2, CellsOfCompiled DEF CodeFits, IsVerified, P
  <1>4. GlobalsFit(P, globals)
    BY <1>1, <1>2 DEF NamesExist, GlobalsFit, Range
  <1>5. ObjectsFit(P, objects)
    <2>1. \A j \in DOMAIN P.entry.fields : NamesAMethod(P, P.entry.fields[j])
      BY <1>2 DEF NamesExist, Range
    <2> QED BY <1>1, <2>1 DEF ObjectsFit
  <1>6. CallFits(P, c) /\ c.inv[1] = "method" /\ Method(c.inv[2]).kind = "bytecodes"
    <2>1. IsArguments(P, P.entry.args)
      <3>1. \A i \in DOMAIN P.entry.args : NamesAMethod(P, P.entry.args[i])
        BY <1>2 DEF NamesExist, Range
      <3>2. IsSequence(P.entry.args)
        BY <1>2 DEF NamesExist
      <3> QED BY <3>1, <3>2, SequenceType DEF IsArguments
    <2>2. IsInvokable(P, <<"method", P.entry.method>>) /\ NamesAMethod(P, <<"obj", 1>>)
      BY <1>2 DEF NamesExist, IsInvokable, NamesAMethod
    <2>3. P.methods[P.entry.method].kind = "bytecodes"
      BY <1>2 DEF NamesExist
    <2> QED BY <2>1, <2>2, <2>3 DEF CallFits, Call, Method
  <1>7. InnersFit(P, inners)
    <2> HIDE DEF c
    <2>1. \A i \in DOMAIN InnerFor(c) : NamesAMethod(P, InnerFor(c)[i])
      BY <1>6, InnerOfCall DEF InnerFor, CallFits
    <2>2. InnersFit(P, <<>>)
      BY EmptySequence DEF InnersFit
    <2> DEFINE one == <<InnerFor(c)>>
    <2>3. IsSequence(one) /\ Len(one) = 1 /\ one[1] = InnerFor(c)
      BY DEF IsSequence
    <2> HIDE DEF one
    <2>4. InnersFit(P, one)
      BY <2>1, <2>3 DEF InnersFit
    <2> QED BY <1>1, <2>2, <2>4 DEF one
  <1>8. ActivationFits(program, a)
    BY <1>6, ActivationOfCall
  <1>9. ActivationsFit(program, acts) /\ acts # <<>>
    <2> HIDE DEF a
    <2>1. IsSequence(acts) /\ Len(acts) = 1 /\ acts[1] = a
      BY <1>1 DEF IsSequence
    <2>2. acts # <<>>
      BY <2>1, EmptySequence
    <2> QED BY <1>8, <2>1, <2>2 DEF ActivationsFit
  <1> QED BY <1>3, <1>4, <1>5, <1>7, <1>9 DEF Inv

---------------------------------------------------------------------------
(* What follows.                                                           *)

(* Inv is an invariant of every program whose code is verified.            *)
THEOREM Invariance == Spec /\ CompiledCodeIsVerified => []Inv
  <1>1. Init /\ CompiledCodeIsVerified => Inv
    BY InitInv
  <1>2. Inv /\ [Next]_vars => Inv'
    BY NextInv
  <1> QED BY <1>1, <1>2, PTL DEF Spec

(* No stack grows beyond the size the compiler computed for its method     *)
(* (max_stack_depth), whichever tier executes it.                          *)
THEOREM StacksFit == Spec /\ CompiledCodeIsVerified => []StackFits
  <1>1. Inv => StackFits
    <2> SUFFICES ASSUME Inv, NEW a \in Range(acts)
                 PROVE  Len(a.stack) <= Method(a.m).maxStack
      BY DEF StackFits
    <2>1. IsSequence(acts) /\ ActivationsFit(program, acts)
      BY DEF Inv, ActivationsFit
    <2>2. ActivationFits(program, a)
      BY <2>1, SequenceType, CallsFit DEF Range
    <2>3. CodeIsVerified(program, a.m)
      BY <2>2 DEF ActivationFits, Inv, CompiledCodeIsVerified, IsVerified
    <2>4. /\ IsStackMap(Method(a.m), Height(program, a.m))
          /\ a.pc \in DOMAIN Height(program, a.m)
          /\ Len(a.stack) = Height(program, a.m)[a.pc]
      BY <2>2, <2>3 DEF ActivationFits, CodeIsVerified, Method, P
    <2>5. /\ Method(a.m).maxStack \in Nat
          /\ Height(program, a.m)[a.pc] \in 0..Method(a.m).maxStack
      BY <2>4 DEF IsStackMap
    <2> QED BY <2>4, <2>5
  <1> QED BY <1>1, Invariance, PTL

(* Jumps, returns, rewriting and the continuation in the other tier leave  *)
(* every activation at the beginning of an instruction.                    *)
THEOREM OnInstructions == Spec /\ CompiledCodeIsVerified => []LandsOnInstructions
  <1>1. Inv => LandsOnInstructions
    <2> SUFFICES ASSUME Inv, NEW a \in Range(acts)
                 PROVE  /\ a.pc \in Method(a.m).starts
                        /\ a.pc + BytecodeLength(code[a.m][a.pc + 1]) \in
                             Method(a.m).starts \cup {Len(code[a.m])}
      BY DEF LandsOnInstructions
    <2> DEFINE M == Method(a.m)
    <2>1. IsSequence(acts) /\ ActivationsFit(program, acts)
      BY DEF Inv, ActivationsFit
    <2>2. ActivationFits(program, a)
      BY <2>1, SequenceType, CallsFit DEF Range
    <2>3. CodeIsVerified(program, a.m) /\ CellsFit(M, code[a.m])
      BY <2>2 DEF ActivationFits, Inv, CompiledCodeIsVerified, IsVerified, CodeFits, Method, P
    <2>4. IsCode(M) /\ IsStackMap(M, Height(program, a.m))
      BY <2>3 DEF CodeIsVerified, Method, P
    <2>5. a.pc \in M.starts
      BY <2>2, <2>4 DEF ActivationFits, IsStackMap
    <2>6. NextAt(code[a.m], a.pc) = NextAt(M.code, a.pc)
      BY <2>3, <2>4, <2>5, AtCell
    <2>7. NextAt(M.code, a.pc) \in M.starts \cup {Len(M.code)}
      BY <2>4, <2>5 DEF IsCode
    <2>8. Len(code[a.m]) = Len(M.code)
      BY <2>3 DEF CellsFit
    <2> QED BY <2>5, <2>6, <2>7, <2>8 DEF NextAt
  <1> QED BY <1>1, Invariance, PTL

---------------------------------------------------------------------------
(* The walk of the threaded code generator.                                *)

Least(i, S) == i \in S /\ \A j \in S : i <= j

LEMMA LeastExists ==
  ASSUME NEW S, S \subseteq Nat, S # {}
  PROVE  \E i \in S : Least(i, S)
  <1>1. PICK i \in S : \A j \in S : ~ (<<j, i>> \in OpToRel(<, Nat))
    BY NatLessThanWellFounded, WFMin
  <1>2. \A j \in S : i \in Nat /\ j \in Nat /\ ~ (j < i)
    BY <1>1 DEF OpToRel
  <1> QED BY <1>2 DEF Least

\* What a walk is after n steps, or n stretches of steps, when walk says what
\* it was before.
WalkFrom(cells, base, start, walk, n) ==
  IF n = 0 THEN start
  ELSE LET w == walk[n - 1]
       IN IF w.done THEN w ELSE WalkStep(cells, base, w)
IsWalk(cells, base, start, limit, walk) ==
  walk = [n \in 0..limit |-> WalkFrom(cells, base, start, walk, n)]
StretchFrom(cells, base, walk, n) ==
  IF n = 0 THEN WalkStart
  ELSE LET w == walk[n - 1]
       IN IF w.done THEN w ELSE Walk(cells, base, w)[WalkLimit]
AreStretches(cells, base, limit, walk) ==
  walk = [n \in 0..limit |-> StretchFrom(cells, base, walk, n)]

\* There is such a walk, of any length.
LEMMA WalkExists ==
  ASSUME NEW cells, NEW base, NEW start, NEW limit \in Nat
  PROVE  \E walk : IsWalk(cells, base, start, limit, walk)
  <1> DEFINE Without == {k \in Nat : ~ \E walk : IsWalk(cells, base, start, k, walk)}
  <1> SUFFICES ASSUME Without # {} PROVE FALSE
    OBVIOUS
  <1>1. PICK k \in Without : Least(k, Without)
    BY LeastExists
  <1>2. k # 0
    <2> DEFINE first == [n \in 0..0 |-> start]
    <2>1. IsWalk(cells, base, start, 0, first)
      BY DEF IsWalk, WalkFrom
    <2> QED BY <1>1, <2>1
  <1>3. k - 1 \in Nat /\ ~ (k <= k - 1)
    BY <1>2
  <1>4. PICK walk : IsWalk(cells, base, start, k - 1, walk)
    BY <1>1, <1>3 DEF Least
  <1> DEFINE longer == [n \in 0..k |-> IF n = k THEN WalkFrom(cells, base, start, walk, k)
                                       ELSE walk[n]]
  <1>5. \A n \in 0..k : longer[n] = WalkFrom(cells, base, start, longer, n)
    <2> TAKE n \in 0..k
    <2>1. longer[n] = WalkFrom(cells, base, start, walk, n)
      BY <1>4 DEF IsWalk
    <2>2. n = 0 \/ longer[n - 1] = walk[n - 1]
      OBVIOUS
    <2> HIDE DEF longer
    <2> QED BY <2>1, <2>2 DEF WalkFrom
  <1>6. IsWalk(cells, base, start, k, longer)
    <2>1. longer = [n \in 0..k |-> longer[n]]
      OBVIOUS
    <2> HIDE DEF longer
    <2> QED BY <1>5, <2>1 DEF IsWalk
  <1> QED BY <1>1, <1>6

LEMMA StretchesExist ==
  ASSUME NEW cells, NEW base, NEW limit \in Nat
  PROVE  \E walk : AreStretches(cells, base, limit, walk)
  <1> DEFINE Without == {k \in Nat : ~ \E walk : AreStretches(cells, base, k, walk)}
  <1> SUFFICES ASSUME Without # {} PROVE FALSE
    OBVIOUS
  <1>1. PICK k \in Without : Least(k, Without)
    BY LeastExists
  <1>2. k # 0
    <2> DEFINE first == [n \in 0..0 |-> WalkStart]
    <2>1. AreStretches(cells, base, 0, first)
      BY DEF AreStretches, StretchFrom
    <2> QED BY <1>1, <2>1
  <1>3. k - 1 \in Nat /\ ~ (k <= k - 1)
    BY <1>2
  <1>4. PICK walk : AreStretches(cells, base, k - 1, walk)
    BY <1>1, <1>3 DEF Least
  <1> DEFINE longer == [n \in 0..k |-> IF n = k THEN StretchFrom(cells, base, walk, k)
                                       ELSE walk[n]]
  <1>5. \A n \in 0..k : longer[n] = StretchFrom(cells, base, longer, n)
    <2> TAKE n \in 0..k
    <2>1. longer[n] = StretchFrom(cells, base, walk, n)
      BY <1>4 DEF AreStretches
    <2>2. n = 0 \/ longer[n - 1] = walk[n - 1]
      OBVIOUS
    <2> HIDE DEF longer
    <2> QED BY <2>1, <2>2 DEF StretchFrom
  <1>6. AreStretches(cells, base, k, longer)
    <2>1. longer = [n \in 0..k |-> longer[n]]
      OBVIOUS
    <2> HIDE DEF longer
    <2> QED BY <1>5, <2>1 DEF AreStretches
  <1> QED BY <1>1, <1>6

LEMMA WalkSteps ==
  ASSUME NEW cells, NEW base, NEW start
  PROVE  \A n \in 0..WalkLimit :
           Walk(cells, base, start)[n]
             = WalkFrom(cells, base, start, Walk(cells, base, start), n)
  <1>1. Walk(cells, base, start) = CHOOSE walk : IsWalk(cells, base, start, WalkLimit, walk)
    BY DEF Walk, IsWalk, WalkFrom
  <1>2. IsWalk(cells, base, start, WalkLimit, Walk(cells, base, start))
    BY <1>1, WalkExists, WalkLimitAssumption
  <1> QED BY <1>2 DEF IsWalk

LEMMA StretchSteps ==
  ASSUME NEW cells, NEW base
  PROVE  \A n \in 0..WalkLimit :
           Stretches(cells, base)[n] = StretchFrom(cells, base, Stretches(cells, base), n)
  <1>1. Stretches(cells, base) = CHOOSE walk : AreStretches(cells, base, WalkLimit, walk)
    BY DEF Stretches, AreStretches, StretchFrom
  <1>2. AreStretches(cells, base, WalkLimit, Stretches(cells, base))
    BY <1>1, StretchesExist, WalkLimitAssumption
  <1> QED BY <1>2 DEF AreStretches

---------------------------------------------------------------------------
(* What the walk knows: where it has been, is and continues.               *)

Known(w) == w.seen \cup {w.at} \cup Elements(w.tstack)
WalkOn(cells, pc) ==
  LET op == cells[pc + 1]
      target == TargetAt(cells, pc, JumpBase)
      next == NextAt(cells, pc)
  IN CASE op \in Returns \cup BackwardJumps -> {}
       [] op = "jump" -> {target}
       [] op \in ConditionalJumps \cup {"jump2"} -> {target, next}
       [] OTHER -> {next}

\* A walk, and what a step has made of it.
IsWalking(w) == /\ DOMAIN w = {"at", "tstack", "seen", "done"} /\ IsSequence(w.tstack)
                /\ w.done => w.at \in w.seen /\ w.tstack = <<>>
Walks(w, v, pcs) ==
  /\ IsWalking(v) /\ v.seen = w.seen \cup {w.at} /\ Known(v) = Known(w) \cup pcs

LEMMA GoesTo ==
  ASSUME NEW w, IsWalking(w), ~w.done, NEW pc
  PROVE  /\ Walks(w, GoTo(w, pc), {pc}) /\ GoTo(w, pc).tstack = w.tstack
         /\ ~GoTo(w, pc).done /\ GoTo(w, pc).at = pc
  <1> DEFINE v == GoTo(w, pc)
  <1>1. /\ DOMAIN v = DOMAIN w /\ v.at = pc /\ v.seen = w.seen \cup {w.at}
        /\ v.tstack = w.tstack /\ v.done = w.done
    BY DEF GoTo, IsWalking
  <1> HIDE DEF v
  <1>2. Walks(w, v, {pc}) /\ v.tstack = w.tstack /\ ~v.done /\ v.at = pc
    BY <1>1 DEF Walks, IsWalking, Known
  <1> QED BY <1>2 DEF v

LEMMA InFront ==
  ASSUME NEW s, IsSequence(s), NEW e
  PROVE  IsSequence(<<e>> \o s) /\ Elements(<<e>> \o s) = {e} \cup Elements(s)
  <1> DEFINE S == Elements(s) \cup {e}
             longer == <<e>> \o s
  <1>1. s \in Seq(S) /\ <<e>> \in Seq(S) /\ Len(s) \in Nat
    BY SequenceType
  <1>2. /\ longer \in Seq(S) /\ Len(longer) = Len(s) + 1
        /\ \A i \in 1..(Len(s) + 1) : longer[i] = IF i = 1 THEN e ELSE s[i - 1]
    BY <1>1, ConcatProperties
  <1> HIDE DEF longer
  <1>3. e \in Elements(longer) /\ \A i \in 1..Len(s) : s[i] \in Elements(longer)
    <2>1. 1 \in 1..Len(longer) /\ longer[1] = e
      BY <1>1, <1>2
    <2>2. \A i \in 1..Len(s) : i + 1 \in 1..Len(longer) /\ longer[i + 1] = s[i]
      BY <1>1, <1>2
    <2> QED BY <2>1, <2>2 DEF Elements
  <1>4. \A i \in 1..Len(longer) : longer[i] = e \/ longer[i] \in Elements(s)
    <2> TAKE i \in 1..Len(longer)
    <2>1. i = 1 \/ i - 1 \in 1..Len(s)
      BY <1>1, <1>2
    <2> QED BY <1>1, <1>2, <2>1 DEF Elements
  <1>5. Elements(longer) = {e} \cup Elements(s)
    BY <1>3, <1>4 DEF Elements
  <1> QED BY <1>2, <1>5, TypedSequence DEF longer

LEMMA GoesKeeping ==
  ASSUME NEW w, IsWalking(w), ~w.done, NEW pc, NEW kept
  PROVE  Walks(w, GoToKeeping(w, pc, kept), {pc, kept})
  <1> DEFINE g == GoTo(w, pc)
             v == GoToKeeping(w, pc, kept)
  <1>1. v = [g EXCEPT !.tstack = <<kept>> \o g.tstack]
    BY DEF GoToKeeping
  <1>2. Walks(w, g, {pc}) /\ ~g.done
    BY GoesTo
  <1> HIDE DEF g
  <1>3. /\ DOMAIN v = DOMAIN g /\ v.at = g.at /\ v.seen = g.seen /\ v.done = g.done
        /\ v.tstack = <<kept>> \o g.tstack
    BY <1>1, <1>2 DEF Walks, IsWalking
  <1> HIDE DEF v
  <1>4. IsSequence(v.tstack) /\ Elements(v.tstack) = {kept} \cup Elements(g.tstack)
    BY <1>2, <1>3, InFront DEF Walks, IsWalking
  <1>5. Walks(w, v, {pc, kept})
    BY <1>2, <1>3, <1>4 DEF Walks, IsWalking, Known
  <1> QED BY <1>5 DEF v

LEMMA WithoutHead ==
  ASSUME NEW s, IsSequence(s), s # <<>>
  PROVE  IsSequence(Tail(s)) /\ Elements(s) = {Head(s)} \cup Elements(Tail(s))
  <1> DEFINE S == Elements(s)
             rest == Tail(s)
  <1>1. s \in Seq(S) /\ Len(s) \in Nat
    BY SequenceType
  <1>2. /\ rest \in Seq(S) /\ Len(rest) = Len(s) - 1 /\ Len(s) > 0
        /\ \A i \in 1..Len(rest) : rest[i] = s[i + 1]
        /\ Head(s) = s[1]
    BY <1>1, HeadTailProperties, EmptySeq
  <1> HIDE DEF rest
  <1>3. Head(s) \in Elements(s) /\ \A i \in 1..Len(rest) : rest[i] \in Elements(s)
    <2>1. 1 \in 1..Len(s) /\ \A i \in 1..Len(rest) : i + 1 \in 1..Len(s)
      BY <1>1, <1>2
    <2> QED BY <1>2, <2>1 DEF Elements
  <1>4. \A i \in 1..Len(s) : s[i] = Head(s) \/ s[i] \in Elements(rest)
    <2> TAKE i \in 1..Len(s)
    <2>1. i = 1 \/ (i - 1 \in 1..Len(rest) /\ rest[i - 1] = s[i])
      BY <1>1, <1>2
    <2> QED BY <1>2, <2>1 DEF Elements
  <1>5. Elements(s) = {Head(s)} \cup Elements(rest)
    BY <1>3, <1>4 DEF Elements
  <1> QED BY <1>2, <1>5, TypedSequence DEF rest

LEMMA Resumes ==
  ASSUME NEW w, IsWalking(w), ~w.done
  PROVE  Walks(w, Resume(w), {})
  <1>1. CASE w.tstack = <<>>
    <2> DEFINE v == End(w)
    <2>1. /\ DOMAIN v = DOMAIN w /\ v.at = w.at /\ v.seen = w.seen \cup {w.at}
          /\ v.tstack = w.tstack
      BY DEF End, IsWalking
    <2> HIDE DEF v
    <2>2. Walks(w, v, {})
      BY <1>1, <2>1 DEF Walks, IsWalking, Known
    <2> QED BY <1>1, <2>2 DEF v, Resume
  <1>2. CASE w.tstack # <<>>
    <2> DEFINE g == GoTo(w, Head(w.tstack))
               v == [g EXCEPT !.tstack = Tail(g.tstack)]
    <2>1. /\ Walks(w, g, {Head(w.tstack)}) /\ ~g.done /\ g.tstack = w.tstack
          /\ g.at = Head(w.tstack)
      BY GoesTo
    <2>2. v = Resume(w)
      BY <1>2 DEF Resume
    <2> HIDE DEF g
    <2>3. /\ DOMAIN v = DOMAIN g /\ v.at = g.at /\ v.seen = g.seen /\ v.done = g.done
          /\ v.tstack = Tail(g.tstack)
      BY <2>1 DEF Walks, IsWalking
    <2> HIDE DEF v
    <2>4. /\ IsSequence(Tail(w.tstack))
          /\ Elements(w.tstack) = {Head(w.tstack)} \cup Elements(Tail(w.tstack))
      BY <1>2, WithoutHead DEF IsWalking
    <2>5. Walks(w, v, {})
      BY <2>1, <2>3, <2>4 DEF Walks, IsWalking, Known
    <2> QED BY <2>2, <2>5
  <1> QED BY <1>1, <1>2

LEMMA StepWalksOn ==
  ASSUME NEW cells, NEW w, IsWalking(w), ~w.done
  PROVE  Walks(w, WalkStep(cells, JumpBase, w), WalkOn(cells, w.at))
  <1> DEFINE op == cells[w.at + 1]
             target == TargetAt(cells, w.at, JumpBase)
             next == NextAt(cells, w.at)
  <1>1. CASE op \in Returns \cup BackwardJumps
    <2>1. WalkStep(cells, JumpBase, w) = Resume(w) /\ WalkOn(cells, w.at) = {}
      BY <1>1, TheLongJumps DEF WalkStep, WalkOn, Returns, BackwardJumps, ConditionalJumps,
         Jumps, ShortJumps
    <2> QED BY <2>1, Resumes
  <1>2. CASE op = "jump"
    <2>1. WalkStep(cells, JumpBase, w) = GoTo(w, target) /\ WalkOn(cells, w.at) = {target}
      BY <1>2, TheLongJumps DEF WalkStep, WalkOn, Returns, BackwardJumps, ConditionalJumps,
         Jumps, ShortJumps
    <2> QED BY <2>1, GoesTo
  <1>3. CASE op \in ConditionalJumps \cup {"jump2"}
    <2>1. /\ WalkStep(cells, JumpBase, w) = GoToKeeping(w, target, next)
          /\ WalkOn(cells, w.at) = {target, next}
      BY <1>3, TheLongJumps DEF WalkStep, WalkOn, Returns, BackwardJumps, ConditionalJumps,
         Jumps, ShortJumps
    <2> QED BY <2>1, GoesKeeping
  <1>4. CASE op \notin Returns \cup BackwardJumps \cup {"jump", "jump2"} \cup ConditionalJumps
    <2>1. WalkStep(cells, JumpBase, w) = GoTo(w, next) /\ WalkOn(cells, w.at) = {next}
      BY <1>4 DEF WalkStep, WalkOn
    <2> QED BY <2>1, GoesTo
  <1> QED BY <1>1, <1>2, <1>3, <1>4

---------------------------------------------------------------------------
(* The ways of the walk are the same in the code as rewritten.             *)

LEMMA SameOps ==
  ASSUME NEW op, NEW other \in Variants(op)
  PROVE  (op \in Jumps \cup Returns \/ other \in Jumps \cup Returns) => op = other
  <1>1. CASE op \in Jumps \cup Returns
    <2>1. op \notin {"push_local", "push_argument", "pop_local", "pop_argument",
                     "nil_local", "super_send"}
      BY <1>1, TheLongJumps DEF Jumps, ShortJumps, Returns
    <2> QED BY <2>1 DEF Variants
  <1>2. CASE other \in Jumps \cup Returns
    BY <1>2, VariantsAreAlike DEF Alike
  <1> QED BY <1>1, <1>2

LEMMA SameTarget ==
  ASSUME NEW M, IsCode(M), NEW cells, CellsFit(M, cells), NEW pc \in M.starts,
         M.code[pc + 1] \in Jumps
  PROVE  TargetAt(cells, pc, JumpBase) = TargetAt(M.code, pc, JumpBase)
  <1>1. /\ pc \in Nat /\ cells[pc + 1] = M.code[pc + 1]
        /\ cells[pc + 1] = M.code[pc + 1] =>
             \A i \in (pc + 2)..NextAt(M.code, pc) : cells[i] = M.code[i]
    BY AtCell, SameOps
  <1>2. BytecodeLength(M.code[pc + 1]) = 3
    BY TheLongJumps DEF BytecodeLength, PushFrame, PushInner, PopFrame, PopInner,
       Unresolved, Jumps, ShortJumps, Sends, QuickSuperSends, PushBlock
  <1>3. NextAt(M.code, pc) = pc + 3
    BY <1>2 DEF NextAt
  <1>4. pc + 2 \in (pc + 2)..(pc + 3) /\ pc + 3 \in (pc + 2)..(pc + 3)
    BY <1>1
  <1>5. cells[pc + 2] = M.code[pc + 2] /\ cells[pc + 3] = M.code[pc + 3]
    BY <1>1, <1>3, <1>4
  <1> QED BY <1>1, <1>5 DEF TargetAt, OffsetAt

LEMMA SameWays ==
  ASSUME NEW M, IsCode(M), NEW cells, CellsFit(M, cells), NEW pc \in M.starts
  PROVE  /\ WalksTo(cells, pc) = WalksTo(M.code, pc)
         /\ cells[pc + 1] \in BackwardJumps <=> M.code[pc + 1] \in BackwardJumps
  <1>1. /\ cells[pc + 1] \in Variants(M.code[pc + 1])
        /\ NextAt(cells, pc) = NextAt(M.code, pc)
    BY AtCell
  <1>2. CASE M.code[pc + 1] \in Jumps \cup Returns
    <2>1. cells[pc + 1] = M.code[pc + 1]
      BY <1>1, <1>2, SameOps
    <2>2. CASE M.code[pc + 1] \in Jumps
      <3>1. TargetAt(cells, pc, JumpBase) = TargetAt(M.code, pc, JumpBase)
        BY <2>2, SameTarget
      <3> QED BY <1>1, <2>1, <3>1 DEF WalksTo, Successors
    <2>3. CASE M.code[pc + 1] \in Returns
      BY <1>1, <2>1, <2>3 DEF WalksTo, Successors, Returns
    <2> QED BY <1>2, <2>1, <2>2, <2>3
  <1>3. CASE M.code[pc + 1] \notin Jumps \cup Returns
    <2>1. cells[pc + 1] \notin Jumps \cup Returns
      BY <1>1, <1>3, SameOps
    <2>2. \A op : op \notin Jumps \cup Returns =>
            op \notin Returns \cup BackwardJumps \cup ConditionalJumps \cup {"jump", "jump2"}
      BY TheLongJumps DEF Jumps, ShortJumps, BackwardJumps, ConditionalJumps
    <2>3. /\ WalksTo(cells, pc) = {NextAt(cells, pc)}
          /\ WalksTo(M.code, pc) = {NextAt(M.code, pc)}
      BY <1>3, <2>1, <2>2 DEF WalksTo, Successors
    <2> QED BY <1>1, <1>3, <2>1, <2>2, <2>3
  <1> QED BY <1>2, <1>3

\* The walk goes everywhere the interpreter does, but not back.
LEMMA WalkAndRun ==
  ASSUME NEW cells, NEW pc
  PROVE  /\ WalkOn(cells, pc) \subseteq WalksTo(cells, pc)
         /\ cells[pc + 1] \notin BackwardJumps =>
              Successors(cells, JumpBase, pc) \subseteq WalkOn(cells, pc)
         /\ cells[pc + 1] \in BackwardJumps =>
              Successors(cells, JumpBase, pc) = {TargetAt(cells, pc, JumpBase)}
  BY TheLongJumps DEF WalkOn, WalksTo, Successors, Returns, BackwardJumps, ConditionalJumps,
     Jumps, ShortJumps

---------------------------------------------------------------------------
(* What stays true of a walk through verified code: who was in a loop came *)
(* by its first instruction.                                               *)

Back(M) == {pc \in M.starts : M.code[pc + 1] \in BackwardJumps}
First(M, back) == TargetAt(M.code, back, JumpBase)
WalkFits(M, cells, w) ==
  /\ IsWalking(w)
  /\ 0 \in Known(w) /\ Known(w) \subseteq M.starts
  /\ \A pc \in w.seen : WalkOn(cells, pc) \subseteq Known(w)
  /\ \A back \in Back(M) : \A pc \in Known(w) :
       pc \in First(M, back)..back => First(M, back) \in Known(w)

LEMMA LoopFacts ==
  ASSUME NEW M, IsCode(M), LoopsHaveOneEntry(M)
  PROVE  /\ M.starts \subseteq Nat
         /\ \A pc \in M.starts : WalksTo(M.code, pc) \subseteq M.starts
         /\ \A back \in Back(M) :
              /\ First(M, back) \in M.starts /\ First(M, back) <= back
              /\ \A pc \in M.starts \ (First(M, back)..back) :
                   WalksTo(M.code, pc) \cap (First(M, back)..back) \subseteq {First(M, back)}
  <1>1. M.starts \subseteq Nat
    BY DEF IsCode, IsSequence
  <1>2. \A pc \in M.starts : WalksTo(M.code, pc) \subseteq M.starts
    BY DEF LoopsHaveOneEntry
  <1>3. \A back \in Back(M) : First(M, back) \in WalksTo(M.code, back)
    BY TheLongJumps DEF Back, First, WalksTo, Successors, BackwardJumps, Returns
  <1>4. \A back \in Back(M) :
          /\ First(M, back) <= back
          /\ \A pc \in M.starts \ (First(M, back)..back) :
               WalksTo(M.code, pc) \cap (First(M, back)..back) \subseteq {First(M, back)}
    BY DEF LoopsHaveOneEntry, Back, First
  <1> QED BY <1>1, <1>2, <1>3, <1>4 DEF Back

LEMMA WalkStartFits ==
  ASSUME NEW M, IsCode(M), LoopsHaveOneEntry(M), NEW cells
  PROVE  WalkFits(M, cells, WalkStart)
  <1>1. /\ IsWalking(WalkStart) /\ WalkStart.seen = {} /\ Known(WalkStart) = {0}
    BY EmptySequence DEF WalkStart, IsWalking, Known, Elements
  <1>2. 0 \in M.starts
    BY DEF IsCode
  <1>3. ASSUME NEW back \in Back(M), 0 \in First(M, back)..back
        PROVE  First(M, back) = 0
    <2>1. First(M, back) \in Nat
      BY LoopFacts
    <2> QED BY <1>3, <2>1
  <1> QED BY <1>1, <1>2, <1>3 DEF WalkFits

LEMMA WalkStepFits ==
  ASSUME NEW M, IsCode(M), LoopsHaveOneEntry(M), NEW cells, CellsFit(M, cells),
         NEW w, WalkFits(M, cells, w), ~w.done
  PROVE  WalkFits(M, cells, WalkStep(cells, JumpBase, w))
  <1> DEFINE v == WalkStep(cells, JumpBase, w)
             ways == WalkOn(cells, w.at)
  <1>1. Walks(w, v, ways)
    BY StepWalksOn DEF WalkFits
  <1> HIDE DEF v
  <1>2. w.at \in M.starts /\ w.at \in Known(w)
    BY DEF WalkFits, Known
  <1>3. ways \subseteq WalksTo(M.code, w.at)
    BY <1>2, SameWays, WalkAndRun
  <1>4. /\ IsWalking(v) /\ v.seen = w.seen \cup {w.at} /\ Known(v) = Known(w) \cup ways
    BY <1>1 DEF Walks
  <1>5. Known(v) \subseteq M.starts /\ 0 \in Known(v)
    BY <1>2, <1>3, <1>4, LoopFacts DEF WalkFits
  <1>6. \A pc \in v.seen : WalkOn(cells, pc) \subseteq Known(v)
    BY <1>4 DEF WalkFits
  <1>7. ASSUME NEW back \in Back(M), NEW pc \in Known(v), pc \in First(M, back)..back
        PROVE  First(M, back) \in Known(v)
    <2>1. CASE pc \in Known(w)
      BY <1>4, <1>7, <2>1 DEF WalkFits
    <2>2. CASE w.at \in First(M, back)..back
      BY <1>2, <1>4, <2>2 DEF WalkFits
    <2>3. CASE pc \notin Known(w) /\ w.at \notin First(M, back)..back
      <3>1. pc \in ways
        BY <1>4, <2>3
      <3>2. pc = First(M, back)
        BY <1>2, <1>3, <1>7, <2>3, <3>1, LoopFacts
      <3> QED BY <3>2
    <2> QED BY <2>1, <2>2, <2>3
  <1>8. WalkFits(M, cells, v)
    BY <1>4, <1>5, <1>6, <1>7 DEF WalkFits
  <1> QED BY <1>8 DEF v

LEMMA WalkKeepsFitting ==
  ASSUME NEW M, IsCode(M), LoopsHaveOneEntry(M), NEW cells, CellsFit(M, cells),
         NEW start, WalkFits(M, cells, start)
  PROVE  \A n \in 0..WalkLimit : WalkFits(M, cells, Walk(cells, JumpBase, start)[n])
  <1> DEFINE walk == Walk(cells, JumpBase, start)
             Unfit == {n \in 0..WalkLimit : ~WalkFits(M, cells, walk[n])}
  <1> SUFFICES ASSUME Unfit # {} PROVE FALSE
    OBVIOUS
  <1>1. Unfit \subseteq Nat
    BY WalkLimitAssumption
  <1>2. PICK n \in Unfit : Least(n, Unfit)
    BY <1>1, LeastExists
  <1>3. walk[n] = WalkFrom(cells, JumpBase, start, walk, n)
    BY <1>2, WalkSteps
  <1> HIDE DEF walk
  <1>4. n # 0
    BY <1>2, <1>3 DEF WalkFrom
  <1>5. n \in 0..WalkLimit /\ n - 1 \in 0..WalkLimit /\ ~ (n <= n - 1)
    BY <1>2, <1>4, WalkLimitAssumption
  <1>6. WalkFits(M, cells, walk[n - 1])
    BY <1>2, <1>5 DEF Least
  <1>7. walk[n] = IF walk[n - 1].done THEN walk[n - 1]
                  ELSE WalkStep(cells, JumpBase, walk[n - 1])
    BY <1>3, <1>4 DEF WalkFrom
  <1>8. WalkFits(M, cells, walk[n])
    BY <1>6, <1>7, WalkStepFits
  <1> QED BY <1>2, <1>8

LEMMA WalkEndFits ==
  ASSUME NEW M, IsCode(M), LoopsHaveOneEntry(M), NEW cells, CellsFit(M, cells)
  PROVE  WalkFits(M, cells, WalkEnd(cells, JumpBase))
  <1> DEFINE walk == Stretches(cells, JumpBase)
             Unfit == {n \in 0..WalkLimit : ~WalkFits(M, cells, walk[n])}
  <1>1. WalkEnd(cells, JumpBase) = walk[WalkLimit] /\ WalkLimit \in 0..WalkLimit
    BY WalkLimitAssumption DEF WalkEnd
  <1> SUFFICES ASSUME Unfit # {} PROVE FALSE
    BY <1>1
  <1>2. Unfit \subseteq Nat
    BY WalkLimitAssumption
  <1>3. PICK n \in Unfit : Least(n, Unfit)
    BY <1>2, LeastExists
  <1>4. walk[n] = StretchFrom(cells, JumpBase, walk, n)
    BY <1>3, StretchSteps
  <1> HIDE DEF walk
  <1>5. n # 0
    BY <1>3, <1>4, WalkStartFits DEF StretchFrom
  <1>6. n \in 0..WalkLimit /\ n - 1 \in 0..WalkLimit /\ ~ (n <= n - 1)
    BY <1>3, <1>5, WalkLimitAssumption
  <1>7. WalkFits(M, cells, walk[n - 1])
    BY <1>3, <1>6 DEF Least
  <1>8. walk[n] = IF walk[n - 1].done THEN walk[n - 1]
                  ELSE Walk(cells, JumpBase, walk[n - 1])[WalkLimit]
    BY <1>4, <1>5 DEF StretchFrom
  <1>9. WalkFits(M, cells, walk[n])
    BY <1>1, <1>7, <1>8, WalkKeepsFitting
  <1> QED BY <1>3, <1>9

\* A walk that has ended was everywhere.
LEMMA WalkIsClosed ==
  ASSUME NEW M, IsCode(M), LoopsHaveOneEntry(M), NEW cells, CellsFit(M, cells),
         NEW w, WalkFits(M, cells, w), w.done
  PROVE  IsClosed(cells, JumpBase, w.seen)
  <1>1. Known(w) = w.seen
    BY EmptySequence DEF WalkFits, IsWalking, Known, Elements
  <1>2. 0 \in w.seen /\ w.seen \subseteq M.starts
    BY <1>1 DEF WalkFits
  <1>3. ASSUME NEW pc \in w.seen
        PROVE  Successors(cells, JumpBase, pc) \subseteq w.seen
    <2>1. CASE cells[pc + 1] \notin BackwardJumps
      BY <1>1, <2>1, WalkAndRun DEF WalkFits
    <2>2. CASE cells[pc + 1] \in BackwardJumps
      <3>1. pc \in Back(M) /\ pc \in M.starts
        BY <1>2, <2>2, SameWays DEF Back
      <3>2. M.code[pc + 1] \in Jumps
        BY <3>1, TheLongJumps DEF Back, BackwardJumps, Jumps, ShortJumps
      <3>3. TargetAt(cells, pc, JumpBase) = First(M, pc)
        BY <3>1, <3>2, SameTarget DEF First
      <3>4. pc \in First(M, pc)..pc
        <4>1. pc \in Nat /\ First(M, pc) \in Nat /\ First(M, pc) <= pc
          BY <3>1, LoopFacts
        <4> QED BY <4>1
      <3>5. First(M, pc) \in w.seen
        BY <1>1, <3>1, <3>4 DEF WalkFits
      <3> QED BY <2>2, <3>3, <3>5, WalkAndRun
    <2> QED BY <2>1, <2>2
  <1> QED BY <1>2, <1>3 DEF IsClosed

\* Every walk ends within the bound.
WalksEnd == \A m \in DOMAIN code : code[m] # <<>> => WalkEnd(code[m], JumpBase).done

(* What the threaded code generator walks through is all that can be       *)
(* executed, in the code as compiled and as rewritten, when its walks end  *)
(* (the branches of interpreter_tier1.py for code that is compiled).       *)
THEOREM WalkSeesEverything ==
  Spec /\ CompiledCodeIsVerified => [](WalksEnd => WalkSeesAllCode)
  <1>1. Inv => (WalksEnd => WalkSeesAllCode)
    <2> SUFFICES ASSUME Inv, WalksEnd, NEW m \in DOMAIN code, code[m] # <<>>
                 PROVE  \E w \in {WalkEnd(code[m], JumpBase)} :
                          w.done /\ IsClosed(code[m], JumpBase, w.seen)
      BY DEF WalkSeesAllCode
    <2> DEFINE M == P.methods[m]
               w == WalkEnd(code[m], JumpBase)
    <2>1. m \in DOMAIN P.methods /\ M.kind = "bytecodes" /\ CellsFit(M, code[m])
      BY DEF Inv, CodeFits
    <2>2. IsCode(M) /\ LoopsHaveOneEntry(M)
      BY <2>1 DEF Inv, CompiledCodeIsVerified, IsVerified, CodeIsVerified, P
    <2>3. WalkFits(M, code[m], w)
      BY <2>1, <2>2, WalkEndFits
    <2>4. w.done
      BY DEF WalksEnd
    <2> HIDE DEF w
    <2>5. IsClosed(code[m], JumpBase, w.seen)
      BY <2>1, <2>2, <2>3, <2>4, WalkIsClosed
    <2> QED BY <2>4, <2>5 DEF w
  <1> QED BY <1>1, Invariance, PTL

---------------------------------------------------------------------------
(* Values that fit.                                                        *)

LEMMA PlainFits ==
  ASSUME NEW p, NEW own, NEW v, IsPlain(v)
  PROVE  ValueFits(p, own, v)
  <1>1. CASE v = <<"obj", 1>>
    BY <1>1 DEF ValueFits, WellTyped
  <1>2. CASE v[1] \in (DataClasses \ {"block"}) \cup {"big"}
    <2>1. WellTyped(v) /\ v[1] # "obj" /\ v[1] # "block"
      BY <1>2 DEF DataClasses, WellTyped
    <2> QED BY <2>1 DEF ValueFits
  <1> QED BY <1>1, <1>2 DEF IsPlain

LEMMA ThePlain ==
  /\ IsPlain(Nil) /\ \A b : IsPlain(Bool(b))
  /\ \A n : IsPlain(Integer(n)) /\ IsPlain(BigInteger(n)) /\ IsPlain(<<"int", n>>)
  /\ \A x : IsPlain(<<"sym", x>>) /\ IsPlain(<<"array", x>>)
  /\ \A v : IsNumber(v) => IsPlain(v)
  BY DEF IsPlain, DataClasses, Nil, Bool, Integer, BigInteger, IsNumber

\* What a primitive answers, if it does.
PlainAnswer(v) == v = NoAnswer \/ IsPlain(v)

LEMMA NumbersArePlain ==
  ASSUME NEW l, NEW r
  PROVE  /\ PlainAnswer(PrimAdd(l, r)) /\ PlainAnswer(PrimSubtract(l, r))
         /\ PlainAnswer(PrimMultiply(l, r)) /\ PlainAnswer(PrimIntDiv(l, r))
         /\ PlainAnswer(PrimModulo(l, r)) /\ PlainAnswer(PrimRemainder(l, r))
         /\ PlainAnswer(PrimAbs(l))
         /\ IsPlain(PrimInc(l)) /\ IsPlain(PrimDec(l))
  <1>1. \A n : IsPlain(Ovfcheck(n)) /\ IsPlain(Promoted(l, r, n))
    BY ThePlain DEF Ovfcheck, Promoted
  <1>2. /\ PlainAnswer(PrimAdd(l, r)) /\ PlainAnswer(PrimSubtract(l, r))
        /\ PlainAnswer(PrimMultiply(l, r))
    BY <1>1 DEF PrimAdd, PrimSubtract, PrimMultiply, PlainAnswer
  <1>3. PlainAnswer(PrimIntDiv(l, r)) /\ PlainAnswer(PrimModulo(l, r))
    BY ThePlain DEF PrimIntDiv, PrimModulo, PlainAnswer
  <1>4. PlainAnswer(PrimRemainder(l, r))
    BY ThePlain DEF PrimRemainder, PrimRemainderInteger, PrimRemainderBigInteger, PlainAnswer
  <1>5. PlainAnswer(PrimAbs(l))
    BY ThePlain DEF PrimAbs, PlainAnswer
  <1>6. IsPlain(PrimInc(l)) /\ IsPlain(PrimDec(l))
    BY <1>1, ThePlain DEF PrimInc, PrimDec, PrimIncInteger, PrimDecInteger,
       PrimIncBigInteger, PrimDecBigInteger
  <1> QED BY <1>2, <1>3, <1>4, <1>5, <1>6

LEMMA PrimitivesArePlain ==
  ASSUME NEW name \in KnownPrimitives \ (BlockPrimitives \cup SystemPrimitives),
         NEW rcvr, NEW args
  PROVE  PlainAnswer(PrimitiveAnswer(name, rcvr, args))
  <1>1. (\A b : PlainAnswer(Bool(b))) /\ PlainAnswer(NoAnswer)
    BY ThePlain DEF PlainAnswer
  <1>2. PlainAnswer(PrimAbs(rcvr))
    BY NumbersArePlain
  <1>3. ASSUME IsNumber(rcvr), IsNumber(args[1]),
               name \in {"+", "-", "*", "/", "%", "rem:", "max:", "min:"}
        PROVE  PlainAnswer(Computed(name, rcvr, args[1]))
    <2> DEFINE r == args[1]
    <2> HIDE DEF r
    <2>1. CASE name \in {"max:", "min:"}
      <3>1. IsNumber(r)
        BY <1>3 DEF r
      <3>2. PlainAnswer(rcvr) /\ PlainAnswer(r)
        BY <1>3, <3>1, ThePlain DEF PlainAnswer
      <3>3. PlainAnswer(PrimMax(rcvr, r)) /\ PlainAnswer(PrimMin(rcvr, r))
        BY <3>2 DEF PrimMax, PrimMin
      <3>4. PlainAnswer(Computed(name, rcvr, r))
        BY <2>1, <3>3 DEF Computed
      <3> QED BY <3>4 DEF r
    <2>2. CASE name \in {"+", "-", "*", "/", "%", "rem:"}
      <3>1. PlainAnswer(Computed(name, rcvr, r))
        BY <2>2, NumbersArePlain DEF Computed
      <3> QED BY <3>1 DEF r
    <2> QED BY <1>3, <2>1, <2>2
  <1>4. name \in {"not", "abs"} \cup Comparisons
                   \cup {"+", "-", "*", "/", "%", "rem:", "max:", "min:"}
    BY DEF KnownPrimitives
  <1> QED BY <1>1, <1>2, <1>3, <1>4 DEF PrimitiveAnswer

\* More inners do not change what fits.
Extends(own, more) ==
  /\ DOMAIN own \subseteq DOMAIN more
  /\ \A i \in DOMAIN own : more[i] = own[i]

LEMMA StillFits ==
  ASSUME NEW p, NEW own, NEW more, Extends(own, more)
  PROVE  /\ \A v : ValueFits(p, own, v) => ValueFits(p, more, v)
         /\ \A m, v : SelfFits(p, own, m, v) => SelfFits(p, more, m, v)
  <1>1. \A v : ValueFits(p, own, v) => ValueFits(p, more, v)
    BY DEF ValueFits, Extends
  <1>2. \A m, v : SelfFits(p, own, m, v) => SelfFits(p, more, m, v)
    BY <1>1 DEF SelfFits
  <1> QED BY <1>1, <1>2

LEMMA ActivationsStillFit ==
  ASSUME NEW p, NEW own, NEW more, Extends(own, more), NEW a, ScopedActivation(p, own, a)
  PROVE  ScopedActivation(p, more, a)
  <1>1. \A v : ValueFits(p, own, v) => ValueFits(p, more, v)
    BY StillFits
  <1>2. \A m, v : SelfFits(p, own, m, v) => SelfFits(p, more, m, v)
    BY StillFits
  <1>3. FrameFits(p, more, a)
    BY <1>1, <1>2 DEF ScopedActivation, FrameFits, Extends
  <1> QED BY <1>1, <1>3 DEF ScopedActivation

LEMMA InnersStillFit ==
  ASSUME NEW p, NEW own, NEW more, Extends(own, more), NEW m, NEW inner,
         InnerFits(p, own, m, inner)
  PROVE  InnerFits(p, more, m, inner)
  BY StillFits DEF InnerFits

---------------------------------------------------------------------------
(* Contexts, from the inside out.                                          *)

\* From the receiver of a block to the one of the method around it; what is
\* no block is the end of a search for blocks only.
Receiver(v) == Element(InnerOf(v[3]), RcvrIdx + 1)
Outwards(kind, v) == IF kind = "blocks" /\ v[1] # "block" THEN v ELSE Receiver(v)
OutFrom(kind, v, at, n) == IF n = 0 THEN v ELSE Outwards(kind, at[n - 1])
IsChain(kind, v, limit, at) == at = [n \in 0..limit |-> OutFrom(kind, v, at, n)]

LEMMA ChainExists ==
  ASSUME NEW kind, NEW v, NEW limit \in Nat
  PROVE  \E at : IsChain(kind, v, limit, at)
  <1> DEFINE Without == {k \in Nat : ~ \E at : IsChain(kind, v, k, at)}
  <1> SUFFICES ASSUME Without # {} PROVE FALSE
    OBVIOUS
  <1>1. PICK k \in Without : Least(k, Without)
    BY LeastExists
  <1>2. k # 0
    <2> DEFINE first == [n \in 0..0 |-> v]
    <2>1. IsChain(kind, v, 0, first)
      BY DEF IsChain, OutFrom
    <2> QED BY <1>1, <2>1
  <1>3. k - 1 \in Nat /\ ~ (k <= k - 1)
    BY <1>2
  <1>4. PICK at : IsChain(kind, v, k - 1, at)
    BY <1>1, <1>3 DEF Least
  <1> DEFINE longer == [n \in 0..k |-> IF n = k THEN OutFrom(kind, v, at, k) ELSE at[n]]
  <1>5. \A n \in 0..k : longer[n] = OutFrom(kind, v, longer, n)
    <2> TAKE n \in 0..k
    <2>1. longer[n] = OutFrom(kind, v, at, n)
      BY <1>4 DEF IsChain
    <2>2. n = 0 \/ longer[n - 1] = at[n - 1]
      OBVIOUS
    <2> HIDE DEF longer
    <2> QED BY <2>1, <2>2 DEF OutFrom
  <1>6. IsChain(kind, v, k, longer)
    <2>1. longer = [n \in 0..k |-> longer[n]]
      OBVIOUS
    <2> HIDE DEF longer
    <2> QED BY <1>5, <2>1 DEF IsChain
  <1> QED BY <1>1, <1>6

\* The methods around a method are those around the one around it.
TailFrom(p, m, n) ==
  /\ Len(Contexts(p, Outward(p, m, n))) = Len(Contexts(p, m)) - n
  /\ \A i \in 0..(Len(Contexts(p, m)) - n - 1) :
       Outward(p, Outward(p, m, n), i) = Outward(p, m, n + i)

LEMMA ContextsOf ==
  ASSUME NEW p, ScopesFit(p), NEW m \in Reached(p)
  PROVE  /\ IsSequence(Contexts(p, m)) /\ Len(Contexts(p, m)) \in Nat
         /\ Len(Contexts(p, m)) > 0
         /\ HasContext(p, m, 0) /\ Outward(p, m, 0) = m
         /\ \A n : HasContext(p, m, n) => Outward(p, m, n) \in Reached(p)
         /\ Len(Contexts(p, m)) > 1 => IsBlock(p, m)
         /\ TailFrom(p, m, 0)
  <1>1. ContextsFit(p, m)
    BY DEF ScopesFit
  <1>2. /\ IsSequence(Contexts(p, m)) /\ Len(Contexts(p, m)) > 0 /\ Contexts(p, m)[1] = m
        /\ \A i \in 1..Len(Contexts(p, m)) : Contexts(p, m)[i] \in Reached(p)
        /\ Len(Contexts(p, m)) > 1 => IsBlock(p, m)
    BY <1>1 DEF ContextsFit
  <1>3. Len(Contexts(p, m)) \in Nat
    BY <1>2, SequenceType
  <1>4. HasContext(p, m, 0) /\ Outward(p, m, 0) = m
    BY <1>2, <1>3 DEF HasContext, Outward
  <1>5. ASSUME NEW n, HasContext(p, m, n) PROVE Outward(p, m, n) \in Reached(p)
    <2>1. n + 1 \in 1..Len(Contexts(p, m))
      BY <1>3, <1>5 DEF HasContext
    <2> QED BY <1>2, <2>1 DEF Outward
  <1>6. TailFrom(p, m, 0)
    BY <1>3, <1>4 DEF TailFrom
  <1> QED BY <1>2, <1>3, <1>4, <1>5, <1>6

LEMMA PutInFront ==
  ASSUME NEW s, IsSequence(s), NEW e
  PROVE  /\ Len(<<e>> \o s) = Len(s) + 1
         /\ \A i \in 1..Len(s) : (<<e>> \o s)[i + 1] = s[i]
  <1> DEFINE S == Elements(s) \cup {e}
  <1>1. s \in Seq(S) /\ <<e>> \in Seq(S) /\ Len(s) \in Nat
    BY SequenceType
  <1>2. Len(<<e>>) = 1
    OBVIOUS
  <1>3. /\ Len(<<e>> \o s) = Len(s) + 1
        /\ \A i \in 1..(Len(s) + 1) : (<<e>> \o s)[i] = IF i = 1 THEN e ELSE s[i - 1]
    BY <1>1, <1>2, ConcatProperties
  <1>4. \A i \in 1..Len(s) : i + 1 \in 1..(Len(s) + 1) /\ i + 1 # 1 /\ (i + 1) - 1 = i
    BY <1>1
  <1> QED BY <1>3, <1>4

\* A method that has one around it is a block's, and the block knows its inner.
LEMMA OneOut ==
  ASSUME NEW p, ScopesFit(p), NEW own, ScopedInners(p, own, inners),
         NEW m \in Reached(p), HasContext(p, m, 1), NEW v, SelfFits(p, own, m, v)
  PROVE  /\ v[1] = "block" /\ v[3] \in DOMAIN own /\ own[v[3]] = Outward(p, m, 1)
         /\ v[3] \in DOMAIN inners
         /\ SelfFits(p, own, Outward(p, m, 1), Receiver(v))
         /\ TailFrom(p, m, 1)
  <1> DEFINE around == own[v[3]]
  <1>1. Len(Contexts(p, m)) > 1 /\ Len(Contexts(p, m)) \in Nat
    BY ContextsOf DEF HasContext
  <1>2. /\ v[1] = "block" /\ v[2] = m /\ v[3] \in DOMAIN own
        /\ Contexts(p, m) = <<m>> \o Contexts(p, around)
    BY <1>1, ContextsOf DEF SelfFits, ValueFits
  <1>3. /\ DOMAIN own = DOMAIN inners /\ around \in Reached(p)
        /\ InnerFits(p, own, around, inners[v[3]])
    BY <1>2, SequenceType DEF ScopedInners
  <1>4. /\ IsSequence(Contexts(p, around)) /\ Len(Contexts(p, around)) > 0
        /\ Contexts(p, around)[1] = around
    BY <1>3 DEF ScopesFit, ContextsFit
  <1>5. Len(Contexts(p, around)) \in Nat
    BY <1>4, SequenceType
  <1>6. /\ Len(Contexts(p, m)) = Len(Contexts(p, around)) + 1
        /\ \A i \in 1..Len(Contexts(p, around)) : Contexts(p, m)[i + 1] = Contexts(p, around)[i]
    BY <1>2, <1>4, PutInFront
  <1> HIDE DEF around
  <1>7. Outward(p, m, 1) = around
    BY <1>4, <1>5, <1>6 DEF Outward
  <1>8. TailFrom(p, m, 1)
    <2>1. Len(Contexts(p, around)) = Len(Contexts(p, m)) - 1
      BY <1>5, <1>6
    <2>2. ASSUME NEW i \in 0..(Len(Contexts(p, m)) - 1 - 1)
          PROVE  Outward(p, around, i) = Outward(p, m, 1 + i)
      <3>1. i + 1 \in 1..Len(Contexts(p, around)) /\ (1 + i) + 1 = (i + 1) + 1
        BY <1>5, <1>6
      <3> QED BY <1>6, <3>1 DEF Outward
    <2> QED BY <1>7, <2>1, <2>2 DEF TailFrom
  <1>9. v[3] \in DOMAIN inners /\ Receiver(v) = inners[v[3]][2]
    <2>1. IsSequence(inners[v[3]]) /\ Len(inners[v[3]]) > 1
      BY <1>3 DEF InnerFits
    <2>2. Len(inners[v[3]]) \in Nat /\ DOMAIN inners[v[3]] = 1..Len(inners[v[3]])
      BY <2>1, SequenceType
    <2>3. 2 \in DOMAIN inners[v[3]]
      BY <2>1, <2>2
    <2>4. v[3] \in DOMAIN inners
      BY <1>2, <1>3
    <2> QED BY <2>3, <2>4 DEF Receiver, InnerOf, Element, RcvrIdx
  <1>10. SelfFits(p, own, around, inners[v[3]][2])
    BY <1>3 DEF InnerFits
  <1> QED BY <1>2, <1>7, <1>8, <1>9, <1>10 DEF around

LEMMA ChainFits ==
  ASSUME NEW p, ScopesFit(p), NEW own, ScopedInners(p, own, inners),
         NEW m \in Reached(p), NEW v, SelfFits(p, own, m, v),
         NEW limit \in Nat, NEW at, IsChain("all", v, limit, at)
  PROVE  \A n \in 0..limit : HasContext(p, m, n) =>
           SelfFits(p, own, Outward(p, m, n), at[n]) /\ TailFrom(p, m, n)
  <1> DEFINE fits(n) == SelfFits(p, own, Outward(p, m, n), at[n]) /\ TailFrom(p, m, n)
             Wrong == {n \in 0..limit : HasContext(p, m, n) /\ ~fits(n)}
  <1> SUFFICES ASSUME Wrong # {} PROVE FALSE
    OBVIOUS
  <1>1. Wrong \subseteq Nat
    OBVIOUS
  <1>2. PICK n \in Wrong : Least(n, Wrong)
    BY <1>1, LeastExists
  <1>3. n \in 0..limit /\ HasContext(p, m, n) /\ Len(Contexts(p, m)) \in Nat
    BY ContextsOf
  <1>4. n # 0
    <2>1. at[0] = v
      BY DEF IsChain, OutFrom
    <2>2. SelfFits(p, own, Outward(p, m, 0), at[0]) /\ TailFrom(p, m, 0)
      BY <2>1, ContextsOf
    <2> QED BY <2>2
  <1> DEFINE k == n - 1
             q == Outward(p, m, k)
  <1>5. k \in 0..limit /\ HasContext(p, m, k) /\ ~(n <= k) /\ n = k + 1 /\ k \in Nat
    BY <1>3, <1>4 DEF HasContext
  <1>6. fits(k)
    BY <1>2, <1>5 DEF Least
  <1>7. at[n] = Receiver(at[k])
    BY <1>3, <1>4 DEF IsChain, OutFrom, Outwards
  <1> HIDE DEF k
  <1>8. /\ SelfFits(p, own, q, at[k]) /\ Len(Contexts(p, q)) = Len(Contexts(p, m)) - k
        /\ \A i \in 0..(Len(Contexts(p, m)) - k - 1) : Outward(p, q, i) = Outward(p, m, k + i)
    BY <1>6 DEF TailFrom
  <1>9. q \in Reached(p)
    BY <1>5, ContextsOf
  <1> HIDE DEF q
  <1>10. HasContext(p, q, 1)
    BY <1>3, <1>5, <1>8 DEF HasContext
  <1>11. SelfFits(p, own, Outward(p, q, 1), at[n]) /\ TailFrom(p, q, 1)
    BY <1>7, <1>8, <1>9, <1>10, OneOut
  <1>12. Outward(p, q, 1) = Outward(p, m, n)
    <2>1. 1 \in 0..(Len(Contexts(p, m)) - k - 1)
      BY <1>3, <1>5 DEF HasContext
    <2> QED BY <1>5, <1>8, <2>1
  <1>13. TailFrom(p, m, n)
    <2> DEFINE r == Outward(p, m, n)
    <2>1. /\ Len(Contexts(p, r)) = Len(Contexts(p, q)) - 1
          /\ \A i \in 0..(Len(Contexts(p, q)) - 1 - 1) : Outward(p, r, i) = Outward(p, q, 1 + i)
      BY <1>11, <1>12 DEF TailFrom
    <2>2. Len(Contexts(p, r)) = Len(Contexts(p, m)) - n
      BY <1>3, <1>5, <1>8, <2>1
    <2> HIDE DEF r
    <2>3. ASSUME NEW i \in 0..(Len(Contexts(p, m)) - n - 1)
          PROVE  Outward(p, r, i) = Outward(p, m, n + i)
      <3>1. /\ i \in 0..(Len(Contexts(p, q)) - 1 - 1)
            /\ 1 + i \in 0..(Len(Contexts(p, m)) - k - 1) /\ k + (1 + i) = n + i
        BY <1>3, <1>5, <1>8
      <3> QED BY <1>8, <2>1, <3>1
    <2> QED BY <2>2, <2>3 DEF TailFrom, r
  <1>14. fits(n)
    BY <1>11, <1>12, <1>13
  <1> QED BY <1>2, <1>14

\* What is found on the way out is a value the program may see, or nothing.
MaybeFits(p, own, v) == v = Undefined \/ ValueFits(p, own, v)

LEMMA ReceiversFit ==
  ASSUME NEW p, NEW own, ScopedInners(p, own, inners), NEW v
  PROVE  MaybeFits(p, own, Receiver(v))
  <1>1. CASE v[3] \in DOMAIN inners
    <2>1. /\ v[3] \in 1..Len(inners)
          /\ InnerFits(p, own, own[v[3]], inners[v[3]])
      BY <1>1, SequenceType DEF ScopedInners
    <2>2. ValueFits(p, own, inners[v[3]][2])
      BY <2>1 DEF InnerFits, SelfFits
    <2> QED BY <1>1, <2>2 DEF Receiver, InnerOf, Element, RcvrIdx, MaybeFits
  <1>2. CASE v[3] \notin DOMAIN inners
    <2>1. Receiver(v) = Undefined
      BY <1>2 DEF Receiver, InnerOf, Element, RcvrIdx
    <2> QED BY <2>1 DEF MaybeFits
  <1> QED BY <1>1, <1>2

IsSearch(v, limit, at) ==
  at = [n \in 0..limit |->
          IF n = 0 THEN v
          ELSE IF at[n - 1][1] = "block" THEN Element(InnerOf(at[n - 1][3]), RcvrIdx + 1)
          ELSE at[n - 1]]

LEMMA OuterSelfFits ==
  ASSUME NEW p, NEW own, ScopedInners(p, own, inners), NEW v, ValueFits(p, own, v)
  PROVE  MaybeFits(p, own, OuterSelf(v)) /\ OuterSelf(v)[1] # "block"
  <1> DEFINE limit == Len(inners)
             out == CHOOSE at : IsSearch(v, limit, at)
  <1>1. limit \in Nat
    BY SequenceType DEF ScopedInners
  <1>2. IsChain("blocks", v, limit, out)
    <2>1. \A at : IsSearch(v, limit, at) <=> IsChain("blocks", v, limit, at)
      BY DEF IsChain, OutFrom, Outwards, Receiver, IsSearch
    <2> QED BY <1>1, <2>1, ChainExists
  <1>3. OuterSelf(v) = IF out[limit][1] = "block" THEN Undefined ELSE out[limit]
    BY DEF OuterSelf, IsSearch
  <1> HIDE DEF out, limit
  <1> DEFINE Wrong == {n \in 0..limit : ~MaybeFits(p, own, out[n])}
  <1>4. Wrong = {}
    <2> SUFFICES ASSUME Wrong # {} PROVE FALSE
      OBVIOUS
    <2>1. Wrong \subseteq Nat
      OBVIOUS
    <2>2. PICK n \in Wrong : Least(n, Wrong)
      BY <2>1, LeastExists
    <2>3. n # 0
      BY <1>1, <1>2 DEF IsChain, OutFrom, MaybeFits
    <2>4. n - 1 \in 0..limit /\ ~(n <= n - 1)
      BY <1>1, <2>3
    <2>5. MaybeFits(p, own, out[n - 1])
      BY <2>2, <2>4 DEF Least
    <2>6. out[n] = Outwards("blocks", out[n - 1])
      BY <1>2, <2>3 DEF IsChain, OutFrom
    <2>7. MaybeFits(p, own, out[n])
      BY <2>5, <2>6, ReceiversFit DEF Outwards
    <2> QED BY <2>7
  <1>5. limit \in 0..limit
    BY <1>1
  <1>6. MaybeFits(p, own, out[limit])
    BY <1>4, <1>5
  <1>7. Undefined[1] # "block"
    BY DEF Undefined, NoAnswer
  <1> QED BY <1>3, <1>6, <1>7 DEF MaybeFits

LEMMA ChainOut ==
  ASSUME NEW p, ScopesFit(p), NEW own, ScopedInners(p, own, inners),
         NEW m \in Reached(p), NEW v, SelfFits(p, own, m, v),
         NEW limit \in Nat, NEW at, IsChain("all", v, limit, at),
         NEW n \in 0..limit, HasContext(p, m, n + 1)
  PROVE  /\ at[n][1] = "block" /\ at[n][3] \in DOMAIN inners
         /\ own[at[n][3]] = Outward(p, m, n + 1)
         /\ SelfFits(p, own, Outward(p, m, n + 1), Receiver(at[n]))
  <1> DEFINE q == Outward(p, m, n)
  <1>1. HasContext(p, m, n) /\ Len(Contexts(p, m)) \in Nat
    BY ContextsOf DEF HasContext
  <1>2. /\ SelfFits(p, own, q, at[n]) /\ Len(Contexts(p, q)) = Len(Contexts(p, m)) - n
        /\ \A i \in 0..(Len(Contexts(p, m)) - n - 1) : Outward(p, q, i) = Outward(p, m, n + i)
    BY <1>1, ChainFits DEF TailFrom
  <1>3. q \in Reached(p)
    BY <1>1, ContextsOf
  <1> HIDE DEF q
  <1>4. 1 \in 0..(Len(Contexts(p, m)) - n - 1)
    BY <1>1 DEF HasContext
  <1>5. HasContext(p, q, 1) /\ Outward(p, q, 1) = Outward(p, m, n + 1)
    BY <1>1, <1>2, <1>4 DEF HasContext
  <1> QED BY <1>2, <1>3, <1>5, OneOut

IsWayOut(v, limit, at) ==
  at = [n \in 0..limit |-> IF n = 0 THEN v
                           ELSE Element(InnerOf(at[n - 1][3]), RcvrIdx + 1)]

LEMMA DeterminedSelfFits ==
  ASSUME NEW p, ScopesFit(p), NEW own, ScopedInners(p, own, inners),
         NEW m \in Reached(p), NEW v, SelfFits(p, own, m, v), NEW ctx, HasContext(p, m, ctx)
  PROVE  SelfFits(p, own, Outward(p, m, ctx), DeterminedSelf(v, ctx))
  <1> DEFINE out == CHOOSE at : IsWayOut(v, ctx, at)
  <1>1. ctx \in Nat
    BY ContextsOf DEF HasContext
  <1>2. IsChain("all", v, ctx, out)
    <2>1. \A at : IsWayOut(v, ctx, at) <=> IsChain("all", v, ctx, at)
      BY DEF IsChain, OutFrom, Outwards, Receiver, IsWayOut
    <2> QED BY <1>1, <2>1, ChainExists
  <1>3. DeterminedSelf(v, ctx) = out[ctx]
    BY DEF DeterminedSelf, IsWayOut
  <1> HIDE DEF out
  <1>4. ctx \in 0..ctx
    BY <1>1
  <1> QED BY <1>1, <1>2, <1>3, <1>4, ChainFits

\* "get_block_at" counts from 1.
IsWayFrom(v, ctx, at) ==
  at = [n \in 1..ctx |-> IF n = 1 THEN v
                         ELSE Element(InnerOf(at[n - 1][3]), RcvrIdx + 1)]

LEMMA BlockAtFits ==
  ASSUME NEW p, ScopesFit(p), NEW own, ScopedInners(p, own, inners),
         NEW m \in Reached(p), SelfFits(p, own, m, top.frame[RcvrIdx + 1]),
         NEW ctx, HasContext(p, m, ctx), ctx # 0
  PROVE  /\ BlockAt(ctx)[3] \in DOMAIN inners
         /\ own[BlockAt(ctx)[3]] = Outward(p, m, ctx)
         /\ SelfFits(p, own, Outward(p, m, ctx), Receiver(BlockAt(ctx)))
  <1> DEFINE v == top.frame[RcvrIdx + 1]
             out == CHOOSE at : IsWayFrom(v, ctx, at)
             limit == ctx - 1
             way == [n \in 0..limit |-> out[n + 1]]
  <1>1. ctx \in Nat /\ limit \in Nat /\ limit + 1 = ctx
    BY ContextsOf DEF HasContext
  <1>2. BlockAt(ctx) = out[ctx]
    BY DEF BlockAt, IsWayFrom
  <1>3. IsWayFrom(v, ctx, out)
    <2>1. PICK at : IsChain("all", v, limit, at)
      BY <1>1, ChainExists
    <2> DEFINE shifted == [n \in 1..ctx |-> at[n - 1]]
    <2>2. ASSUME NEW n \in 1..ctx
          PROVE  shifted[n] = IF n = 1 THEN v
                              ELSE Element(InnerOf(shifted[n - 1][3]), RcvrIdx + 1)
      <3>1. n - 1 \in 0..limit /\ shifted[n] = at[n - 1]
        BY <1>1
      <3>2. CASE n = 1
        <4>1. at[0] = v
          BY <1>1, <2>1 DEF IsChain, OutFrom
        <4> QED BY <3>1, <3>2, <4>1
      <3>3. CASE n # 1
        <4>1. at[n - 1] = Receiver(at[n - 1 - 1])
          BY <1>1, <2>1, <3>1, <3>3 DEF IsChain, OutFrom, Outwards
        <4>2. n - 1 \in 1..ctx
          BY <1>1, <3>3
        <4>3. shifted[n - 1] = at[n - 1 - 1]
          BY <4>2
        <4> QED BY <3>1, <3>3, <4>1, <4>3 DEF Receiver
      <3> QED BY <3>2, <3>3
    <2>3. shifted = [n \in 1..ctx |-> shifted[n]]
      OBVIOUS
    <2> HIDE DEF shifted
    <2>4. IsWayFrom(v, ctx, shifted)
      BY <2>2, <2>3 DEF IsWayFrom
    <2> QED BY <2>4
  <1> HIDE DEF out
  <1>4. IsChain("all", v, limit, way)
    <2>1. ASSUME NEW n \in 0..limit
          PROVE  way[n] = OutFrom("all", v, way, n)
      <3>1. n + 1 \in 1..ctx /\ way[n] = out[n + 1]
        BY <1>1
      <3>2. CASE n = 0
        <4>1. out[1] = v
          BY <1>1, <1>3 DEF IsWayFrom
        <4> QED BY <3>1, <3>2, <4>1 DEF OutFrom
      <3>3. CASE n # 0
        <4>1. n + 1 # 1 /\ (n + 1) - 1 = n /\ n - 1 \in 0..limit /\ (n - 1) + 1 = n
          BY <1>1, <3>3
        <4>2. out[n + 1] = Receiver(out[n])
          BY <1>3, <3>1, <4>1 DEF IsWayFrom, Receiver
        <4>3. way[n - 1] = out[n]
          BY <4>1
        <4> QED BY <3>1, <3>3, <4>2, <4>3 DEF OutFrom, Outwards
      <3> QED BY <3>2, <3>3
    <2>2. way = [n \in 0..limit |-> way[n]]
      OBVIOUS
    <2> HIDE DEF way
    <2> QED BY <2>1, <2>2 DEF IsChain
  <1>5. limit \in 0..limit /\ way[limit] = out[ctx]
    BY <1>1
  <1> HIDE DEF way, limit, v
  <1>6. SelfFits(p, own, m, v)
    BY DEF v
  <1>7. /\ way[limit][3] \in DOMAIN inners
        /\ own[way[limit][3]] = Outward(p, m, limit + 1)
        /\ SelfFits(p, own, Outward(p, m, limit + 1), Receiver(way[limit]))
    BY <1>1, <1>4, <1>5, <1>6, ChainOut
  <1> QED BY <1>1, <1>2, <1>5, <1>7

LEMMA SelfOutwards ==
  ASSUME NEW p, ScopesFit(p), NEW own, ScopedInners(p, own, inners),
         NEW m \in Reached(p), SelfFits(p, own, m, top.frame[RcvrIdx + 1]),
         NEW ctx, HasContext(p, m, ctx)
  PROVE  SelfFits(p, own, Outward(p, m, ctx), Self(ctx))
  <1>1. CASE ctx = 0
    BY <1>1, ContextsOf DEF Self
  <1>2. CASE ctx # 0
    <2>1. Self(ctx) = Receiver(BlockAt(ctx))
      BY <1>2 DEF Self, OuterSlot, Receiver
    <2> QED BY <1>2, <2>1, BlockAtFits
  <1> QED BY <1>1, <1>2

\* A slot of an inner, by the method it was made for.
LEMMA SlotFits ==
  ASSUME NEW p, NEW own, ScopedInners(p, own, inners), NEW inner \in DOMAIN inners,
         NEW slot \in Nat, slot >= RcvrIdx, slot < MethodOf(p, own[inner]).sizeInner
  PROVE  /\ slot + 1 \in DOMAIN inners[inner] /\ slot + 1 \in 2..Len(inners[inner])
         /\ ValueFits(p, own, Element(InnerOf(inner), slot + 1))
         /\ slot = RcvrIdx => SelfFits(p, own, own[inner], Element(InnerOf(inner), slot + 1))
  <1>1. InnerFits(p, own, own[inner], inners[inner])
    BY SequenceType DEF ScopedInners
  <1>2. /\ Len(inners[inner]) = MethodOf(p, own[inner]).sizeInner
        /\ DOMAIN inners[inner] = 1..Len(inners[inner]) /\ Len(inners[inner]) \in Nat
    BY <1>1, SequenceType DEF InnerFits
  <1>3. slot + 1 \in 2..Len(inners[inner]) /\ slot + 1 \in DOMAIN inners[inner]
    BY <1>2 DEF RcvrIdx
  <1>4. Element(InnerOf(inner), slot + 1) = inners[inner][slot + 1]
    BY <1>3 DEF Element, InnerOf
  <1> QED BY <1>1, <1>3, <1>4 DEF InnerFits, RcvrIdx

---------------------------------------------------------------------------
(* Activations, and the methods they execute.                              *)

\* Every element of a stack or of an argument list is a value the program sees.
AllFit(p, own, s) == IsSequence(s) /\ \A i \in 1..Len(s) : ValueFits(p, own, s[i])

LEMMA PushedAllFit ==
  ASSUME NEW p, NEW own, NEW s, AllFit(p, own, s), NEW v, ValueFits(p, own, v)
  PROVE  AllFit(p, own, Append(s, v)) /\ Len(Append(s, v)) = Len(s) + 1
  <1>1. /\ IsSequence(Append(s, v)) /\ Len(Append(s, v)) = Len(s) + 1
        /\ \A i \in 1..Len(s) : Append(s, v)[i] = s[i]
        /\ Append(s, v)[Len(s) + 1] = v
    BY AppendTo DEF AllFit
  <1>2. Len(s) \in Nat
    BY SequenceType DEF AllFit
  <1>3. ASSUME NEW i \in 1..(Len(s) + 1) PROVE ValueFits(p, own, Append(s, v)[i])
    <2>1. i \in 1..Len(s) \/ i = Len(s) + 1
      BY <1>2
    <2> QED BY <1>1, <2>1 DEF AllFit
  <1> QED BY <1>1, <1>3 DEF AllFit

LEMMA DroppedAllFit ==
  ASSUME NEW p, NEW own, NEW s, AllFit(p, own, s), NEW n \in 0..Len(s)
  PROVE  /\ AllFit(p, own, Drop(s, n)) /\ Len(Drop(s, n)) = Len(s) - n
         /\ \A i \in 1..(Len(s) - n) : Drop(s, n)[i] = s[i]
  <1>1. /\ IsSequence(Drop(s, n)) /\ Len(Drop(s, n)) = Len(s) - n
        /\ \A i \in 1..(Len(s) - n) : Drop(s, n)[i] = s[i]
    BY Dropped DEF AllFit
  <1>2. Len(s) \in Nat
    BY SequenceType DEF AllFit
  <1>3. ASSUME NEW i \in 1..(Len(s) - n) PROVE ValueFits(p, own, Drop(s, n)[i])
    <2>1. i \in 1..Len(s)
      BY <1>2
    <2> QED BY <1>1, <2>1 DEF AllFit
  <1> QED BY <1>1, <1>3 DEF AllFit

LEMMA OnTopAllFit ==
  ASSUME NEW p, NEW own, NEW s, AllFit(p, own, s), Len(s) > 0, NEW v, ValueFits(p, own, v)
  PROVE  /\ AllFit(p, own, PutOnTop(s, v)) /\ Len(PutOnTop(s, v)) = Len(s)
         /\ \A i \in 1..(Len(s) - 1) : PutOnTop(s, v)[i] = s[i]
         /\ PutOnTop(s, v)[Len(s)] = v
  <1> DEFINE rest == Drop(s, 1)
  <1>1. Len(s) \in Nat /\ 1 \in 0..Len(s)
    BY SequenceType DEF AllFit
  <1>2. /\ AllFit(p, own, rest) /\ Len(rest) = Len(s) - 1
        /\ \A i \in 1..(Len(s) - 1) : rest[i] = s[i]
    BY <1>1, DroppedAllFit
  <1> HIDE DEF rest
  <1>3. AllFit(p, own, Append(rest, v)) /\ Len(Append(rest, v)) = Len(rest) + 1
    BY <1>2, PushedAllFit
  <1>4. /\ \A i \in 1..Len(rest) : Append(rest, v)[i] = rest[i]
        /\ Append(rest, v)[Len(rest) + 1] = v
    BY <1>2, AppendTo DEF AllFit
  <1>5. Len(rest) + 1 = Len(s)
    BY <1>1, <1>2
  <1>6. PutOnTop(s, v) = Append(rest, v)
    BY DEF PutOnTop, rest
  <1> QED BY <1>2, <1>3, <1>4, <1>5, <1>6

LEMMA ElementFits ==
  ASSUME NEW p, NEW own, NEW s, AllFit(p, own, s), NEW i \in 1..Len(s)
  PROVE  ValueFits(p, own, Element(s, i)) /\ Element(s, i) = s[i]
  <1>1. DOMAIN s = 1..Len(s)
    BY SequenceType DEF AllFit
  <1> QED BY <1>1 DEF AllFit, Element

\* The activation that waited goes on with the answer.
LEMMA AnswerFits ==
  ASSUME NEW p, NEW own, NEW a, ActivationFits(p, a), Len(a.stack) > 0,
         ScopedActivation(p, own, a), AwaitsAnswer(p, a), NEW v, ValueFits(p, own, v)
  PROVE  ScopedActivation(p, own, WithAnswer(a, v))
  <1> DEFINE b == WithAnswer(a, v)
  <1>1. /\ DOMAIN b = DOMAIN a /\ b.m = a.m /\ b.frame = a.frame /\ b.tier = a.tier
        /\ b.pc = a.pc /\ b.escaped = a.escaped /\ b.stack = PutOnTop(a.stack, v)
    BY DEF ActivationFits, ActivationFields, WithAnswer
  <1> HIDE DEF b
  <1>2. AllFit(p, own, a.stack) /\ Len(a.stack) \in Nat
    BY SequenceType DEF AllFit, ScopedActivation, ActivationFits, IsStack
  <1>3. /\ AllFit(p, own, b.stack) /\ Len(b.stack) = Len(a.stack)
        /\ \A i \in 1..(Len(a.stack) - 1) : b.stack[i] = a.stack[i]
    BY <1>1, <1>2, OnTopAllFit
  <1>4. SelvesHold(p, b)
    <2> SUFFICES ASSUME ~b.escaped, NEW i \in Selves(p, b.m)[b.pc]
                 PROVE  i \in 1..Len(b.stack) /\ b.stack[i][1] = "obj"
      BY DEF SelvesHold
    <2>1. i \in 1..Len(a.stack) /\ a.stack[i][1] = "obj" /\ i # Len(a.stack)
      BY <1>1 DEF ScopedActivation, SelvesHold, AwaitsAnswer
    <2>2. i \in 1..(Len(a.stack) - 1)
      BY <1>2, <2>1
    <2> QED BY <1>3, <2>1, <2>2
  <1>5. FrameFits(p, own, b)
    BY <1>1 DEF ScopedActivation, FrameFits
  <1>6. ScopedActivation(p, own, b)
    BY <1>1, <1>3, <1>4, <1>5 DEF ScopedActivation, AllFit
  <1> QED BY <1>6 DEF b

LEMMA ScopedFront ==
  ASSUME NEW p, NEW own, NEW calls, ActivationsFit(p, calls), calls # <<>>,
         ScopedActivations(p, own, calls)
  PROVE  /\ IsSequence(Front(calls)) /\ Len(Front(calls)) = Len(calls) - 1
         /\ Len(Front(calls)) \in Nat
         /\ \A k \in 1..Len(Front(calls)) : /\ ScopedActivation(p, own, Front(calls)[k])
                                            /\ AwaitsAnswer(p, Front(calls)[k])
  <1> DEFINE front == Front(calls)
  <1>1. /\ Len(calls) \in Nat /\ Len(calls) > 0 /\ ActivationsFit(p, front)
        /\ Len(front) = Len(calls) - 1
        /\ \A k \in 1..Len(front) : front[k] = calls[k]
    BY AllButLast
  <1> HIDE DEF front
  <1>2. IsSequence(front)
    BY <1>1, CallsFit
  <1>3. ASSUME NEW k \in 1..Len(front)
        PROVE  ScopedActivation(p, own, front[k]) /\ AwaitsAnswer(p, front[k])
    <2>1. k \in 1..Len(calls) /\ k < Len(calls)
      BY <1>1
    <2> QED BY <1>1, <2>1 DEF ScopedActivations
  <1> QED BY <1>1, <1>2, <1>3 DEF front

LEMMA ScopedOneMore ==
  ASSUME NEW p, NEW own, NEW calls, IsSequence(calls),
         \A k \in 1..Len(calls) : ScopedActivation(p, own, calls[k]) /\ AwaitsAnswer(p, calls[k]),
         NEW a, ScopedActivation(p, own, a)
  PROVE  /\ IsSequence(Append(calls, a)) /\ ScopedActivations(p, own, Append(calls, a))
         /\ AwaitsAnswer(p, a) =>
              \A k \in 1..Len(Append(calls, a)) :
                /\ ScopedActivation(p, own, Append(calls, a)[k])
                /\ AwaitsAnswer(p, Append(calls, a)[k])
  <1> DEFINE more == Append(calls, a)
  <1>1. Len(calls) \in Nat
    BY SequenceType
  <1>2. /\ IsSequence(more) /\ Len(more) = Len(calls) + 1
        /\ \A i \in 1..Len(calls) : more[i] = calls[i]
        /\ more[Len(calls) + 1] = a
    BY AppendTo
  <1> HIDE DEF more
  <1>3. \A k \in 1..Len(more) : k = Len(more) \/ k \in 1..Len(calls)
    BY <1>1, <1>2
  <1>4. \A k \in 1..Len(more) : ScopedActivation(p, own, more[k])
    BY <1>2, <1>3
  <1>5. \A k \in 1..Len(more) : k < Len(more) => AwaitsAnswer(p, more[k])
    BY <1>1, <1>2, <1>3
  <1>6. AwaitsAnswer(p, a) => \A k \in 1..Len(more) : AwaitsAnswer(p, more[k])
    BY <1>2, <1>3
  <1> QED BY <1>2, <1>4, <1>5, <1>6 DEF ScopedActivations, more

LEMMA ScopedContinued ==
  ASSUME NEW p, NEW own, NEW calls, ActivationsFit(p, calls), calls # <<>>,
         ScopedActivations(p, own, calls), NEW a, ScopedActivation(p, own, a)
  PROVE  ScopedActivations(p, own, Append(Front(calls), a))
  BY ScopedFront, ScopedOneMore

LEMMA ScopedCalled ==
  ASSUME NEW p, NEW own, NEW calls, ActivationsFit(p, calls), calls # <<>>,
         ScopedActivations(p, own, calls), NEW a, ScopedActivation(p, own, a),
         AwaitsAnswer(p, a), NEW b, ScopedActivation(p, own, b)
  PROVE  ScopedActivations(p, own, Append(Append(Front(calls), a), b))
  <1> DEFINE waiting == Append(Front(calls), a)
  <1>1. /\ IsSequence(waiting)
        /\ \A k \in 1..Len(waiting) : /\ ScopedActivation(p, own, waiting[k])
                                      /\ AwaitsAnswer(p, waiting[k])
    BY ScopedFront, ScopedOneMore
  <1> HIDE DEF waiting
  <1>2. ScopedActivations(p, own, Append(waiting, b))
    BY <1>1, ScopedOneMore
  <1> QED BY <1>2 DEF waiting

LEMMA ScopedReturned ==
  ASSUME NEW p, NEW own, NEW calls, ActivationsFit(p, calls),
         ScopedActivations(p, own, calls), NEW n \in 1..(Len(calls) - 1),
         NEW v, ValueFits(p, own, v)
  PROVE  ScopedActivations(p, own, AnswerTo(calls, n, v))
  <1>1. IsSequence(calls) /\ Len(calls) \in Nat
    BY CallsFit
  <1>2. /\ \A k \in 1..n : k \in 1..Len(calls) /\ k < Len(calls)
        /\ n \in 1..n
        /\ Len(calls) - n \in 0..Len(calls) /\ Len(calls) - (Len(calls) - n) = n
    BY <1>1
  <1> DEFINE front == SubSeq(calls, 1, n)
             a == WithAnswer(front[n], v)
             answered == ReplaceAt(front, n, a)
  <1>3. front = Drop(calls, Len(calls) - n)
    BY <1>2 DEF Drop
  <1>4. answered = AnswerTo(calls, n, v)
    BY DEF ReplaceAt, AnswerTo
  <1> HIDE DEF front
  <1>5. /\ IsSequence(front) /\ Len(front) = n
        /\ \A k \in 1..n : front[k] = calls[k]
    BY <1>1, <1>2, <1>3, Dropped
  <1> HIDE DEF a
  <1>6. n \in 1..Len(front)
    BY <1>2, <1>5
  <1>7. /\ IsSequence(answered) /\ Len(answered) = n /\ answered[n] = a
        /\ \A k \in 1..n : k # n => answered[k] = front[k]
    BY <1>5, <1>6, Replaced
  <1> HIDE DEF answered
  <1>8. \A k \in 1..n : /\ ActivationFits(p, front[k]) /\ Len(front[k].stack) > 0
                        /\ ScopedActivation(p, own, front[k]) /\ AwaitsAnswer(p, front[k])
    BY <1>2, <1>5, CallsFit DEF ScopedActivations
  <1>9. ScopedActivation(p, own, a)
    BY <1>2, <1>8, AnswerFits DEF a
  <1>10. \A k \in 1..n : ScopedActivation(p, own, answered[k])
    BY <1>7, <1>8, <1>9
  <1>11. \A k \in 1..n : k < n => AwaitsAnswer(p, answered[k])
    BY <1>7, <1>8
  <1>12. ScopedActivations(p, own, answered)
    BY <1>7, <1>10, <1>11 DEF ScopedActivations
  <1> QED BY <1>4, <1>12

---------------------------------------------------------------------------
(* The machine and what it stores.                                         *)

ScopedMachine(p, own, calls, is, os, gs) ==
  /\ ScopedActivations(p, own, calls) /\ ScopedInners(p, own, is)
  /\ ScopedObjects(p, own, os) /\ ScopedGlobals(p, own, gs)
Works(own) ==
  /\ Inv /\ outcome = Running /\ CompiledScopesFit
  /\ ScopedMachine(program, own, acts, inners, objects, globals)
  /\ CellsResolved(program, code)
After == \E own : ScopedMachine(program, own, acts', inners', objects', globals')

LEMMA Parts ==
  ASSUME NEW own, Works(own)
  PROVE  /\ Inv /\ outcome = Running /\ ScopesFit(program)
         /\ ScopedActivations(program, own, acts) /\ ScopedInners(program, own, inners)
         /\ ScopedObjects(program, own, objects) /\ ScopedGlobals(program, own, globals)
         /\ CellsResolved(program, code)
         /\ ActivationsFit(program, acts) /\ acts # <<>>
  BY DEF Works, ScopedMachine, CompiledScopesFit, Inv

LEMMA MethodHere == \A m : MethodOf(program, m) = Method(m)
  BY DEF MethodOf, Method, P

\* The machine stops, or the running activation goes on.
LEMMA NothingDone ==
  ASSUME NEW own, Works(own), UNCHANGED <<acts, inners, objects, globals>>
  PROVE  After
  BY DEF Works, After

LEMMA GoesOn ==
  ASSUME NEW own, Works(own), NEW a, ScopedActivation(program, own, a),
         acts' = Append(Front(acts), a), ScopedInners(program, own, inners'),
         ScopedObjects(program, own, objects'), ScopedGlobals(program, own, globals')
  PROVE  After
  <1>1. ScopedActivations(program, own, acts')
    BY Parts, ScopedContinued
  <1> QED BY <1>1 DEF After, ScopedMachine

LEMMA IsAnswered ==
  ASSUME NEW own, Works(own), NEW caller, ActivationFits(program, caller),
         Len(caller.stack) > 0, ScopedActivation(program, own, caller),
         AwaitsAnswer(program, caller), NEW v, ValueFits(program, own, v),
         acts' = Append(Front(acts), WithAnswer(caller, v)),
         ScopedInners(program, own, inners'),
         ScopedObjects(program, own, objects'), ScopedGlobals(program, own, globals')
  PROVE  After
  <1>1. ScopedActivation(program, own, WithAnswer(caller, v))
    BY AnswerFits
  <1> QED BY <1>1, GoesOn

---------------------------------------------------------------------------
(* The object and its fields.                                              *)

LEMMA FieldReads ==
  ASSUME NEW p, NEW own, ScopedObjects(p, own, objects), NEW v, ValueFits(p, own, v),
         v[1] = "obj", NEW idx, idx + 1 \in DOMAIN Programs[p].entry.fields
  PROVE  ValueFits(p, own, Field(v, idx))
  BY DEF ScopedObjects, ValueFits, Field, Element

LEMMA FieldWrites ==
  ASSUME NEW p, NEW own, ScopedObjects(p, own, objects), NEW v, ValueFits(p, own, v),
         v[1] = "obj", NEW idx, NEW x, ValueFits(p, own, x)
  PROVE  ScopedObjects(p, own, [objects EXCEPT ![v[2]] = WithField(@, idx, x)])
  <1> DEFINE o == objects[1]
             w == WithField(o, idx, x)
             assigned == [objects EXCEPT ![1] = w]
  <1>1. v[2] = 1
    BY DEF ValueFits
  <1>2. /\ DOMAIN objects = {1} /\ DOMAIN o = {"class", "fields"}
        /\ o.class = Programs[p].entry.class
        /\ DOMAIN o.fields = DOMAIN Programs[p].entry.fields
        /\ \A i \in DOMAIN o.fields : ValueFits(p, own, o.fields[i])
    BY DEF ScopedObjects
  <1>3. assigned = [objects EXCEPT ![v[2]] = WithField(@, idx, x)]
    BY <1>1
  <1> HIDE DEF o
  <1> DEFINE fields == ReplaceAt(o.fields, idx + 1, x)
  <1>4. /\ DOMAIN fields = DOMAIN o.fields
        /\ \A i \in DOMAIN fields : ValueFits(p, own, fields[i])
    BY <1>2 DEF ReplaceAt
  <1>5. DOMAIN w = DOMAIN o /\ w.class = o.class /\ w.fields = fields
    BY <1>2 DEF WithField
  <1> HIDE DEF w, fields
  <1>6. DOMAIN assigned = {1} /\ assigned[1] = w
    BY <1>2
  <1> HIDE DEF assigned
  <1>7. ScopedObjects(p, own, assigned)
    BY <1>2, <1>4, <1>5, <1>6 DEF ScopedObjects
  <1> QED BY <1>3, <1>7

---------------------------------------------------------------------------
(* Calls of methods, blocks and primitives.                                *)

CallScoped(p, own, c) ==
  /\ c.inv = NoInvokable \/ ValueFits(p, own, c.rcvr)
  /\ AllFit(p, own, c.args)
  /\ c.inv[1] = "method" => c.inv[2] \in Reached(p) /\ SelfFits(p, own, c.inv[2], c.rcvr)
  /\ c.n \in 1..5 /\ (c.n # 5 => Len(c.args) = c.n - 1)
  /\ c.inv[1] = "method" /\ MethodOf(p, c.inv[2]).kind = "field_write" /\ c.n = 5 =>
       MethodOf(p, c.inv[2]).arg - 1 \in 0..Len(c.args)
  /\ c.inv[1] = "primitive" /\ c.inv[2] = "global:put:" => Len(c.args) = 2

LEMMA OneArgument ==
  ASSUME NEW p, NEW own, NEW v, ValueFits(p, own, v)
  PROVE  AllFit(p, own, <<v>>) /\ Len(<<v>>) = 1
  BY DEF AllFit, IsSequence

LEMMA TwoArguments ==
  ASSUME NEW p, NEW own, NEW v, ValueFits(p, own, v), NEW w, ValueFits(p, own, w)
  PROVE  AllFit(p, own, <<v, w>>) /\ Len(<<v, w>>) = 2
  BY DEF AllFit, IsSequence

\* What the table of a class has for a message.
LEMMA ScopedLookup ==
  ASSUME NEW own, Works(own), NEW class, NEW selector, Understands(class, selector)
  PROVE  /\ EntryFits(program, selector, Lookup(class, selector))
         /\ class \in DOMAIN P.classes /\ selector \in DOMAIN P.classes[class].methods
         /\ Lookup(class, selector) = P.classes[class].methods[selector]
  <1>1. TablesFit(program)
    BY Parts DEF ScopesFit
  <1> QED BY <1>1 DEF TablesFit, Lookup, Understands, P

\* A message to a value finds a method that fits it.
LEMMA FoundFits ==
  ASSUME NEW own, Works(own), NEW rcvr, ValueFits(program, own, rcvr), NEW selector
  PROVE  \E inv \in {Lookup(ClassOf(rcvr), selector)} :
           /\ inv[1] = "method" =>
                inv[2] \in Reached(program) /\ SelfFits(program, own, inv[2], rcvr)
           /\ inv[1] = "method" /\ Method(inv[2]).kind = "field_write" =>
                Method(inv[2]).arg \in 1..(Arity[selector] - 1)
           /\ inv[1] = "primitive" /\ inv[2] \in SystemPrimitives => inv[2] = selector
           /\ selector = "unknownGlobal:" /\ inv[1] = "method" =>
                Method(inv[2]).kind # "global_read"
  <1> DEFINE class == ClassOf(rcvr)
             inv == Lookup(class, selector)
  <1>1. CASE ~Understands(class, selector)
    <2>1. inv = NoInvokable
      BY <1>1 DEF Lookup
    <2> QED BY <2>1 DEF NoInvokable
  <1>2. CASE Understands(class, selector)
    <2>1. /\ EntryFits(program, selector, inv)
          /\ class \in DOMAIN P.classes /\ selector \in DOMAIN P.classes[class].methods
          /\ inv = P.classes[class].methods[selector]
      BY <1>2, ScopedLookup
    <2> HIDE DEF inv
    <2>2. ASSUME inv[1] = "method", OfObjects(program, inv[2])
          PROVE  rcvr[1] = "obj"
      <3> SUFFICES ASSUME rcvr[1] # "obj" PROVE FALSE
        OBVIOUS
      <3>1. class \in DataClasses
        BY DEF ClassOf, ClassOfValue, ValueFits, WellTyped, DataClasses
      <3>2. ~Names(inv, inv[2])
        BY <2>1, <2>2, <3>1 DEF OfObjects, P
      <3> QED BY <2>2, <3>2 DEF Names
    <2>3. inv[1] = "method" => inv[2] \in Reached(program) /\ ~IsBlock(program, inv[2])
      BY <2>1 DEF EntryFits
    <2>4. inv[1] = "method" => SelfFits(program, own, inv[2], rcvr)
      BY <2>2, <2>3 DEF SelfFits
    <2> QED BY <2>1, <2>3, <2>4, MethodHere DEF EntryFits, inv
  <1> QED BY <1>1, <1>2

\* The outer self is asked for a global.
LEMMA AskedFits ==
  ASSUME NEW own, Works(own), NEW v, ValueFits(program, own, v), NEW name, NEW tier2
  PROVE  \E c \in {Call(Lookup(ClassOf(OuterSelf(v)), "unknownGlobal:"), OuterSelf(v),
                        <<<<"sym", name>>>>, 2, tier2)} :
           /\ CallScoped(program, own, c)
           /\ c.inv[1] = "method" => Method(c.inv[2]).kind # "global_read"
  <1> DEFINE self == OuterSelf(v)
             inv == Lookup(ClassOf(self), "unknownGlobal:")
             args == <<<<"sym", name>>>>
             c == Call(inv, self, args, 2, tier2)
  <1>1. ValueFits(program, own, <<"sym", name>>)
    BY ThePlain, PlainFits
  <1>2. AllFit(program, own, args) /\ Len(args) = 1
    BY <1>1, OneArgument
  <1>3. MaybeFits(program, own, self)
    BY Parts, OuterSelfFits
  <1>4. c.inv = inv /\ c.rcvr = self /\ c.args = args /\ c.n = 2
    BY DEF Call
  <1>5. CASE ValueFits(program, own, self)
    <2>1. /\ inv[1] = "method" =>
                inv[2] \in Reached(program) /\ SelfFits(program, own, inv[2], self)
          /\ inv[1] = "primitive" /\ inv[2] \in SystemPrimitives => inv[2] = "unknownGlobal:"
          /\ inv[1] = "method" => Method(inv[2]).kind # "global_read"
      BY <1>5, FoundFits
    <2> HIDE DEF inv, self, args, c
    <2>2. CallScoped(program, own, c)
      BY <1>2, <1>4, <1>5, <2>1 DEF CallScoped, SystemPrimitives
    <2> QED BY <1>4, <2>1, <2>2 DEF c, inv, self, args
  <1>6. CASE self = Undefined
    <2>1. ClassOf(self) = "undefined"
      BY <1>6 DEF ClassOf, ClassOfValue, Undefined, NoAnswer
    <2>2. "undefined" \notin DOMAIN P.classes
      BY Parts DEF ScopesFit, TablesFit, P
    <2>3. inv = NoInvokable
      BY <2>1, <2>2 DEF Lookup, Understands
    <2>4. inv[1] # "method" /\ inv[1] # "primitive"
      BY <2>3 DEF NoInvokable
    <2> HIDE DEF inv, self, args, c
    <2>5. CallScoped(program, own, c)
      BY <1>2, <1>4, <2>3, <2>4 DEF CallScoped
    <2> QED BY <1>4, <2>4, <2>5 DEF c, inv, self, args
  <1> QED BY <1>3, <1>5, <1>6 DEF MaybeFits

\* A method that can run, as the verifier sees it.
LEMMA ReachedFits ==
  ASSUME NEW p, ScopesFit(p), NEW m \in Reached(p)
  PROVE  /\ m \in DOMAIN Programs[p].methods
         /\ HasCode(p, m) => CodeScopesFit(p, m)
         /\ ~HasCode(p, m) => TrivialScopeFits(p, m)
  BY DEF ScopesFit

LEMMA BlocksStoreNothing ==
  ASSUME NEW p, ScopesFit(p), NEW m \in Reached(p), IsBlock(p, m)
  PROVE  MethodOf(p, m).kind # "field_write"
  <1> SUFFICES ASSUME MethodOf(p, m).kind = "field_write" PROVE FALSE
    OBVIOUS
  <1>1. FieldFits(p, m, MethodOf(p, m).idx, 0)
    BY ReachedFits DEF HasCode, TrivialScopeFits
  <1> QED BY <1>1, ContextsOf DEF FieldFits, IsHome

LEMMA EnteredScoped ==
  ASSUME NEW own, Works(own), NEW call, CallFits(P, call), CallScoped(program, own, call)
  PROVE  CallScoped(program, own, EnterBlock(call))
  <1> DEFINE c == EnterBlock(call)
  <1>1. CASE call.inv[1] = "primitive" /\ call.inv[2] \in BlockPrimitives
    <2> DEFINE inv == IF call.rcvr[1] = "block" THEN <<"method", call.rcvr[2]>>
                      ELSE NoInvokable
    <2>1. c = [call EXCEPT !.inv = inv, !.tier2 = FALSE]
      BY <1>1 DEF EnterBlock
    <2>2. /\ c.inv = inv /\ c.rcvr = call.rcvr /\ c.args = call.args /\ c.n = call.n
      BY <2>1 DEF CallFits
    <2>3. ValueFits(program, own, call.rcvr)
      BY <1>1 DEF CallScoped, NoInvokable
    <2>4. inv[1] # "primitive"
      BY DEF NoInvokable
    <2>5. ASSUME inv[1] = "method"
          PROVE  /\ inv[2] \in Reached(program) /\ SelfFits(program, own, inv[2], call.rcvr)
                 /\ MethodOf(program, inv[2]).kind # "field_write"
      <3>1. call.rcvr[1] = "block" /\ inv[2] = call.rcvr[2]
        BY <2>5 DEF NoInvokable
      <3>2. inv[2] \in Reached(program) /\ IsBlock(program, inv[2])
        BY <2>3, <3>1 DEF ValueFits
      <3>3. SelfFits(program, own, inv[2], call.rcvr)
        BY <2>3, <3>1, <3>2 DEF SelfFits
      <3> QED BY <3>2, <3>3, Parts, BlocksStoreNothing
    <2> HIDE DEF c, inv
    <2> QED BY <2>2, <2>3, <2>4, <2>5 DEF CallScoped, c
  <1>2. CASE ~(call.inv[1] = "primitive" /\ call.inv[2] \in BlockPrimitives)
    BY <1>2 DEF EnterBlock
  <1> QED BY <1>1, <1>2

\* A global that the method of the call reads is there.
ReadsKnown(c) ==
  c.inv[1] = "method" /\ Method(c.inv[2]).kind = "global_read" =>
    Method(c.inv[2]).name \in DOMAIN globals

LEMMA ResolvedScoped ==
  ASSUME NEW own, Works(own), NEW call, CallFits(P, call), CallScoped(program, own, call)
  PROVE  CallScoped(program, own, Resolved(call)) /\ ReadsKnown(Resolved(call))
  <1> DEFINE c == EnterBlock(call)
  <1>1. CallScoped(program, own, c)
    BY EnteredScoped
  <1>2. Resolved(call) = AskOuterSelf(c)
    BY DEF Resolved
  <1> HIDE DEF c
  <1>3. CASE IsUnknownGlobal(c)
    <2> DEFINE name == Method(c.inv[2]).name
               asked == Call(Lookup(ClassOf(OuterSelf(c.rcvr)), "unknownGlobal:"),
                             OuterSelf(c.rcvr), <<<<"sym", name>>>>, 2, c.tier2)
    <2>1. AskOuterSelf(c) = asked
      BY <1>3 DEF AskOuterSelf
    <2>2. ValueFits(program, own, c.rcvr)
      BY <1>1, <1>3 DEF CallScoped, NoInvokable, IsUnknownGlobal
    <2>3. /\ CallScoped(program, own, asked)
          /\ asked.inv[1] = "method" => Method(asked.inv[2]).kind # "global_read"
      BY <2>2, AskedFits
    <2> HIDE DEF asked
    <2> QED BY <1>2, <2>1, <2>3 DEF ReadsKnown
  <1>4. CASE ~IsUnknownGlobal(c)
    <2>1. AskOuterSelf(c) = c
      BY <1>4 DEF AskOuterSelf
    <2> QED BY <1>1, <1>2, <1>4, <2>1 DEF ReadsKnown, IsUnknownGlobal
  <1> QED BY <1>3, <1>4

---------------------------------------------------------------------------
(* New activations and their frames.                                       *)

SlotsFit(p, own, size, slots) ==
  /\ IsSequence(slots) /\ Len(slots) = size
  /\ \A s \in 1..size : ValueFits(p, own, slots[s])

LEMMA SlotsAllFit ==
  ASSUME NEW p, NEW own, NEW size \in Nat, NEW argInner, NEW args, NEW flag,
         AllFit(p, own, args)
  PROVE  SlotsFit(p, own, size, ArgumentSlots(size, argInner, args, flag, Nil))
  <1> DEFINE slots == ArgumentSlots(size, argInner, args, flag, Nil)
  <1>1. \A i \in DOMAIN args : ValueFits(p, own, args[i])
    BY SequenceType DEF AllFit
  <1>2. ValueFits(p, own, Nil)
    BY ThePlain, PlainFits
  <1>3. /\ DOMAIN slots = 1..size /\ slots = [s \in 1..size |-> slots[s]]
        /\ \A s \in 1..size : ValueFits(p, own, slots[s])
    BY <1>1, <1>2 DEF ArgumentSlots
  <1> HIDE DEF slots
  <1>4. slots \in [1..size -> {slots[s] : s \in 1..size}]
    BY <1>3
  <1>5. slots \in Seq({slots[s] : s \in 1..size}) /\ Len(slots) = size
    BY <1>3, <1>4
  <1>6. IsSequence(slots)
    BY <1>5, TypedSequence
  <1>7. SlotsFit(p, own, size, slots)
    BY <1>3, <1>5, <1>6 DEF SlotsFit
  <1> QED BY <1>7 DEF slots

\* The first two elements are the inner, or the marker, and the receiver.
HeadFits(p, own, size, new, x, rcvr) ==
  /\ IsSequence(new) /\ Len(new) = size /\ new[1] = x /\ new[2] = rcvr
  /\ \A s \in 2..Len(new) : ValueFits(p, own, new[s])

LEMMA HeadOfSlots ==
  ASSUME NEW p, NEW own, NEW size, size >= 2, NEW slots, SlotsFit(p, own, size, slots),
         NEW x, NEW rcvr, ValueFits(p, own, rcvr), NEW new,
         new = WithFirstTwo(slots, x, rcvr)
  PROVE  HeadFits(p, own, size, new, x, rcvr)
  <1> DEFINE first == ReplaceAt(slots, 1, x)
  <1>1. /\ Len(slots) \in Nat /\ 1 \in 1..Len(slots) /\ 2 \in 1..Len(slots)
        /\ IsSequence(slots) /\ Len(slots) = size
        /\ \A s \in 1..size : ValueFits(p, own, slots[s])
    BY SequenceType DEF SlotsFit
  <1>2. /\ IsSequence(first) /\ Len(first) = Len(slots) /\ first[1] = x
        /\ \A s \in 1..Len(slots) : s # 1 => first[s] = slots[s]
    BY <1>1, Replaced
  <1>3. new = ReplaceAt(first, 2, rcvr)
    BY DEF ReplaceAt, RcvrIdx, WithFirstTwo
  <1> HIDE DEF first
  <1>31. 2 \in 1..Len(first)
    BY <1>1, <1>2
  <1> DEFINE second == ReplaceAt(first, 2, rcvr)
  <1>32. /\ IsSequence(second) /\ Len(second) = Len(first) /\ second[2] = rcvr
        /\ \A s \in 1..Len(first) : s # 2 => second[s] = first[s]
    BY <1>2, <1>31, Replaced
  <1>33. new = second
    BY <1>3
  <1> HIDE DEF second
  <1>4. /\ IsSequence(new) /\ Len(new) = Len(slots) /\ new[2] = rcvr
        /\ \A s \in 1..Len(slots) : s # 2 => new[s] = first[s]
    BY <1>2, <1>32, <1>33
  <1>5. new[1] = x
    BY <1>1, <1>2, <1>4
  <1>6. ASSUME NEW s \in 2..Len(new) PROVE ValueFits(p, own, new[s])
    <2>1. s \in 1..Len(slots) /\ s # 1
      BY <1>1, <1>4
    <2> QED BY <1>1, <1>2, <1>4, <2>1
  <1> QED BY <1>1, <1>4, <1>5, <1>6 DEF HeadFits

LEMMA NewFrameFits ==
  ASSUME NEW p, NEW own, NEW size \in Nat, size >= 2, NEW argInner, NEW rcvr, NEW args,
         NEW inner, NEW none, ValueFits(p, own, rcvr), AllFit(p, own, args)
  PROVE  \E frame \in {NewFrame(size, argInner, rcvr, args, inner, none, Nil)} :
           /\ IsSequence(frame) /\ Len(frame) = size /\ frame[1] = inner /\ frame[2] = rcvr
           /\ \A s \in 2..Len(frame) : ValueFits(p, own, frame[s])
  <1> DEFINE flags == IF inner = none THEN [i \in DOMAIN args |-> FALSE] ELSE argInner
             slots == ArgumentSlots(size, flags, args, FALSE, Nil)
             frame == NewFrame(size, argInner, rcvr, args, inner, none, Nil)
  <1> HIDE DEF flags
  <1>1. SlotsFit(p, own, size, slots)
    BY SlotsAllFit
  <1>2. frame = WithFirstTwo(slots, inner, rcvr)
    BY DEF NewFrame, flags, WithFirstTwo
  <1> HIDE DEF slots, frame
  <1>3. HeadFits(p, own, size, frame, inner, rcvr)
    BY <1>1, <1>2, HeadOfSlots
  <1> QED BY <1>3 DEF frame, HeadFits

LEMMA NewInnerFits ==
  ASSUME NEW p, NEW own, NEW size \in Nat, size >= 2, NEW argInner, NEW rcvr, NEW args,
         ValueFits(p, own, rcvr), AllFit(p, own, args)
  PROVE  \E inner \in {NewInner(size, argInner, rcvr, args, True, Nil)} :
           /\ IsSequence(inner) /\ Len(inner) = size /\ inner[2] = rcvr
           /\ \A s \in 2..Len(inner) : ValueFits(p, own, inner[s])
  <1> DEFINE slots == ArgumentSlots(size, argInner, args, TRUE, Nil)
             inner == NewInner(size, argInner, rcvr, args, True, Nil)
  <1>1. SlotsFit(p, own, size, slots)
    BY SlotsAllFit
  <1>2. inner = [slots EXCEPT ![1] = True, ![RcvrIdx + 1] = rcvr]
    BY DEF NewInner
  <1> HIDE DEF slots, inner
  <1>21. inner = WithFirstTwo(slots, True, rcvr)
    BY <1>2 DEF WithFirstTwo
  <1>3. HeadFits(p, own, size, inner, True, rcvr)
    BY <1>1, <1>21, HeadOfSlots
  <1> QED BY <1>3 DEF inner, HeadFits

LEMMA WorksVerified ==
  ASSUME NEW own, Works(own)
  PROVE  CompiledCodeIsVerified /\ CompiledScopesFit
  BY DEF Works, Inv

LEMMA CodeOfMethod ==
  ASSUME CompiledCodeIsVerified, CompiledScopesFit, NEW m \in Reached(program),
         Method(m).kind = "bytecodes"
  PROVE  /\ CodeScopesFit(program, m) /\ CodeIsVerified(program, m)
         /\ Method(m).sizeFrame \in Nat /\ Method(m).sizeFrame >= 2
         /\ Method(m).sizeInner \in Nat
         /\ Method(m).sizeInner > 0 => Method(m).sizeInner >= 2
         /\ Selves(program, m)[0] = {}
  <1>1. CodeScopesFit(program, m) /\ m \in DOMAIN P.methods
    BY ReachedFits DEF CompiledScopesFit, HasCode, MethodOf, Method, P
  <1>2. CodeIsVerified(program, m)
    BY <1>1 DEF CompiledCodeIsVerified, IsVerified, Method, P
  <1>3. Method(m).sizeFrame \in Nat /\ Method(m).sizeFrame >= 2
    BY <1>2 DEF CodeIsVerified, Method, P
  <1>4. /\ Method(m).sizeInner \in Nat
        /\ Method(m).sizeInner > 0 => Method(m).sizeInner >= 2
        /\ Selves(program, m)[0] = {}
    BY <1>1, MethodHere DEF CodeScopesFit, SelvesFit, ArgOffset
  <1> QED BY <1>1, <1>2, <1>3, <1>4

LEMMA ScopedActivationOf ==
  ASSUME CompiledCodeIsVerified, CompiledScopesFit, NEW own, NEW c,
         CallFits(P, c), CallScoped(program, own, c),
         c.inv[1] = "method", Method(c.inv[2]).kind = "bytecodes",
         NEW more, Extends(own, more), NEW inner,
         IF NeedsInner(c) THEN inner \in DOMAIN more /\ more[inner] = c.inv[2]
         ELSE inner = 0
  PROVE  ScopedActivation(program, more, Activation(c, inner))
  <1> DEFINE m == c.inv[2]
             M == Method(m)
             frame == NewFrame(M.sizeFrame, M.argInner, c.rcvr, c.args, inner, 0, Nil)
             a == Activation(c, inner)
  <1>1. /\ m \in Reached(program) /\ SelfFits(program, own, m, c.rcvr)
        /\ AllFit(program, own, c.args)
    BY DEF CallScoped
  <1>2. /\ M.sizeFrame \in Nat /\ M.sizeFrame >= 2 /\ M.sizeInner \in Nat
        /\ Selves(program, m)[0] = {}
    BY <1>1, CodeOfMethod
  <1>3. SelfFits(program, more, m, c.rcvr) /\ ValueFits(program, more, c.rcvr)
    BY <1>1, StillFits DEF SelfFits
  <1>4. AllFit(program, more, c.args)
    BY <1>1, StillFits DEF AllFit
  <1> DEFINE size == M.sizeFrame
  <1>7. /\ IsSequence(frame) /\ Len(frame) = size /\ frame[1] = inner
        /\ frame[2] = c.rcvr /\ \A s \in 2..Len(frame) : ValueFits(program, more, frame[s])
    <2> HIDE DEF size
    <2>1. size \in Nat /\ size >= 2
      BY <1>2 DEF size
    <2> DEFINE argInner == M.argInner
               new == NewFrame(size, argInner, c.rcvr, c.args, inner, 0, Nil)
    <2>2. frame = new
      BY DEF size
    <2> HIDE DEF argInner
    <2>3. /\ IsSequence(new) /\ Len(new) = size /\ new[1] = inner /\ new[2] = c.rcvr
          /\ \A s \in 2..Len(new) : ValueFits(program, more, new[s])
      BY <1>3, <1>4, <2>1, NewFrameFits
    <2> QED BY <2>2, <2>3
  <1>8. /\ a.m = m /\ a.pc = 0 /\ a.stack = <<>> /\ a.frame = frame /\ a.escaped = FALSE
        /\ a.tier = StartTier(c)
    BY DEF Activation
  <1> HIDE DEF frame, a
  <1>9. FrameFits(program, more, a)
    <2>1. IF M.sizeInner = 0 THEN frame[1] = 0
          ELSE frame[1] \in DOMAIN more /\ more[frame[1]] = m
      BY <1>2, <1>7 DEF NeedsInner
    <2> QED BY <1>3, <1>7, <1>8, <2>1, MethodHere DEF FrameFits
  <1>10. SelvesHold(program, a)
    BY <1>2, <1>8 DEF SelvesHold
  <1>11. Len(<<>>) = 0 /\ \A i \in 1..0 : FALSE
    OBVIOUS
  <1>12. a.tier \in 1..2
    BY <1>8 DEF StartTier
  <1>13. ScopedActivation(program, more, a)
    BY <1>1, <1>8, <1>9, <1>10, <1>11, <1>12 DEF ScopedActivation
  <1> QED BY <1>13 DEF a

LEMMA ScopedInnerOf ==
  ASSUME CompiledCodeIsVerified, CompiledScopesFit, NEW own, NEW c,
         CallFits(P, c), CallScoped(program, own, c),
         c.inv[1] = "method", Method(c.inv[2]).kind = "bytecodes", NeedsInner(c)
  PROVE  InnerFits(program, own, c.inv[2], InnerFor(c))
  <1> DEFINE m == c.inv[2]
             M == Method(m)
             inner == InnerFor(c)
  <1>1. /\ m \in Reached(program) /\ SelfFits(program, own, m, c.rcvr)
        /\ AllFit(program, own, c.args)
    BY DEF CallScoped
  <1>2. M.sizeInner \in Nat /\ M.sizeInner >= 2
    BY <1>1, CodeOfMethod DEF NeedsInner
  <1>5. ValueFits(program, own, c.rcvr)
    BY <1>1 DEF SelfFits
  <1> DEFINE size == M.sizeInner
  <1>6. /\ IsSequence(inner) /\ Len(inner) = size
        /\ inner[2] = c.rcvr /\ \A s \in 2..Len(inner) : ValueFits(program, own, inner[s])
    <2> HIDE DEF size
    <2>1. size \in Nat /\ size >= 2
      BY <1>2 DEF size
    <2> DEFINE argInner == M.argInner
               new == NewInner(size, argInner, c.rcvr, c.args, True, Nil)
    <2>2. inner = new
      BY DEF size, InnerFor
    <2> HIDE DEF argInner
    <2>3. /\ IsSequence(new) /\ Len(new) = size /\ new[2] = c.rcvr
          /\ \A s \in 2..Len(new) : ValueFits(program, own, new[s])
      BY <1>1, <1>5, <2>1, NewInnerFits
    <2> QED BY <2>2, <2>3
  <1> HIDE DEF inner
  <1>7. InnerFits(program, own, m, inner)
    BY <1>1, <1>2, <1>6, MethodHere DEF InnerFits
  <1> QED BY <1>7 DEF inner

\* The ghost of a new inner is the method it is for.
With(own, m) ==
  [i \in 1..(Len(inners) + 1) |-> IF i = Len(inners) + 1 THEN m ELSE own[i]]

LEMMA OneMoreInner ==
  ASSUME NEW own, Works(own), NEW m \in Reached(program), NEW inner,
         InnerFits(program, own, m, inner)
  PROVE  /\ Extends(own, With(own, m)) /\ Len(inners) + 1 \in DOMAIN With(own, m)
         /\ With(own, m)[Len(inners) + 1] = m
         /\ ScopedInners(program, With(own, m), Append(inners, inner))
  <1> DEFINE more == With(own, m)
             is == Append(inners, inner)
  <1>1. /\ IsSequence(inners) /\ DOMAIN own = 1..Len(inners)
        /\ \A i \in 1..Len(inners) :
             own[i] \in Reached(program) /\ InnerFits(program, own, own[i], inners[i])
    BY Parts DEF ScopedInners
  <1>2. Len(inners) \in Nat
    BY <1>1, SequenceType
  <1>3. /\ DOMAIN more = 1..(Len(inners) + 1) /\ more[Len(inners) + 1] = m
        /\ \A i \in 1..Len(inners) : i \in 1..(Len(inners) + 1) /\ more[i] = own[i]
    BY <1>2 DEF With
  <1>4. Len(inners) + 1 \in 1..(Len(inners) + 1)
    BY <1>2
  <1> HIDE DEF more
  <1>5. Extends(own, more)
    BY <1>1, <1>3 DEF Extends
  <1>6. /\ IsSequence(is) /\ Len(is) = Len(inners) + 1
        /\ \A i \in 1..Len(inners) : is[i] = inners[i]
        /\ is[Len(inners) + 1] = inner
    BY <1>1, AppendTo
  <1> HIDE DEF is
  <1>7. ASSUME NEW i \in 1..Len(is)
        PROVE  more[i] \in Reached(program) /\ InnerFits(program, more, more[i], is[i])
    <2>1. i \in 1..Len(inners) \/ i = Len(inners) + 1
      BY <1>2, <1>6
    <2>2. CASE i \in 1..Len(inners)
      <3>1. InnerFits(program, own, own[i], inners[i]) /\ own[i] \in Reached(program)
        BY <1>1, <2>2
      <3>2. InnerFits(program, more, own[i], inners[i])
        BY <1>5, <3>1, InnersStillFit
      <3> QED BY <1>3, <1>6, <2>2, <3>1, <3>2
    <2>3. CASE i = Len(inners) + 1
      <3>1. InnerFits(program, more, m, inner)
        BY <1>5, InnersStillFit
      <3> QED BY <1>3, <1>6, <2>3, <3>1
    <2> QED BY <2>1, <2>2, <2>3
  <1>8. ScopedInners(program, more, is)
    BY <1>3, <1>6, <1>7 DEF ScopedInners
  <1> QED BY <1>3, <1>4, <1>5, <1>8 DEF more, is

LEMMA StillScoped ==
  ASSUME NEW p, NEW own, NEW more, Extends(own, more)
  PROVE  /\ \A calls : ScopedActivations(p, own, calls) => ScopedActivations(p, more, calls)
         /\ \A os : ScopedObjects(p, own, os) => ScopedObjects(p, more, os)
         /\ \A gs : ScopedGlobals(p, own, gs) => ScopedGlobals(p, more, gs)
  <1>1. \A v : ValueFits(p, own, v) => ValueFits(p, more, v)
    BY StillFits
  <1>2. \A a : ScopedActivation(p, own, a) => ScopedActivation(p, more, a)
    BY ActivationsStillFit
  <1>3. \A calls : ScopedActivations(p, own, calls) => ScopedActivations(p, more, calls)
    BY <1>2 DEF ScopedActivations
  <1>4. \A os : ScopedObjects(p, own, os) => ScopedObjects(p, more, os)
    BY <1>1 DEF ScopedObjects
  <1>5. \A gs : ScopedGlobals(p, own, gs) => ScopedGlobals(p, more, gs)
    BY <1>1 DEF ScopedGlobals
  <1> QED BY <1>3, <1>4, <1>5

LEMMA StartScoped ==
  ASSUME NEW own, Works(own), NEW c, CallFits(P, c), CallScoped(program, own, c),
         NEW caller, ScopedActivation(program, own, caller), AwaitsAnswer(program, caller),
         Start(c, caller)
  PROVE  After
  <1> DEFINE m == c.inv[2]
             inner == IF NeedsInner(c) THEN Len(inners) + 1 ELSE 0
             more == IF NeedsInner(c) THEN With(own, m) ELSE own
             a == Activation(c, inner)
  <1>1. /\ c.inv[1] = "method" /\ Method(m).kind = "bytecodes"
        /\ acts' = Append(Append(Front(acts), caller), a)
        /\ inners' = IF NeedsInner(c) THEN Append(inners, InnerFor(c)) ELSE inners
        /\ UNCHANGED <<objects, globals, outcome>>
    BY DEF Start
  <1>2. m \in Reached(program)
    BY <1>1 DEF CallScoped
  <1>3. /\ Extends(own, more) /\ ScopedInners(program, more, inners')
        /\ IF NeedsInner(c) THEN inner \in DOMAIN more /\ more[inner] = m ELSE inner = 0
    <2>1. CASE NeedsInner(c)
      <3>1. InnerFits(program, own, m, InnerFor(c))
        BY <1>1, <2>1, WorksVerified, ScopedInnerOf
      <3> QED BY <1>1, <1>2, <2>1, <3>1, OneMoreInner
    <2>2. CASE ~NeedsInner(c)
      BY <1>1, <2>2, Parts DEF Extends
    <2> QED BY <2>1, <2>2
  <1> HIDE DEF inner, more
  <1>4. ScopedActivation(program, more, a)
    BY <1>1, <1>3, WorksVerified, ScopedActivationOf
  <1> HIDE DEF a
  <1>5. ScopedActivation(program, more, caller)
    BY <1>3, ActivationsStillFit
  <1>6. /\ ScopedActivations(program, more, acts) /\ ScopedObjects(program, more, objects)
        /\ ScopedGlobals(program, more, globals)
    BY <1>3, Parts, StillScoped
  <1>7. ScopedActivations(program, more, acts')
    BY <1>1, <1>4, <1>5, <1>6, Parts, ScopedCalled
  <1> QED BY <1>1, <1>3, <1>6, <1>7 DEF After, ScopedMachine

---------------------------------------------------------------------------
(* Trivial methods, primitives.                                            *)

\* Which argument an entry point stores: the receiver or one that is there.
LEMMA StoredFits ==
  ASSUME NEW own, Works(own), NEW c, CallFits(P, c), CallScoped(program, own, c),
         c.inv[1] = "method", Method(c.inv[2]).kind = "field_write", c.n # 1
  PROVE  ValueFits(program, own, Stored(c))
  <1> DEFINE M == Method(c.inv[2])
             k == StoredArgument(c)
             all == <<c.rcvr>> \o c.args
  <1>1. /\ ValueFits(program, own, c.rcvr) /\ IsSequence(c.args)
        /\ \A i \in 1..Len(c.args) : ValueFits(program, own, c.args[i])
        /\ c.n \in 1..5 /\ (c.n # 5 => Len(c.args) = c.n - 1)
        /\ c.n = 5 => M.arg - 1 \in 0..Len(c.args)
    BY MethodHere DEF CallScoped, AllFit, NoInvokable
  <1>2. Len(c.args) \in Nat
    BY <1>1, SequenceType
  <1>3. k \in 0..Len(c.args)
    <2>1. CASE c.n = 2
      <3>1. k = 1
        BY <2>1 DEF StoredArgument
      <3>2. Len(c.args) = 1
        BY <1>1, <2>1
      <3> HIDE DEF k
      <3> QED BY <3>1, <3>2
    <2>2. CASE c.n \in {3, 4}
      <3>1. k \in {1, 2}
        BY <2>2 DEF StoredArgument
      <3> HIDE DEF k
      <3> QED BY <1>1, <1>2, <2>2, <3>1
    <2>3. CASE c.n = 5
      <3>1. k = M.arg - 1
        BY <2>3 DEF StoredArgument
      <3> QED BY <1>1, <2>3, <3>1
    <2> QED BY <1>1, <2>1, <2>2, <2>3
  <1>4. /\ IsSequence(all) /\ Elements(all) = {c.rcvr} \cup Elements(c.args)
        /\ Len(all) = Len(c.args) + 1
    BY <1>1, InFront, PutInFront
  <1>5. Stored(c) = Element(all, k + 1)
    BY DEF Stored
  <1> HIDE DEF all, k
  <1>6. k + 1 \in 1..Len(all)
    BY <1>2, <1>3, <1>4
  <1>7. DOMAIN all = 1..Len(all)
    BY <1>4, SequenceType
  <1>8. Element(all, k + 1) = all[k + 1] /\ all[k + 1] \in Elements(all)
    BY <1>6, <1>7 DEF Element, Elements
  <1>9. \A v \in Elements(all) : ValueFits(program, own, v)
    BY <1>1, <1>4 DEF Elements
  <1> QED BY <1>5, <1>8, <1>9

LEMMA AnswerTriviallyScoped ==
  ASSUME NEW own, Works(own), NEW c, CallFits(P, c), CallScoped(program, own, c),
         ReadsKnown(c),
         NEW caller, ActivationFits(program, caller), Len(caller.stack) > 0,
         ScopedActivation(program, own, caller), AwaitsAnswer(program, caller),
         AnswerTrivially(c, caller)
  PROVE  After
  <1> DEFINE m == c.inv[2]
             M == Method(m)
             v == TrivialAnswer(c)
  <1>1. /\ c.inv[1] = "method" /\ M.kind # "bytecodes"
        /\ ~(M.kind = "field_write" /\ c.n = 1)
        /\ acts' = Append(Front(acts), WithAnswer(caller, v))
        /\ objects' = IF M.kind = "field_write"
                      THEN [objects EXCEPT ![c.rcvr[2]] = WithField(@, M.idx, Stored(c))]
                      ELSE objects
        /\ UNCHANGED <<inners, globals, outcome>>
    BY DEF AnswerTrivially, TrivialCall
  <1>2. /\ m \in Reached(program) /\ SelfFits(program, own, m, c.rcvr)
        /\ ValueFits(program, own, c.rcvr)
    BY <1>1 DEF CallScoped, NoInvokable
  <1>3. TrivialScopeFits(program, m) /\ m \in DOMAIN P.methods
    BY <1>1, <1>2, Parts, ReachedFits, MethodHere DEF HasCode, P
  <1>4. M.kind \in TrivialKinds
    BY <1>1, <1>3, Parts DEF Inv, CompiledCodeIsVerified, IsVerified, NamesExist, Method, P
  <1>5. ValueFits(program, own, v)
    <2>1. CASE M.kind = "literal_return"
      <3>1. IsPlain(M.value) /\ v = M.value
        BY <1>3, <2>1, MethodHere DEF TrivialScopeFits, TrivialAnswer
      <3> QED BY <3>1, PlainFits
    <2>2. CASE M.kind = "global_read"
      <3>1. v = globals[M.name] /\ M.name \in DOMAIN globals
        BY <1>1, <2>2 DEF ReadsKnown, TrivialAnswer, Element
      <3> QED BY <3>1, Parts DEF ScopedGlobals
    <2>3. CASE M.kind = "field_read"
      <3> DEFINE ctx == M.ctx
                 idx == M.idx
                 self == DeterminedSelf(c.rcvr, ctx)
      <3>1. v = Field(self, idx)
        BY <2>3 DEF TrivialAnswer
      <3>2. FieldFits(program, m, idx, ctx)
        BY <1>3, <2>3, MethodHere DEF TrivialScopeFits
      <3> HIDE DEF ctx, idx
      <3>3. /\ HasContext(program, m, ctx) /\ IsHome(program, Outward(program, m, ctx))
            /\ idx + 1 \in DOMAIN Programs[program].entry.fields
        BY <3>2 DEF FieldFits
      <3>4. SelfFits(program, own, Outward(program, m, ctx), self)
        BY <1>2, <3>3, Parts, DeterminedSelfFits
      <3> HIDE DEF self
      <3>5. ValueFits(program, own, self) /\ self[1] = "obj"
        BY <3>3, <3>4 DEF SelfFits, IsHome
      <3> QED BY <3>1, <3>3, <3>5, Parts, FieldReads
    <2>4. CASE M.kind = "field_write"
      BY <1>2, <2>4 DEF TrivialAnswer
    <2> QED BY <1>4, <2>1, <2>2, <2>3, <2>4 DEF TrivialKinds
  <1> HIDE DEF v
  <1>6. ScopedObjects(program, own, objects')
    <2>1. CASE M.kind = "field_write"
      <3> DEFINE idx == M.idx
                 x == Stored(c)
                 rcvr == c.rcvr
      <3>1. objects' = [objects EXCEPT ![rcvr[2]] = WithField(@, idx, x)]
        BY <1>1, <2>1
      <3>2. FieldFits(program, m, M.idx, 0)
        BY <1>3, <2>1, MethodHere DEF TrivialScopeFits
      <3>3. IsHome(program, m)
        BY <1>2, <3>2, Parts, ContextsOf DEF FieldFits
      <3>4. rcvr[1] = "obj"
        BY <1>2, <3>3 DEF SelfFits, IsHome
      <3>5. ValueFits(program, own, x) /\ ValueFits(program, own, rcvr)
        BY <1>1, <1>2, <2>1, StoredFits
      <3>6. ScopedObjects(program, own, objects)
        BY Parts
      <3> HIDE DEF idx, x, rcvr
      <3> QED BY <3>1, <3>4, <3>5, <3>6, FieldWrites
    <2>2. CASE M.kind # "field_write"
      BY <1>1, <2>2, Parts
    <2> QED BY <2>1, <2>2
  <1>7. ScopedInners(program, own, inners') /\ ScopedGlobals(program, own, globals')
    BY <1>1, Parts
  <1> QED BY <1>1, <1>5, <1>6, <1>7, IsAnswered

LEMMA AnswerPrimitiveScoped ==
  ASSUME NEW own, Works(own), NEW c, CallFits(P, c), NoBlockPrimitive(c),
         NEW caller, ActivationFits(program, caller), Len(caller.stack) > 0,
         ScopedActivation(program, own, caller), AwaitsAnswer(program, caller),
         AnswerPrimitive(c, caller)
  PROVE  After
  <1> DEFINE v == PrimitiveAnswer(c.inv[2], c.rcvr, c.args)
  <1>1. /\ c.inv[1] = "primitive" /\ c.inv[2] \notin SystemPrimitives
        /\ v # NoAnswer
        /\ acts' = Append(Front(acts), WithAnswer(caller, v))
        /\ UNCHANGED <<inners, objects, globals, outcome>>
    BY DEF AnswerPrimitive, heap
  <1>2. c.inv[2] \in KnownPrimitives \ (BlockPrimitives \cup SystemPrimitives)
    BY <1>1 DEF CallFits, IsInvokable, NoInvokable, NoBlockPrimitive
  <1>3. PlainAnswer(v)
    BY <1>2, PrimitivesArePlain
  <1> HIDE DEF v
  <1>4. ValueFits(program, own, v)
    BY <1>1, <1>3, PlainFits DEF PlainAnswer
  <1>5. /\ ScopedInners(program, own, inners') /\ ScopedObjects(program, own, objects')
        /\ ScopedGlobals(program, own, globals')
    BY <1>1, Parts
  <1> QED BY <1>1, <1>4, <1>5, IsAnswered

LEMMA AnswerSystemScoped ==
  ASSUME NEW own, Works(own), NEW c, CallFits(P, c), CallScoped(program, own, c),
         NEW caller, ActivationFits(program, caller), Len(caller.stack) > 0,
         ScopedActivation(program, own, caller), AwaitsAnswer(program, caller),
         AnswerSystem(c, caller)
  PROVE  After
  <1> DEFINE op == c.inv[2]
             args == c.args
             v == SystemAnswer(op, globals, args)
             x == Element(args, 2)
  <1>1. /\ c.inv[1] = "primitive" /\ op \in SystemPrimitives
        /\ acts' = Append(Front(acts), WithAnswer(caller, v))
        /\ globals' = GlobalsAfter(op, globals, args)
        /\ UNCHANGED <<inners, objects, outcome>>
    BY DEF AnswerSystem
  <1>2. ASSUME op = "global:put:" PROVE ValueFits(program, own, x)
    <2>1. AllFit(program, own, args) /\ Len(args) = 2
      BY <1>1, <1>2 DEF CallScoped
    <2>2. 2 \in 1..Len(args)
      BY <2>1
    <2> QED BY <2>1, <2>2, ElementFits
  <1>3. ScopedGlobals(program, own, globals)
    BY Parts
  <1> HIDE DEF op, args
  <1>4. ValueFits(program, own, v)
    <2>1. CASE op = "global:put:"
      BY <1>2, <2>1 DEF SystemAnswer
    <2>2. CASE op = "hasGlobal:"
      <3>1. v = Bool(args[1][2] \in DOMAIN globals)
        BY <2>2 DEF SystemAnswer
      <3>2. \A b : IsPlain(Bool(b))
        BY ThePlain
      <3>3. IsPlain(v)
        BY <3>1, <3>2, Zenon
      <3> QED BY <3>3, PlainFits
    <2>3. CASE op = "global:"
      <3>1. v = Nil \/ (args[1][2] \in DOMAIN globals /\ v = globals[args[1][2]])
        BY <2>3 DEF SystemAnswer
      <3>2. ValueFits(program, own, Nil)
        BY ThePlain, PlainFits
      <3> HIDE DEF v
      <3> QED BY <1>3, <3>1, <3>2 DEF ScopedGlobals
    <2> QED BY <1>1, <2>1, <2>2, <2>3 DEF SystemPrimitives
  <1> HIDE DEF v
  <1>5. ScopedGlobals(program, own, globals')
    <2>1. CASE op = "global:put:"
      <3> DEFINE name == args[1][2]
      <3>3. GlobalsAfter("global:put:", globals, args)
              = [n \in DOMAIN globals \cup {name} |-> IF n = name THEN x ELSE globals[n]]
        BY DEF GlobalsAfter
      <3>1. globals' = [n \in DOMAIN globals \cup {name} |->
                          IF n = name THEN x ELSE globals[n]]
        BY <1>1, <2>1, <3>3
      <3>2. ValueFits(program, own, x)
        BY <1>2, <2>1
      <3> HIDE DEF x, name
      <3> QED BY <1>3, <3>1, <3>2 DEF ScopedGlobals
    <2>2. CASE op # "global:put:"
      BY <1>1, <1>3, <2>2 DEF GlobalsAfter
    <2> QED BY <2>1, <2>2
  <1>6. /\ ScopedInners(program, own, inners') /\ ScopedObjects(program, own, objects')
    BY <1>1, Parts
  <1> QED BY <1>1, <1>4, <1>5, <1>6, IsAnswered

\* A call starts an activation, is answered at once, or fails.
LEMMA PerformScoped ==
  ASSUME NEW own, Works(own), NEW call, CallFits(P, call), CallScoped(program, own, call),
         NEW caller, ActivationFits(program, caller), Len(caller.stack) > 0,
         ScopedActivation(program, own, caller), AwaitsAnswer(program, caller),
         Perform(call, caller)
  PROVE  After
  <1> DEFINE c == Resolved(call)
  <1>1. CallFits(P, c) /\ NoBlockPrimitive(c)
    BY Parts, ResolvedFits
  <1>2. CallScoped(program, own, c) /\ ReadsKnown(c)
    BY ResolvedScoped
  <1>3. \/ Start(c, caller) \/ AnswerTrivially(c, caller) \/ FailInTrivialMethod(c)
        \/ AnswerPrimitive(c, caller) \/ FailInPrimitive(c) \/ AnswerSystem(c, caller)
        \/ FailWithoutInvokable(c)
    BY DEF Perform
  <1> HIDE DEF c
  <1>4. CASE Start(c, caller)
    BY <1>1, <1>2, <1>4, StartScoped
  <1>5. CASE AnswerTrivially(c, caller)
    BY <1>1, <1>2, <1>5, AnswerTriviallyScoped
  <1>6. CASE FailInTrivialMethod(c)
    BY <1>6, NothingDone DEF FailInTrivialMethod, heap
  <1>7. CASE AnswerPrimitive(c, caller)
    BY <1>1, <1>7, AnswerPrimitiveScoped
  <1>8. CASE FailInPrimitive(c)
    BY <1>8, NothingDone DEF FailInPrimitive, heap
  <1>9. CASE AnswerSystem(c, caller)
    BY <1>1, <1>2, <1>9, AnswerSystemScoped
  <1>10. CASE FailWithoutInvokable(c)
    BY <1>10, NothingDone DEF FailWithoutInvokable, heap
  <1> QED BY <1>3, <1>4, <1>5, <1>6, <1>7, <1>8, <1>9, <1>10

---------------------------------------------------------------------------
(* The running activation, as the verifier sees it.                        *)

LEMMA AtScopes ==
  ASSUME NEW own, Works(own)
  PROVE  /\ top.m \in Reached(program) /\ CodeScopesFit(program, top.m)
         /\ MethodOf(program, top.m) = Here
         /\ ScopedActivation(program, own, top) /\ FrameFits(program, own, top)
         /\ AllFit(program, own, top.stack)
         /\ SelfFits(program, own, top.m, top.frame[RcvrIdx + 1])
         /\ ValueFits(program, own, top.frame[RcvrIdx + 1])
         /\ Height(program, top.m)[top.pc] = Len(top.stack)
         /\ top.pc \in DOMAIN Height(program, top.m)
         /\ top.tier \in 1..2 /\ SelvesHold(program, top)
  <1>1. /\ Len(acts) \in Nat /\ Len(acts) > 0 /\ Here.kind = "bytecodes"
        /\ IsStack(P, top.stack) /\ Len(top.stack) = HeightHere[top.pc]
        /\ top.pc \in DOMAIN HeightHere
    BY Parts, RunningFits, AtInstruction
  <1>2. Len(acts) \in 1..Len(acts)
    BY <1>1
  <1>3. ScopedActivation(program, own, top)
    BY <1>2, Parts DEF ScopedActivations, top
  <1>4. MethodOf(program, top.m) = Here
    BY MethodHere DEF Here
  <1>5. top.m \in Reached(program) /\ FrameFits(program, own, top)
    BY <1>3 DEF ScopedActivation
  <1>6. CodeScopesFit(program, top.m)
    BY <1>1, <1>4, <1>5, Parts, ReachedFits DEF HasCode
  <1>7. AllFit(program, own, top.stack)
    BY <1>1, <1>3 DEF AllFit, ScopedActivation, IsStack
  <1>8. SelfFits(program, own, top.m, top.frame[RcvrIdx + 1])
    BY <1>5 DEF FrameFits, RcvrIdx
  <1>9. ValueFits(program, own, top.frame[RcvrIdx + 1])
    BY <1>8 DEF SelfFits
  <1>10. top.tier \in 1..2 /\ SelvesHold(program, top)
    BY <1>3 DEF ScopedActivation
  <1> QED BY <1>1, <1>3, <1>4, <1>5, <1>6, <1>7, <1>8, <1>9, <1>10 DEF HeightHere

\* Where the verifier says the object is after an instruction, it was before
\* or is the one that was pushed.
LEMMA SelvesAlong ==
  ASSUME NEW own, Works(own), NEW to, NEW height,
         <<to, height>> \in FlowsTo(Here, top.pc, Len(top.stack)),
         NEW i \in Selves(program, top.m)[to]
  PROVE  \/ /\ i \in Selves(program, top.m)[top.pc]
            /\ i \in 1..(Len(top.stack) - Takes(Compiled, ArgsHere))
         \/ PushesSelf(program, top.m, top.pc) /\ i = Len(top.stack) + 1
  <1>1. /\ SelvesFit(program, top.m) /\ MethodOf(program, top.m) = Here
        /\ Height(program, top.m)[top.pc] = Len(top.stack)
        /\ top.pc \in DOMAIN Height(program, top.m)
    BY AtScopes DEF CodeScopesFit
  <1> DEFINE e == <<to, height>>
             pushed == IF PushesSelf(program, top.m, top.pc)
                       THEN {Height(program, top.m)[top.pc] + 1} ELSE {}
  <1>2. Selves(program, top.m)[e[1]] \subseteq KeptSelves(program, top.m, top.pc) \cup pushed
    BY <1>1 DEF SelvesFit
  <1>3. i \in KeptSelves(program, top.m, top.pc) \cup pushed
    BY <1>2
  <1>4. KeptSelves(program, top.m, top.pc) =
          Selves(program, top.m)[top.pc] \cap
            1..(Len(top.stack) - Takes(Compiled, ArgsHere))
    BY <1>1 DEF KeptSelves, Compiled, ArgsHere
  <1>5. i \in pushed => PushesSelf(program, top.m, top.pc) /\ i = Len(top.stack) + 1
    BY <1>1
  <1> QED BY <1>3, <1>4, <1>5

\* What an instruction leaves on the stack.
StackLeft(b) ==
  /\ \A i \in 1..(Len(top.stack) - Takes(Compiled, ArgsHere)) :
       i \in 1..Len(b.stack) /\ b.stack[i] = top.stack[i]
  /\ PushesSelf(program, top.m, top.pc) =>
       /\ Len(top.stack) + 1 \in 1..Len(b.stack)
       /\ b.stack[Len(top.stack) + 1][1] = "obj"

LEMMA ScopedMove ==
  ASSUME NEW own, Works(own), ~top.escaped, NEW b, b.m = top.m, b.tier \in 1..2, ~b.escaped,
         FrameFits(program, own, b), AllFit(program, own, b.stack),
         <<b.pc, Len(b.stack)>> \in FlowsTo(Here, top.pc, Len(top.stack)),
         StackLeft(b)
  PROVE  ScopedActivation(program, own, b)
  <1>1. ASSUME NEW i \in Selves(program, b.m)[b.pc]
        PROVE  i \in 1..Len(b.stack) /\ b.stack[i][1] = "obj"
    <2>1. \/ /\ i \in Selves(program, top.m)[top.pc]
             /\ i \in 1..(Len(top.stack) - Takes(Compiled, ArgsHere))
          \/ PushesSelf(program, top.m, top.pc) /\ i = Len(top.stack) + 1
      BY <1>1, SelvesAlong
    <2>2. \A j \in Selves(program, top.m)[top.pc] : top.stack[j][1] = "obj"
      BY AtScopes DEF SelvesHold
    <2> QED BY <2>1, <2>2 DEF StackLeft
  <1>2. SelvesHold(program, b)
    BY <1>1 DEF SelvesHold
  <1> QED BY <1>2, AtScopes DEF ScopedActivation, AllFit

\* An activation that has called waits for the answer where no object is.
LEMMA AwaitingMove ==
  ASSUME NEW own, Works(own), NEW b, b.m = top.m,
         <<b.pc, Len(b.stack)>> \in FlowsTo(Here, top.pc, Len(top.stack)),
         ~PushesSelf(program, top.m, top.pc), Len(b.stack) \in Nat,
         ArgsHere \in Nat, Takes(Compiled, ArgsHere) \in Nat,
         Len(b.stack) > Len(top.stack) - Takes(Compiled, ArgsHere)
  PROVE  AwaitsAnswer(program, b)
  <1> SUFFICES ASSUME Len(b.stack) \in Selves(program, top.m)[b.pc] PROVE FALSE
    BY DEF AwaitsAnswer
  <1>1. Len(b.stack) \in 1..(Len(top.stack) - Takes(Compiled, ArgsHere))
    BY SelvesAlong
  <1>2. Len(top.stack) \in Nat
    BY Parts, AtInstruction
  <1> QED BY <1>1, <1>2

\* Instructions that do not jump.
LEMMA FlowsOnward ==
  ASSUME NEW own, Works(own), bc \notin Jumps \cup Returns
  PROVE  /\ <<NextPc, Len(top.stack) + BytecodeStackEffect(bc, ArgsHere)>>
              \in FlowsTo(Here, top.pc, Len(top.stack))
         /\ ArgsHere \in Nat /\ Takes(Compiled, ArgsHere) = Takes(bc, ArgsHere)
         /\ Len(top.stack) \in Nat
  <1>1. Inv /\ outcome = Running
    BY Parts
  <1>2. /\ Alike(Compiled, bc) /\ NextPc = NextAt(Here.code, top.pc)
    BY <1>1, CompiledAs
  <1>3. ArgsHere \in Nat /\ Len(top.stack) \in Nat
    BY <1>1, Onward, AtInstruction
  <1>4. /\ Compiled \notin Jumps \cup Returns
        /\ BytecodeStackEffect(bc, ArgsHere) = BytecodeStackEffect(Compiled, ArgsHere)
        /\ Takes(Compiled, ArgsHere) = Takes(bc, ArgsHere)
    <2>1. ASSUME Compiled \in Jumps \cup Returns PROVE FALSE
      <3>1. bc \in Variants(Compiled)
        BY <1>1, CompiledAs
      <3>2. Variants(Compiled) = {Compiled}
        BY <2>1, TheLongJumps DEF Variants, Jumps, ShortJumps, Returns
      <3> QED BY <2>1, <3>1, <3>2
    <2> QED BY <1>2, <1>3, <2>1 DEF Alike
  <1>5. FlowsTo(Here, top.pc, Len(top.stack)) =
          {<<NextPc, Len(top.stack) + BytecodeStackEffect(bc, ArgsHere)>>}
    BY <1>2, <1>4, OnwardFlow DEF Compiled, ArgsHere
  <1> QED BY <1>3, <1>4, <1>5

---------------------------------------------------------------------------
(* Reads of variables.                                                     *)

\* Where an instruction on a frame or an inner goes.
SlotHere == SlotIn(code[top.m], top.pc)
InnerHere == IF Level(bc) = 0 THEN top.frame[1] ELSE BlockAt(Level(bc))[3]
VariableHere == VariableAt(program, top.m, top.pc)
ContextHere == ContextAt(Here, top.pc)

LEMMA SlotsOfCells ==
  ASSUME NEW own, Works(own)
  PROVE  /\ SlotOf(bc) = SlotHere
         /\ bc \in {"nil_frame", "nil_inner"} => Operand(1) = SlotHere
         /\ Level(bc) = IF bc \in {"push_inner", "pop_inner", "push_field", "pop_field"}
                        THEN code[top.m][top.pc + 3] ELSE 0
  <1>1. top.pc \in Nat
    BY Parts, CompiledAs
  <1>2. top.pc + 1 + 1 = top.pc + 2 /\ top.pc + 1 + 2 = top.pc + 3
    BY <1>1
  <1>3. Operand(1) = code[top.m][top.pc + 2] /\ Operand(2) = code[top.m][top.pc + 3]
    BY <1>2 DEF Operand
  <1>4. Level(bc) = IF bc \in {"push_inner", "pop_inner", "push_field", "pop_field"}
                    THEN code[top.m][top.pc + 3] ELSE 0
    BY <1>3 DEF Level
  <1>5. SlotOf(bc) = SlotHere
    BY <1>3 DEF SlotOf, SlotHere, SlotIn, bc
  <1>6. bc \in {"nil_frame", "nil_inner"} => Operand(1) = SlotHere
    BY <1>3 DEF SlotHere, SlotIn, bc
  <1> QED BY <1>4, <1>5, <1>6

LEMMA FramesApart ==
  /\ OnFrame \cap OnInner = {}
  /\ OnInner \cap {"push_inner", "pop_inner", "push_field", "pop_field"}
       = {"push_inner", "pop_inner"}
  BY DEF OnFrame, OnInner, PushFrame, PopFrame, PushInner, PopInner

LEMMA ResolvedHere ==
  ASSUME NEW own, Works(own), bc \in OnFrame \cup OnInner
  PROVE  /\ Compiled \in Unresolved /\ SlotHere = VariableHere.access
         /\ VariableHere.access \in Nat /\ VariableHere.access >= RcvrIdx
         /\ Compiled \notin {"push_local", "push_argument"} =>
              VariableHere.access >= ArgOffset
         /\ bc \in OnFrame => ContextHere = 0 /\ VariableHere.access < Here.sizeFrame
         /\ bc \in OnInner =>
              /\ ContextHere = Level(bc) /\ HasContext(program, top.m, Level(bc))
              /\ VariableHere.access
                   < MethodOf(program, Outward(program, top.m, Level(bc))).sizeInner
  <1>1. /\ top.m \in Reached(program) /\ CodeScopesFit(program, top.m)
        /\ MethodOf(program, top.m) = Here
        /\ top.pc \in DOMAIN Height(program, top.m) /\ Here.kind = "bytecodes"
    BY Parts, AtInstruction, AtScopes
  <1>2. CellResolved(program, top.m, code[top.m], top.pc)
    BY <1>1, Parts DEF CellsResolved, HasCode
  <1>3. /\ Compiled \in Unresolved /\ SlotHere = VariableHere.access
        /\ bc \in (IF VariableHere.out THEN OnInner ELSE OnFrame)
        /\ bc \in OnInner =>
             ContextHere = IF bc \in {"push_inner", "pop_inner"}
                           THEN code[top.m][top.pc + 3] ELSE 0
    BY <1>1, <1>2
       DEF CellResolved, bc, Compiled, SlotHere, VariableHere, ContextHere
  <1>4. VariableFits(program, top.m, top.pc)
    BY <1>1, <1>3 DEF CodeScopesFit, NamesFit, Compiled
  <1>5. /\ VariableHere.access \in Nat
        /\ VariableHere.access >= IF Compiled \in {"push_local", "push_argument"}
                                  THEN RcvrIdx ELSE ArgOffset
        /\ IF VariableHere.out
           THEN /\ HasContext(program, top.m, ContextHere)
                /\ VariableHere.access
                     < MethodOf(program, Outward(program, top.m, ContextHere)).sizeInner
           ELSE ContextHere = 0 /\ VariableHere.access < Here.sizeFrame
    BY <1>1, <1>4 DEF VariableFits, Compiled, VariableHere, ContextHere
  <1>6. /\ VariableHere.access >= RcvrIdx
        /\ Compiled \notin {"push_local", "push_argument"} =>
              VariableHere.access >= ArgOffset
    BY <1>5 DEF RcvrIdx, ArgOffset
  <1>7. CASE bc \in OnFrame
    <2>1. bc \notin OnInner
      BY <1>7, FramesApart
    <2>2. ~VariableHere.out
      BY <1>3, <2>1
    <2> QED BY <1>3, <1>5, <1>6, <2>1, <2>2
  <1>8. CASE bc \in OnInner
    <2>1. bc \notin OnFrame
      BY <1>8, FramesApart
    <2>2. VariableHere.out
      BY <1>3, <2>1
    <2>3. ContextHere = Level(bc)
      BY <1>3, <1>8, SlotsOfCells, FramesApart
    <2> QED BY <1>3, <1>5, <1>6, <2>1, <2>2, <2>3
  <1> QED BY <1>7, <1>8

\* The inner of an instruction was made for the method that has the variable.
LEMMA InnerOfVariable ==
  ASSUME NEW own, Works(own), bc \in OnInner
  PROVE  /\ InnerHere \in DOMAIN inners
         /\ own[InnerHere] = Outward(program, top.m, Level(bc))
         /\ SlotHere \in Nat /\ SlotHere >= RcvrIdx
         /\ SlotHere < MethodOf(program, own[InnerHere]).sizeInner
  <1>1. /\ SlotHere \in Nat /\ SlotHere >= RcvrIdx
        /\ HasContext(program, top.m, Level(bc))
        /\ SlotHere < MethodOf(program, Outward(program, top.m, Level(bc))).sizeInner
    BY ResolvedHere
  <1>2. /\ top.m \in Reached(program) /\ FrameFits(program, own, top)
        /\ SelfFits(program, own, top.m, top.frame[RcvrIdx + 1])
    BY AtScopes
  <1>3. InnerHere \in DOMAIN inners /\ own[InnerHere] = Outward(program, top.m, Level(bc))
    <2>1. CASE Level(bc) = 0
      <3>1. Outward(program, top.m, 0) = top.m
        BY <1>2, Parts, ContextsOf
      <3>2. MethodOf(program, top.m).sizeInner # 0
        <4>1. SlotHere < MethodOf(program, top.m).sizeInner
          BY <1>1, <2>1, <3>1
        <4> QED BY <1>1, <4>1
      <3>3. top.frame[1] \in DOMAIN own /\ own[top.frame[1]] = top.m
        BY <1>2, <3>2 DEF FrameFits
      <3>4. DOMAIN own = DOMAIN inners
        BY Parts, SequenceType DEF ScopedInners
      <3> QED BY <2>1, <3>1, <3>3, <3>4 DEF InnerHere
    <2>2. CASE Level(bc) # 0
      BY <1>1, <1>2, <2>2, Parts, BlockAtFits DEF InnerHere
    <2> QED BY <2>1, <2>2
  <1> QED BY <1>1, <1>3

LEMMA FrameReads ==
  ASSUME NEW own, Works(own), bc \in PushFrame
  PROVE  /\ ValueFits(program, own, FrameRead)
         /\ PushesSelf(program, top.m, top.pc) => FrameRead[1] = "obj"
  <1>1. bc \in OnFrame
    BY DEF OnFrame
  <1>2. /\ SlotHere = VariableHere.access /\ SlotHere \in Nat /\ SlotHere >= 1
        /\ ContextHere = 0 /\ SlotHere < Here.sizeFrame
    BY <1>1, ResolvedHere DEF RcvrIdx
  <1>3. /\ FrameFits(program, own, top) /\ MethodOf(program, top.m) = Here
        /\ SelfFits(program, own, top.m, top.frame[RcvrIdx + 1])
        /\ top.m \in Reached(program)
    BY AtScopes
  <1>4. /\ IsSequence(top.frame) /\ Len(top.frame) = Here.sizeFrame
        /\ \A i \in 2..Len(top.frame) : ValueFits(program, own, top.frame[i])
        /\ DOMAIN top.frame = 1..Len(top.frame) /\ Len(top.frame) \in Nat
    BY <1>3, SequenceType DEF FrameFits
  <1>5. SlotHere + 1 \in 2..Len(top.frame) /\ SlotHere + 1 \in DOMAIN top.frame
    BY <1>2, <1>4
  <1>6. FrameRead = top.frame[SlotHere + 1]
    BY <1>5, SlotsOfCells DEF FrameRead, Element
  <1>7. ASSUME PushesSelf(program, top.m, top.pc) PROVE FrameRead[1] = "obj"
    <2>1. SlotHere = RcvrIdx /\ IsHome(program, Outward(program, top.m, 0))
      BY <1>2, <1>3, <1>7 DEF PushesSelf, VariableHere, ContextHere
    <2>2. Outward(program, top.m, 0) = top.m
      BY <1>3, Parts, ContextsOf
    <2> QED BY <1>3, <1>6, <2>1, <2>2 DEF SelfFits, IsHome
  <1> QED BY <1>4, <1>5, <1>6, <1>7

LEMMA InnerReads ==
  ASSUME NEW own, Works(own), bc \in PushInner
  PROVE  /\ ValueFits(program, own, InnerRead)
         /\ PushesSelf(program, top.m, top.pc) => InnerRead[1] = "obj"
  <1>1. bc \in OnInner
    BY DEF OnInner
  <1>2. /\ InnerHere \in DOMAIN inners
        /\ own[InnerHere] = Outward(program, top.m, Level(bc))
        /\ SlotHere \in Nat /\ SlotHere >= RcvrIdx
        /\ SlotHere < MethodOf(program, own[InnerHere]).sizeInner
    BY <1>1, InnerOfVariable
  <1>3. SlotHere = VariableHere.access /\ ContextHere = Level(bc)
    BY <1>1, ResolvedHere
  <1>4. InnerRead = Element(InnerOf(InnerHere), SlotHere + 1)
    BY SlotsOfCells DEF InnerRead, InnerHere, OuterSlot
  <1>5. /\ ValueFits(program, own, InnerRead)
        /\ SlotHere = RcvrIdx => SelfFits(program, own, own[InnerHere], InnerRead)
    BY <1>2, <1>4, Parts, SlotFits
  <1>6. ASSUME PushesSelf(program, top.m, top.pc) PROVE InnerRead[1] = "obj"
    <2>1. MethodOf(program, top.m) = Here
      BY AtScopes
    <2>2. SlotHere = RcvrIdx /\ IsHome(program, Outward(program, top.m, Level(bc)))
      BY <1>3, <1>6, <2>1 DEF PushesSelf, VariableHere, ContextHere
    <2> QED BY <1>2, <1>5, <2>2 DEF SelfFits, IsHome
  <1> QED BY <1>5, <1>6

---------------------------------------------------------------------------
(* Reads of fields, literals and globals.                                  *)

LEMMA NamesHere ==
  ASSUME NEW own, Works(own)
  PROVE  NamesFit(program, top.m, top.pc) /\ top.pc \in Nat
  BY AtScopes, Parts, CompiledAs DEF CodeScopesFit

\* The object of an instruction on a field has the field.
LEMMA FieldOfSelf ==
  ASSUME NEW own, Works(own), bc \in PushField \cup PopField
  PROVE  /\ ValueFits(program, own, Self(Level(bc))) /\ Self(Level(bc))[1] = "obj"
         /\ FieldOf(bc) + 1 \in DOMAIN Programs[program].entry.fields
  <1>1. bc = Compiled
    BY Parts, NotRewritten DEF PushField, PopField, PushFrame, PushInner, PopFrame, PopInner,
       QuickSuperSends
  <1>2. FieldFits(program, top.m, FieldIdx(Here, top.pc), FieldContext(Here, top.pc))
    BY <1>1, NamesHere, AtScopes DEF NamesFit, Compiled
  <1>3. bc \in {"push_field", "pop_field"} => BytecodeLength(bc) = 3
    BY TheLongJumps DEF BytecodeLength, PushFrame, PushInner, PopFrame, PopInner,
       Unresolved, Jumps, ShortJumps, Sends, QuickSuperSends, PushBlock
  <1>4. bc \in {"push_field", "pop_field"} =>
          Operand(1) = Here.code[top.pc + 2] /\ Operand(2) = Here.code[top.pc + 3]
    BY <1>1, <1>3, Parts, AsCompiled
  <1>5. Level(bc) = FieldContext(Here, top.pc)
    BY <1>1, <1>4 DEF Level, FieldContext, Compiled, PushField, PopField
  <1>6. FieldOf(bc) = FieldIdx(Here, top.pc)
    BY <1>1, <1>4 DEF FieldOf, FieldIdx, Compiled, PushField, PopField
  <1>7. /\ HasContext(program, top.m, Level(bc))
        /\ IsHome(program, Outward(program, top.m, Level(bc)))
        /\ FieldOf(bc) + 1 \in DOMAIN Programs[program].entry.fields
    BY <1>2, <1>5, <1>6 DEF FieldFits
  <1>8. SelfFits(program, own, Outward(program, top.m, Level(bc)), Self(Level(bc)))
    BY <1>7, Parts, AtScopes, SelfOutwards
  <1> QED BY <1>7, <1>8 DEF SelfFits, IsHome

LEMMA BlockReads ==
  ASSUME NEW own, Works(own), bc \in PushBlock
  PROVE  ValueFits(program, own, BlockLiteral)
  <1>1. bc = Compiled
    BY Parts, NotRewritten DEF PushBlock, PushFrame, PushInner, PopFrame, PopInner,
       QuickSuperSends
  <1>2. BytecodeLength(bc) = 2
    BY TheLongJumps DEF BytecodeLength, PushFrame, PushInner, PopFrame, PopInner,
       Unresolved, Jumps, ShortJumps, Sends, QuickSuperSends, PushBlock
  <1>3. Operand(1) = Here.code[top.pc + 2]
    BY <1>1, <1>2, Parts, AsCompiled
  <1> DEFINE block == Here.literals[Here.code[top.pc + 2] + 1][2]
             v == BlockLiteral
  <1>4. MethodOf(program, top.m) = Here /\ FrameFits(program, own, top)
    BY AtScopes
  <1>5. BlockFits(program, top.m, top.pc)
    BY <1>1, <1>4, NamesHere DEF NamesFit, Compiled
  <1>6. /\ block \in Reached(program) /\ IsBlock(program, block)
        /\ IF bc = "push_block"
           THEN Here.sizeInner > 0 /\ Contexts(program, block)
                                        = <<block>> \o Contexts(program, top.m)
           ELSE Contexts(program, block) = <<block>>
    BY <1>1, <1>4, <1>5 DEF BlockFits, Compiled
  <1>7. /\ v[1] = "block" /\ v[2] = block
        /\ v[3] = IF bc = "push_block" THEN top.frame[1] ELSE 0
    BY <1>3 DEF BlockLiteral, Literal, Here
  <1> HIDE DEF v, block
  <1>8. ASSUME Len(Contexts(program, block)) > 1
        PROVE  /\ v[3] \in DOMAIN own
               /\ Contexts(program, block) = <<block>> \o Contexts(program, own[v[3]])
    <2>1. bc = "push_block"
      <3>1. Len(<<block>>) = 1
        OBVIOUS
      <3>2. ASSUME bc # "push_block" PROVE FALSE
        <4>1. Contexts(program, block) = <<block>>
          BY <1>6, <3>2
        <4>2. Len(Contexts(program, block)) = 1
          BY <3>1, <4>1, Zenon
        <4> QED BY <1>8, <4>2
      <3> QED BY <3>2
    <2>2. Here.sizeInner # 0
      BY <1>6, <2>1
    <2>3. top.frame[1] \in DOMAIN own /\ own[top.frame[1]] = top.m
      BY <1>4, <2>2 DEF FrameFits
    <2> QED BY <1>6, <1>7, <2>1, <2>3
  <1>9. ValueFits(program, own, v)
    BY <1>6, <1>7, <1>8 DEF ValueFits, WellTyped
  <1> QED BY <1>9 DEF v

LEMMA ConstantReads ==
  ASSUME NEW own, Works(own), bc \in PushConst
  PROVE  ValueFits(program, own, ConstantRead)
  <1>1. bc = Compiled
    BY Parts, NotRewritten DEF PushConst, PushLiteral, PushFrame, PushInner, PopFrame,
       PopInner, QuickSuperSends
  <1>2. bc = "push_constant" => Operand(1) = Here.code[top.pc + 2]
    <2>1. bc = "push_constant" => BytecodeLength(bc) = 2
      BY TheLongJumps DEF BytecodeLength, PushFrame, PushInner, PopFrame, PopInner,
         Unresolved, Jumps, ShortJumps
    <2> QED BY <1>1, <2>1, Parts, AsCompiled
  <1>3. MethodOf(program, top.m) = Here
    BY AtScopes
  <1>4. /\ bc = "push_constant" => IsPlain(Here.literals[Here.code[top.pc + 2] + 1])
        /\ bc = "push_constant_0" => IsPlain(Here.literals[0 + 1])
        /\ bc = "push_constant_1" => IsPlain(Here.literals[1 + 1])
        /\ bc = "push_constant_2" => IsPlain(Here.literals[2 + 1])
    BY <1>1, <1>3, NamesHere DEF NamesFit, Compiled
  <1>5. /\ bc = "push_constant" => IsPlain(Literal(Operand(1)))
        /\ bc = "push_constant_0" => IsPlain(Literal(0))
        /\ bc = "push_constant_1" => IsPlain(Literal(1))
        /\ bc = "push_constant_2" => IsPlain(Literal(2))
    BY <1>2, <1>4 DEF Literal, Here
  <1>6. IsPlain(ConstantRead)
    BY <1>5, ThePlain DEF ConstantRead, PushConst, PushLiteral
  <1> QED BY <1>6, PlainFits

\* What is read is a value, and the object where the verifier expects it.
LEMMA ReadsFit ==
  ASSUME NEW own, Works(own), bc \in Reads
  PROVE  /\ ValueFits(program, own, PushedValue)
         /\ PushesSelf(program, top.m, top.pc) => PushedValue[1] = "obj"
  <1>1. bc \notin PushFrame \cup PushInner => ~PushesSelf(program, top.m, top.pc)
    <2> SUFFICES ASSUME bc \notin PushFrame \cup PushInner,
                        PushesSelf(program, top.m, top.pc)
                 PROVE  FALSE
      OBVIOUS
    <2>1. Compiled = "push_argument"
      BY AtScopes DEF PushesSelf, Compiled
    <2>2. bc \in Variants("push_argument")
      BY <2>1, Parts, CompiledAs
    <2> QED BY <2>2 DEF Variants, Reads, PushField, PushBlock, PushConst, PushLiteral
  <1>2. CASE bc \in PushFrame
    <2>1. PushedValue = FrameRead
      BY <1>2 DEF PushedValue, PushFrame, PushInner, PushField, PushBlock, PushConst,
         PushLiteral
    <2> QED BY <1>2, <2>1, FrameReads
  <1>3. CASE bc \in PushInner
    <2>1. PushedValue = InnerRead
      BY <1>3 DEF PushedValue, PushFrame, PushInner, PushField, PushBlock, PushConst,
         PushLiteral
    <2> QED BY <1>3, <2>1, InnerReads
  <1>4. CASE bc \in PushField
    <2>1. PushedValue = Field(Self(Level(bc)), FieldOf(bc))
      BY <1>4 DEF PushedValue, PushFrame, PushInner, PushField, PushBlock, PushConst,
         PushLiteral
    <2>2. bc \notin PushFrame \cup PushInner
      BY <1>4 DEF PushFrame, PushInner, PushField
    <2> DEFINE self == Self(Level(bc))
               idx == FieldOf(bc)
    <2>3. /\ ValueFits(program, own, self) /\ self[1] = "obj"
          /\ idx + 1 \in DOMAIN Programs[program].entry.fields
      BY <1>4, FieldOfSelf
    <2>4. PushedValue = Field(self, idx)
      BY <2>1
    <2> HIDE DEF self, idx
    <2>5. ValueFits(program, own, Field(self, idx))
      BY <2>3, Parts, FieldReads
    <2> QED BY <1>1, <2>2, <2>4, <2>5
  <1>5. CASE bc \in PushBlock
    <2>1. PushedValue = BlockLiteral
      BY <1>5 DEF PushedValue, PushFrame, PushInner, PushField, PushBlock, PushConst,
         PushLiteral
    <2>2. bc \notin PushFrame \cup PushInner
      BY <1>5 DEF PushFrame, PushInner, PushBlock
    <2> QED BY <1>1, <1>5, <2>1, <2>2, BlockReads
  <1>6. CASE bc \in PushConst
    <2>1. PushedValue = ConstantRead
      BY <1>6 DEF PushedValue, PushFrame, PushInner, PushField, PushBlock, PushConst,
         PushLiteral
    <2>2. bc \notin PushFrame \cup PushInner
      BY <1>6 DEF PushFrame, PushInner, PushConst, PushLiteral
    <2> QED BY <1>1, <1>6, <2>1, <2>2, ConstantReads
  <1>7. CASE bc \in {"dup", "dup_second"}
    <2>1. bc \notin PushFrame \cup PushInner /\ bc \notin Jumps \cup Returns
      BY <1>7, OnwardOnly DEF PushFrame, PushInner, Reads
    <2> DEFINE n == IF bc = "dup" THEN 0 ELSE 1
    <2>2. PushedValue = Element(top.stack, Len(top.stack) - n)
      <3>1. CASE bc = "dup"
        <4>1. PushedValue = FromTop(0)
          BY <3>1 DEF PushedValue, PushFrame, PushInner, PushField, PushBlock, PushConst, PushLiteral
        <4>2. n = 0
          BY <3>1
        <4> HIDE DEF n
        <4> QED BY <4>1, <4>2 DEF FromTop
      <3>2. CASE bc = "dup_second"
        <4>1. PushedValue = FromTop(1)
          BY <3>2 DEF PushedValue, PushFrame, PushInner, PushField, PushBlock, PushConst, PushLiteral
        <4>2. n = 1
          BY <3>2
        <4> HIDE DEF n
        <4> QED BY <4>1, <4>2 DEF FromTop
      <3> QED BY <1>7, <3>1, <3>2
    <2>3. Takes(bc, ArgsHere) <= Len(top.stack) /\ Len(top.stack) \in Nat
      BY <2>1, Parts, Onward, AtInstruction
    <2>4. /\ bc = "dup" => Takes(bc, ArgsHere) = 1
          /\ bc = "dup_second" => Takes(bc, ArgsHere) = 2
      BY DEF Takes, SendLike, Sends, QuickSuperSends, PopFrame, PopInner, PopX,
         PopField, OnTrue, OnFalse
    <2>5. (bc = "dup" /\ n = 0) \/ (bc = "dup_second" /\ n = 1)
      BY <1>7
    <2> HIDE DEF n
    <2>6. Len(top.stack) - n \in 1..Len(top.stack)
      BY <2>3, <2>4, <2>5
    <2>7. ValueFits(program, own, Element(top.stack, Len(top.stack) - n))
      BY <2>6, AtScopes, ElementFits
    <2> QED BY <1>1, <2>1, <2>2, <2>7
  <1> QED BY <1>2, <1>3, <1>4, <1>5, <1>6, <1>7 DEF Reads

\* After a push the activation is one the verifier knows.
LEMMA PushedScoped ==
  ASSUME NEW own, Works(own), ~top.escaped, bc \in Reads \cup {"push_global"},
         NEW v, ValueFits(program, own, v),
         PushesSelf(program, top.m, top.pc) => v[1] = "obj"
  PROVE  ScopedActivation(program, own, [top EXCEPT !.stack = Append(@, v), !.pc = NextPc])
  <1> DEFINE s == Append(top.stack, v)
             b == [top EXCEPT !.stack = s, !.pc = NextPc]
  <1>1. bc \notin Jumps \cup Returns
    BY OnwardOnly
  <1>2. DOMAIN top = ActivationFields
    BY Parts, AtInstruction
  <1>3. /\ b.m = top.m /\ b.frame = top.frame /\ b.tier = top.tier /\ b.escaped = top.escaped
        /\ b.stack = s /\ b.pc = NextPc
    BY <1>2 DEF ActivationFields
  <1>4. /\ AllFit(program, own, s) /\ Len(s) = Len(top.stack) + 1
    BY AtScopes, PushedAllFit
  <1>5. /\ <<NextPc, Len(top.stack) + BytecodeStackEffect(bc, ArgsHere)>>
             \in FlowsTo(Here, top.pc, Len(top.stack))
        /\ ArgsHere \in Nat /\ Takes(Compiled, ArgsHere) = Takes(bc, ArgsHere)
        /\ Len(top.stack) \in Nat
    BY <1>1, FlowsOnward
  <1>6. BytecodeStackEffect(bc, ArgsHere) = 1
    BY <1>5, EffectOfReads
  <1>7. Takes(bc, ArgsHere) \in 0..2
    BY DEF Takes, Reads, SendLike, Sends, QuickSuperSends, PopFrame, PopInner, PopX,
       PopField, OnTrue, OnFalse, PushFrame, PushInner, PushField, PushBlock, PushConst,
       PushLiteral
  <1>8. s[Len(top.stack) + 1] = v /\ \A i \in 1..Len(top.stack) : s[i] = top.stack[i]
    <2>1. IsSequence(top.stack)
      BY AtScopes DEF AllFit
    <2> QED BY <2>1, AppendTo
  <1> HIDE DEF s, b
  <1>9. StackLeft(b)
    <2>1. ASSUME NEW i \in 1..(Len(top.stack) - Takes(Compiled, ArgsHere))
          PROVE  i \in 1..Len(b.stack) /\ b.stack[i] = top.stack[i]
      <3>1. i \in 1..Len(top.stack)
        BY <1>5, <1>7
      <3>2. i \in 1..Len(s)
        BY <1>4, <1>5, <3>1
      <3> QED BY <1>3, <1>8, <3>1, <3>2
    <2>2. Len(top.stack) + 1 \in 1..Len(b.stack)
      BY <1>3, <1>4, <1>5
    <2> QED BY <1>3, <1>8, <2>1, <2>2 DEF StackLeft
  <1>10. FrameFits(program, own, b)
    BY <1>3, AtScopes DEF FrameFits
  <1>11. b.tier \in 1..2 /\ ~b.escaped
    BY <1>3, AtScopes
  <1>12. <<b.pc, Len(b.stack)>> \in FlowsTo(Here, top.pc, Len(top.stack))
    BY <1>3, <1>4, <1>5, <1>6
  <1>13. AllFit(program, own, b.stack)
    BY <1>3, <1>4
  <1>14. ScopedActivation(program, own, b)
    BY <1>3, <1>9, <1>10, <1>11, <1>12, <1>13, ScopedMove
  <1> QED BY <1>14 DEF b, s

LEMMA PushScoped ==
  ASSUME NEW own, Works(own), ~top.escaped, bc \in Reads \cup {"push_global"},
         NEW v, ValueFits(program, own, v),
         PushesSelf(program, top.m, top.pc) => v[1] = "obj", Push(v)
  PROVE  After
  <1> DEFINE b == [top EXCEPT !.stack = Append(@, v), !.pc = NextPc]
  <1>1. acts' = Append(Front(acts), b) /\ UNCHANGED <<inners, objects, globals>>
    BY DEF Push, Continue, heap
  <1>2. ScopedActivation(program, own, b)
    BY PushedScoped
  <1> HIDE DEF b
  <1> QED BY <1>1, <1>2, Parts, GoesOn

\* A call of nothing fails.
LEMMA NothingPerformed ==
  ASSUME NEW own, Works(own), NEW call, call.inv = NoInvokable, NEW caller,
         Perform(call, caller)
  PROVE  After
  <1>1. call.inv[1] # "method" /\ call.inv[1] # "primitive"
    BY DEF NoInvokable
  <1>2. Resolved(call) = call
    BY <1>1 DEF Resolved, EnterBlock, AskOuterSelf, IsUnknownGlobal
  <1>3. UNCHANGED <<acts, heap>>
    BY <1>1, <1>2 DEF Perform, Start, AnswerTrivially, FailInTrivialMethod, TrivialCall,
       AnswerPrimitive, FailInPrimitive, AnswerSystem, FailWithoutInvokable
  <1> QED BY <1>3, NothingDone DEF heap

LEMMA PushGlobalScoped ==
  ASSUME NEW own, Works(own), ~top.escaped, bc = "push_global",
         NEW tier2, PushGlobal(tier2)
  PROVE  After
  <1> DEFINE name == Literal(Operand(1))[2]
             rcvr == top.frame[RcvrIdx + 1]
             self == OuterSelf(rcvr)
             inv == Lookup(ClassOf(self), "unknownGlobal:")
             args == <<<<"sym", name>>>>
             call == Call(inv, self, args, 2, tier2)
             waiting == [top EXCEPT !.stack = Append(@, self), !.pc = NextPc]
  <1>1. \/ name \in DOMAIN globals /\ Push(globals[name])
        \/ Perform(call, waiting)
    BY DEF PushGlobal
  <1>2. ~PushesSelf(program, top.m, top.pc)
    <2>1. bc = Compiled
      BY Parts, NotRewritten DEF PushFrame, PushInner, PopFrame, PopInner, QuickSuperSends
    <2> QED BY <2>1, AtScopes DEF PushesSelf, Compiled
  <1>3. CASE name \in DOMAIN globals /\ Push(globals[name])
    <2>1. ValueFits(program, own, globals[name])
      BY <1>3, Parts DEF ScopedGlobals
    <2> HIDE DEF name
    <2> QED BY <1>2, <1>3, <2>1, PushScoped
  <1>4. CASE Perform(call, waiting)
    <2>1. ValueFits(program, own, rcvr)
      BY AtScopes
    <2>2. MaybeFits(program, own, self)
      BY <2>1, Parts, OuterSelfFits
    <2>3. CASE self = Undefined
      <3>1. ClassOf(self) = "undefined"
        BY <2>3 DEF ClassOf, ClassOfValue, Undefined, NoAnswer
      <3>2. "undefined" \notin DOMAIN P.classes
        BY Parts DEF ScopesFit, TablesFit, P
      <3>3. inv = NoInvokable
        BY <3>1, <3>2 DEF Lookup, Understands
      <3> HIDE DEF inv, self, waiting, args
      <3>4. call.inv = NoInvokable
        BY <3>3 DEF Call
      <3> HIDE DEF call
      <3> QED BY <1>4, <3>4, NothingPerformed
    <2>4. CASE ValueFits(program, own, self)
      <3>1. CallScoped(program, own, call)
        BY <2>1, AskedFits
      <3>2. NamesAMethod(P, self) /\ IsInvokable(P, inv) /\ IsArguments(P, args)
        BY Parts, OuterSelfIsNoBlock, FoundByName, Harmless, Singleton
      <3> HIDE DEF self, inv, args
      <3>3. CallFits(P, call)
        BY <3>2 DEF CallFits, Call
      <3>4. ActivationFits(program, waiting) /\ Len(waiting.stack) > 0
        BY <3>2, Parts, PushedFits
      <3>5. ScopedActivation(program, own, waiting)
        BY <1>2, <2>4, PushedScoped
      <3>6. AwaitsAnswer(program, waiting)
        <4> DEFINE s == Append(top.stack, self)
        <4>1. waiting.m = top.m /\ waiting.stack = s /\ waiting.pc = NextPc
          <5>1. DOMAIN top = ActivationFields
            BY Parts, AtInstruction
          <5> QED BY <5>1 DEF ActivationFields
        <4>2. Len(s) = Len(top.stack) + 1
          BY <2>4, AtScopes, PushedAllFit
        <4>3. bc \notin Jumps \cup Returns
          BY OnwardOnly
        <4>4. /\ <<NextPc, Len(top.stack) + BytecodeStackEffect(bc, ArgsHere)>>
                   \in FlowsTo(Here, top.pc, Len(top.stack))
              /\ ArgsHere \in Nat /\ Takes(Compiled, ArgsHere) = Takes(bc, ArgsHere)
              /\ Len(top.stack) \in Nat
          BY <4>3, FlowsOnward
        <4>5. BytecodeStackEffect(bc, ArgsHere) = 1
          BY <4>4, EffectOfReads
        <4>6. Takes(bc, ArgsHere) = 0
          BY DEF Takes, SendLike, Sends, QuickSuperSends, PopFrame, PopInner, PopX,
             PopField, OnTrue, OnFalse
        <4> HIDE DEF waiting, s
        <4>7. <<waiting.pc, Len(waiting.stack)>> \in FlowsTo(Here, top.pc, Len(top.stack))
          BY <4>1, <4>2, <4>4, <4>5
        <4>8. /\ Len(waiting.stack) \in Nat /\ Takes(Compiled, ArgsHere) \in Nat
              /\ Len(waiting.stack) > Len(top.stack) - Takes(Compiled, ArgsHere)
          BY <4>1, <4>2, <4>4, <4>6
        <4> QED BY <1>2, <4>1, <4>4, <4>7, <4>8, AwaitingMove
      <3> HIDE DEF call, waiting
      <3> QED BY <1>4, <3>1, <3>3, <3>4, <3>5, <3>6, PerformScoped
    <2> QED BY <2>2, <2>3, <2>4 DEF MaybeFits
  <1> QED BY <1>1, <1>3, <1>4

---------------------------------------------------------------------------
(* Stores to variables, fields and globals.                                *)

\* Only instructions that read put the object on the stack.
LEMMA NothingPushed ==
  ASSUME NEW own, Works(own), bc \in Stores \cup SendLike \cup {"inc", "dec"} \cup Jumps
  PROVE  /\ ~PushesSelf(program, top.m, top.pc)
         /\ Compiled \notin {"push_local", "push_argument"}
  <1>1. bc \in Variants(Compiled)
    BY Parts, CompiledAs
  <1>2. Compiled \notin {"push_local", "push_argument"}
    <2> SUFFICES ASSUME Compiled \in {"push_local", "push_argument"} PROVE FALSE
      OBVIOUS
    <2>1. bc \in {"push_local", "push_argument"} \cup PushFrame \cup PushInner
      BY <1>1 DEF Variants
    <2> QED BY <2>1, TheLongJumps DEF Stores, SendLike, Sends, QuickSuperSends, Jumps, ShortJumps,
         PushFrame, PushInner, PopFrame, PopInner, PopField
  <1>3. ~PushesSelf(program, top.m, top.pc)
    BY <1>2, AtScopes DEF PushesSelf, Compiled
  <1> QED BY <1>2, <1>3

LEMMA LeftOnStack ==
  ASSUME NEW b, NEW n \in Nat, Takes(Compiled, ArgsHere) = n,
         ~PushesSelf(program, top.m, top.pc),
         Len(top.stack) \in Nat, Len(b.stack) \in Nat, Len(top.stack) - n <= Len(b.stack),
         \A i \in 1..(Len(top.stack) - n) : b.stack[i] = top.stack[i]
  PROVE  StackLeft(b)
  BY DEF StackLeft

\* The activation moves along the flow with its frame.
LEMMA MovedScoped ==
  ASSUME NEW own, Works(own), ~top.escaped, NEW b, b.m = top.m, b.frame = top.frame,
         b.tier = top.tier, b.escaped = top.escaped, AllFit(program, own, b.stack),
         <<b.pc, Len(b.stack)>> \in FlowsTo(Here, top.pc, Len(top.stack)),
         StackLeft(b)
  PROVE  ScopedActivation(program, own, b)
  <1>1. FrameFits(program, own, b)
    BY AtScopes DEF FrameFits
  <1>2. b.tier \in 1..2 /\ ~b.escaped
    BY AtScopes
  <1> QED BY <1>1, <1>2, ScopedMove

\* The verifier knows the activation after the top of the stack was taken.
LEMMA PoppedScoped ==
  ASSUME NEW own, Works(own), ~top.escaped, bc \in Stores \ {"nil_frame", "nil_inner"}
  PROVE  /\ ScopedActivation(program, own, Popped) /\ Popped.m = top.m
         /\ ValueFits(program, own, FromTop(0))
  <1> DEFINE b == Popped
             s == Drop(top.stack, 1)
  <1>1. /\ b.m = top.m /\ b.frame = top.frame /\ b.tier = top.tier
        /\ b.escaped = top.escaped /\ b.pc = NextPc /\ b.stack = s
    <2>1. DOMAIN top = ActivationFields
      BY Parts, AtInstruction
    <2> QED BY <2>1 DEF ActivationFields, Popped
  <1>2. bc \notin Jumps \cup Returns /\ bc \in Stores
    BY OnwardOnly
  <1>3. /\ <<NextPc, Len(top.stack) + BytecodeStackEffect(bc, ArgsHere)>>
             \in FlowsTo(Here, top.pc, Len(top.stack))
        /\ ArgsHere \in Nat /\ Takes(Compiled, ArgsHere) = Takes(bc, ArgsHere)
        /\ Len(top.stack) \in Nat
    BY <1>2, FlowsOnward
  <1>4. BytecodeStackEffect(bc, ArgsHere) = -1 /\ Takes(bc, ArgsHere) = 1
    BY <1>3, EffectOfStores
  <1>5. Takes(bc, ArgsHere) <= Len(top.stack)
    BY <1>2, Parts, Onward
  <1>6. AllFit(program, own, top.stack) /\ 1 \in 0..Len(top.stack)
        /\ Len(top.stack) \in 1..Len(top.stack)
    BY <1>3, <1>4, <1>5, AtScopes
  <1>7. /\ AllFit(program, own, s) /\ Len(s) = Len(top.stack) - 1
        /\ \A i \in 1..(Len(top.stack) - 1) : s[i] = top.stack[i]
    <2> DEFINE old == top.stack
               n == 1
               rest == Drop(old, n)
    <2>1. AllFit(program, own, old) /\ n \in 0..Len(old)
      BY <1>6
    <2> HIDE DEF old, n, rest
    <2>2. /\ AllFit(program, own, rest) /\ Len(rest) = Len(old) - n
          /\ \A i \in 1..(Len(old) - n) : rest[i] = old[i]
      BY <2>1, DroppedAllFit DEF rest
    <2> QED BY <2>2 DEF old, n, rest
  <1>8. ValueFits(program, own, FromTop(0))
    <2>1. Len(top.stack) - 0 = Len(top.stack)
      BY <1>3
    <2> QED BY <1>6, <2>1, ElementFits DEF FromTop
  <1> HIDE DEF b, s
  <1>9. StackLeft(b)
    <2>1. ~PushesSelf(program, top.m, top.pc)
      BY <1>2, NothingPushed
    <2>2. /\ Takes(Compiled, ArgsHere) = 1 /\ Len(b.stack) \in Nat
          /\ Len(top.stack) - 1 <= Len(b.stack)
          /\ \A i \in 1..(Len(top.stack) - 1) : b.stack[i] = top.stack[i]
      BY <1>1, <1>3, <1>4, <1>6, <1>7
    <2> QED BY <1>3, <2>1, <2>2, LeftOnStack
  <1>10. <<b.pc, Len(b.stack)>> \in FlowsTo(Here, top.pc, Len(top.stack))
    <2>1. Len(top.stack) + BytecodeStackEffect(bc, ArgsHere) = Len(b.stack)
      BY <1>1, <1>3, <1>4, <1>7
    <2> QED BY <1>1, <1>3, <2>1
  <1>11. AllFit(program, own, b.stack)
    BY <1>1, <1>7
  <1>12. ScopedActivation(program, own, b)
    BY <1>1, <1>9, <1>10, <1>11, MovedScoped
  <1> QED BY <1>1, <1>8, <1>12 DEF b

LEMMA PassedScoped ==
  ASSUME NEW own, Works(own), ~top.escaped, bc \in {"nil_frame", "nil_inner"}
  PROVE  /\ ScopedActivation(program, own, [top EXCEPT !.pc = NextPc])
         /\ [top EXCEPT !.pc = NextPc].m = top.m
  <1> DEFINE b == [top EXCEPT !.pc = NextPc]
  <1>1. /\ b.m = top.m /\ b.frame = top.frame /\ b.tier = top.tier
        /\ b.escaped = top.escaped /\ b.pc = NextPc /\ b.stack = top.stack
    <2>1. DOMAIN top = ActivationFields
      BY Parts, AtInstruction
    <2> QED BY <2>1 DEF ActivationFields
  <1> HIDE DEF b
  <1>2. bc \in Stores
    BY DEF Stores
  <1>3. bc \notin Jumps \cup Returns
    BY <1>2, OnwardOnly
  <1>4. /\ <<NextPc, Len(top.stack) + BytecodeStackEffect(bc, ArgsHere)>>
             \in FlowsTo(Here, top.pc, Len(top.stack))
        /\ ArgsHere \in Nat /\ Takes(Compiled, ArgsHere) = Takes(bc, ArgsHere)
        /\ Len(top.stack) \in Nat
    BY <1>3, FlowsOnward
  <1>5. BytecodeStackEffect(bc, ArgsHere) = 0
    BY <1>4, EffectInPlace
  <1>6. Takes(bc, ArgsHere) = 0
    BY DEF Takes, SendLike, Sends, QuickSuperSends, PopFrame, PopInner, PopX, PopField,
       OnTrue, OnFalse
  <1>7. StackLeft(b)
    <2>1. ~PushesSelf(program, top.m, top.pc)
      BY <1>2, NothingPushed
    <2>2. /\ Takes(Compiled, ArgsHere) = 0 /\ Len(b.stack) \in Nat
          /\ Len(top.stack) - 0 <= Len(b.stack)
          /\ \A i \in 1..(Len(top.stack) - 0) : b.stack[i] = top.stack[i]
      BY <1>1, <1>4, <1>6
    <2> QED BY <1>4, <2>1, <2>2, LeftOnStack
  <1>8. <<b.pc, Len(b.stack)>> \in FlowsTo(Here, top.pc, Len(top.stack))
    <2>1. Len(top.stack) + BytecodeStackEffect(bc, ArgsHere) = Len(b.stack)
      BY <1>1, <1>4, <1>5
    <2> QED BY <1>1, <1>4, <2>1
  <1>9. ScopedActivation(program, own, b)
    BY <1>1, <1>7, <1>8, AtScopes, MovedScoped
  <1> QED BY <1>1, <1>9 DEF b

\* A variable behind the receiver is assigned.
LEMMA AssignedScoped ==
  ASSUME NEW p, NEW own, NEW a, ActivationFits(p, a), ScopedActivation(p, own, a),
         NEW slot \in Nat, slot >= ArgOffset, slot < MethodOf(p, a.m).sizeFrame,
         NEW v, ValueFits(p, own, v)
  PROVE  ScopedActivation(p, own, Assign(a, slot, v))
  <1> DEFINE b == Assign(a, slot, v)
             frame == ReplaceAt(a.frame, slot + 1, v)
  <1>1. /\ b.m = a.m /\ b.tier = a.tier /\ b.escaped = a.escaped /\ b.stack = a.stack
        /\ b.pc = a.pc /\ b.frame = frame
    BY DEF ActivationFits, ActivationFields, Assign
  <1>2. /\ IsSequence(a.frame) /\ Len(a.frame) = MethodOf(p, a.m).sizeFrame
        /\ Len(a.frame) \in Nat
        /\ \A i \in 2..Len(a.frame) : ValueFits(p, own, a.frame[i])
    BY SequenceType DEF ScopedActivation, FrameFits
  <1>3. slot + 1 \in 1..Len(a.frame) /\ slot + 1 # 1 /\ slot + 1 # 2
        /\ 1 \in 1..Len(a.frame) /\ 2 \in 1..Len(a.frame)
    BY <1>2 DEF ArgOffset
  <1>4. /\ IsSequence(frame) /\ Len(frame) = Len(a.frame) /\ frame[slot + 1] = v
        /\ \A j \in 1..Len(a.frame) : j # slot + 1 => frame[j] = a.frame[j]
    BY <1>2, <1>3, Replaced
  <1> HIDE DEF b, frame
  <1>5. frame[1] = a.frame[1] /\ frame[2] = a.frame[2]
    BY <1>3, <1>4
  <1>6. \A i \in 2..Len(frame) : ValueFits(p, own, frame[i])
    BY <1>2, <1>4
  <1>7. FrameFits(p, own, b)
    BY <1>1, <1>2, <1>4, <1>5, <1>6 DEF FrameFits, ScopedActivation
  <1>8. ScopedActivation(p, own, b)
    BY <1>1, <1>7 DEF ScopedActivation, SelvesHold
  <1> QED BY <1>8 DEF b

\* A variable of an inner behind the receiver is assigned.
LEMMA InnerAssignedFits ==
  ASSUME NEW p, NEW own, NEW is, ScopedInners(p, own, is), NEW i \in DOMAIN is,
         NEW slot \in Nat, slot >= ArgOffset, slot < MethodOf(p, own[i]).sizeInner,
         NEW v, ValueFits(p, own, v)
  PROVE  ScopedInners(p, own, [is EXCEPT ![i] = ReplaceAt(@, slot + 1, v)])
  <1> DEFINE inner == ReplaceAt(is[i], slot + 1, v)
             assigned == ReplaceAt(is, i, inner)
  <1>1. /\ IsSequence(is) /\ DOMAIN is = 1..Len(is) /\ DOMAIN own = 1..Len(is)
        /\ \A j \in 1..Len(is) : own[j] \in Reached(p) /\ InnerFits(p, own, own[j], is[j])
    BY SequenceType DEF ScopedInners
  <1>2. /\ IsSequence(is[i]) /\ Len(is[i]) = MethodOf(p, own[i]).sizeInner
        /\ Len(is[i]) > 1 /\ Len(is[i]) \in Nat
        /\ SelfFits(p, own, own[i], is[i][2])
        /\ \A j \in 2..Len(is[i]) : ValueFits(p, own, is[i][j])
    BY <1>1, SequenceType DEF InnerFits
  <1>3. slot + 1 \in 1..Len(is[i]) /\ slot + 1 # 2 /\ 2 \in 1..Len(is[i])
    BY <1>2 DEF ArgOffset
  <1>4. /\ IsSequence(inner) /\ Len(inner) = Len(is[i]) /\ inner[slot + 1] = v
        /\ \A j \in 1..Len(is[i]) : j # slot + 1 => inner[j] = is[i][j]
    BY <1>2, <1>3, Replaced
  <1>5. assigned = [is EXCEPT ![i] = ReplaceAt(@, slot + 1, v)]
    BY DEF ReplaceAt
  <1> HIDE DEF inner
  <1>6. /\ IsSequence(assigned) /\ Len(assigned) = Len(is) /\ assigned[i] = inner
        /\ \A j \in 1..Len(is) : j # i => assigned[j] = is[j]
    BY <1>1, Replaced
  <1> HIDE DEF assigned
  <1>7. InnerFits(p, own, own[i], inner)
    <2>1. inner[2] = is[i][2]
      BY <1>3, <1>4
    <2>2. \A j \in 2..Len(inner) : ValueFits(p, own, inner[j])
      BY <1>2, <1>4
    <2> QED BY <1>2, <1>4, <2>1, <2>2 DEF InnerFits
  <1>8. ScopedInners(p, own, assigned)
    BY <1>1, <1>6, <1>7 DEF ScopedInners
  <1> QED BY <1>5, <1>8

LEMMA PopIntoInnerScoped ==
  ASSUME NEW own, Works(own), bc \in OnInner, Compiled \notin {"push_local", "push_argument"},
         NEW v, ValueFits(program, own, v), NEW b, ScopedActivation(program, own, b),
         PopIntoInner(SlotHere, v, b)
  PROVE  After
  <1>1. \/ /\ acts' = Append(Front(acts), b)
           /\ inners' = [inners EXCEPT ![InnerHere] = ReplaceAt(@, SlotHere + 1, v)]
           /\ UNCHANGED <<objects, globals, outcome>>
        \/ UNCHANGED <<acts, heap>>
    BY DEF PopIntoInner, InnerHere
  <1>2. /\ InnerHere \in DOMAIN inners /\ SlotHere \in Nat
        /\ SlotHere < MethodOf(program, own[InnerHere]).sizeInner
    BY InnerOfVariable
  <1>3. SlotHere >= ArgOffset
    BY ResolvedHere
  <1>4. CASE /\ acts' = Append(Front(acts), b)
             /\ inners' = [inners EXCEPT ![InnerHere] = ReplaceAt(@, SlotHere + 1, v)]
             /\ UNCHANGED <<objects, globals, outcome>>
    <2>1. ScopedInners(program, own, inners')
      BY <1>2, <1>3, <1>4, Parts, InnerAssignedFits
    <2> QED BY <1>4, <2>1, Parts, GoesOn
  <1>5. CASE UNCHANGED <<acts, heap>>
    BY <1>5, NothingDone DEF heap
  <1> QED BY <1>1, <1>4, <1>5

LEMMA PopIntoFrameScoped ==
  ASSUME NEW own, Works(own), bc \in OnFrame, Compiled \notin {"push_local", "push_argument"},
         NEW v, ValueFits(program, own, v), NEW b, b.m = top.m, ActivationFits(program, b),
         ScopedActivation(program, own, b), Continue(Assign(b, SlotHere, v))
  PROVE  After
  <1>1. SlotHere \in Nat /\ SlotHere >= ArgOffset /\ SlotHere < Here.sizeFrame
    BY ResolvedHere
  <1>2. SlotHere < MethodOf(program, b.m).sizeFrame
    BY <1>1, AtScopes
  <1>3. ScopedActivation(program, own, Assign(b, SlotHere, v))
    BY <1>1, <1>2, AssignedScoped
  <1> QED BY <1>3, Parts, GoesOn DEF Continue, heap

LEMMA PopIntoFieldScoped ==
  ASSUME NEW own, Works(own), bc \in PopField, NEW v, ValueFits(program, own, v),
         ScopedActivation(program, own, Popped), PopIntoField(FieldOf(bc), v)
  PROVE  After
  <1> DEFINE self == Self(Level(bc))
             idx == FieldOf(bc)
  <1>1. /\ ValueFits(program, own, self) /\ self[1] = "obj"
    BY FieldOfSelf
  <1>2. /\ acts' = Append(Front(acts), Popped)
        /\ objects' = [objects EXCEPT ![self[2]] = WithField(@, idx, v)]
        /\ UNCHANGED <<inners, globals>>
    BY DEF PopIntoField
  <1> HIDE DEF self, idx
  <1>3. ScopedObjects(program, own, objects')
    BY <1>1, <1>2, Parts, FieldWrites
  <1> QED BY <1>2, <1>3, Parts, GoesOn

LEMMA StoreValueScoped ==
  ASSUME NEW own, Works(own), ~top.escaped, bc \in Stores, StoreValue
  PROVE  After
  <1>1. Compiled \notin {"push_local", "push_argument"}
    BY NothingPushed
  <1>2. Inv /\ outcome = Running
    BY Parts
  <1>3. CASE bc = "pop"
    <2>1. Continue(Popped)
      BY <1>3 DEF StoreValue, PopFrame, PopInner, PopField
    <2>2. ScopedActivation(program, own, Popped)
      BY <1>3, PoppedScoped
    <2> QED BY <2>1, <2>2, Parts, GoesOn DEF Continue, heap
  <1>4. CASE bc \in {"nil_frame", "nil_inner"}
    <2> DEFINE b == [top EXCEPT !.pc = NextPc]
    <2>1. Continue(b)
      BY <1>4 DEF StoreValue, PopFrame, PopInner, PopField
    <2>2. ScopedActivation(program, own, b)
      BY <1>4, PassedScoped
    <2> HIDE DEF b
    <2> QED BY <2>1, <2>2, Parts, GoesOn DEF Continue, heap
  <1>5. CASE bc \in PopFrame
    <2>1. bc \in Stores \ {"nil_frame", "nil_inner"} /\ bc \in OnFrame
      BY <1>5 DEF Stores, PopFrame, OnFrame
    <2>2. Continue(Assign(Popped, SlotHere, FromTop(0)))
      BY <1>5, SlotsOfCells DEF StoreValue, PopFrame, PopInner, PopField, PopIntoFrame
    <2>3. /\ ScopedActivation(program, own, Popped) /\ ActivationFits(program, Popped)
          /\ Popped.m = top.m /\ ValueFits(program, own, FromTop(0))
      BY <1>2, <2>1, PoppedFits, PoppedScoped
    <2> QED BY <1>1, <2>1, <2>2, <2>3, PopIntoFrameScoped
  <1>6. CASE bc \in PopInner
    <2>1. bc \in Stores \ {"nil_frame", "nil_inner"} /\ bc \in OnInner
      BY <1>6 DEF Stores, PopInner, OnInner
    <2>2. PopIntoInner(SlotHere, FromTop(0), Popped)
      BY <1>6, SlotsOfCells DEF StoreValue, PopFrame, PopInner, PopField
    <2>3. ScopedActivation(program, own, Popped) /\ ValueFits(program, own, FromTop(0))
      BY <2>1, PoppedScoped
    <2> QED BY <1>1, <2>1, <2>2, <2>3, PopIntoInnerScoped
  <1>7. CASE bc \in PopField
    <2>1. bc \in Stores \ {"nil_frame", "nil_inner"}
      BY <1>7 DEF Stores, PopField
    <2>2. PopIntoField(FieldOf(bc), FromTop(0))
      BY <1>7 DEF StoreValue, PopFrame, PopInner, PopField
    <2>3. ScopedActivation(program, own, Popped) /\ ValueFits(program, own, FromTop(0))
      BY <2>1, PoppedScoped
    <2> QED BY <1>7, <2>2, <2>3, PopIntoFieldScoped
  <1> QED BY <1>3, <1>4, <1>5, <1>6, <1>7 DEF Stores

LEMMA IncOrDecScoped ==
  ASSUME NEW own, Works(own), ~top.escaped, bc \in {"inc", "dec"}, IncOrDec
  PROVE  After
  <1> DEFINE n == FromTop(0)
             result == IF bc = "inc" THEN PrimInc(n) ELSE PrimDec(n)
             s == PutOnTop(top.stack, result)
             b == [top EXCEPT !.stack = s, !.pc = NextPc]
  <1>1. Continue(b) \/ UNCHANGED <<acts, heap>>
    BY DEF IncOrDec, Fail
  <1>2. ValueFits(program, own, result)
    BY NumbersArePlain, PlainFits
  <1> HIDE DEF result
  <1>3. /\ b.m = top.m /\ b.frame = top.frame /\ b.tier = top.tier
        /\ b.escaped = top.escaped /\ b.pc = NextPc /\ b.stack = s
    <2>1. DOMAIN top = ActivationFields
      BY Parts, AtInstruction
    <2> QED BY <2>1 DEF ActivationFields
  <1>4. bc \notin Jumps \cup Returns
    BY OnwardOnly
  <1>5. /\ <<NextPc, Len(top.stack) + BytecodeStackEffect(bc, ArgsHere)>>
             \in FlowsTo(Here, top.pc, Len(top.stack))
        /\ ArgsHere \in Nat /\ Takes(Compiled, ArgsHere) = Takes(bc, ArgsHere)
        /\ Len(top.stack) \in Nat
    BY <1>4, FlowsOnward
  <1>6. BytecodeStackEffect(bc, ArgsHere) = 0 /\ Takes(bc, ArgsHere) = 1
    BY <1>5, EffectInPlace
  <1>7. AllFit(program, own, top.stack) /\ Len(top.stack) > 0
    BY <1>4, <1>5, <1>6, Parts, Onward, AtScopes
  <1>8. /\ AllFit(program, own, s) /\ Len(s) = Len(top.stack)
        /\ \A i \in 1..(Len(top.stack) - 1) : s[i] = top.stack[i]
    BY <1>2, <1>7, OnTopAllFit
  <1> HIDE DEF s, b
  <1>9. StackLeft(b)
    <2>1. ~PushesSelf(program, top.m, top.pc)
      BY NothingPushed
    <2>2. /\ Takes(Compiled, ArgsHere) = 1 /\ Len(b.stack) \in Nat
          /\ Len(top.stack) - 1 <= Len(b.stack)
          /\ \A i \in 1..(Len(top.stack) - 1) : b.stack[i] = top.stack[i]
      BY <1>3, <1>5, <1>6, <1>8
    <2> QED BY <1>5, <2>1, <2>2, LeftOnStack
  <1>10. <<b.pc, Len(b.stack)>> \in FlowsTo(Here, top.pc, Len(top.stack))
    <2>1. Len(top.stack) + BytecodeStackEffect(bc, ArgsHere) = Len(b.stack)
      BY <1>3, <1>5, <1>6, <1>8
    <2> QED BY <1>3, <1>5, <2>1
  <1>11. AllFit(program, own, b.stack)
    BY <1>3, <1>8
  <1>12. ScopedActivation(program, own, b)
    BY <1>3, <1>9, <1>10, <1>11, MovedScoped
  <1>13. CASE Continue(b)
    BY <1>12, <1>13, Parts, GoesOn DEF Continue, heap
  <1>14. CASE UNCHANGED <<acts, heap>>
    BY <1>14, NothingDone DEF heap
  <1> QED BY <1>1, <1>13, <1>14

---------------------------------------------------------------------------
(* Jumps and the values they keep.                                         *)

LEMMA TakenByJumps ==
  ASSUME NEW own, Works(own), bc \in Jumps
  PROVE  /\ Takes(Compiled, ArgsHere) =
              IF bc \in OnTrue \cup OnFalse THEN 1
              ELSE IF bc \in {"jump_if_greater", "jump2_if_greater"} THEN 2 ELSE 0
         /\ Takes(Compiled, ArgsHere) <= Len(top.stack)
         /\ Len(top.stack) \in Nat /\ ~PushesSelf(program, top.m, top.pc)
  <1>1. bc = Compiled
    BY Parts, AtJump
  <1>2. Takes(Compiled, ArgsHere) <= Len(top.stack) /\ Len(top.stack) \in Nat
    BY Parts, AtInstruction, StackMapAt DEF Compiled, ArgsHere
  <1>3. Takes(bc, ArgsHere) =
              IF bc \in OnTrue \cup OnFalse THEN 1
              ELSE IF bc \in {"jump_if_greater", "jump2_if_greater"} THEN 2 ELSE 0
    BY TheLongJumps DEF Takes, SendLike, Sends, QuickSuperSends, PopFrame, PopInner, PopX,
       PopField, OnTrue, OnFalse, Jumps, ShortJumps
  <1> QED BY <1>1, <1>2, <1>3, NothingPushed

LEMMA JumpScoped ==
  ASSUME NEW own, Works(own), ~top.escaped, NEW b, b.m = top.m, b.frame = top.frame,
         b.tier = top.tier, b.escaped = top.escaped, b.stack = top.stack,
         \/ bc \in {"jump", "jump2"} /\ b.pc = top.pc + Offset
         \/ bc \in BackwardJumps /\ b.pc = top.pc - Offset,
         Continue(b)
  PROVE  After
  <1>1. bc \in {"jump", "jump2"} \cup BackwardJumps /\ bc \in Jumps
    BY TheLongJumps DEF Jumps, ShortJumps, BackwardJumps
  <1>2. bc \in {"jump", "jump2"} => bc \notin BackwardJumps
    BY DEF BackwardJumps
  <1>3. b.pc = Target
    BY <1>1, <1>2, Parts, AtJump
  <1>4. <<Target, Len(top.stack)>> \in FlowsTo(Here, top.pc, Len(top.stack))
    BY <1>1, Parts, AtJump, JumpFlow DEF Target, Compiled
  <1>5. StackLeft(b)
    <2>1. bc \notin OnTrue \cup OnFalse \cup {"jump_if_greater", "jump2_if_greater"}
      BY <1>1 DEF OnTrue, OnFalse, BackwardJumps
    <2>2. /\ Takes(Compiled, ArgsHere) = 0 /\ Len(b.stack) \in Nat
          /\ Len(top.stack) - 0 <= Len(b.stack)
          /\ \A i \in 1..(Len(top.stack) - 0) : b.stack[i] = top.stack[i]
      BY <1>1, <2>1, TakenByJumps
    <2> QED BY <1>1, <2>2, TakenByJumps, LeftOnStack
  <1>6. ScopedActivation(program, own, b)
    BY <1>3, <1>4, <1>5, AtScopes, MovedScoped
  <1> QED BY <1>6, Parts, GoesOn DEF Continue, heap

LEMMA JumpToScoped ==
  ASSUME NEW own, Works(own), ~top.escaped, NEW pc, JumpTo(pc),
         \/ bc \in {"jump", "jump2"} /\ pc = top.pc + Offset
         \/ bc \in BackwardJumps /\ pc = top.pc - Offset
  PROVE  After
  <1> DEFINE b == [top EXCEPT !.pc = pc]
  <1>1. /\ b.m = top.m /\ b.frame = top.frame /\ b.tier = top.tier
        /\ b.escaped = top.escaped /\ b.pc = pc /\ b.stack = top.stack
    <2>1. DOMAIN top = ActivationFields
      BY Parts, AtInstruction
    <2> QED BY <2>1 DEF ActivationFields
  <1>2. Continue(b)
    BY DEF JumpTo
  <1> HIDE DEF b
  <1> QED BY <1>1, <1>2, JumpScoped

LEMMA ShieldingJumpScoped ==
  ASSUME NEW own, Works(own), ~top.escaped, bc = "jump2",
         Continue([top EXCEPT !.pc = @ + Offset, !.shielded = TRUE])
  PROVE  After
  <1> DEFINE b == [top EXCEPT !.pc = @ + Offset, !.shielded = TRUE]
  <1>1. /\ b.m = top.m /\ b.frame = top.frame /\ b.tier = top.tier
        /\ b.escaped = top.escaped /\ b.pc = top.pc + Offset /\ b.stack = top.stack
    <2>1. DOMAIN top = ActivationFields
      BY Parts, AtInstruction
    <2> QED BY <2>1 DEF ActivationFields
  <1>2. Continue(b)
    OBVIOUS
  <1> HIDE DEF b
  <1> QED BY <1>1, <1>2, JumpScoped

LEMMA JumpOnBooleanScoped ==
  ASSUME NEW own, Works(own), ~top.escaped, bc \in OnTrue \cup OnFalse, JumpOnBoolean
  PROVE  After
  <1> DEFINE taken == FromTop(0) = Bool(bc \in OnTrue)
             pc == IF taken THEN top.pc + Offset ELSE NextPc
             old == top.stack
             answered == PutOnTop(old, Nil)
             rest == Drop(old, 1)
             s == IF taken /\ bc \in LeavesNil THEN answered ELSE rest
             b == [top EXCEPT !.pc = pc, !.stack = s]
  <1>1. bc \in Jumps /\ bc \notin BackwardJumps
    BY TheLongJumps DEF Jumps, ShortJumps, BackwardJumps, OnTrue, OnFalse
  <1>2. /\ top.pc + Offset = Target /\ NextPc = NextAt(Here.code, top.pc) /\ bc = Compiled
    BY <1>1, Parts, AtJump
  <1>3. /\ Takes(Compiled, ArgsHere) = 1 /\ Len(old) > 0 /\ Len(old) \in Nat
        /\ ~PushesSelf(program, top.m, top.pc) /\ AllFit(program, own, old)
    BY <1>1, TakenByJumps, AtScopes
  <1>4. Continue(b)
    BY DEF JumpOnBoolean
  <1>5. ValueFits(program, own, Nil)
    BY ThePlain, PlainFits
  <1>6. /\ AllFit(program, own, rest) /\ Len(rest) = Len(old) - 1
        /\ \A i \in 1..(Len(old) - 1) : rest[i] = old[i]
    <2> DEFINE n == 1
               dropped == Drop(old, n)
    <2>1. n \in 0..Len(old)
      BY <1>3
    <2> HIDE DEF old, n, dropped
    <2>2. /\ AllFit(program, own, dropped) /\ Len(dropped) = Len(old) - n
          /\ \A i \in 1..(Len(old) - n) : dropped[i] = old[i]
      BY <1>3, <2>1, DroppedAllFit DEF dropped
    <2> QED BY <2>2 DEF n, dropped
  <1>7. /\ AllFit(program, own, answered) /\ Len(answered) = Len(old)
        /\ \A i \in 1..(Len(old) - 1) : answered[i] = old[i]
    <2> HIDE DEF old
    <2> QED BY <1>3, <1>5, OnTopAllFit
  <1>8. /\ <<NextPc, Len(old) - 1>> \in FlowsTo(Here, top.pc, Len(old))
        /\ <<Target, IF bc \in LeavesNil THEN Len(old) ELSE Len(old) - 1>>
              \in FlowsTo(Here, top.pc, Len(old))
    <2>1. CASE bc \in LeavesNil
      BY <1>2, <2>1, NilFlow DEF Target, Compiled
    <2>2. CASE bc \notin LeavesNil
      BY <1>2, <2>2, PopFlow DEF Target, Compiled
    <2> QED BY <2>1, <2>2
  <1> HIDE DEF answered, rest
  <1>9. AllFit(program, own, s) /\ \A i \in 1..(Len(old) - 1) : s[i] = old[i]
    BY <1>6, <1>7
  <1>10. Len(s) \in Nat /\ Len(old) - 1 <= Len(s)
    BY <1>3, <1>6, <1>7
  <1>11. <<pc, Len(s)>> \in FlowsTo(Here, top.pc, Len(old))
    BY <1>2, <1>6, <1>7, <1>8
  <1> HIDE DEF pc, s
  <1>12. /\ b.m = top.m /\ b.frame = top.frame /\ b.tier = top.tier
         /\ b.escaped = top.escaped /\ b.pc = pc /\ b.stack = s
    <2>1. DOMAIN top = ActivationFields
      BY Parts, AtInstruction
    <2> QED BY <2>1 DEF ActivationFields
  <1> HIDE DEF b
  <1>13. StackLeft(b)
    BY <1>3, <1>9, <1>10, <1>12, LeftOnStack
  <1>14. ScopedActivation(program, own, b)
    BY <1>9, <1>11, <1>12, <1>13, MovedScoped
  <1> QED BY <1>4, <1>14, Parts, GoesOn DEF Continue, heap

LEMMA JumpIfGreaterScoped ==
  ASSUME NEW own, Works(own), ~top.escaped,
         bc \in {"jump_if_greater", "jump2_if_greater"}, JumpIfGreater
  PROVE  After
  <1> DEFINE old == top.stack
             rest == Drop(old, 2)
             gone == [top EXCEPT !.pc = @ + Offset, !.stack = Drop(@, 2)]
             stays == [top EXCEPT !.pc = NextPc]
  <1>1. bc \in Jumps /\ bc \notin BackwardJumps
    BY TheLongJumps DEF Jumps, ShortJumps, BackwardJumps
  <1>2. /\ top.pc + Offset = Target /\ NextPc = NextAt(Here.code, top.pc) /\ bc = Compiled
    BY <1>1, Parts, AtJump
  <1>3. /\ Takes(Compiled, ArgsHere) = 2 /\ Len(old) >= 2 /\ Len(old) \in Nat
        /\ ~PushesSelf(program, top.m, top.pc) /\ AllFit(program, own, old)
    <2>1. bc \notin OnTrue \cup OnFalse
      BY DEF OnTrue, OnFalse
    <2> QED BY <1>1, <2>1, TakenByJumps, AtScopes
  <1>4. \/ UNCHANGED <<acts, heap>>
        \/ Continue(gone)
        \/ Continue(stays)
    BY DEF JumpIfGreater
  <1>5. /\ <<Target, Len(old) - 2>> \in FlowsTo(Here, top.pc, Len(old))
        /\ <<NextPc, Len(old)>> \in FlowsTo(Here, top.pc, Len(old))
    BY <1>2, LoopFlow DEF Target, Compiled
  <1>6. DOMAIN top = ActivationFields
    BY Parts, AtInstruction
  <1>7. CASE UNCHANGED <<acts, heap>>
    BY <1>7, NothingDone DEF heap
  <1>8. CASE Continue(gone)
    <2>1. /\ gone.m = top.m /\ gone.frame = top.frame /\ gone.tier = top.tier
          /\ gone.escaped = top.escaped /\ gone.pc = Target /\ gone.stack = rest
      BY <1>2, <1>6 DEF ActivationFields
    <2>2. /\ AllFit(program, own, rest) /\ Len(rest) = Len(old) - 2
          /\ \A i \in 1..(Len(old) - 2) : rest[i] = old[i]
      <3> DEFINE n == 2
                 dropped == Drop(old, n)
      <3>1. n \in 0..Len(old)
        BY <1>3
      <3> HIDE DEF old, n, dropped
      <3>2. /\ AllFit(program, own, dropped) /\ Len(dropped) = Len(old) - n
            /\ \A i \in 1..(Len(old) - n) : dropped[i] = old[i]
        BY <1>3, <3>1, DroppedAllFit DEF dropped
      <3> QED BY <3>2 DEF n, dropped
    <2> HIDE DEF gone, rest
    <2>3. /\ AllFit(program, own, gone.stack) /\ Len(gone.stack) \in Nat
          /\ Len(old) - 2 <= Len(gone.stack)
          /\ \A i \in 1..(Len(old) - 2) : gone.stack[i] = old[i]
          /\ <<gone.pc, Len(gone.stack)>> \in FlowsTo(Here, top.pc, Len(old))
      BY <1>3, <1>5, <2>1, <2>2
    <2>4. StackLeft(gone)
      BY <1>3, <2>3, LeftOnStack
    <2>5. ScopedActivation(program, own, gone)
      BY <2>1, <2>3, <2>4, MovedScoped
    <2> QED BY <1>8, <2>5, Parts, GoesOn DEF Continue, heap
  <1>9. CASE Continue(stays)
    <2>1. /\ stays.m = top.m /\ stays.frame = top.frame /\ stays.tier = top.tier
          /\ stays.escaped = top.escaped /\ stays.pc = NextPc /\ stays.stack = old
      BY <1>6 DEF ActivationFields
    <2> HIDE DEF stays
    <2>2. /\ AllFit(program, own, stays.stack) /\ Len(stays.stack) \in Nat
          /\ Len(old) - 2 <= Len(stays.stack)
          /\ \A i \in 1..(Len(old) - 2) : stays.stack[i] = old[i]
          /\ <<stays.pc, Len(stays.stack)>> \in FlowsTo(Here, top.pc, Len(old))
      BY <1>3, <1>5, <2>1
    <2>3. StackLeft(stays)
      BY <1>3, <2>2, LeftOnStack
    <2>4. ScopedActivation(program, own, stays)
      BY <2>1, <2>2, <2>3, MovedScoped
    <2> QED BY <1>9, <2>4, Parts, GoesOn DEF Continue, heap
  <1> QED BY <1>4, <1>7, <1>8, <1>9

\* The other tier goes on with the activation as it is.
LEMMA ContinueInTier2Scoped ==
  ASSUME NEW own, Works(own), Continue([top EXCEPT !.tier = 2])
  PROVE  After
  <1> DEFINE b == [top EXCEPT !.tier = 2]
  <1>1. /\ b.m = top.m /\ b.frame = top.frame /\ b.tier = 2
        /\ b.escaped = top.escaped /\ b.pc = top.pc /\ b.stack = top.stack
    <2>1. DOMAIN top = ActivationFields
      BY Parts, AtInstruction
    <2> QED BY <2>1 DEF ActivationFields
  <1>2. acts' = Append(Front(acts), b) /\ UNCHANGED heap
    BY DEF Continue
  <1> HIDE DEF b
  <1>3. ScopedActivation(program, own, b)
    BY <1>1, AtScopes DEF ScopedActivation, FrameFits, SelvesHold
  <1> QED BY <1>2, <1>3, Parts, GoesOn DEF heap

---------------------------------------------------------------------------
(* Sends and the self of what they call.                                   *)

\* What a send takes from the stack, and what it leaves.
LEMMA ArgumentsFit ==
  ASSUME NEW own, Works(own), bc \in SendLike
  PROVE  /\ AllFit(program, own, Args(Arity[Selector]))
         /\ Len(Args(Arity[Selector])) = Arity[Selector] - 1
         /\ ValueFits(program, own, FromTop(Arity[Selector] - 1))
         /\ FromTop(Arity[Selector] - 1)
              = top.stack[Len(top.stack) - Arity[Selector] + 1]
         /\ Arity[Selector] \in 1..Len(top.stack) /\ Len(top.stack) \in Nat
  <1> DEFINE n == Arity[Selector]
             s == top.stack
             args == SubSeq(s, Len(s) - n + 2, Len(s))
  <1>1. n \in 1..Len(s) /\ Len(s) \in Nat /\ AllFit(program, own, s)
    BY Parts, ArgumentsOfSend, AtInstruction, AtScopes
  <1>2. args = Args(n)
    BY DEF Args
  <1>3. FromTop(n - 1) = Element(s, Len(s) - (n - 1))
    BY DEF FromTop
  <1> HIDE DEF n, s
  <1>4. s \in Seq(Elements(s))
    BY <1>1, SequenceType DEF AllFit
  <1>5. Len(s) - n + 2 \in 1..(Len(s) + 1)
    BY <1>1
  <1>6. /\ args \in Seq(Elements(s)) /\ Len(args) = n - 1
        /\ \A i \in 1..(n - 1) : args[i] = s[Len(s) - n + 2 + i - 1]
    BY <1>1, <1>4, <1>5
  <1> HIDE DEF args
  <1>7. \A i \in 1..(n - 1) : Len(s) - n + 2 + i - 1 \in 1..Len(s)
    BY <1>1
  <1>8. \A i \in 1..(n - 1) : ValueFits(program, own, args[i])
    BY <1>1, <1>6, <1>7 DEF AllFit
  <1>9. AllFit(program, own, args)
    BY <1>6, <1>8, TypedSequence DEF AllFit
  <1>10. Len(s) - (n - 1) = Len(s) - n + 1 /\ Len(s) - n + 1 \in 1..Len(s)
    BY <1>1
  <1>11. /\ ValueFits(program, own, FromTop(n - 1))
         /\ FromTop(n - 1) = s[Len(s) - n + 1]
    BY <1>1, <1>3, <1>10, ElementFits
  <1> QED BY <1>1, <1>2, <1>6, <1>9, <1>11 DEF n, s

LEMMA AfterArgsScoped ==
  ASSUME NEW own, Works(own), ~top.escaped, bc \in SendLike
  PROVE  /\ ScopedActivation(program, own, AfterArgs(Arity[Selector]))
         /\ AwaitsAnswer(program, AfterArgs(Arity[Selector]))
  <1> DEFINE n == Arity[Selector]
             s == top.stack
             taken == n - 1
             rest == Drop(s, taken)
             b == AfterArgs(n)
  <1>1. n \in 1..Len(s) /\ Len(s) \in Nat /\ AllFit(program, own, s) /\ n = ArgsHere
    BY Parts, ArgumentsOfSend, AtInstruction, AtScopes
  <1>2. /\ b.m = top.m /\ b.frame = top.frame /\ b.tier = top.tier
        /\ b.escaped = top.escaped /\ b.pc = NextPc /\ b.stack = rest
    <2>1. DOMAIN top = ActivationFields
      BY Parts, AtInstruction
    <2> QED BY <2>1 DEF ActivationFields, AfterArgs
  <1>3. bc \notin Jumps \cup Returns
    BY OnwardOnly
  <1>4. /\ <<NextPc, Len(s) + BytecodeStackEffect(bc, ArgsHere)>>
             \in FlowsTo(Here, top.pc, Len(s))
        /\ ArgsHere \in Nat /\ Takes(Compiled, ArgsHere) = Takes(bc, ArgsHere)
    BY <1>3, FlowsOnward
  <1>5. BytecodeStackEffect(bc, ArgsHere) = 1 - n /\ Takes(Compiled, ArgsHere) = n
    BY <1>1, <1>4, EffectOfSends
  <1>6. ~PushesSelf(program, top.m, top.pc)
    BY NothingPushed
  <1> HIDE DEF n, s, rest, b
  <1>7. taken \in 0..Len(s) /\ n \in Nat
    BY <1>1
  <1> HIDE DEF taken
  <1>8. /\ AllFit(program, own, rest) /\ Len(rest) = Len(s) - taken
        /\ \A i \in 1..(Len(s) - taken) : rest[i] = s[i]
    BY <1>1, <1>7, DroppedAllFit DEF rest
  <1>9. /\ Len(b.stack) \in Nat /\ Len(b.stack) = Len(s) + (1 - n)
        /\ Len(b.stack) > Len(s) - n /\ Len(s) - n <= Len(b.stack)
        /\ \A i \in 1..(Len(s) - n) : i \in 1..(Len(s) - taken)
    BY <1>1, <1>2, <1>8 DEF taken
  <1>10. \A i \in 1..(Len(s) - n) : b.stack[i] = s[i]
    BY <1>2, <1>8, <1>9
  <1>11. <<b.pc, Len(b.stack)>> \in FlowsTo(Here, top.pc, Len(top.stack))
    BY <1>2, <1>4, <1>5, <1>9 DEF s
  <1>12. StackLeft(b)
    BY <1>1, <1>5, <1>6, <1>7, <1>9, <1>10, LeftOnStack DEF s
  <1>13. ScopedActivation(program, own, b)
    BY <1>2, <1>8, <1>11, <1>12, MovedScoped
  <1>14. AwaitsAnswer(program, b)
    BY <1>1, <1>2, <1>4, <1>5, <1>6, <1>7, <1>9, <1>11, AwaitingMove DEF s
  <1> QED BY <1>13, <1>14 DEF b, n

\* What a message may find for a receiver.
Finds(own, inv, selector, rcvr) ==
  /\ inv[1] = "method" => inv[2] \in Reached(program) /\ SelfFits(program, own, inv[2], rcvr)
  /\ inv[1] = "method" /\ Method(inv[2]).kind = "field_write" =>
       Method(inv[2]).arg \in 1..(Arity[selector] - 1)
  /\ inv[1] = "primitive" /\ inv[2] \in SystemPrimitives => inv[2] = selector

LEMMA SendFoundScoped ==
  ASSUME NEW own, Works(own), ~top.escaped, bc \in SendLike, NEW class,
         Finds(own, Lookup(class, Selector), Selector, FromTop(Arity[Selector] - 1)),
         NEW entry \in 1..5, entry # 5 => entry = Arity[Selector], NEW tier2,
         Perform(Call(Lookup(class, Selector), FromTop(Arity[Selector] - 1),
                      Args(Arity[Selector]), entry, tier2), AfterArgs(Arity[Selector]))
  PROVE  After
  <1> DEFINE n == Arity[Selector]
             inv == Lookup(class, Selector)
             rcvr == FromTop(n - 1)
             args == Args(n)
             call == Call(inv, rcvr, args, entry, tier2)
             caller == AfterArgs(n)
  <1>1. IsInvokable(P, inv)
    BY Parts, FoundByName
  <1>2. /\ ActivationFits(program, caller) /\ Len(caller.stack) > 0
        /\ IsArguments(P, args) /\ NamesAMethod(P, rcvr)
    BY Parts, SendingFits
  <1>3. Perform(call, caller)
    OBVIOUS
  <1>4. /\ AllFit(program, own, args) /\ Len(args) = n - 1 /\ n \in 1..Len(top.stack)
        /\ ValueFits(program, own, rcvr) /\ Len(top.stack) \in Nat
    BY ArgumentsFit
  <1>5. ScopedActivation(program, own, caller) /\ AwaitsAnswer(program, caller)
    BY AfterArgsScoped
  <1>6. Arity["global:put:"] = 3
    BY Parts DEF ScopesFit
  <1>7. Selector = "global:put:" => n = 3
    BY <1>6
  <1>8. /\ inv[1] = "method" => inv[2] \in Reached(program) /\ SelfFits(program, own, inv[2], rcvr)
        /\ inv[1] = "method" /\ Method(inv[2]).kind = "field_write" =>
             Method(inv[2]).arg \in 1..(n - 1)
        /\ inv[1] = "primitive" /\ inv[2] \in SystemPrimitives => inv[2] = Selector
    BY DEF Finds
  <1>9. entry # 5 => entry = n
    OBVIOUS
  <1> HIDE DEF n, inv, rcvr, args, caller
  <1>10. /\ call.inv = inv /\ call.rcvr = rcvr /\ call.args = args /\ call.n = entry
    BY DEF Call
  <1>11. CallFits(P, call)
    BY <1>1, <1>2 DEF CallFits, Call
  <1> HIDE DEF call
  <1>12. CallScoped(program, own, call)
    <2>1. inv[1] = "method" /\ MethodOf(program, inv[2]).kind = "field_write" =>
            MethodOf(program, inv[2]).arg - 1 \in 0..Len(args)
      <3>1. ASSUME NEW arg \in 1..(n - 1) PROVE arg - 1 \in 0..Len(args)
        BY <1>4
      <3> QED BY <1>8, <3>1, MethodHere
    <2>2. inv[1] = "primitive" /\ inv[2] = "global:put:" => Len(args) = 2
      BY <1>4, <1>7, <1>8 DEF SystemPrimitives
    <2> QED BY <1>4, <1>8, <1>9, <1>10, <2>1, <2>2 DEF CallScoped
  <1> QED BY <1>2, <1>3, <1>5, <1>11, <1>12, PerformScoped

LEMMA NotUnderstoodScoped ==
  ASSUME NEW own, Works(own), ~top.escaped, bc \in SendLike,
         SendDoesNotUnderstand(Arity[Selector])
  PROVE  After
  <1> DEFINE n == Arity[Selector]
             rcvr == FromTop(n - 1)
             name == <<"sym", Selector>>
             array == <<"array", Args(n)>>
             inv == Lookup(ClassOf(rcvr), "doesNotUnderstand:arguments:")
             args == <<name, array>>
             call == Call(inv, rcvr, args, 3, FALSE)
             caller == AfterArgs(n)
  <1>1. IsInvokable(P, inv) /\ IsArguments(P, args)
    BY Parts, FoundByName, Harmless, Pair
  <1>2. /\ ActivationFits(program, caller) /\ Len(caller.stack) > 0
        /\ NamesAMethod(P, rcvr)
    BY Parts, SendingFits
  <1>3. Perform(call, caller)
    BY DEF SendDoesNotUnderstand
  <1>4. ValueFits(program, own, rcvr)
    BY ArgumentsFit
  <1>5. ScopedActivation(program, own, caller) /\ AwaitsAnswer(program, caller)
    BY AfterArgsScoped
  <1>6. ValueFits(program, own, name) /\ ValueFits(program, own, array)
    BY ThePlain, PlainFits
  <1> HIDE DEF name, array
  <1>7. AllFit(program, own, args) /\ Len(args) = 2
    BY <1>6, TwoArguments
  <1>8. /\ inv[1] = "method" => inv[2] \in Reached(program) /\ SelfFits(program, own, inv[2], rcvr)
        /\ inv[1] = "primitive" /\ inv[2] \in SystemPrimitives =>
             inv[2] = "doesNotUnderstand:arguments:"
    <2> HIDE DEF rcvr
    <2> QED BY <1>4, FoundFits
  <1> HIDE DEF n, inv, rcvr, args, caller
  <1>9. /\ call.inv = inv /\ call.rcvr = rcvr /\ call.args = args /\ call.n = 3
    BY DEF Call
  <1>10. CallFits(P, call)
    BY <1>1, <1>2 DEF CallFits, Call
  <1> HIDE DEF call
  <1>11. CallScoped(program, own, call)
    BY <1>4, <1>7, <1>8, <1>9 DEF CallScoped, SystemPrimitives
  <1> QED BY <1>2, <1>3, <1>5, <1>10, <1>11, PerformScoped

LEMMA SendScoped ==
  ASSUME NEW own, Works(own), ~top.escaped, bc \in SendLike, NEW tier2, Send(tier2)
  PROVE  After
  <1> DEFINE n == Arity[Selector]
             rcvr == FromTop(n - 1)
             class == ClassOf(rcvr)
  <1>1. \/ UNCHANGED <<acts, heap>>
        \/ Perform(Call(Lookup(class, Selector), rcvr, Args(n), Entry(n), tier2), AfterArgs(n))
        \/ SendDoesNotUnderstand(n)
    BY DEF Send
  <1>2. CASE UNCHANGED <<acts, heap>>
    BY <1>2, NothingDone DEF heap
  <1>3. CASE Perform(Call(Lookup(class, Selector), rcvr, Args(n), Entry(n), tier2),
                     AfterArgs(n))
    <2>1. ValueFits(program, own, rcvr) /\ n \in Nat /\ n > 0
      BY ArgumentsFit
    <2>2. Finds(own, Lookup(class, Selector), Selector, rcvr)
      <3> DEFINE selector == Selector
      <3> HIDE DEF rcvr, selector
      <3>1. Finds(own, Lookup(ClassOf(rcvr), selector), selector, rcvr)
        BY <2>1, FoundFits DEF Finds
      <3> QED BY <3>1 DEF selector, rcvr
    <2>3. Entry(n) \in 1..5 /\ (Entry(n) # 5 => Entry(n) = n)
      <3> HIDE DEF n
      <3> QED BY <2>1 DEF Entry
    <2> HIDE DEF class
    <2> QED BY <1>3, <2>2, <2>3, SendFoundScoped
  <1>4. CASE SendDoesNotUnderstand(n)
    BY <1>4, NotUnderstoodScoped
  <1> QED BY <1>1, <1>2, <1>3, <1>4

---------------------------------------------------------------------------
(* Rewritten instructions keep their variable.                             *)

\* An instruction whose cells stay is resolved as before.
LEMMA ResolvedStays ==
  ASSUME NEW p, NEW m, NEW cells, NEW pc \in Nat, CellResolved(p, m, cells, pc), NEW after,
         \A i \in (pc + 1)..NextAt(cells, pc) : after[i] = cells[i]
  PROVE  CellResolved(p, m, after, pc)
  <1> DEFINE op == cells[pc + 1]
             length == BytecodeLength(op)
  <1>1. /\ length \in 1..3
        /\ op \in OnFrame \cup OnInner => length >= 2
        /\ op \in {"push_inner", "pop_inner"} => length = 3
    BY TheLongJumps DEF BytecodeLength, OnFrame, OnInner, PushFrame, PushInner, PopFrame,
       PopInner, Unresolved, Jumps, ShortJumps, Sends, QuickSuperSends, PushBlock
  <1>2. NextAt(cells, pc) = pc + length
    BY DEF NextAt
  <1> HIDE DEF op, length
  <1>3. /\ pc + 1 \in (pc + 1)..NextAt(cells, pc)
        /\ length >= 2 => pc + 2 \in (pc + 1)..NextAt(cells, pc)
        /\ length = 3 => pc + 3 \in (pc + 1)..NextAt(cells, pc)
    BY <1>1, <1>2
  <1>4. /\ after[pc + 1] = op /\ cells[pc + 1] = op
        /\ op \in OnFrame \cup OnInner => after[pc + 2] = cells[pc + 2]
        /\ op \in {"push_inner", "pop_inner"} => after[pc + 3] = cells[pc + 3]
    BY <1>1, <1>3 DEF op
  <1>5. op \in OnFrame \cup OnInner => SlotIn(after, pc) = SlotIn(cells, pc)
    BY <1>4 DEF SlotIn
  <1> QED BY <1>4, <1>5 DEF CellResolved

\* Code of which one instruction is rewritten.
LEMMA RewrittenResolved ==
  ASSUME NEW own, Works(own), NEW after,
         \A i \in 1..Len(Here.code) :
           i \notin (top.pc + 1)..NextAt(Here.code, top.pc) => after[i] = code[top.m][i],
         CellResolved(program, top.m, after, top.pc),
         code' = [code EXCEPT ![top.m] = after]
  PROVE  CellsResolved(program, code')
  <1> DEFINE cells == code[top.m]
  <1>1. /\ IsCode(Here) /\ CellsFit(Here, cells) /\ top.pc \in Here.starts
        /\ IsStackMap(Here, HeightHere) /\ top.m \in DOMAIN code /\ Here.kind = "bytecodes"
    BY Parts, AtInstruction
  <1>2. MethodOf(program, top.m) = Here /\ top.m \in Reached(program)
        /\ HeightHere = Height(program, top.m)
    BY AtScopes DEF HeightHere
  <1> HIDE DEF cells
  <1>3. ASSUME NEW pc \in DOMAIN Height(program, top.m)
        PROVE  CellResolved(program, top.m, after, pc)
    <2>1. pc \in Here.starts
      BY <1>1, <1>2 DEF IsStackMap
    <2>2. CASE pc # top.pc
      <3>1. CellResolved(program, top.m, cells, pc)
        BY <1>1, <1>2, Parts DEF CellsResolved, HasCode, cells
      <3>2. /\ NextAt(Here.code, top.pc) \in Nat /\ NextAt(Here.code, pc) \in Nat
            /\ NextAt(Here.code, pc) <= Len(Here.code)
            /\ pc < top.pc => NextAt(Here.code, pc) <= top.pc
            /\ top.pc < pc => NextAt(Here.code, top.pc) <= pc
        BY <1>1, <2>1, <2>2, OperandsApart
      <3>3. /\ pc \in Nat /\ top.pc \in Nat /\ NextAt(cells, pc) = NextAt(Here.code, pc)
            /\ Len(Here.code) \in Nat
        BY <1>1, <2>1, AtCell DEF IsCode, IsSequence
      <3>4. \A i \in (pc + 1)..NextAt(cells, pc) :
              i \in 1..Len(Here.code) /\ i \notin (top.pc + 1)..NextAt(Here.code, top.pc)
        BY <2>2, <3>2, <3>3
      <3>5. \A i \in (pc + 1)..NextAt(cells, pc) : after[i] = cells[i]
        BY <3>4 DEF cells
      <3> QED BY <3>1, <3>3, <3>5, ResolvedStays
    <2> QED BY <2>2
  <1>4. \A m \in Reached(program) : m # top.m => code'[m] = code[m]
    BY <1>1
  <1>5. code'[top.m] = after
    BY <1>1
  <1> QED BY <1>3, <1>4, <1>5, Parts DEF CellsResolved

\* The cells of the instruction as patch_variable_access leaves them.
LEMMA CellsOfPatch ==
  ASSUME NEW own, Works(own), bc \in Unresolved
  PROVE  /\ PatchedCells[top.pc + 1] = ResolvedOp(Accessed)
         /\ PatchedCells[top.pc + 2] = Accessed.access
         /\ \A i \in 1..Len(Here.code) : i # top.pc + 1 /\ i # top.pc + 2 =>
              PatchedCells[i] = code[top.m][i]
         /\ top.pc + 1 \in (top.pc + 1)..NextAt(Here.code, top.pc)
         /\ top.pc + 2 \in (top.pc + 1)..NextAt(Here.code, top.pc)
         /\ bc # "nil_local" => top.pc + 3 \in 1..Len(Here.code)
         /\ top.pc \in Nat
  <1> DEFINE cells == code[top.m]
             op == ResolvedOp(Accessed)
             slot == Accessed.access
             once == ReplaceAt(cells, top.pc + 1, op)
             twice == ReplaceAt(once, top.pc + 2, slot)
  <1>1. twice = PatchedCells
    BY DEF PatchedCells
  <1>2. /\ IsCode(Here) /\ CellsFit(Here, cells) /\ top.pc \in Here.starts
        /\ NextPc = NextAt(Here.code, top.pc) /\ top.pc \in Nat
        /\ top.pc + 1 \in 1..Len(Here.code)
    BY Parts, AtInstruction, CompiledAs
  <1> HIDE DEF cells, op, slot
  <1>3. /\ IsSequence(cells) /\ Len(cells) = Len(Here.code) /\ Len(Here.code) \in Nat
        /\ NextAt(Here.code, top.pc) \in 0..Len(Here.code)
    BY <1>2 DEF CellsFit, IsCode, IsSequence
  <1>4. BytecodeLength(bc) = IF bc = "nil_local" THEN 2 ELSE 3
    BY TheLongJumps DEF BytecodeLength, Unresolved, PushFrame, PushInner, PopFrame,
       PopInner, Jumps, ShortJumps, Sends, QuickSuperSends, PushBlock
  <1>5. NextAt(Here.code, top.pc) = top.pc + BytecodeLength(bc)
    BY <1>2 DEF NextPc
  <1>6. /\ top.pc + 2 \in 1..Len(Here.code)
        /\ bc # "nil_local" => top.pc + 3 \in 1..Len(Here.code)
        /\ top.pc + 1 \in (top.pc + 1)..NextAt(Here.code, top.pc)
        /\ top.pc + 2 \in (top.pc + 1)..NextAt(Here.code, top.pc)
    BY <1>2, <1>3, <1>4, <1>5
  <1>7. /\ IsSequence(once) /\ Len(once) = Len(Here.code) /\ once[top.pc + 1] = op
        /\ \A j \in 1..Len(Here.code) : j # top.pc + 1 => once[j] = cells[j]
    BY <1>2, <1>3, Replaced
  <1> HIDE DEF once
  <1>8. /\ twice[top.pc + 2] = slot
        /\ \A j \in 1..Len(Here.code) : j # top.pc + 2 => twice[j] = once[j]
    BY <1>6, <1>7, Replaced
  <1> HIDE DEF twice
  <1>9. twice[top.pc + 1] = op
    BY <1>2, <1>7, <1>8
  <1>10. \A j \in 1..Len(Here.code) : j # top.pc + 1 /\ j # top.pc + 2 => twice[j] = cells[j]
    BY <1>7, <1>8
  <1> QED BY <1>1, <1>2, <1>6, <1>8, <1>9, <1>10 DEF cells, op, slot

\* The instruction that replaces the first use of a variable.
LEMMA ResolvedOpFits ==
  ASSUME bc \in Unresolved, NEW v, v.access \in Nat
  PROVE  /\ ResolvedOp(v) \in IF v.out THEN OnInner ELSE OnFrame
         /\ ResolvedOp(v) \in {"push_frame", "pop_frame", "nil_frame", "push_inner",
                               "pop_inner", "nil_inner"}
            \/ /\ ContextOf(bc) = 0
               /\ \/ /\ v.access = RcvrIdx
                     /\ ResolvedOp(v) \in {"push_frame_0", "push_inner_0", "pop_frame_0",
                                           "pop_inner_0"}
                  \/ /\ v.access = RcvrIdx + 1
                     /\ ResolvedOp(v) \in {"push_frame_1", "push_inner_1", "pop_frame_1",
                                           "pop_inner_1"}
                  \/ /\ v.access = RcvrIdx + 2
                     /\ ResolvedOp(v) \in {"push_frame_2", "push_inner_2", "pop_frame_2",
                                           "pop_inner_2"}
         /\ bc = "nil_local" => ResolvedOp(v) \in {"nil_frame", "nil_inner"}
         /\ bc # "nil_local" => ResolvedOp(v) \notin {"nil_frame", "nil_inner"}
  <1> DEFINE d == v.access - RcvrIdx
             near == ContextOf(bc) = 0 /\ d \in 0..2 /\ bc # "nil_local"
             n == IF near THEN d + 2 ELSE 1
  <1>1. /\ n \in 1..4 /\ (bc = "nil_local" => n = 1)
        /\ n = 1 \/ /\ ContextOf(bc) = 0
                    /\ \/ n = 2 /\ v.access = RcvrIdx
                       \/ n = 3 /\ v.access = RcvrIdx + 1
                       \/ n = 4 /\ v.access = RcvrIdx + 2
    BY DEF RcvrIdx
  <1> HIDE DEF n
  <1>2. CASE bc \in {"push_local", "push_argument"}
    <2>1. ResolvedOp(v) =
            (IF v.out THEN <<"push_inner", "push_inner_0", "push_inner_1", "push_inner_2">>
             ELSE <<"push_frame", "push_frame_0", "push_frame_1", "push_frame_2">>)[n]
      BY <1>2 DEF ResolvedOp, n
    <2>2. CASE v.out
      BY <1>1, <1>2, <2>1, <2>2 DEF OnInner, PushInner
    <2>3. CASE ~v.out
      BY <1>1, <1>2, <2>1, <2>3 DEF OnFrame, PushFrame
    <2> QED BY <2>2, <2>3
  <1>3. CASE bc \in {"pop_local", "pop_argument"}
    <2>1. ResolvedOp(v) =
            (IF v.out THEN <<"pop_inner", "pop_inner_0", "pop_inner_1", "pop_inner_2">>
             ELSE <<"pop_frame", "pop_frame_0", "pop_frame_1", "pop_frame_2">>)[n]
      BY <1>3 DEF ResolvedOp, n
    <2>2. CASE v.out
      BY <1>1, <1>3, <2>1, <2>2 DEF OnInner, PopInner
    <2>3. CASE ~v.out
      BY <1>1, <1>3, <2>1, <2>3 DEF OnFrame, PopFrame
    <2> QED BY <2>2, <2>3
  <1>4. CASE bc = "nil_local"
    <2>1. ResolvedOp(v) = (IF v.out THEN <<"nil_inner">> ELSE <<"nil_frame">>)[n]
      BY <1>4 DEF ResolvedOp, n
    <2>2. CASE v.out
      BY <1>1, <1>4, <2>1, <2>2 DEF OnInner
    <2>3. CASE ~v.out
      BY <1>1, <1>4, <2>1, <2>3 DEF OnFrame
    <2> QED BY <2>2, <2>3
  <1> QED BY <1>2, <1>3, <1>4 DEF Unresolved

\* The variable of an instruction that was not executed yet.
LEMMA AccessedHere ==
  ASSUME NEW own, Works(own), bc \in Unresolved
  PROVE  /\ Compiled = bc /\ Accessed = VariableHere /\ ContextOf(bc) = ContextHere
         /\ Accessed.access \in Nat
         /\ bc # "nil_local" => ContextHere = code[top.m][top.pc + 3]
  <1>1. Compiled = bc
    BY Parts, NotRewritten
       DEF Unresolved, PushFrame, PushInner, PopFrame, PopInner, QuickSuperSends
  <1>2. BytecodeLength(bc) = IF bc = "nil_local" THEN 2 ELSE 3
    BY TheLongJumps DEF BytecodeLength, Unresolved, PushFrame, PushInner, PopFrame,
       PopInner, Jumps, ShortJumps, Sends, QuickSuperSends, PushBlock
  <1>3. /\ Operand(1) = Here.code[top.pc + 2]
        /\ bc # "nil_local" => Operand(2) = Here.code[top.pc + 3]
    BY <1>1, <1>2, Parts, AsCompiled
  <1>4. /\ CodeScopesFit(program, top.m) /\ MethodOf(program, top.m) = Here
        /\ top.pc \in DOMAIN Height(program, top.m) /\ top.pc \in Nat
    BY AtScopes, NamesHere
  <1>5. ContextOf(bc) = ContextHere
    BY <1>1, <1>3 DEF ContextOf, ContextHere, ContextAt, Compiled
  <1>6. Accessed = VariableHere
    BY <1>1, <1>3, <1>4, <1>5
       DEF Accessed, VariableHere, VariableAt, ContextHere, Compiled, P
  <1>7. VariableFits(program, top.m, top.pc)
    BY <1>1, <1>4 DEF CodeScopesFit, NamesFit, Compiled
  <1>8. VariableHere.access \in Nat
    BY <1>7 DEF VariableFits, VariableHere
  <1>9. bc # "nil_local" => Operand(2) = code[top.m][top.pc + 3]
    BY <1>4 DEF Operand
  <1>10. bc # "nil_local" => ContextHere = Here.code[top.pc + 3]
    BY <1>1 DEF ContextHere, ContextAt, Compiled
  <1> QED BY <1>1, <1>3, <1>5, <1>6, <1>8, <1>9, <1>10

\* The rewritten instruction goes where the verifier says the variable is.
LEMMA PatchedResolved ==
  ASSUME NEW own, Works(own), bc \in Unresolved
  PROVE  CellResolved(program, top.m, PatchedCells, top.pc)
  <1> DEFINE op == ResolvedOp(Accessed)
             slot == Accessed.access
  <1>1. /\ Compiled = bc /\ Accessed = VariableHere /\ ContextOf(bc) = ContextHere
        /\ slot \in Nat
        /\ bc # "nil_local" => ContextHere = code[top.m][top.pc + 3]
    BY AccessedHere
  <1>2. /\ PatchedCells[top.pc + 1] = op /\ PatchedCells[top.pc + 2] = slot
        /\ \A i \in 1..Len(Here.code) : i # top.pc + 1 /\ i # top.pc + 2 =>
             PatchedCells[i] = code[top.m][i]
        /\ bc # "nil_local" => top.pc + 3 \in 1..Len(Here.code)
        /\ top.pc \in Nat
    BY CellsOfPatch
  <1>3. /\ op \in IF Accessed.out THEN OnInner ELSE OnFrame
        /\ op \in {"push_frame", "pop_frame", "nil_frame", "push_inner", "pop_inner",
                   "nil_inner"}
           \/ /\ ContextOf(bc) = 0
              /\ \/ /\ slot = RcvrIdx
                    /\ op \in {"push_frame_0", "push_inner_0", "pop_frame_0", "pop_inner_0"}
                 \/ /\ slot = RcvrIdx + 1
                    /\ op \in {"push_frame_1", "push_inner_1", "pop_frame_1", "pop_inner_1"}
                 \/ /\ slot = RcvrIdx + 2
                    /\ op \in {"push_frame_2", "push_inner_2", "pop_frame_2", "pop_inner_2"}
        /\ bc = "nil_local" => op \in {"nil_frame", "nil_inner"}
        /\ bc # "nil_local" => op \notin {"nil_frame", "nil_inner"}
    BY <1>1, ResolvedOpFits
  <1>4. MethodOf(program, top.m) = Here
    BY AtScopes
  <1>5. bc = "nil_local" => ContextHere = 0
    BY <1>1 DEF ContextOf
  <1> HIDE DEF op, slot
  <1>6. SlotIn(PatchedCells, top.pc) = slot
    BY <1>2, <1>3 DEF SlotIn
  <1>7. bc # "nil_local" => PatchedCells[top.pc + 3] = ContextHere
    <2>1. top.pc + 3 # top.pc + 1 /\ top.pc + 3 # top.pc + 2
      BY <1>2
    <2> QED BY <1>1, <1>2, <2>1
  <1>8. op \in OnInner =>
          ContextHere = IF op \in {"push_inner", "pop_inner"}
                        THEN PatchedCells[top.pc + 3] ELSE 0
    BY <1>1, <1>3, <1>5, <1>7 DEF OnInner, PushInner, PopInner
  <1>9. op \notin QuickSuperSends
    BY <1>3 DEF OnInner, OnFrame, PushInner, PopInner, PushFrame, PopFrame, QuickSuperSends
  <1>10. /\ Here.code[top.pc + 1] \in Unresolved
         /\ slot = VariableHere.access
         /\ op \in IF VariableHere.out THEN OnInner ELSE OnFrame
    BY <1>1, <1>3 DEF Compiled, slot
  <1> QED BY <1>2, <1>4, <1>6, <1>8, <1>9, <1>10
     DEF CellResolved, VariableHere, ContextHere

LEMMA PatchScoped ==
  ASSUME NEW own, Works(own), bc \in Unresolved, Patch
  PROVE  After /\ CellsResolved(program, code')
  <1>1. code' = [code EXCEPT ![top.m] = PatchedCells] /\ UNCHANGED <<acts, heap>>
    BY DEF Patch, PatchedCells
  <1>2. After
    BY <1>1, NothingDone DEF heap
  <1>3. /\ \A i \in 1..Len(Here.code) : i # top.pc + 1 /\ i # top.pc + 2 =>
             PatchedCells[i] = code[top.m][i]
        /\ top.pc + 1 \in (top.pc + 1)..NextAt(Here.code, top.pc)
        /\ top.pc + 2 \in (top.pc + 1)..NextAt(Here.code, top.pc)
    BY CellsOfPatch
  <1>4. CellResolved(program, top.m, PatchedCells, top.pc)
    BY PatchedResolved
  <1> DEFINE after == PatchedCells
  <1>5. after = PatchedCells
    OBVIOUS
  <1> HIDE DEF after
  <1>6. \A i \in 1..Len(Here.code) :
          i \notin (top.pc + 1)..NextAt(Here.code, top.pc) => after[i] = code[top.m][i]
    BY <1>3, <1>5
  <1>7. CellsResolved(program, code')
    BY <1>1, <1>4, <1>5, <1>6, RewrittenResolved
  <1> QED BY <1>2, <1>7

\* A method of objects that a super send finds gets the object.
LEMMA SuperFinds ==
  ASSUME NEW own, Works(own), ~top.escaped, bc \in SendLike, Compiled = "super_send",
         Understands(SuperClass, Selector)
  PROVE  Finds(own, Lookup(SuperClass, Selector), Selector, FromTop(Arity[Selector] - 1))
  <1> DEFINE n == Arity[Selector]
             rcvr == FromTop(n - 1)
             inv == Lookup(SuperClass, Selector)
  <1>1. /\ EntryFits(program, Selector, inv)
        /\ SuperClass \in DOMAIN P.classes
        /\ Selector \in DOMAIN P.classes[SuperClass].methods
        /\ inv = P.classes[SuperClass].methods[Selector]
    <2> DEFINE class == SuperClass
               selector == Selector
    <2>1. Understands(class, selector)
      OBVIOUS
    <2> HIDE DEF class, selector
    <2>2. /\ EntryFits(program, selector, Lookup(class, selector))
          /\ class \in DOMAIN P.classes /\ selector \in DOMAIN P.classes[class].methods
          /\ Lookup(class, selector) = P.classes[class].methods[selector]
      BY <2>1, ScopedLookup
    <2> QED BY <2>2 DEF class, selector
  <1>2. /\ ValueFits(program, own, rcvr) /\ rcvr = top.stack[Len(top.stack) - n + 1]
        /\ n = ArgsHere
    BY ArgumentsFit, Parts, ArgumentsOfSend
  <1>3. /\ CodeScopesFit(program, top.m) /\ MethodOf(program, top.m) = Here
        /\ top.pc \in DOMAIN Height(program, top.m) /\ SelvesHold(program, top)
        /\ Height(program, top.m)[top.pc] = Len(top.stack)
    BY AtScopes
  <1>4. Selector = Here.literals[Here.code[top.pc + 2] + 1][2]
    <2>1. BytecodeLength(bc) = 2
      BY TheLongJumps DEF BytecodeLength, SendLike, Sends, QuickSuperSends, PushBlock, Jumps,
         ShortJumps, Unresolved, PushFrame, PushInner, PopFrame, PopInner
    <2>2. Operand(1) = Here.code[top.pc + 2]
      BY <2>1, Parts, AsCompiled
    <2> QED BY <2>2 DEF Selector, Literal, Here
  <1>5. SuperClass = Programs[program].classes[Here.class].super
    BY DEF SuperClass, Here, P
  <1>6. SuperFits(program, top.m, top.pc)
    BY <1>3 DEF CodeScopesFit, Compiled
  <1>7. ASSUME inv[1] = "method", OfObjects(program, inv[2])
        PROVE  rcvr[1] = "obj"
    <2>1. inv[2] \in Reached(program)
      BY <1>1, <1>7 DEF EntryFits
    <2>2. Names(inv, inv[2])
      BY <1>7 DEF Names
    <2>3. Len(top.stack) - n + 1 \in Selves(program, top.m)[top.pc]
      <3> HIDE DEF inv, n
      <3> QED BY <1>1, <1>2, <1>3, <1>4, <1>5, <1>6, <1>7, <2>1, <2>2
             DEF SuperFits, ArgsHere, P
    <2> QED BY <1>2, <1>3, <2>3 DEF SelvesHold
  <1> HIDE DEF inv, rcvr, n
  <1>8. inv[1] = "method" =>
          inv[2] \in Reached(program) /\ SelfFits(program, own, inv[2], rcvr)
    BY <1>1, <1>2, <1>7 DEF EntryFits, SelfFits
  <1>9. inv[1] = "method" /\ Method(inv[2]).kind = "field_write" =>
          Method(inv[2]).arg \in 1..(Arity[Selector] - 1)
    BY <1>1, MethodHere DEF EntryFits
  <1>10. inv[1] = "primitive" /\ inv[2] \in SystemPrimitives => inv[2] = Selector
    BY <1>1 DEF EntryFits
  <1>11. Finds(own, inv, Selector, rcvr)
    BY <1>8, <1>9, <1>10 DEF Finds
  <1> QED BY <1>11 DEF inv, rcvr, n

\* A super send is rewritten to one for as many arguments as it has.
LEMMA SuperSendResolved ==
  ASSUME NEW own, Works(own), bc = "super_send", NEW quick \in QuickSuperSends,
         quick # "q_super_send_n" => Arity[Selector] <= 4,
         code' = [code EXCEPT ![top.m] = ReplaceAt(@, top.pc + 1, quick)]
  PROVE  CellsResolved(program, code')
  <1> DEFINE cells == code[top.m]
             after == ReplaceAt(cells, top.pc + 1, quick)
  <1>1. /\ IsCode(Here) /\ CellsFit(Here, cells) /\ NextPc = NextAt(Here.code, top.pc)
        /\ top.pc \in Nat /\ top.pc + 1 \in 1..Len(Here.code)
        /\ MethodOf(program, top.m) = Here
    BY Parts, AtInstruction, CompiledAs, AtScopes
  <1>2. BytecodeLength(bc) \in 1..3
    BY TheLongJumps DEF BytecodeLength, Unresolved, PushFrame, PushInner, PopFrame,
       PopInner, Jumps, ShortJumps, Sends, QuickSuperSends, PushBlock
  <1>3. top.pc + 1 \in (top.pc + 1)..NextAt(Here.code, top.pc)
    BY <1>1, <1>2 DEF NextPc
  <1>4. code' = [code EXCEPT ![top.m] = after]
    OBVIOUS
  <1>5. Arity[Selector] = ArgsHere
    BY Parts, ArgumentsOfSend DEF SendLike
  <1> HIDE DEF cells
  <1>6. IsSequence(cells) /\ Len(cells) = Len(Here.code) /\ Len(Here.code) \in Nat
    BY <1>1 DEF CellsFit, IsCode, IsSequence
  <1>7. /\ after[top.pc + 1] = quick
        /\ \A j \in 1..Len(Here.code) : j # top.pc + 1 => after[j] = cells[j]
    BY <1>1, <1>6, Replaced
  <1> HIDE DEF after
  <1>8. \A i \in 1..Len(Here.code) :
          i \notin (top.pc + 1)..NextAt(Here.code, top.pc) => after[i] = code[top.m][i]
    BY <1>3, <1>7 DEF cells
  <1>9. CellResolved(program, top.m, after, top.pc)
    <2>1. quick \notin OnFrame \cup OnInner
      BY DEF QuickSuperSends, OnFrame, OnInner, PushFrame, PopFrame, PushInner, PopInner
    <2>2. quick # "q_super_send_n" => ArgsAt(MethodOf(program, top.m), top.pc) <= 4
      BY <1>1, <1>5 DEF ArgsHere
    <2> QED BY <1>7, <2>1, <2>2 DEF CellResolved
  <1> QED BY <1>4, <1>8, <1>9, RewrittenResolved

LEMMA SuperSendScoped ==
  ASSUME NEW own, Works(own), ~top.escaped, bc = "super_send",
         NEW quick \in QuickSuperSends, quick # "q_super_send_n" => Arity[Selector] <= 4,
         SuperSend(quick)
  PROVE  After /\ CellsResolved(program, code')
  <1> DEFINE n == Arity[Selector]
             entry == SlowEntry(n)
             tier2 == FALSE
             class == SuperClass
  <1>1. bc \in SendLike /\ Compiled = "super_send"
    BY Parts, NotRewritten
       DEF SendLike, PushFrame, PushInner, PopFrame, PopInner, QuickSuperSends
  <1>2. CASE Understands(class, Selector)
    <2>1. /\ code' = [code EXCEPT ![top.m] = ReplaceAt(@, top.pc + 1, quick)]
          /\ Perform(Call(Lookup(class, Selector), FromTop(n - 1), Args(n), entry, tier2),
                     AfterArgs(n))
      BY <1>2 DEF SuperSend
    <2>2. CellsResolved(program, code')
      BY <2>1, SuperSendResolved
    <2>3. entry \in 1..5 /\ (entry # 5 => entry = n)
      <3>1. n \in Nat /\ n > 0
        BY <1>1, ArgumentsFit
      <3> HIDE DEF n
      <3> QED BY <3>1 DEF SlowEntry
    <2>4. Finds(own, Lookup(class, Selector), Selector, FromTop(n - 1))
      BY <1>1, <1>2, SuperFinds
    <2> HIDE DEF entry, tier2, class
    <2> QED BY <1>1, <2>1, <2>2, <2>3, <2>4, SendFoundScoped
  <1>3. CASE ~Understands(class, Selector)
    <2>1. UNCHANGED <<code, acts, heap>>
      BY <1>3 DEF SuperSend
    <2>2. CellsResolved(program, code')
      BY <2>1, Parts
    <2> QED BY <2>1, <2>2, NothingDone DEF heap
  <1> QED BY <1>2, <1>3

LEMMA SuperSendAgainScoped ==
  ASSUME NEW own, Works(own), ~top.escaped, bc \in QuickSuperSends, NEW tier2,
         SuperSendAgain(tier2)
  PROVE  After
  <1> DEFINE n == Arity[Selector]
             entry == IF bc = "q_super_send_n" THEN 5 ELSE n
             class == SuperClass
             call == Call(Lookup(class, Selector), FromTop(n - 1), Args(n), entry, tier2)
  <1>1. Perform(call, AfterArgs(n))
    BY DEF SuperSendAgain
  <1>2. bc \in SendLike
    BY DEF SendLike
  <1>3. Compiled = "super_send"
    <2>1. bc \in Variants(Compiled)
      BY Parts, CompiledAs
    <2>2. Compiled \notin QuickSuperSends
      BY Parts, AtInstruction DEF IsCode, Compiled
    <2> QED BY <2>1, <2>2 DEF Variants, QuickSuperSends, PushFrame, PushInner, PopFrame,
               PopInner
  <1>4. entry \in 1..5 /\ (entry # 5 => entry = n)
    <2>1. n \in Nat /\ n > 0 /\ n = ArgsHere
      BY <1>2, ArgumentsFit, Parts, ArgumentsOfSend
    <2>2. /\ top.m \in Reached(program) /\ MethodOf(program, top.m) = Here
          /\ Here.kind = "bytecodes" /\ top.pc \in DOMAIN Height(program, top.m)
      BY Parts, AtScopes, AtInstruction
    <2>3. CellResolved(program, top.m, code[top.m], top.pc)
      BY <2>2, Parts DEF CellsResolved, HasCode
    <2>4. bc # "q_super_send_n" => ArgsHere <= 4
      BY <2>2, <2>3 DEF CellResolved, bc, ArgsHere
    <2> HIDE DEF n
    <2> QED BY <2>1, <2>4
  <1>5. CASE Understands(class, Selector)
    <2>1. Finds(own, Lookup(class, Selector), Selector, FromTop(n - 1))
      BY <1>2, <1>3, <1>5, SuperFinds
    <2> HIDE DEF entry, class
    <2> QED BY <1>1, <1>2, <1>4, <2>1, SendFoundScoped
  <1>6. CASE ~Understands(class, Selector)
    <2>1. call.inv = NoInvokable
      BY <1>6 DEF Call, Lookup
    <2> DEFINE caller == AfterArgs(n)
    <2> HIDE DEF call, caller
    <2> QED BY <1>1, <2>1, NothingPerformed DEF caller
  <1> QED BY <1>5, <1>6

---------------------------------------------------------------------------
(* Returns and the contexts they end.                                      *)

\* Clearing a marker leaves the variables of the inner.
LEMMA MarkersScoped ==
  ASSUME NEW p, NEW own, ScopedInners(p, own, inners), NEW k
  PROVE  ScopedInners(p, own, InnersAfter(k))
  <1> DEFINE after == InnersAfter(k)
             cleared(i) == [inners[i] EXCEPT ![1] = Bool(FALSE)]
  <1>1. /\ IsSequence(inners) /\ Len(inners) \in Nat /\ DOMAIN inners = 1..Len(inners)
        /\ DOMAIN own = 1..Len(inners)
        /\ \A i \in 1..Len(inners) :
             own[i] \in Reached(p) /\ InnerFits(p, own, own[i], inners[i])
    BY SequenceType DEF ScopedInners
  <1>2. ASSUME NEW i \in 1..Len(inners) PROVE InnerFits(p, own, own[i], cleared(i))
    <2> DEFINE inner == inners[i]
               no == Bool(FALSE)
               new == ReplaceAt(inner, 1, no)
    <2>1. new = cleared(i)
      BY DEF ReplaceAt
    <2>2. InnerFits(p, own, own[i], inner) /\ IsSequence(inner) /\ Len(inner) > 1
      BY <1>1 DEF InnerFits
    <2>3. Len(inner) \in Nat
      BY <2>2 DEF IsSequence
    <2> HIDE DEF inner, no, cleared
    <2>4. /\ IsSequence(new) /\ Len(new) = Len(inner)
          /\ \A j \in 1..Len(inner) : j # 1 => new[j] = inner[j]
      BY <2>2, <2>3, Replaced
    <2> HIDE DEF new
    <2>5. \A j \in 2..Len(new) : j \in 1..Len(inner) /\ j # 1
      BY <2>3, <2>4
    <2>6. \A j \in 2..Len(new) : new[j] = inner[j]
      BY <2>4, <2>5
    <2>7. 2 \in 2..Len(new)
      BY <2>2, <2>3, <2>4
    <2>8. InnerFits(p, own, own[i], new)
      BY <2>2, <2>4, <2>6, <2>7 DEF InnerFits
    <2> QED BY <2>1, <2>8
  <1> HIDE DEF cleared
  <1>3. /\ after = [i \in 1..Len(inners) |-> after[i]]
        /\ \A i \in 1..Len(inners) : after[i] = cleared(i) \/ after[i] = inners[i]
    BY <1>1 DEF InnersAfter, cleared
  <1> HIDE DEF after
  <1>4. Len(after) = Len(inners)
    BY <1>1, <1>3
  <1>5. IsSequence(after)
    BY <1>1, <1>3, <1>4 DEF IsSequence
  <1>6. ScopedInners(p, own, after)
    BY <1>1, <1>2, <1>3, <1>4, <1>5 DEF ScopedInners
  <1> QED BY <1>6 DEF after

LEMMA AnswerFromScoped ==
  ASSUME NEW own, Works(own), NEW k \in 1..Len(acts), NEW v, ValueFits(program, own, v),
         AnswerFrom(k, v)
  PROVE  After
  <1>1. /\ ScopedActivations(program, own, acts) /\ ActivationsFit(program, acts)
        /\ ScopedInners(program, own, inners)
        /\ ScopedObjects(program, own, objects) /\ ScopedGlobals(program, own, globals)
    BY Parts
  <1>2. inners' = InnersAfter(k) /\ UNCHANGED <<objects, globals>>
    BY DEF AnswerFrom
  <1>3. /\ ScopedInners(program, own, inners')
        /\ ScopedObjects(program, own, objects') /\ ScopedGlobals(program, own, globals')
    BY <1>1, <1>2, MarkersScoped
  <1>4. ScopedActivations(program, own, acts')
    <2>1. CASE k = 1
      <3>1. acts' = <<>>
        BY <2>1 DEF AnswerFrom
      <3> QED BY <3>1, EmptySequence DEF ScopedActivations
    <2>2. CASE k # 1
      <3> DEFINE n == k - 1
      <3>1. acts' = AnswerTo(acts, n, v)
        BY <2>2 DEF AnswerFrom, AnswerTo
      <3>2. n \in 1..(Len(acts) - 1)
        BY <2>2, Parts, RunningFits
      <3> HIDE DEF n
      <3> QED BY <1>1, <3>1, <3>2, ScopedReturned
    <2> QED BY <2>1, <2>2
  <1> QED BY <1>3, <1>4 DEF After, ScopedMachine

\* What is on top of the stack fits, if there is something.
LEMMA TopFits ==
  ASSUME NEW own, Works(own), Len(top.stack) > 0
  PROVE  ValueFits(program, own, FromTop(0))
  <1> DEFINE s == top.stack
             n == Len(s)
  <1>1. AllFit(program, own, s) /\ n \in Nat /\ n > 0
    BY Parts, AtInstruction, AtScopes
  <1>2. FromTop(0) = Element(s, n - 0) /\ n - 0 = n
    BY <1>1 DEF FromTop
  <1>3. n \in 1..Len(s)
    BY <1>1
  <1> HIDE DEF n, s
  <1> QED BY <1>1, <1>2, <1>3, ElementFits

LEMMA ReturnLocalScoped ==
  ASSUME NEW own, Works(own), bc = "return_local", AnswerFrom(Len(acts), FromTop(0))
  PROVE  After
  <1>1. ValueFits(program, own, FromTop(0))
    BY Parts, AtReturn, TopFits
  <1>2. Len(acts) \in 1..Len(acts)
    BY Parts, RunningFits
  <1> QED BY <1>1, <1>2, AnswerFromScoped

LEMMA ReturnSelfScoped ==
  ASSUME NEW own, Works(own), AnswerFrom(Len(acts), top.frame[RcvrIdx + 1])
  PROVE  After
  <1>1. ValueFits(program, own, top.frame[RcvrIdx + 1])
    BY AtScopes
  <1>2. Len(acts) \in 1..Len(acts)
    BY Parts, RunningFits
  <1> QED BY <1>1, <1>2, AnswerFromScoped

LEMMA ReturnEscapedScoped ==
  ASSUME NEW own, Works(own), ReturnEscaped
  PROVE  After
  <1>1. top.escaped /\ AnswerFrom(Len(acts), FromTop(0))
    BY DEF ReturnEscaped
  <1>2. Len(top.stack) > 0
    BY <1>1, AtScopes DEF ScopedActivation
  <1>3. ValueFits(program, own, FromTop(0))
    BY <1>2, TopFits
  <1>4. Len(acts) \in 1..Len(acts)
    BY Parts, RunningFits
  <1> QED BY <1>1, <1>3, <1>4, AnswerFromScoped

\* The outer self is told of a block that escaped.
LEMMA EscapedFits ==
  ASSUME NEW own, Works(own), NEW v, ValueFits(program, own, v), NEW tier2
  PROVE  CallScoped(program, own, Call(Lookup(ClassOf(OuterSelf(v)), "escapedBlock:"),
                                       OuterSelf(v), <<v>>, 2, tier2))
  <1> DEFINE self == OuterSelf(v)
             inv == Lookup(ClassOf(self), "escapedBlock:")
             args == <<v>>
             c == Call(inv, self, args, 2, tier2)
  <1>1. AllFit(program, own, args) /\ Len(args) = 1
    BY OneArgument
  <1>2. MaybeFits(program, own, self)
    BY Parts, OuterSelfFits
  <1>3. c.inv = inv /\ c.rcvr = self /\ c.args = args /\ c.n = 2
    BY DEF Call
  <1>4. CASE ValueFits(program, own, self)
    <2>1. /\ inv[1] = "method" =>
                inv[2] \in Reached(program) /\ SelfFits(program, own, inv[2], self)
          /\ inv[1] = "primitive" /\ inv[2] \in SystemPrimitives => inv[2] = "escapedBlock:"
      BY <1>4, FoundFits
    <2> HIDE DEF inv, self, args, c
    <2>2. CallScoped(program, own, c)
      BY <1>1, <1>3, <1>4, <2>1 DEF CallScoped, SystemPrimitives
    <2> QED BY <2>2 DEF c, inv, self, args
  <1>5. CASE self = Undefined
    <2>1. ClassOf(self) = "undefined"
      BY <1>5 DEF ClassOf, ClassOfValue, Undefined, NoAnswer
    <2>2. "undefined" \notin DOMAIN P.classes
      BY Parts DEF ScopesFit, TablesFit, P
    <2>3. inv = NoInvokable
      BY <2>1, <2>2 DEF Lookup, Understands
    <2>4. inv[1] # "method" /\ inv[1] # "primitive"
      BY <2>3 DEF NoInvokable
    <2> HIDE DEF inv, self, args, c
    <2>5. CallScoped(program, own, c)
      BY <1>1, <1>3, <2>3, <2>4 DEF CallScoped
    <2> QED BY <2>5 DEF c, inv, self, args
  <1> QED BY <1>2, <1>4, <1>5 DEF MaybeFits

LEMMA ReturnNonLocalScoped ==
  ASSUME NEW own, Works(own), bc = "return_non_local", ReturnNonLocal
  PROVE  After
  <1> DEFINE homes == {k \in DOMAIN acts : acts[k].catches /\ acts[k].frame[1] = Home}
             rcvr == top.frame[RcvrIdx + 1]
             tier2 == FALSE
             self == OuterSelf(rcvr)
             inv == Lookup(ClassOf(self), "escapedBlock:")
             args == <<rcvr>>
             call == Call(inv, self, args, 2, tier2)
             waiting == [top EXCEPT !.escaped = TRUE]
  <1>1. \/ UNCHANGED <<acts, heap>>
        \/ \E k \in homes : AnswerFrom(k, FromTop(0))
        \/ Perform(call, waiting)
    BY DEF ReturnNonLocal
  <1>2. Len(top.stack) > 0 /\ DOMAIN acts = 1..Len(acts)
    BY Parts, AtReturn, RunningFits, CallsFit, SequenceType
  <1>3. CASE UNCHANGED <<acts, heap>>
    BY <1>3, NothingDone DEF heap
  <1>4. CASE \E k \in homes : AnswerFrom(k, FromTop(0))
    <2>1. ValueFits(program, own, FromTop(0))
      BY <1>2, TopFits
    <2> QED BY <1>2, <1>4, <2>1, AnswerFromScoped
  <1>5. CASE Perform(call, waiting)
    <2>1. ValueFits(program, own, rcvr) /\ NamesAMethod(P, rcvr)
      BY AtScopes, Parts, AtInstruction DEF IsFrame, RcvrIdx
    <2>2. CallScoped(program, own, call)
      <3> HIDE DEF rcvr, tier2
      <3> QED BY <2>1, EscapedFits
    <2>3. NamesAMethod(P, self) /\ IsInvokable(P, inv)
      BY Parts, OuterSelfIsNoBlock, FoundByName
    <2>4. IsArguments(P, args)
      BY <2>1, Singleton
    <2>5. CallFits(P, call)
      <3> HIDE DEF self, inv, args
      <3> QED BY <2>3, <2>4 DEF CallFits, Call
    <2>6. /\ DOMAIN waiting = DOMAIN top /\ waiting.m = top.m /\ waiting.frame = top.frame
          /\ waiting.pc = top.pc /\ waiting.stack = top.stack /\ waiting.tier = top.tier
          /\ waiting.escaped
      BY Parts, AtInstruction DEF ActivationFields
    <2> HIDE DEF call, waiting
    <2>7. ActivationFits(program, waiting) /\ Len(waiting.stack) > 0
      BY <1>2, <2>6, Parts, AtInstruction, Goes
    <2>8. ScopedActivation(program, own, waiting) /\ AwaitsAnswer(program, waiting)
      BY <2>6, <2>7, AtScopes DEF ScopedActivation, FrameFits, SelvesHold, AwaitsAnswer
    <2> QED BY <1>5, <2>2, <2>5, <2>7, <2>8, PerformScoped
  <1> QED BY <1>1, <1>3, <1>4, <1>5

---------------------------------------------------------------------------
(* Steps of the machine.                                                   *)

\* The scopes after a step, the rewritten code included.
AfterStep == After /\ CellsResolved(program, code')

LEMMA SameCodeAfter ==
  ASSUME NEW own, Works(own), UNCHANGED code, After
  PROVE  AfterStep
  BY Parts DEF AfterStep

LEMMA AtScopedDispatch ==
  ASSUME NEW ops, Dispatch1(ops) \/ Dispatch2(ops)
  PROVE  ~top.escaped /\ bc \in ops
  BY DEF Dispatch1, Dispatch2

LEMMA VariablesScoped ==
  ASSUME NEW own, Works(own),
         \/ PushTier1 \/ PushGlobalTier1 \/ PopTier1 \/ IncOrDecTier1 \/ PatchTier1
         \/ PushTier2 \/ PushGlobalTier2 \/ PopTier2 \/ IncOrDecTier2 \/ PatchTier2
  PROVE  AfterStep
  <1>1. CASE PushTier1 \/ PushTier2
    <2>1. /\ ~top.escaped /\ bc \in Reads /\ UNCHANGED code /\ Push(PushedValue)
      BY <1>1, AtScopedDispatch, Counting DEF PushTier1, PushTier2
    <2>2. /\ ValueFits(program, own, PushedValue)
          /\ PushesSelf(program, top.m, top.pc) => PushedValue[1] = "obj"
      BY <2>1, ReadsFit
    <2>3. bc \in Reads \cup {"push_global"}
      BY <2>1
    <2> DEFINE v == PushedValue
    <2> HIDE DEF v
    <2>4. After
      BY <2>1, <2>2, <2>3, PushScoped DEF v
    <2> QED BY <2>1, <2>4, SameCodeAfter
  <1>2. CASE PushGlobalTier1
    <2> DEFINE tier2 == FALSE
    <2>1. Dispatch1({"push_global"}) /\ PushGlobal(tier2)
      BY <1>2, Zenon DEF PushGlobalTier1
    <2> HIDE DEF tier2
    <2>2. ~top.escaped /\ bc = "push_global"
      BY <2>1, AtScopedDispatch
    <2>3. UNCHANGED code
      BY <2>1 DEF PushGlobal, SameCode
    <2>4. After
      BY <2>1, <2>2, PushGlobalScoped
    <2> QED BY <2>3, <2>4, SameCodeAfter
  <1>3. CASE PushGlobalTier2
    <2> DEFINE tier2 == TRUE
    <2>1. Dispatch2({"push_global"}) /\ PushGlobal(tier2)
      BY <1>3, Zenon DEF PushGlobalTier2
    <2> HIDE DEF tier2
    <2>2. ~top.escaped /\ bc = "push_global"
      BY <2>1, AtScopedDispatch
    <2>3. UNCHANGED code
      BY <2>1 DEF PushGlobal, SameCode
    <2>4. After
      BY <2>1, <2>2, PushGlobalScoped
    <2> QED BY <2>3, <2>4, SameCodeAfter
  <1>4. CASE PopTier1 \/ PopTier2
    <2>1. ~top.escaped /\ bc \in Stores /\ UNCHANGED code /\ StoreValue
      BY <1>4, AtScopedDispatch, Counting DEF PopTier1, PopTier2
    <2> QED BY <2>1, StoreValueScoped, SameCodeAfter
  <1>5. CASE IncOrDecTier1 \/ IncOrDecTier2
    <2>1. ~top.escaped /\ bc \in {"inc", "dec"} /\ IncOrDec
      BY <1>5, AtScopedDispatch DEF IncOrDecTier1, IncOrDecTier2
    <2>2. UNCHANGED code
      BY <2>1 DEF IncOrDec, SameCode, Fail
    <2> QED BY <2>1, <2>2, IncOrDecScoped, SameCodeAfter
  <1>6. CASE PatchTier1 \/ PatchTier2
    <2>1. bc \in Unresolved /\ Patch
      BY <1>6, AtScopedDispatch DEF PatchTier1, PatchTier2
    <2> QED BY <2>1, PatchScoped DEF AfterStep
  <1> QED BY <1>1, <1>2, <1>3, <1>4, <1>5, <1>6

\* Only the instruction for any number of arguments is for more than four.
LEMMA QuickFits ==
  ASSUME NEW n \in Nat \ {0}
  PROVE  /\ QuickSuperSendTier1(n) # "q_super_send_n" => n <= 4
         /\ QuickSuperSendTier2(n) # "q_super_send_n" => n <= 4
  BY DEF QuickSuperSendTier1, QuickSuperSendTier2

LEMMA SendsScoped ==
  ASSUME NEW own, Works(own),
         \/ SendFewTier1 \/ SendMoreTier1 \/ SendNTier1 \/ SuperSendTier1 \/ QSuperSendTier1
         \/ SendTier2 \/ SuperSendTier2 \/ QSuperSendTier2
  PROVE  AfterStep
  <1>1. CASE SendFewTier1 \/ SendMoreTier1 \/ SendNTier1 \/ SendTier2
    <2>1. /\ ~top.escaped /\ UNCHANGED code /\ (Send(FALSE) \/ Send(TRUE))
          /\ bc \in {"send_1", "send_2", "send_3", "send_4", "send_n"} \cup Sends
      BY <1>1, AtScopedDispatch, Counting
         DEF SendFewTier1, SendMoreTier1, SendNTier1, SendTier2
    <2>2. bc \in SendLike
      BY <2>1 DEF SendLike, Sends
    <2> QED BY <2>1, <2>2, SendScoped, SameCodeAfter
  <1>2. CASE SuperSendTier1 \/ SuperSendTier2
    <2>1. /\ ~top.escaped /\ bc = "super_send"
          /\ \/ SuperSend(QuickSuperSendTier1(Arity[Selector]))
             \/ SuperSend(QuickSuperSendTier2(Arity[Selector]))
      BY <1>2, AtScopedDispatch DEF SuperSendTier1, SuperSendTier2
    <2>2. Arity[Selector] \in Nat \ {0}
      BY <2>1, ArgumentsFit DEF SendLike
    <2> DEFINE n == Arity[Selector]
               first == QuickSuperSendTier1(n)
               second == QuickSuperSendTier2(n)
    <2>3. /\ first \in QuickSuperSends /\ second \in QuickSuperSends
          /\ first # "q_super_send_n" => n <= 4
          /\ second # "q_super_send_n" => n <= 4
      <3> HIDE DEF n
      <3> QED BY <2>2, SendingOps, QuickFits DEF n
    <2>4. SuperSend(first) \/ SuperSend(second)
      BY <2>1
    <2> HIDE DEF first, second
    <2> QED BY <2>1, <2>3, <2>4, SuperSendScoped DEF AfterStep
  <1>3. CASE QSuperSendTier1
    <2>1. /\ ~top.escaped /\ bc \in QuickSuperSends /\ UNCHANGED code
          /\ \/ UNCHANGED <<acts, heap>>
             \/ SuperSendAgain(FALSE)
      BY <1>3, AtScopedDispatch, Counting DEF QSuperSendTier1
    <2>2. CASE UNCHANGED <<acts, heap>>
      BY <2>1, <2>2, NothingDone, SameCodeAfter DEF heap
    <2>3. CASE SuperSendAgain(FALSE)
      BY <2>1, <2>3, SuperSendAgainScoped, SameCodeAfter
    <2> QED BY <2>1, <2>2, <2>3
  <1>4. CASE QSuperSendTier2
    <2> DEFINE tier2 == bc # "q_super_send_n"
    <2>1. /\ ~top.escaped /\ bc \in QuickSuperSends /\ UNCHANGED code
          /\ SuperSendAgain(tier2)
      BY <1>4, AtScopedDispatch, Counting DEF QSuperSendTier2
    <2> HIDE DEF tier2
    <2> QED BY <2>1, SuperSendAgainScoped, SameCodeAfter
  <1> QED BY <1>1, <1>2, <1>3, <1>4

LEMMA ReturnsScoped ==
  ASSUME NEW own, Works(own),
         \/ ReturnLocalTier1 \/ ReturnNonLocalTier1 \/ ReturnSelfTier1
         \/ ReturnLocalTier2 \/ ReturnNonLocalTier2 \/ ReturnSelfTier2
         \/ ReturnEscaped
  PROVE  AfterStep
  <1>1. CASE ReturnLocalTier1 \/ ReturnLocalTier2
    <2>1. bc = "return_local" /\ UNCHANGED code /\ AnswerFrom(Len(acts), FromTop(0))
      BY <1>1, AtScopedDispatch, Counting DEF ReturnLocalTier1, ReturnLocalTier2
    <2> QED BY <2>1, ReturnLocalScoped, SameCodeAfter
  <1>2. CASE ReturnNonLocalTier1 \/ ReturnNonLocalTier2
    <2>1. bc = "return_non_local" /\ UNCHANGED code /\ ReturnNonLocal
      BY <1>2, AtScopedDispatch, Counting DEF ReturnNonLocalTier1, ReturnNonLocalTier2
    <2> QED BY <2>1, ReturnNonLocalScoped, SameCodeAfter
  <1>3. CASE ReturnSelfTier1 \/ ReturnSelfTier2
    <2>1. UNCHANGED code /\ AnswerFrom(Len(acts), top.frame[RcvrIdx + 1])
      BY <1>3, Counting DEF ReturnSelfTier1, ReturnSelfTier2
    <2> QED BY <2>1, ReturnSelfScoped, SameCodeAfter
  <1>4. CASE ReturnEscaped
    <2>1. UNCHANGED code
      BY <1>4 DEF ReturnEscaped, SameCode
    <2> QED BY <1>4, <2>1, ReturnEscapedScoped, SameCodeAfter
  <1> QED BY <1>1, <1>2, <1>3, <1>4

LEMMA JumpsScoped ==
  ASSUME NEW own, Works(own),
         \/ JumpTier1 \/ JumpOnBooleanTier1 \/ JumpBackwardTier1 \/ JumpIfGreaterTier1
         \/ Jump2Tier1 \/ Jump2OnBooleanTier1 \/ Jump2IfGreaterTier1
         \/ Jump2BackwardTier1
         \/ JumpTier2 \/ JumpOnBooleanTier2 \/ JumpIfGreaterTier2 \/ JumpBackwardTier2
         \/ Jump2Tier2 \/ Jump2OnBooleanTier2 \/ Jump2IfGreaterTier2
         \/ Jump2BackwardTier2
  PROVE  AfterStep
  <1>1. CASE JumpTier1 \/ JumpTier2 \/ Jump2Tier2
    <2>1. /\ ~top.escaped /\ bc \in {"jump", "jump2"} /\ UNCHANGED code
          /\ JumpTo(top.pc + Offset)
      BY <1>1, AtScopedDispatch, Counting DEF JumpTier1, JumpTier2, Jump2Tier2
    <2> DEFINE pc == top.pc + Offset
    <2>2. pc = top.pc + Offset /\ JumpTo(pc)
      BY <2>1
    <2> HIDE DEF pc
    <2> QED BY <2>1, <2>2, JumpToScoped, SameCodeAfter
  <1>2. CASE \/ JumpBackwardTier1 \/ Jump2BackwardTier1
             \/ JumpBackwardTier2 \/ Jump2BackwardTier2
    <2>1. /\ ~top.escaped /\ bc \in BackwardJumps /\ UNCHANGED code
          /\ JumpTo(top.pc - Offset)
      BY <1>2, AtScopedDispatch, Counting DEF JumpBackwardTier1, Jump2BackwardTier1,
         JumpBackwardTier2, Jump2BackwardTier2, BackwardJumps
    <2> DEFINE pc == top.pc - Offset
    <2>2. pc = top.pc - Offset /\ JumpTo(pc)
      BY <2>1
    <2> HIDE DEF pc
    <2> QED BY <2>1, <2>2, JumpToScoped, SameCodeAfter
  <1>3. CASE Jump2Tier1
    <2>1. /\ ~top.escaped /\ bc = "jump2" /\ UNCHANGED code
          /\ Continue([top EXCEPT !.pc = @ + Offset, !.shielded = TRUE])
      BY <1>3, AtScopedDispatch, Counting DEF Jump2Tier1
    <2> QED BY <2>1, ShieldingJumpScoped, SameCodeAfter
  <1>4. CASE \/ JumpOnBooleanTier1 \/ Jump2OnBooleanTier1
             \/ JumpOnBooleanTier2 \/ Jump2OnBooleanTier2
    <2>1. ~top.escaped /\ bc \in OnTrue \cup OnFalse /\ UNCHANGED code /\ JumpOnBoolean
      BY <1>4, AtScopedDispatch, Counting DEF JumpOnBooleanTier1, Jump2OnBooleanTier1,
         JumpOnBooleanTier2, Jump2OnBooleanTier2
    <2> QED BY <2>1, JumpOnBooleanScoped, SameCodeAfter
  <1>5. CASE \/ JumpIfGreaterTier1 \/ Jump2IfGreaterTier1
             \/ JumpIfGreaterTier2 \/ Jump2IfGreaterTier2
    <2>1. /\ ~top.escaped /\ bc \in {"jump_if_greater", "jump2_if_greater"}
          /\ UNCHANGED code /\ JumpIfGreater
      BY <1>5, AtScopedDispatch, Counting DEF JumpIfGreaterTier1, Jump2IfGreaterTier1,
         JumpIfGreaterTier2, Jump2IfGreaterTier2
    <2> QED BY <2>1, JumpIfGreaterScoped, SameCodeAfter
  <1> QED BY <1>1, <1>2, <1>3, <1>4, <1>5

LEMMA ShiftScoped ==
  ASSUME NEW own, Works(own), ContinueInTier2
  PROVE  AfterStep
  <1>1. UNCHANGED code /\ Continue([top EXCEPT !.tier = 2])
    BY Counting DEF ContinueInTier2
  <1> QED BY <1>1, ContinueInTier2Scoped, SameCodeAfter

LEMMA StepScoped == ASSUME NEW own, Works(own), Step PROVE AfterStep
  BY VariablesScoped, SendsScoped, ReturnsScoped, JumpsScoped, ShiftScoped
     DEF Step, InterpretTier1, InterpretTier2

---------------------------------------------------------------------------
(* The invariant of scopes.                                                *)
\* What is known of the inners is a function of the ones that are there.
LEMMA OwnOfInners ==
  ASSUME NEW p, NEW own, NEW calls, NEW is, NEW os, NEW gs,
         ScopedMachine(p, own, calls, is, os, gs)
  PROVE  \E more \in [1..Len(is) -> Reached(p)] : ScopedMachine(p, more, calls, is, os, gs)
  <1> DEFINE more == [i \in 1..Len(is) |-> own[i]]
  <1>1. /\ IsSequence(is) /\ DOMAIN own = 1..Len(is)
        /\ \A i \in 1..Len(is) : own[i] \in Reached(p) /\ InnerFits(p, own, own[i], is[i])
    BY DEF ScopedMachine, ScopedInners
  <1>2. /\ more \in [1..Len(is) -> Reached(p)] /\ DOMAIN more = 1..Len(is)
        /\ \A i \in 1..Len(is) : more[i] = own[i]
    BY <1>1
  <1> HIDE DEF more
  <1>3. Extends(own, more)
    BY <1>1, <1>2 DEF Extends
  <1>4. \A i \in 1..Len(is) : InnerFits(p, more, own[i], is[i])
    BY <1>1, <1>3, InnersStillFit
  <1>5. ScopedInners(p, more, is)
    BY <1>1, <1>2, <1>4 DEF ScopedInners
  <1>6. ScopedMachine(p, more, calls, is, os, gs)
    BY <1>3, <1>5, StillScoped DEF ScopedMachine
  <1> QED BY <1>2, <1>6

\* The program and how it is started stay.
Given == program \in DOMAIN Programs /\ setting \in Settings

LEMMA AllGiven ==
  ASSUME Step
  PROVE  outcome = Running /\ UNCHANGED <<program, setting>>
  <1>1. CASE InterpretTier1
    <2>1. \E ops : Dispatch1(ops)
      BY <1>1 DEF InterpretTier1, ContinueInTier2, PushTier1, PushGlobalTier1, PopTier1,
         IncOrDecTier1, PatchTier1, SendFewTier1, SendMoreTier1, SendNTier1, SuperSendTier1,
         QSuperSendTier1, ReturnLocalTier1, ReturnNonLocalTier1, ReturnSelfTier1, JumpTier1,
         JumpOnBooleanTier1, JumpBackwardTier1, JumpIfGreaterTier1, Jump2Tier1,
         Jump2OnBooleanTier1, Jump2IfGreaterTier1, Jump2BackwardTier1
    <2> QED BY <2>1 DEF Dispatch1
  <1>2. CASE InterpretTier2
    <2>1. \E ops : Dispatch2(ops)
      BY <1>2 DEF InterpretTier2, PushTier2, PushGlobalTier2, PopTier2, IncOrDecTier2,
         PatchTier2, SendTier2, SuperSendTier2, QSuperSendTier2, ReturnLocalTier2,
         ReturnNonLocalTier2, ReturnSelfTier2, JumpTier2, JumpOnBooleanTier2,
         JumpIfGreaterTier2, JumpBackwardTier2, Jump2Tier2, Jump2OnBooleanTier2,
         Jump2IfGreaterTier2, Jump2BackwardTier2
    <2> QED BY <2>1 DEF Dispatch2
  <1>3. CASE ReturnEscaped
    BY <1>3 DEF ReturnEscaped
  <1> QED BY <1>1, <1>2, <1>3 DEF Step

LEMMA NextGiven == ASSUME Given, [Next]_vars PROVE Given'
  BY AllGiven DEF Given, Next, Done, vars

LEMMA NextScopes ==
  ASSUME Inv, CompiledScopesFit, ScopesInv, [Next]_vars
  PROVE  CompiledScopesFit' /\ ScopesInv'
  <1>1. PICK own \in [1..Len(inners) -> Reached(program)] : ScopedState(own)
    BY DEF ScopesInv
  <1>2. /\ ScopedMachine(program, own, acts, inners, objects, globals)
        /\ CellsResolved(program, code)
    BY <1>1 DEF ScopedState, ScopedMachine
  <1>3. CASE Step
    <2>1. outcome = Running /\ program' = program
      BY <1>3, AllGiven
    <2>2. Works(own)
      BY <1>2, <2>1 DEF Works
    <2>3. /\ \E other : ScopedMachine(program, other, acts', inners', objects', globals')
          /\ CellsResolved(program, code')
      BY <1>3, <2>2, StepScoped DEF AfterStep, After
    <2>4. PICK other : ScopedMachine(program, other, acts', inners', objects', globals')
      BY <2>3
    <2>5. PICK more \in [1..Len(inners') -> Reached(program)] :
            ScopedMachine(program, more, acts', inners', objects', globals')
      BY <2>4, OwnOfInners
    <2>6. ScopedState(more)'
      BY <2>1, <2>3, <2>5 DEF ScopedState, ScopedMachine
    <2>7. ScopesInv'
      BY <2>1, <2>5, <2>6 DEF ScopesInv
    <2> QED BY <2>1, <2>7 DEF CompiledScopesFit
  <1>4. CASE UNCHANGED vars
    BY <1>4 DEF vars, CompiledScopesFit, ScopesInv, ScopedState
  <1> QED BY <1>3, <1>4 DEF Next, Done

---------------------------------------------------------------------------
(* The first state is in scope.                                            *)

LEMMA CellsOfProgram ==
  ASSUME Init, CompiledCodeIsVerified, CompiledScopesFit
  PROVE  CellsResolved(program, code)
  <1> SUFFICES ASSUME NEW m \in Reached(program), HasCode(program, m),
                      NEW pc \in DOMAIN Height(program, m)
               PROVE  CellResolved(program, m, code[m], pc)
    BY DEF CellsResolved
  <1> DEFINE M == MethodOf(program, m)
  <1>1. m \in DOMAIN P.methods /\ CodeScopesFit(program, m) /\ M = P.methods[m]
    BY ReachedFits DEF CompiledScopesFit, MethodOf, P
  <1>2. code[m] = M.code
    BY <1>1 DEF Init, HasCode
  <1>3. IsCode(M) /\ IsStackMap(M, Height(program, m))
    BY <1>1 DEF CompiledCodeIsVerified, IsVerified, CodeIsVerified, HasCode, P, MethodOf
  <1>4. M.code[pc + 1] \notin OnFrame \cup OnInner
    BY <1>1 DEF CodeScopesFit, NamesFit, OnFrame, OnInner
  <1>5. M.code[pc + 1] \notin QuickSuperSends
    BY <1>3 DEF IsCode, IsStackMap
  <1> QED BY <1>2, <1>4, <1>5 DEF CellResolved

LEMMA InitScopes ==
  ASSUME Init, CompiledCodeIsVerified, CompiledScopesFit
  PROVE  ScopesInv
  <1> DEFINE m == P.entry.method
             self == <<"obj", 1>>
             args == P.entry.args
             n == Entry(Len(args) + 1)
             quick == FALSE
             c == Call(<<"method", m>>, self, args, n, quick)
             inner == IF NeedsInner(c) THEN 1 ELSE 0
             a == Activation(c, inner)
             own == [i \in 1..inner |-> m]
             first == [class |-> P.entry.class, fields |-> P.entry.fields]
  <1>1. /\ globals = P.globals /\ objects = <<first>>
        /\ acts = <<a>> /\ inners = IF NeedsInner(c) THEN <<InnerFor(c)>> ELSE <<>>
    BY DEF Init
  <1>2. /\ m \in Reached(program) /\ ~IsBlock(program, m)
        /\ \A v \in Range(args) \cup Range(P.entry.fields) \cup Range(P.globals) : IsPlain(v)
    BY DEF CompiledScopesFit, ScopesFit, StartFits, P
  <1>3. IsSequence(args) /\ Method(m).kind = "bytecodes" /\ m \in DOMAIN P.methods
    BY DEF CompiledCodeIsVerified, IsVerified, NamesExist, P, Method
  <1>4. /\ \A v \in Range(args) : ValueFits(program, own, v)
        /\ \A v \in Range(P.entry.fields) : ValueFits(program, own, v)
        /\ \A v \in Range(P.globals) : ValueFits(program, own, v)
        /\ ValueFits(program, own, self)
    <2>1. IsPlain(self)
      BY DEF IsPlain
    <2> HIDE DEF own, self, args
    <2> QED BY <1>2, <2>1, PlainFits
  <1>5. AllFit(program, own, args) /\ Len(args) \in Nat
    <2> HIDE DEF own, args
    <2> QED BY <1>3, <1>4, SequenceType DEF AllFit, Range
  <1>6. n \in 1..5 /\ (n # 5 => Len(args) = n - 1)
    <2> HIDE DEF args
    <2> QED BY <1>5 DEF Entry
  <1>7. SelfFits(program, own, m, self)
    <2>1. self[1] = "obj"
      OBVIOUS
    <2> HIDE DEF self, own, m
    <2> QED BY <1>2, <1>4, <2>1 DEF SelfFits
  <1>8. /\ c.inv = <<"method", m>> /\ c.rcvr = self /\ c.args = args /\ c.n = n
        /\ c.inv[1] = "method" /\ c.inv[2] = m
        /\ DOMAIN c = {"inv", "rcvr", "args", "n", "tier2"}
    BY DEF Call
  <1>9. CallFits(P, c)
    <2>1. IsArguments(P, args)
      <3>1. \A i \in DOMAIN args : NamesAMethod(P, args[i])
        BY DEF CompiledCodeIsVerified, IsVerified, NamesExist, P, Range
      <3> HIDE DEF args
      <3> QED BY <1>3, <3>1, SequenceType DEF IsArguments
    <2>2. IsInvokable(P, <<"method", m>>) /\ NamesAMethod(P, self)
      BY <1>3 DEF IsInvokable, NamesAMethod
    <2> HIDE DEF c, args, self, m
    <2> QED BY <1>8, <2>1, <2>2 DEF CallFits
  <1> HIDE DEF c, n, args, self, m
  <1>10. CallScoped(program, own, c)
    <2>1. MethodOf(program, m).kind # "field_write"
      BY <1>3, MethodHere
    <2> HIDE DEF own
    <2> QED BY <1>2, <1>4, <1>5, <1>6, <1>7, <1>8, <2>1 DEF CallScoped
  <1>11. /\ DOMAIN own = 1..inner /\ \A i \in 1..inner : own[i] = m
         /\ inner \in 0..1 /\ own \in [1..inner -> Reached(program)]
         /\ IF NeedsInner(c) THEN inner \in DOMAIN own /\ own[inner] = m ELSE inner = 0
    BY <1>2
  <1> HIDE DEF own
  <1>12. Extends(own, own)
    BY DEF Extends
  <1> HIDE DEF inner
  <1>13. ScopedActivation(program, own, a)
    BY <1>3, <1>8, <1>9, <1>10, <1>11, <1>12, ScopedActivationOf
  <1> HIDE DEF a
  <1>14. ScopedActivations(program, own, acts)
    <2>1. Len(acts) = 1 /\ acts[1] = a
      BY <1>1
    <2> QED BY <1>13, <2>1 DEF ScopedActivations
  <1>15. ScopedInners(program, own, inners) /\ Len(inners) = inner
    <2>1. CASE NeedsInner(c)
      <3> DEFINE new == InnerFor(c)
      <3>1. InnerFits(program, own, m, new)
        BY <1>3, <1>8, <1>9, <1>10, <2>1, ScopedInnerOf
      <3> HIDE DEF new
      <3>2. inners = <<new>> /\ inner = 1
        BY <1>1, <2>1 DEF new, inner
      <3>3. IsSequence(inners) /\ Len(inners) = 1 /\ inners[1] = new
        BY <3>2 DEF IsSequence
      <3> QED BY <1>2, <1>11, <3>1, <3>2, <3>3 DEF ScopedInners
    <2>2. CASE ~NeedsInner(c)
      <3>1. inners = <<>> /\ inner = 0
        BY <1>1, <2>2 DEF inner
      <3> QED BY <1>11, <3>1, EmptySequence DEF ScopedInners
    <2> QED BY <2>1, <2>2
  <1>16. ScopedObjects(program, own, objects)
    <2>1. DOMAIN objects = {1} /\ objects[1] = first
      BY <1>1
    <2>2. /\ DOMAIN first = {"class", "fields"} /\ first.class = Programs[program].entry.class
          /\ first.fields = P.entry.fields
      BY DEF P
    <2> HIDE DEF first
    <2>3. \A i \in DOMAIN first.fields : ValueFits(program, own, first.fields[i])
      BY <1>4, <2>2 DEF Range
    <2> QED BY <2>1, <2>2, <2>3 DEF ScopedObjects, P
  <1>17. ScopedGlobals(program, own, globals)
    BY <1>1, <1>4 DEF ScopedGlobals, Range
  <1>18. ScopedState(own)
    BY <1>14, <1>15, <1>16, <1>17, CellsOfProgram DEF ScopedState
  <1> QED BY <1>11, <1>15, <1>18 DEF ScopesInv

---------------------------------------------------------------------------
(* What the scopes say of types.                                           *)

LEMMA TypesOfState ==
  ASSUME Inv, ScopesInv, Given
  PROVE  TypeOK
  <1>1. PICK own : ScopedState(own)
    BY DEF ScopesInv
  <1>2. /\ ScopedActivations(program, own, acts) /\ ScopedInners(program, own, inners)
        /\ ScopedObjects(program, own, objects) /\ ScopedGlobals(program, own, globals)
    BY <1>1 DEF ScopedState
  <1>3. \A v : ValueFits(program, own, v) => WellTyped(v)
    BY DEF ValueFits
  <1>4. DOMAIN own = 1..Len(inners) /\ Len(inners) \in Nat
    BY <1>2, SequenceType DEF ScopedInners
  <1>5. ASSUME NEW a \in Range(acts)
        PROVE  /\ a.m \in DOMAIN code /\ a.tier \in 1..2 /\ a.frame[1] \in 0..Len(inners)
               /\ \A v \in Range(a.stack) \cup Range(Tail(a.frame)) : WellTyped(v)
    <2>1. IsSequence(acts) /\ ActivationsFit(program, acts) /\ CodeFits(P, code)
      BY DEF Inv, ActivationsFit
    <2>2. ActivationFits(program, a) /\ ScopedActivation(program, own, a)
      BY <1>2, <2>1, SequenceType, CallsFit DEF Range, ScopedActivations
    <2>3. a.m \in DOMAIN code /\ a.tier \in 1..2
      BY <2>1, <2>2 DEF ActivationFits, ScopedActivation, CodeFits, P
    <2>4. a.frame[1] \in 0..Len(inners)
      <3>1. a.frame[1] = 0 \/ a.frame[1] \in DOMAIN own
        BY <2>2 DEF ScopedActivation, FrameFits
      <3> QED BY <1>4, <3>1
    <2>5. \A v \in Range(a.stack) : WellTyped(v)
      <3>1. IsSequence(a.stack)
        BY <2>2 DEF ActivationFits, IsStack
      <3>2. DOMAIN a.stack = 1..Len(a.stack)
        BY <3>1, SequenceType
      <3> QED BY <1>3, <2>2, <3>2 DEF ScopedActivation, Range
    <2>6. \A v \in Range(Tail(a.frame)) : WellTyped(v)
      <3> DEFINE f == a.frame
                 rest == Tail(f)
      <3>1. /\ IsSequence(f) /\ 2 \in DOMAIN f
            /\ \A i \in 2..Len(f) : ValueFits(program, own, f[i])
        BY <2>2 DEF ScopedActivation, FrameFits, ActivationFits, IsFrame
      <3> HIDE DEF f
      <3>2. f \in Seq(Elements(f)) /\ Len(f) \in Nat /\ Len(f) >= 2
        BY <3>1, SequenceType
      <3>3. /\ rest \in Seq(Elements(f)) /\ Len(rest) = Len(f) - 1
            /\ \A i \in 1..(Len(f) - 1) : rest[i] = f[i + 1]
        BY <3>2
      <3> HIDE DEF rest
      <3>4. DOMAIN rest = 1..(Len(f) - 1)
        BY <3>3
      <3>5. \A i \in 1..(Len(f) - 1) : i + 1 \in 2..Len(f)
        BY <3>2
      <3> QED BY <1>3, <3>1, <3>3, <3>4, <3>5 DEF Range, rest, f
    <2> QED BY <2>3, <2>4, <2>5, <2>6
  <1>6. \A o \in Range(objects) : \A v \in Range(o.fields) : WellTyped(v)
    BY <1>2, <1>3 DEF ScopedObjects, Range
  <1>7. \A v \in Range(globals) : WellTyped(v)
    BY <1>2, <1>3 DEF ScopedGlobals, Range
  <1>8. outcome = Running => acts # <<>>
    BY DEF Inv
  <1> QED BY <1>5, <1>6, <1>7, <1>8 DEF TypeOK, Given

LEMMA ScopesInvariance ==
  Spec /\ CompiledCodeIsVerified /\ CompiledScopesFit =>
    [](Inv /\ Given /\ CompiledScopesFit /\ ScopesInv)
  <1> DEFINE I == Given /\ CompiledScopesFit /\ ScopesInv
  <1>1. Init /\ CompiledCodeIsVerified /\ CompiledScopesFit => I
    BY InitScopes DEF Init, Given
  <1>2. Inv /\ I /\ [Next]_vars => I'
    BY NextGiven, NextScopes
  <1> QED BY <1>1, <1>2, Invariance, PTL DEF Spec

(* A block has the context of the method around it, for as many levels as  *)
(* its code counts; contexts and frames have the variables of their        *)
(* method; what takes fields from its self has the object                  *)
(* (BcAbstractMethod.patch_variable_access, get_block_at).                 *)
THEOREM ScopesHold == Spec /\ CompiledCodeIsVerified /\ CompiledScopesFit => []ScopesInv
  BY ScopesInvariance, PTL

(* No instruction reads a variable, an element of the stack or a field     *)
(* that is not there, in either tier, after whatever was rewritten: what   *)
(* is on a stack, in a frame, in a field or in a global is a value.        *)
THEOREM TypeCorrectness == Spec /\ CompiledCodeIsVerified /\ CompiledScopesFit => []TypeOK
  <1>1. Inv /\ Given /\ CompiledScopesFit /\ ScopesInv => TypeOK
    BY TypesOfState
  <1> QED BY <1>1, ScopesInvariance, PTL
=============================================================================
