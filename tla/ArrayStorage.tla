----------------------------- MODULE ArrayStorage -----------------------------
(***************************************************************************)
(* The storage strategies of arrays (vmobjects/array.py) under the array   *)
(* primitives (primitives/array_primitives.py).  An array starts empty     *)
(* (only a size), becomes partially empty when something is put, and is    *)
(* given unboxed storage when its last hole is filled and all elements are *)
(* of one kind, or object storage when they are not.                       *)
(*                                                                         *)
(* The block of putAll: runs SOM code between two answers, which may       *)
(* change this array or fill it again: fills is the stack of the putAll:   *)
(* being executed, one answer is one action.  Everything else is atomic.   *)
(*                                                                         *)
(* A failed assertion or index ends the line of the shell (shell.py:48):   *)
(* the arrays stay as they are, every putAll: being executed is left, and  *)
(* the next line goes on with them.  outcome says what happened last.      *)
(***************************************************************************)
EXTENDS Integers, Sequences, FiniteSets

CONSTANTS Arrays,
          Values, KindOf,      \* value -> the strategy made for it, "nil" or "obj"
          nilObject, trueObject, falseObject,
          ZeroInteger, ZeroDouble,  \* what unboxed storage is filled with
          Indices,             \* bound: the indices of at:put:
          MaxSize,             \* bound: the size of arrays
          MaxFills,            \* bound: the depth of nested putAll:
          MixedFills,          \* may the answers of a block be of several
                               \* kinds, or booleans?
          MixedArguments,      \* may nil be among integers, doubles or
                               \* booleans in from_values?
          Unallocated

Unboxed == {"long", "double", "bool"}
Strategies == Unboxed \cup {"obj", "empty", "partial"}

ASSUME ValueAssumption ==
    /\ KindOf \in [Values -> Unboxed \cup {"nil", "obj"}]
    /\ nilObject \in Values /\ \A v \in Values : KindOf[v] = "nil" <=> v = nilObject
    /\ trueObject # falseObject
    /\ \A v \in Values : KindOf[v] = "bool" <=> v \in {trueObject, falseObject}
    /\ ZeroInteger \in Values /\ KindOf[ZeroInteger] = "long"
    /\ ZeroDouble \in Values /\ KindOf[ZeroDouble] = "double"

ASSUME BoundAssumption ==
    /\ Indices \subseteq Int /\ MaxSize \in Nat /\ MaxFills \in Nat
    /\ MixedFills \in BOOLEAN /\ MixedArguments \in BOOLEAN

VARIABLES arrays,    \* array -> its strategy and storage, or Unallocated
          fills,     \* the putAll: with a block being executed
          outcome,   \* of the last operation
          operation  \* history: what the last step was asked to do

vars == <<arrays, fills, outcome, operation>>

ArrayRecord == [strategy : Strategies, store : Seq(Values),
                empty : Nat, type : {"None"} \cup Unboxed]

ASSUME UnallocatedAssumption == Unallocated \notin ArrayRecord \cup Seq(Values)

(* The empty strategy stores a size: that many nils stand for it.  Only the  *)
(* partially empty one has a count of its empty elements and a type.         *)
Array(strategy, store) ==
    [strategy |-> strategy, store |-> store, empty |-> 0, type |-> "None"]

Partial(store, empty, type) ==
    [strategy |-> "partial", store |-> store, empty |-> empty, type |-> type]

Nils(size) == [i \in 1 .. size |-> nilObject]
FromSize(size) == Array("empty", Nils(size))

Allocated == {a \in Arrays : arrays[a] # Unallocated}

Init == /\ arrays = [a \in Arrays |-> Unallocated]
        /\ fills = <<>>
        /\ outcome = "done"
        /\ operation = <<"leave">>

Exceptions == {"IndexError", "AssertionError", "misfit"}

(* An exception of the interpreter, which no SOM code catches.               *)
Raise(exception) == /\ outcome' = exception
                    /\ fills' = <<>>
                    /\ operation' = <<"leave">>
                    /\ UNCHANGED arrays

-------------------------------------------------------------------------------
(* Conversions.                                                              *)

KindsIn(values) == {KindOf[values[i]] : i \in DOMAIN values} \ {"nil"}

(* _determine_strategy: nil is skipped.                                      *)
StrategyFor(values) ==
    IF KindsIn(values) = {} THEN "empty"
    ELSE IF \E k \in Unboxed : KindsIn(values) = {k}
    THEN CHOOSE k \in Unboxed : KindsIn(values) = {k}
    ELSE "obj"

(* A value of another kind reaches unboxed storage: the conversion to        *)
(* integers or doubles fails, the one to booleans stores false.              *)
Misfits(strategy, values) ==
    strategy \in Unboxed /\ \E i \in DOMAIN values : KindOf[values[i]] # strategy

StoreWithValues(strategy, values) ==
    IF strategy = "bool"
    THEN [i \in DOMAIN values |-> IF values[i] = trueObject THEN trueObject ELSE falseObject]
    ELSE values

-------------------------------------------------------------------------------
(* at:put:                                                                   *)

(* _PartiallyEmptyStrategy.set_idx before it looks whether it is full.       *)
PutPartial(x, i, v) ==
    Partial([x.store EXCEPT ![i] = v],
            IF x.store[i] = nilObject /\ v # nilObject THEN x.empty - 1
            ELSE IF x.store[i] # nilObject /\ v = nilObject THEN x.empty + 1
            ELSE x.empty,
            IF v = nilObject THEN x.type
            ELSE IF x.type \in {"None", KindOf[v]} THEN KindOf[v] ELSE "obj")

(* Mutant: even object storage waits until no element is empty.              *)
SettledWhenFull(x, v) ==
    IF v # nilObject /\ x.empty = 0
    THEN Array(x.type, StoreWithValues(x.type, x.store))
    ELSE x

(* ... and after: storage of its type when no hole is left, or of objects.   *)
(* PartialKnowsItsKind says that no value misfits here.                      *)
Settled(x, v) ==
    IF v # nilObject /\ (x.type = "obj" \/ x.empty = 0)
    THEN Array(x.type, StoreWithValues(x.type, x.store))
    ELSE x

(* Mutant: integer storage is not given up for a value of another kind.      *)
SetIdxUnboxed(x, i, v) ==
    CASE x.strategy = "empty" /\ v = nilObject -> x
      [] x.strategy = "empty" /\ v # nilObject ->
           Settled(PutPartial(Partial(x.store, Len(x.store), "None"), i, v), v)
      [] x.strategy = "partial" -> Settled(PutPartial(x, i, v), v)
      [] OTHER -> [x EXCEPT !.store[i] = v]

(* set_idx of the strategy, with an index the storage has.                   *)
SetIdx(x, i, v) ==
    CASE x.strategy = "empty" /\ v = nilObject -> x
      [] x.strategy = "empty" /\ v # nilObject ->
           Settled(PutPartial(Partial(x.store, Len(x.store), "None"), i, v), v)
      [] x.strategy = "partial" -> Settled(PutPartial(x, i, v), v)
      [] x.strategy = "long" /\ KindOf[v] # "long" -> Array("obj", [x.store EXCEPT ![i] = v])
      [] OTHER -> [x EXCEPT !.store[i] = v]

(* Doubles and booleans have no transition: an assertion fails.              *)
SetIdxAsserts(x, v) == x.strategy \in {"double", "bool"} => KindOf[v] = x.strategy

(* Mutant: an index below 1 is taken for the first element.                  *)
ElementAtFirst(x, index) == IF index < 1 /\ x.strategy # "empty" THEN 1 ELSE index

(* A list takes the index -1 for its last element: at: 0 reads and writes    *)
(* it; the empty strategy tests the bounds itself.                           *)
ElementAt(x, index) ==
    IF index < 1 /\ x.strategy # "empty" THEN Len(x.store) + index ELSE index

AtPut(a, index, v) ==
    LET x == arrays[a]
        i == ElementAt(x, index)
    IN IF ~SetIdxAsserts(x, v) THEN Raise("AssertionError")
       ELSE IF i \notin DOMAIN x.store THEN Raise("IndexError")
       ELSE /\ arrays' = [arrays EXCEPT ![a] = SetIdx(x, i, v)]
            /\ outcome' = "done" /\ operation' = <<"at:put:", a, index, v>>
            /\ UNCHANGED fills

-------------------------------------------------------------------------------
(* putAll: with a value.                                                     *)

SetAll(x, v) ==
    IF x.strategy = "empty" /\ x.store = <<>> THEN x
    ELSE IF v = nilObject THEN FromSize(Len(x.store))
    ELSE Array(KindOf[v], [i \in DOMAIN x.store |-> v])

PutAll(a, v) == /\ arrays' = [arrays EXCEPT ![a] = SetAll(@, v)]
                /\ outcome' = "done" /\ operation' = <<"putAll:", a, v>>
                /\ UNCHANGED fills

-------------------------------------------------------------------------------
(* New arrays.                                                               *)

Allocate(a, x, op) == /\ arrays' = [arrays EXCEPT ![a] = x]
                      /\ outcome' = "done" /\ operation' = op
                      /\ UNCHANGED fills

Arguments == UNION {[1 .. n -> Values] : n \in 0 .. MaxSize}

New(a) == \E size \in 0 .. MaxSize : Allocate(a, FromSize(size), <<"new", Nils(size)>>)

FromObjects(a) ==
    \E values \in Arguments : Allocate(a, Array("obj", values), <<"new", values>>)

FromIntegers(a) == \E values \in Arguments :
                     /\ \A i \in DOMAIN values : KindOf[values[i]] = "long"
                     /\ Allocate(a, Array("long", values), <<"new", values>>)

(* The literals of an array literal, or the arguments of a message that was  *)
(* not understood (AST interpreter).                                         *)
FromValues(a) ==
    \E values \in Arguments :
      LET strategy == StrategyFor(values)
          x == Array(strategy, StoreWithValues(strategy, values))
      IN IF ~Misfits(strategy, values) THEN Allocate(a, x, <<"new", values>>)
         ELSE /\ MixedArguments
              /\ IF strategy # "bool" THEN Raise("misfit")
                 ELSE /\ arrays' = [arrays EXCEPT ![a] = x]
                      /\ outcome' = "misfit" /\ operation' = <<"new", values>>
                      /\ UNCHANGED fills

(* Mutant: the copy keeps the count of empty elements, but no type.          *)
CopiedWithCount(x) == IF x.strategy = "partial" THEN Partial(x.store, x.empty, "None") ELSE x

(* from_obj_values counts every element of a copy as empty.                  *)
Copied(x) == IF x.strategy = "partial" THEN Partial(x.store, Len(x.store), "None") ELSE x

Copy(a, b) == Allocate(a, Copied(arrays[b]), <<"copy", b>>)

Extended(x, v) ==
    CASE x.strategy = "empty" /\ v = nilObject -> FromSize(Len(x.store) + 1)
      [] x.strategy = "empty" /\ v # nilObject -> Array("obj", Append(x.store, v))
      [] x.strategy = "partial" ->
           SetIdx(Partial(Append(x.store, nilObject), x.empty + 1, x.type),
                  Len(x.store) + 1, v)
      [] OTHER -> [x EXCEPT !.store = Append(@, v)]

CopyAndExtend(a, b, v) ==
    /\ Len(arrays[b].store) < MaxSize
    /\ IF arrays[b].strategy \in Unboxed /\ KindOf[v] # arrays[b].strategy
       THEN Raise("AssertionError")
       ELSE Allocate(a, Extended(arrays[b], v), <<"copyAndExtend", b, v>>)

-------------------------------------------------------------------------------
(* putAll: with a block.  A fill keeps the answers in storage of its mode,   *)
(* which is changed once, to objects; answers is a history variable.         *)

Fill(a, size, mode, store, answers) ==
    [array |-> a, size |-> size, mode |-> mode, store |-> store, answers |-> answers]

Innermost == fills[Len(fills)]
Outer == SubSeq(fills, 1, Len(fills) - 1)

(* _set_all_with_block before the first answer.                              *)
BeginFill(a) ==
    /\ Len(fills) < MaxFills
    /\ outcome' = "done" /\ operation' = <<"fill", a>>
    /\ IF arrays[a].store = <<>>
       THEN arrays' = [arrays EXCEPT ![a] = FromSize(0)] /\ UNCHANGED fills
       ELSE /\ fills' = Append(fills, Fill(a, Len(arrays[a].store), "first", <<>>, <<>>))
            /\ UNCHANGED arrays

(* The first answer determines the mode; a boolean one selects doubles.      *)
FirstMode(v) == IF KindOf[v] = "bool" THEN "double" ELSE KindOf[v]

Fits(f, v) == f.mode = "obj" \/ f.mode = KindOf[v]

(* Mutant: the nils so far are counted with the answer.                      *)
AfterMisfitAsNil(f, v) == Append(f.store, nilObject)

Zero == [long |-> ZeroInteger, double |-> ZeroDouble]

(* An answer of another kind: to object storage, in which integers and       *)
(* doubles leave the zero that unboxed storage has for the answer.           *)
AfterMisfit(f, v) ==
    Append(f.store, IF f.mode = "nil" THEN v ELSE Zero[f.mode])

(* Boxing a boolean as Double fails.                                         *)
BoxingFails(f) == \E i \in DOMAIN f.store : KindOf[f.store[i]] # f.mode

Complete(f) == Len(f.store) = f.size

Filled(f, x) == IF f.mode = "nil" THEN FromSize(f.size) ELSE Array(f.mode, f.store)

(* Store the answer; after the last one give the array its new storage.      *)
Continue(f) ==
    /\ outcome' = "done"
    /\ IF Complete(f)
       THEN /\ arrays' = [arrays EXCEPT ![f.array] = Filled(f, @)]
            /\ fills' = Outer
       ELSE /\ fills' = Append(Outer, f)
            /\ UNCHANGED arrays

(* A non-local return leaves the innermost fills.                            *)
Abandon == \E n \in 0 .. Len(fills) - 1 :
             /\ fills' = SubSeq(fills, 1, n)
             /\ outcome' = "left" /\ operation' = <<"leave">>
             /\ UNCHANGED arrays

FirstAnswer(v) ==
    /\ fills # <<>> /\ Innermost.mode = "first" /\ operation' = <<"answer", v>>
    /\ MixedFills \/ KindOf[v] # "bool"
    /\ Continue([Innermost EXCEPT !.mode = FirstMode(v), !.store = <<v>>, !.answers = <<v>>])

FittingAnswer(v) ==
    /\ fills # <<>> /\ Innermost.mode # "first" /\ Fits(Innermost, v)
    /\ operation' = <<"answer", v>>
    /\ Continue([Innermost EXCEPT !.store = Append(@, v), !.answers = Append(@, v)])

OtherAnswer(v) ==
    /\ fills # <<>> /\ Innermost.mode # "first" /\ ~Fits(Innermost, v)
    /\ MixedFills \/ Innermost.mode = "nil"
    /\ IF Innermost.mode # "nil" /\ BoxingFails(Innermost)
       THEN Raise("AssertionError")
       ELSE /\ operation' = <<"answer", v>>
            /\ Continue([Innermost EXCEPT !.mode = "obj", !.store = AfterMisfit(Innermost, v),
                                          !.answers = Append(@, v)])

-------------------------------------------------------------------------------
Allocations == \E a \in Arrays \ Allocated :
                 \/ New(a) \/ FromObjects(a) \/ FromIntegers(a) \/ FromValues(a)
                 \/ \E b \in Allocated : Copy(a, b)
                 \/ \E b \in Allocated, v \in Values : CopyAndExtend(a, b, v)

Stores == \/ \E a \in Allocated, index \in Indices, v \in Values : AtPut(a, index, v)
          \/ \E a \in Allocated, v \in Values : PutAll(a, v)

FillSteps == \/ \E a \in Allocated : BeginFill(a)
             \/ \E v \in Values : FirstAnswer(v) \/ FittingAnswer(v) \/ OtherAnswer(v)
             \/ Abandon

Next == Allocations \/ Stores \/ FillSteps

Spec == Init /\ [][Next]_vars

-------------------------------------------------------------------------------
FillRecord == [array : Arrays, size : Nat,
               mode : {"first", "nil", "long", "double", "obj"},
               store : Seq(Values), answers : Seq(Values)]

Operations ==
    {<<"leave">>}
      \cup ({"new"} \X Seq(Values)) \cup ({"copy"} \X Arrays)
      \cup ({"copyAndExtend"} \X Arrays \X Values)
      \cup ({"at:put:"} \X Arrays \X Int \X Values) \cup ({"putAll:"} \X Arrays \X Values)
      \cup ({"fill"} \X Arrays) \cup ({"answer"} \X Values)

TypeOK ==
    /\ arrays \in [Arrays -> {Unallocated} \cup ArrayRecord]
    /\ fills \in Seq(FillRecord)
    /\ outcome \in {"done", "left"} \cup Exceptions
    /\ operation \in Operations

Holes(x) == {i \in DOMAIN x.store : x.store[i] = nilObject}

HoldsItsKind(x) ==
    \A i \in DOMAIN x.store :
      /\ x.strategy \in Unboxed => KindOf[x.store[i]] = x.strategy
      /\ x.strategy = "empty" => x.store[i] = nilObject

(* Reading an element never fails: unboxed storage holds values of its kind  *)
(* only, whatever was put, filled, copied or converted, and the strategy     *)
(* that stores just a size is used for nothing but nils (the assertions of   *)
(* get_idx, array.py 329, 415, 489).                                         *)
ReadsSucceed == \A a \in Allocated : HoldsItsKind(arrays[a])

KnowsItsKind(x) ==
    x.strategy = "partial" =>
      /\ x.store # <<>> /\ x.empty > 0
      /\ x.empty >= Cardinality(Holes(x))
      /\ x.empty = Cardinality(Holes(x)) =>
            \A i \in DOMAIN x.store : KindOf[x.store[i]] \in {"nil", x.type}

(* A partially empty array is never given unboxed storage while it holds     *)
(* nil or a value of another kind: it may count more empty elements than it  *)
(* has (a copy does) but never less, and if the count is right every element *)
(* has the type it recorded (array.py 660, 707).                             *)
PartialKnowsItsKind == \A a \in Allocated : KnowsItsKind(arrays[a])

(* While it fills an array putAll: keeps every answer its block gave, also   *)
(* when it changes to storage for objects halfway (array.py 175, 201, 227).  *)
AnswersAreKept == \A n \in DOMAIN fills : fills[n].store = fills[n].answers

ContentOf == [a \in Arrays |-> IF arrays[a] = Unallocated THEN Unallocated ELSE arrays[a].store]
Ongoing(s) == [n \in DOMAIN s |-> [array |-> s[n].array, answers |-> s[n].answers,
                                   kept |-> s[n].store]]

Contents == INSTANCE ArrayContents WITH content <- ContentOf, filling <- Ongoing(fills)

(* Whatever strategies they go through, arrays hold what was put into them:  *)
(* every at:put: and putAll: changes the elements it names, and no other; a  *)
(* conversion changes no element, copies are independent, and putAll:        *)
(* replaces all elements by the answers of its block even if the block       *)
(* changes, fills or copies the same array meanwhile.  An answer is lost by  *)
(* an exception, by a non-local return, or as ArrayContents.Kept says.       *)
ContentsSpec == Contents!ACSpec
===============================================================================
