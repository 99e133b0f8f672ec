-------------------------- MODULE ArrayStorageProofs --------------------------
(***************************************************************************)
(* Proofs about ArrayStorage, for arrays of every size, every set of       *)
(* values and every depth of nested putAll:.  The strategies do not change *)
(* what an array holds, whatever blocks answer (MixedFills) but for the    *)
(* one answer that Kept lets go; elements of unboxed storage have its kind *)
(* if no block answers mixed kinds or booleans.  The callers of            *)
(* from_values never mix nil with one kind (MixedArguments).               *)
(***************************************************************************)
EXTENDS ArrayStorage, FiniteSetTheorems, SequenceTheorems, TLAPS

Holds(x) == \A i \in DOMAIN x.store :
              /\ ~MixedFills /\ x.strategy \in Unboxed => KindOf[x.store[i]] = x.strategy
              /\ x.strategy = "empty" => x.store[i] = nilObject

Sound(x) == x \in ArrayRecord /\ Holds(x) /\ KnowsItsKind(x)

-------------------------------------------------------------------------------
(* Storages.                                                                 *)

LEMMA StoreType ==
    ASSUME NEW x \in ArrayRecord
    PROVE  /\ x.store \in Seq(Values) /\ Len(x.store) \in Nat
           /\ DOMAIN x.store = 1 .. Len(x.store)
           /\ \A i \in DOMAIN x.store : x.store[i] \in Values
  BY DEF ArrayRecord

LEMMA HolesAreFinite ==
    ASSUME NEW x \in ArrayRecord
    PROVE  IsFiniteSet(Holes(x)) /\ Cardinality(Holes(x)) \in Nat
  <1>1. IsFiniteSet(1 .. Len(x.store))
    BY StoreType, FS_Interval
  <1>2. Holes(x) \in SUBSET (1 .. Len(x.store))
    BY StoreType DEF Holes
  <1> QED BY <1>1, <1>2, FS_Subset, FS_CardinalityType

(* An array without partial storage of the right kind of elements is sound.  *)
LEMMA ArraySound ==
    ASSUME NEW strategy \in Strategies \ {"partial"}, NEW store \in Seq(Values),
           \A i \in DOMAIN store : /\ ~MixedFills /\ strategy \in Unboxed => KindOf[store[i]] = strategy
                                   /\ strategy = "empty" => store[i] = nilObject
    PROVE  Sound(Array(strategy, store)) /\ Array(strategy, store).store = store
  BY DEF Array, Sound, ArrayRecord, Holds, KnowsItsKind

LEMMA NilsAreSequence ==
    ASSUME NEW n \in Nat
    PROVE  /\ Nils(n) \in Seq(Values) /\ Len(Nils(n)) = n
           /\ \A i \in DOMAIN Nils(n) : Nils(n)[i] = nilObject
  <1>1. Nils(n) \in [1 .. n -> Values]
    BY ValueAssumption DEF Nils
  <1> QED BY <1>1 DEF Nils

LEMMA FromSizeSound ==
    ASSUME NEW n \in Nat
    PROVE  Sound(FromSize(n)) /\ FromSize(n).store = Nils(n)
  <1>1. "empty" \in Strategies \ {"partial"} /\ "empty" \notin Unboxed
    BY DEF Strategies, Unboxed
  <1> QED BY <1>1, NilsAreSequence, ArraySound DEF FromSize

(* Values of the strategy's own kind are stored as they are.                 *)
LEMMA StoredAsTheyAre ==
    ASSUME NEW strategy, NEW values \in Seq(Values),
           strategy \in Unboxed => \A i \in DOMAIN values : KindOf[values[i]] = strategy
    PROVE  StoreWithValues(strategy, values) = values
  <1>1. CASE strategy # "bool"
    BY <1>1 DEF StoreWithValues
  <1>2. CASE strategy = "bool"
    <2>1. \A i \in DOMAIN values : values[i] \in {trueObject, falseObject}
      BY <1>2, ValueAssumption DEF Unboxed
    <2>2. StoreWithValues(strategy, values) = [i \in DOMAIN values |-> values[i]]
      BY <1>2, <2>1 DEF StoreWithValues
    <2>3. values = [i \in DOMAIN values |-> values[i]]
      OBVIOUS
    <2> QED BY <2>2, <2>3
  <1> QED BY <1>1, <1>2

-------------------------------------------------------------------------------
(* at:put: on partially empty storage.                                       *)

(* The number of holes after a put, and so the difference to the count.      *)
LEMMA HolesAfterPut ==
    ASSUME NEW x \in ArrayRecord, NEW y \in ArrayRecord, NEW i \in DOMAIN x.store,
           NEW v \in Values, y.store = [x.store EXCEPT ![i] = v]
    PROVE  Cardinality(Holes(y)) =
             IF x.store[i] = nilObject /\ v # nilObject THEN Cardinality(Holes(x)) - 1
             ELSE IF x.store[i] # nilObject /\ v = nilObject THEN Cardinality(Holes(x)) + 1
             ELSE Cardinality(Holes(x))
  <1>1. IsFiniteSet(Holes(x))
    BY HolesAreFinite
  <1>2. DOMAIN y.store = DOMAIN x.store
    OBVIOUS
  <1>3. CASE v = nilObject
    <2>1. Holes(y) = Holes(x) \cup {i}
      BY <1>2, <1>3 DEF Holes
    <2>2. i \in Holes(x) <=> x.store[i] = nilObject
      BY DEF Holes
    <2> QED BY <1>1, <1>3, <2>1, <2>2, FS_AddElement
  <1>4. CASE v # nilObject
    <2>1. Holes(y) = Holes(x) \ {i}
      BY <1>2, <1>4 DEF Holes
    <2>2. i \in Holes(x) <=> x.store[i] = nilObject
      BY DEF Holes
    <2> QED BY <1>1, <1>4, <2>1, <2>2, FS_RemoveElement
  <1> QED BY <1>3, <1>4

(* What is known between the two halves of set_idx: the type may already be  *)
(* obj and the count may be zero.                                            *)
Unsettled(y) ==
    /\ y = Partial(y.store, y.empty, y.type)
    /\ y.store \in Seq(Values) /\ y.empty \in Nat
    /\ y.type \in {"None", "obj"} \cup Unboxed
    /\ y.empty >= Cardinality(Holes(y))
    /\ y.empty = Cardinality(Holes(y)) /\ y.type # "obj" =>
          \A i \in DOMAIN y.store : KindOf[y.store[i]] \in {"nil", y.type}

LEMMA PartialAfterPut ==
    ASSUME NEW x, Sound(x), x.strategy = "partial",
           NEW i \in DOMAIN x.store, NEW v \in Values
    PROVE  /\ Unsettled(PutPartial(x, i, v))
           /\ PutPartial(x, i, v).store = [x.store EXCEPT ![i] = v]
           /\ v = nilObject => PutPartial(x, i, v).empty > 0 /\ PutPartial(x, i, v).type # "obj"
  <1> DEFINE y == PutPartial(x, i, v)
  <1>1. /\ x \in ArrayRecord /\ x.empty > 0 /\ x.empty \in Nat
        /\ x.type \in {"None"} \cup Unboxed
        /\ x.empty >= Cardinality(Holes(x)) /\ Cardinality(Holes(x)) \in Nat
        /\ x.empty = Cardinality(Holes(x)) =>
              \A j \in DOMAIN x.store : KindOf[x.store[j]] \in {"nil", x.type}
    BY HolesAreFinite DEF Sound, KnowsItsKind, ArrayRecord
  <1>2. /\ y.store = [x.store EXCEPT ![i] = v] /\ y = Partial(y.store, y.empty, y.type)
        /\ y.empty = IF x.store[i] = nilObject /\ v # nilObject THEN x.empty - 1
                     ELSE IF x.store[i] # nilObject /\ v = nilObject THEN x.empty + 1
                     ELSE x.empty
        /\ y.type = IF v = nilObject THEN x.type
                    ELSE IF x.type \in {"None", KindOf[v]} THEN KindOf[v] ELSE "obj"
    BY DEF PutPartial, Partial
  <1>3. y.store \in Seq(Values) /\ DOMAIN y.store = DOMAIN x.store
    BY <1>1, <1>2, StoreType, ExceptSeq
  <1> DEFINE z == [x EXCEPT !.store = y.store]
  <1>4. z \in ArrayRecord /\ z.store = [x.store EXCEPT ![i] = v]
    BY <1>1, <1>2, <1>3 DEF ArrayRecord
  <1>5. Holes(y) = Holes(z)
    BY <1>1, <1>2 DEF Holes, ArrayRecord
  <1>6. y.empty - Cardinality(Holes(y)) = x.empty - Cardinality(Holes(x))
    <2> HIDE DEF y, z
    <2>1. Cardinality(Holes(z)) =
             IF x.store[i] = nilObject /\ v # nilObject THEN Cardinality(Holes(x)) - 1
             ELSE IF x.store[i] # nilObject /\ v = nilObject THEN Cardinality(Holes(x)) + 1
             ELSE Cardinality(Holes(x))
      BY <1>1, <1>4, HolesAfterPut
    <2>2. Cardinality(Holes(y)) = Cardinality(Holes(z))
      BY <1>5
    <2> QED BY <1>1, <1>2, <2>1, <2>2
  <1>7. Cardinality(Holes(y)) \in Nat
    BY <1>4, <1>5, HolesAreFinite
  <1>8. KindOf[v] \in Unboxed \cup {"nil", "obj"} /\ (KindOf[v] = "nil" <=> v = nilObject)
    BY ValueAssumption
  <1>9. y.empty \in Nat /\ y.empty >= Cardinality(Holes(y))
    BY <1>1, <1>2, <1>6, <1>7
  <1>10. y.type \in {"None", "obj"} \cup Unboxed
    BY <1>1, <1>2, <1>8
  <1>11. ASSUME y.empty = Cardinality(Holes(y)), y.type # "obj", NEW j \in DOMAIN y.store
         PROVE  KindOf[y.store[j]] \in {"nil", y.type}
    <2>1. KindOf[x.store[j]] \in {"nil", x.type}
      BY <1>1, <1>3, <1>6, <1>7, <1>11
    <2>2. x.store[j] \in Values
      BY <1>1, <1>3, StoreType
    <2>3. KindOf[x.store[j]] # "None"
      BY <2>2, ValueAssumption DEF Unboxed
    <2>4. CASE v = nilObject
      BY <1>2, <1>3, <1>8, <2>1, <2>4
    <2>5. CASE v # nilObject /\ x.type \in {"None", KindOf[v]}
      BY <1>2, <1>3, <1>8, <2>1, <2>3, <2>5
    <2>6. CASE v # nilObject /\ x.type \notin {"None", KindOf[v]}
      BY <1>2, <1>11, <2>6
    <2> QED BY <2>4, <2>5, <2>6
  <1>12. v = nilObject => y.empty > 0 /\ y.type # "obj"
    BY <1>1, <1>2 DEF Unboxed
  <1> QED BY <1>2, <1>3, <1>9, <1>10, <1>11, <1>12 DEF Unsettled

(* If the count reached zero there are no holes and the type is right.       *)
LEMMA SettledSound ==
    ASSUME NEW y, NEW v \in Values, Unsettled(y),
           v = nilObject => y.empty > 0 /\ y.type # "obj",
           y.store # <<>>,
           v # nilObject => y.type # "None"
    PROVE  Sound(Settled(y, v)) /\ Settled(y, v).store = y.store
  <1>1. CASE v # nilObject /\ y.type = "obj"
    <2>1. Settled(y, v) = Array("obj", StoreWithValues("obj", y.store))
      BY <1>1 DEF Settled
    <2>2. StoreWithValues("obj", y.store) = y.store
      BY DEF StoreWithValues
    <2> QED BY <2>1, <2>2, ArraySound DEF Unsettled, Strategies, Unboxed
  <1>2. CASE v # nilObject /\ y.type # "obj" /\ y.empty = 0
    <2>1. Cardinality(Holes(y)) = 0 /\ IsFiniteSet(Holes(y))
      <3>1. y.store \in Seq(Values) /\ y.empty = 0 /\ y.empty >= Cardinality(Holes(y))
        BY <1>2 DEF Unsettled
      <3>2. Holes(y) \in SUBSET (1 .. Len(y.store))
        BY <3>1 DEF Holes
      <3>4. IsFiniteSet(1 .. Len(y.store))
        BY <3>1, FS_Interval
      <3>3. IsFiniteSet(Holes(y)) /\ Cardinality(Holes(y)) \in Nat
        BY <3>2, <3>4, FS_Subset, FS_CardinalityType
      <3> QED BY <3>1, <3>3
    <2>2. Holes(y) = {}
      BY <2>1, FS_EmptySet
    <2>3. \A j \in DOMAIN y.store : KindOf[y.store[j]] = y.type
      <3>1. SUFFICES ASSUME NEW j \in DOMAIN y.store PROVE KindOf[y.store[j]] = y.type
        OBVIOUS
      <3>2. KindOf[y.store[j]] \in {"nil", y.type}
        BY <1>2, <2>1 DEF Unsettled
      <3>3. y.store[j] # nilObject /\ y.store[j] \in Values
        BY <2>2 DEF Holes, Unsettled
      <3> QED BY <3>2, <3>3, ValueAssumption
    <2>4. y.type \in Unboxed /\ y.store \in Seq(Values)
      BY <1>2 DEF Unsettled
    <2>5. Settled(y, v) = Array(y.type, y.store)
      BY <1>2, <2>3, <2>4, StoredAsTheyAre DEF Settled
    <2> QED BY <2>3, <2>4, <2>5, ArraySound DEF Strategies, Unboxed
  <1>3. CASE v = nilObject \/ (y.type # "obj" /\ y.empty # 0)
    <2>1. Settled(y, v) = y /\ y.empty > 0 /\ y.type # "obj"
      BY <1>3 DEF Settled, Unsettled
    <2>2. y = Partial(y.store, y.empty, y.type) /\ y.strategy = "partial"
      BY DEF Unsettled, Partial
    <2>3. y \in ArrayRecord
      <3>1. y.store \in Seq(Values) /\ y.empty \in Nat /\ y.type \in {"None"} \cup Unboxed
        BY <2>1 DEF Unsettled
      <3> QED BY <2>2, <3>1 DEF Partial, ArrayRecord, Strategies
    <2>4. Holds(y)
      BY <2>2 DEF Holds, Unboxed
    <2>5. KnowsItsKind(y)
      BY <2>1 DEF Unsettled, KnowsItsKind
    <2> QED BY <2>1, <2>3, <2>4, <2>5 DEF Sound
  <1> QED BY <1>1, <1>2, <1>3

(* A partially empty array with one more element put into it.                *)
LEMMA PutAndSettled ==
    ASSUME NEW x, Sound(x), x.strategy = "partial",
           NEW i \in DOMAIN x.store, NEW v \in Values
    PROVE  /\ Sound(Settled(PutPartial(x, i, v), v))
           /\ Settled(PutPartial(x, i, v), v).store = [x.store EXCEPT ![i] = v]
  <1> DEFINE y == PutPartial(x, i, v)
  <1>1. /\ Unsettled(y) /\ y.store = [x.store EXCEPT ![i] = v]
        /\ v = nilObject => y.empty > 0 /\ y.type # "obj"
    BY PartialAfterPut
  <1>2. y.store # <<>>
    <2>1. x.store \in Seq(Values) /\ Len(y.store) = Len(x.store) /\ i \in 1 .. Len(x.store)
      BY <1>1, StoreType, ExceptSeq DEF Sound
    <2> QED BY <2>1
  <1>3. v # nilObject => y.type # "None"
    BY ValueAssumption DEF PutPartial, Partial, Unboxed
  <1> HIDE DEF y
  <1>4. Sound(Settled(y, v)) /\ Settled(y, v).store = y.store
    BY <1>1, <1>2, <1>3, SettledSound
  <1> QED BY <1>1, <1>4 DEF y

(* The array of nils that the empty strategy stands for, made partial.       *)
LEMMA PartialNilsSound ==
    ASSUME NEW x, Sound(x), x.strategy = "empty", x.store # <<>>
    PROVE  Sound(Partial(x.store, Len(x.store), "None"))
  <1> DEFINE y == Partial(x.store, Len(x.store), "None")
  <1>1. x \in ArrayRecord /\ \A i \in DOMAIN x.store : x.store[i] = nilObject
    BY DEF Sound, Holds
  <1>2. y \in ArrayRecord /\ Len(x.store) > 0
    BY <1>1, StoreType DEF Partial, ArrayRecord, Strategies
  <1>3. Holes(y) = 1 .. Len(x.store)
    BY <1>1, StoreType DEF Holes, Partial
  <1>4. Cardinality(Holes(y)) = Len(x.store)
    BY <1>2, <1>3, FS_Interval, StoreType
  <1>5. \A i \in DOMAIN y.store : KindOf[y.store[i]] = "nil"
    BY <1>1, ValueAssumption DEF Partial
  <1> QED BY <1>2, <1>4, <1>5 DEF Sound, Holds, KnowsItsKind, Partial, Unboxed

(* at:put: keeps the storage sound and changes one element.                  *)
LEMMA SetIdxSound ==
    ASSUME NEW x, Sound(x), NEW i \in DOMAIN x.store, NEW v \in Values, SetIdxAsserts(x, v)
    PROVE  Sound(SetIdx(x, i, v)) /\ SetIdx(x, i, v).store = [x.store EXCEPT ![i] = v]
  <1>1. /\ x \in ArrayRecord /\ x.store \in Seq(Values) /\ x.strategy \in Strategies
        /\ DOMAIN x.store = 1 .. Len(x.store) /\ x.store # <<>>
    BY StoreType DEF Sound, ArrayRecord
  <1> DEFINE store == [x.store EXCEPT ![i] = v]
  <1>2. store \in Seq(Values) /\ DOMAIN store = DOMAIN x.store
    BY <1>1, ExceptSeq
  <1>3. CASE x.strategy = "empty" /\ v = nilObject
    <2>1. x.store[i] = nilObject
      BY <1>3 DEF Sound, Holds
    <2>2. SetIdx(x, i, v) = x /\ store = x.store
      BY <1>1, <1>3, <2>1 DEF SetIdx
    <2> QED BY <2>2
  <1>4. CASE x.strategy = "empty" /\ v # nilObject
    <2> DEFINE y == Partial(x.store, Len(x.store), "None")
    <2>1. Sound(y) /\ y.strategy = "partial" /\ y.store = x.store
      BY <1>1, <1>4, PartialNilsSound DEF Partial
    <2>2. SetIdx(x, i, v) = Settled(PutPartial(y, i, v), v)
      BY <1>4 DEF SetIdx
    <2> HIDE DEF y
    <2> QED BY <2>1, <2>2, PutAndSettled
  <1>5. CASE x.strategy = "partial"
    <2>1. SetIdx(x, i, v) = Settled(PutPartial(x, i, v), v)
      BY <1>5 DEF SetIdx
    <2> QED BY <1>5, <2>1, PutAndSettled
  <1>6. CASE x.strategy = "long" /\ KindOf[v] # "long"
    <2>1. SetIdx(x, i, v) = Array("obj", store)
      BY <1>6 DEF SetIdx
    <2> QED BY <1>2, <2>1, ArraySound DEF Strategies, Unboxed
  <1>7. CASE x.strategy \in Unboxed \cup {"obj"} /\ ~(x.strategy = "long" /\ KindOf[v] # "long")
    <2>1. SetIdx(x, i, v) = [x EXCEPT !.store = store]
      BY <1>1, <1>7 DEF SetIdx, Unboxed, ArrayRecord
    <2>2. [x EXCEPT !.store = store] \in ArrayRecord
      BY <1>1, <1>2 DEF ArrayRecord
    <2>3. [x EXCEPT !.store = store].store = store /\ [x EXCEPT !.store = store].strategy = x.strategy
      BY <1>1 DEF ArrayRecord
    <2>4. x.strategy \in Unboxed => KindOf[v] = x.strategy
      BY <1>7 DEF SetIdxAsserts, Unboxed
    <2>5. Holds([x EXCEPT !.store = store])
      BY <1>2, <1>7, <2>3, <2>4 DEF Sound, Holds, Unboxed
    <2>6. KnowsItsKind([x EXCEPT !.store = store])
      BY <1>7, <2>3 DEF KnowsItsKind, Unboxed
    <2> QED BY <2>1, <2>2, <2>3, <2>5, <2>6 DEF Sound
  <1> QED BY <1>1, <1>3, <1>4, <1>5, <1>6, <1>7 DEF Strategies

-------------------------------------------------------------------------------
(* The other operations on one array.                                        *)

LEMMA SetAllSound ==
    ASSUME NEW x, Sound(x), NEW v \in Values
    PROVE  /\ Sound(SetAll(x, v))
           /\ SetAll(x, v).store = [i \in DOMAIN x.store |-> v]
  <1>1. /\ x \in ArrayRecord /\ x.store \in Seq(Values) /\ Len(x.store) \in Nat
        /\ DOMAIN x.store = 1 .. Len(x.store)
    BY StoreType DEF Sound
  <1>2. CASE x.strategy = "empty" /\ x.store = <<>>
    BY <1>1, <1>2 DEF SetAll
  <1>3. CASE ~(x.strategy = "empty" /\ x.store = <<>>) /\ v = nilObject
    <2>1. SetAll(x, v) = FromSize(Len(x.store))
      BY <1>3 DEF SetAll
    <2> QED BY <1>1, <1>3, <2>1, FromSizeSound DEF Nils
  <1>4. CASE ~(x.strategy = "empty" /\ x.store = <<>>) /\ v # nilObject
    <2> DEFINE store == [i \in DOMAIN x.store |-> v]
    <2>1. SetAll(x, v) = Array(KindOf[v], store)
      BY <1>4 DEF SetAll
    <2>2. store \in Seq(Values) /\ DOMAIN store = DOMAIN x.store
      BY <1>1
    <2>3. KindOf[v] \in Unboxed \cup {"obj"}
      BY <1>4, ValueAssumption
    <2> QED BY <2>1, <2>2, <2>3, ArraySound DEF Strategies, Unboxed
  <1> QED BY <1>2, <1>3, <1>4

LEMMA CopiedSound ==
    ASSUME NEW x, Sound(x)
    PROVE  Sound(Copied(x)) /\ Copied(x).store = x.store
  <1>1. CASE x.strategy # "partial"
    BY <1>1 DEF Copied
  <1>2. CASE x.strategy = "partial"
    <2> DEFINE y == Partial(x.store, Len(x.store), "None")
    <2>1. x \in ArrayRecord /\ x.empty > 0
      BY <1>2 DEF Sound, KnowsItsKind
    <2>2. y \in ArrayRecord /\ Len(x.store) \in Nat
      BY <2>1, StoreType DEF Partial, ArrayRecord, Strategies
    <2>3. Holes(y) \in SUBSET (1 .. Len(x.store))
      BY <2>1, StoreType DEF Holes, Partial
    <2>4. IsFiniteSet(1 .. Len(x.store)) /\ Cardinality(1 .. Len(x.store)) = Len(x.store)
      BY <2>2, FS_Interval
    <2>5. /\ Cardinality(Holes(y)) <= Len(x.store)
          /\ Cardinality(Holes(y)) = Len(x.store) => Holes(y) = 1 .. Len(x.store)
      BY <2>3, <2>4, FS_Subset
    <2>6. Len(x.store) > 0 /\ x.store # <<>>
      BY <1>2, <2>1, <2>2, StoreType DEF Sound, KnowsItsKind
    <2>7. \A i \in Holes(y) : KindOf[y.store[i]] = "nil"
      BY <2>2, ValueAssumption DEF Holes, ArrayRecord
    <2>8. /\ y.strategy = "partial" /\ y.store = x.store
          /\ y.empty = Len(x.store) /\ DOMAIN x.store = 1 .. Len(x.store)
      BY <2>1, StoreType DEF Partial
    <2> HIDE DEF y
    <2>9. KnowsItsKind(y)
      BY <2>4, <2>5, <2>6, <2>7, <2>8 DEF KnowsItsKind
    <2>10. Holds(y)
      BY <2>8 DEF Holds, Unboxed
    <2>11. Copied(x) = y
      BY <1>2 DEF Copied, y
    <2> QED BY <2>2, <2>8, <2>9, <2>10, <2>11 DEF Sound
  <1> QED BY <1>1, <1>2

(* A partially empty array with one more hole, before it is filled.          *)
LEMMA PartialWithHoleSound ==
    ASSUME NEW x, Sound(x), x.strategy = "partial"
    PROVE  Sound(Partial(Append(x.store, nilObject), x.empty + 1, x.type))
  <1> DEFINE y == Partial(Append(x.store, nilObject), x.empty + 1, x.type)
             n == Len(x.store) + 1
  <1>1. /\ x \in ArrayRecord /\ x.store \in Seq(Values) /\ Len(x.store) \in Nat
        /\ x.empty \in Nat /\ x.empty > 0 /\ x.empty >= Cardinality(Holes(x))
        /\ DOMAIN x.store = 1 .. Len(x.store)
        /\ IsFiniteSet(Holes(x)) /\ Cardinality(Holes(x)) \in Nat
    BY StoreType, HolesAreFinite DEF Sound, KnowsItsKind, ArrayRecord
  <1>2. /\ y.store \in Seq(Values) /\ DOMAIN y.store = 1 .. n /\ y.store # <<>>
        /\ y.store[n] = nilObject /\ \A i \in DOMAIN x.store : y.store[i] = x.store[i]
        /\ y.strategy = "partial" /\ y.empty = x.empty + 1 /\ y.type = x.type
    BY <1>1, ValueAssumption DEF Partial
  <1>3. y \in ArrayRecord
    BY <1>1, ValueAssumption DEF Partial, ArrayRecord, Strategies
  <1> HIDE DEF y
  <1>4. Holes(y) = Holes(x) \cup {n} /\ n \notin Holes(x)
    BY <1>1, <1>2 DEF Holes
  <1> HIDE DEF n
  <1>5. Cardinality(Holes(y)) = Cardinality(Holes(x)) + 1
    BY <1>1, <1>4, FS_AddElement
  <1>6. ASSUME y.empty = Cardinality(Holes(y)), NEW i \in DOMAIN y.store
        PROVE  KindOf[y.store[i]] \in {"nil", y.type}
    <2>1. CASE i = n
      BY <1>2, <2>1, ValueAssumption
    <2>2. CASE i # n
      <3>1. x.empty = Cardinality(Holes(x)) /\ i \in DOMAIN x.store
        BY <1>1, <1>2, <1>5, <1>6, <2>2 DEF n
      <3> QED BY <1>2, <3>1 DEF Sound, KnowsItsKind
    <2> QED BY <2>1, <2>2
  <1>7. KnowsItsKind(y)
    BY <1>1, <1>2, <1>5, <1>6 DEF KnowsItsKind
  <1>8. Holds(y)
    BY <1>2 DEF Holds, Unboxed
  <1> QED BY <1>3, <1>7, <1>8 DEF Sound, y

LEMMA LastReplaced ==
    ASSUME NEW s \in Seq(Values), NEW c \in Values, NEW v \in Values
    PROVE  [Append(s, c) EXCEPT ![Len(s) + 1] = v] = Append(s, v)
  <1> DEFINE t == Append(s, c)
             n == Len(s) + 1
  <1>1. t \in Seq(Values) /\ Len(t) = n /\ n \in 1 .. Len(t) /\ \A i \in 1 .. Len(s) : t[i] = s[i]
    OBVIOUS
  <1>2. Append(s, v) \in Seq(Values) /\ Len(Append(s, v)) = n
        /\ \A i \in 1 .. n : Append(s, v)[i] = IF i = n THEN v ELSE t[i]
    OBVIOUS
  <1> HIDE DEF t
  <1>3. /\ [t EXCEPT ![n] = v] \in Seq(Values) /\ Len([t EXCEPT ![n] = v]) = n
        /\ \A i \in 1 .. n : [t EXCEPT ![n] = v][i] = IF i = n THEN v ELSE t[i]
    BY <1>1, ExceptSeq
  <1> HIDE DEF n
  <1>4. [t EXCEPT ![n] = v] = Append(s, v)
    BY <1>2, <1>3, SeqEqual
  <1> QED BY <1>4 DEF t, n

LEMMA ExtendedSound ==
    ASSUME NEW x, Sound(x), NEW v \in Values,
           x.strategy \in Unboxed => KindOf[v] = x.strategy
    PROVE  Sound(Extended(x, v)) /\ Extended(x, v).store = Append(x.store, v)
  <1>1. /\ x \in ArrayRecord /\ x.store \in Seq(Values) /\ Len(x.store) \in Nat
        /\ x.strategy \in Strategies
    BY StoreType DEF Sound, ArrayRecord
  <1>2. CASE x.strategy = "empty" /\ v = nilObject
    <2>1. Extended(x, v) = FromSize(Len(x.store) + 1)
      BY <1>2 DEF Extended
    <2>2. \A i \in DOMAIN x.store : x.store[i] = nilObject
      BY <1>2 DEF Sound, Holds
    <2>3. Append(x.store, v) = Nils(Len(x.store) + 1)
      BY <1>1, <1>2, <2>2 DEF Nils
    <2> QED BY <1>1, <2>1, <2>3, FromSizeSound
  <1>3. CASE x.strategy = "empty" /\ v # nilObject
    <2>1. Extended(x, v) = Array("obj", Append(x.store, v))
      BY <1>3 DEF Extended
    <2> DEFINE store == Append(x.store, v)
    <2>2. store \in Seq(Values)
      BY <1>1
    <2> HIDE DEF store
    <2>3. Sound(Array("obj", store)) /\ Array("obj", store).store = store
      BY <2>2, ArraySound DEF Strategies, Unboxed
    <2> QED BY <2>1, <2>3 DEF store
  <1>4. CASE x.strategy = "partial"
    <2> DEFINE y == Partial(Append(x.store, nilObject), x.empty + 1, x.type)
               n == Len(x.store) + 1
    <2>1. Sound(y) /\ y.strategy = "partial"
      BY <1>4, PartialWithHoleSound DEF Partial
    <2>2. n \in DOMAIN y.store
      BY <1>1 DEF Partial
    <2>3. Extended(x, v) = SetIdx(y, n, v) /\ SetIdxAsserts(y, v)
      BY <1>4, <2>1 DEF Extended, SetIdxAsserts
    <2>5. [y.store EXCEPT ![n] = v] = Append(x.store, v)
      <3>1. y.store = Append(x.store, nilObject) /\ nilObject \in Values
        BY ValueAssumption DEF Partial
      <3> QED BY <1>1, <3>1, LastReplaced
    <2> HIDE DEF y, n
    <2>4. Sound(SetIdx(y, n, v)) /\ SetIdx(y, n, v).store = [y.store EXCEPT ![n] = v]
      BY <2>1, <2>2, <2>3, SetIdxSound
    <2> QED BY <2>3, <2>4, <2>5
  <1>5. CASE x.strategy \in Unboxed \cup {"obj"}
    <2> DEFINE y == [x EXCEPT !.store = Append(x.store, v)]
    <2>1. Extended(x, v) = y
      BY <1>5 DEF Extended, Unboxed
    <2>2. y \in ArrayRecord /\ y.strategy = x.strategy /\ y.store = Append(x.store, v)
      BY <1>1 DEF ArrayRecord
    <2>3. Holds(y)
      BY <1>1, <1>5, <2>2 DEF Sound, Holds, Unboxed
    <2>4. KnowsItsKind(y)
      BY <1>5, <2>2 DEF KnowsItsKind, Unboxed
    <2> QED BY <2>1, <2>2, <2>3, <2>4 DEF Sound
  <1> QED BY <1>1, <1>2, <1>3, <1>4, <1>5 DEF Strategies

(* from_values when nothing misfits.                                         *)
LEMMA FromValuesSound ==
    ASSUME NEW values \in Seq(Values), ~Misfits(StrategyFor(values), values)
    PROVE  LET x == Array(StrategyFor(values), StoreWithValues(StrategyFor(values), values))
           IN Sound(x) /\ x.store = values
  <1> DEFINE strategy == StrategyFor(values)
  <1>1. strategy \in Unboxed \cup {"empty", "obj"}
    BY DEF StrategyFor
  <1>2. strategy = "empty" => \A i \in DOMAIN values : values[i] = nilObject
    <2>1. SUFFICES ASSUME strategy = "empty", NEW i \in DOMAIN values
                   PROVE  values[i] = nilObject
      OBVIOUS
    <2>2. KindsIn(values) = {}
      BY <2>1 DEF StrategyFor, Unboxed
    <2>3. KindOf[values[i]] = "nil"
      BY <2>2 DEF KindsIn
    <2> QED BY <2>3, ValueAssumption
  <1>3. strategy \in Unboxed => \A i \in DOMAIN values : KindOf[values[i]] = strategy
    BY DEF Misfits
  <1> HIDE DEF strategy
  <1>4. StoreWithValues(strategy, values) = values
    BY <1>3, StoredAsTheyAre
  <1> QED BY <1>1, <1>2, <1>3, <1>4, ArraySound DEF Strategies, Unboxed, strategy

-------------------------------------------------------------------------------
(* The inductive invariant.                                                  *)

(* The answers so far: all of one kind, or in storage for objects, where one *)
(* of them may be lost.                                                      *)
KeepsAnswers(f) ==
    /\ Len(f.answers) = Len(f.store)
    /\ (f.mode # "obj" \/ ~MixedFills) => f.store = f.answers
    /\ (f.mode \in {"nil", "long"} \/ (f.mode = "double" /\ ~MixedFills)) =>
          \A i \in DOMAIN f.store : KindOf[f.store[i]] = f.mode

FillSound(f) ==
    /\ f \in FillRecord
    /\ f.array \in Allocated
    /\ f.size = Len(arrays[f.array].store)
    /\ Len(f.store) < f.size
    /\ KeepsAnswers(f)
    /\ f.mode = "first" <=> f.store = <<>>

ArraysSound == /\ arrays \in [Arrays -> {Unallocated} \cup ArrayRecord]
               /\ \A a \in Allocated : Sound(arrays[a])

FillsSound == /\ fills \in Seq(FillRecord)
              /\ \A n \in DOMAIN fills : FillSound(fills[n])

Inv == /\ ArraysSound
       /\ FillsSound
       /\ outcome \in {"done", "left"} \cup Exceptions
       /\ operation \in Operations

(* One array is replaced by one of the same size, or allocated.              *)
LEMMA ReplaceArray ==
    ASSUME ArraysSound, NEW a \in Arrays, NEW x, Sound(x),
           arrays' = [arrays EXCEPT ![a] = x],
           a \in Allocated => Len(x.store) = Len(arrays[a].store)
    PROVE  /\ ArraysSound'
           /\ Allocated' = Allocated \cup {a}
           /\ \A f : FillSound(f) => FillSound(f)'
  <1>1. x \in ArrayRecord /\ x # Unallocated
    BY UnallocatedAssumption DEF Sound
  <1>2. Allocated' = Allocated \cup {a}
    BY <1>1 DEF ArraysSound, Allocated
  <1>3. ArraysSound'
    BY <1>1, <1>2 DEF ArraysSound, Allocated
  <1>4. ASSUME NEW f, FillSound(f) PROVE FillSound(f)'
    BY <1>2, <1>4 DEF FillSound, ArraysSound, Allocated
  <1> QED BY <1>2, <1>3, <1>4

LEMMA FillsAfterReplacement ==
    ASSUME FillsSound, UNCHANGED fills, \A f : FillSound(f) => FillSound(f)'
    PROVE  FillsSound'
  BY DEF FillsSound

(* Some of the innermost fills are left.                                     *)
LEMMA FillsLeft ==
    ASSUME FillsSound, NEW n \in 0 .. Len(fills), \A f : FillSound(f) => FillSound(f)',
           fills' = SubSeq(fills, 1, n)
    PROVE  FillsSound'
  <1>1. /\ fills' \in Seq(FillRecord) /\ Len(fills') = n
        /\ \A i \in 1 .. n : fills'[i] = fills[i]
    BY DEF FillsSound
  <1>2. \A i \in 1 .. n : FillSound(fills[i])'
    BY DEF FillsSound
  <1> QED BY <1>1, <1>2 DEF FillsSound

LEMMA FillsPushed ==
    ASSUME FillsSound, NEW s \in Seq(FillRecord), \A n \in DOMAIN s : FillSound(s[n]),
           NEW f, FillSound(f), \A g : FillSound(g) => FillSound(g)',
           fills' = Append(s, f)
    PROVE  FillsSound'
  <1>1. f \in FillRecord
    BY DEF FillSound
  <1>2. /\ fills' \in Seq(FillRecord) /\ Len(fills') = Len(s) + 1
        /\ \A i \in 1 .. Len(s) : fills'[i] = s[i]
        /\ fills'[Len(s) + 1] = f
    BY <1>1
  <1>3. \A i \in DOMAIN fills' : fills'[i] = f \/ \E n \in DOMAIN s : fills'[i] = s[n]
    BY <1>2
  <1> QED BY <1>2, <1>3 DEF FillsSound

LEMMA Unfinished ==
    ASSUME FillsSound, fills # <<>>
    PROVE  /\ FillSound(Innermost)
           /\ Outer \in Seq(FillRecord) /\ Len(fills) - 1 \in 0 .. Len(fills)
           /\ \A n \in DOMAIN Outer : FillSound(Outer[n])
  <1>1. fills \in Seq(FillRecord) /\ Len(fills) \in Nat \ {0}
    BY DEF FillsSound
  <1>2. Len(fills) \in DOMAIN fills
    BY <1>1
  <1>3. /\ Outer \in Seq(FillRecord) /\ Len(Outer) = Len(fills) - 1
        /\ \A n \in DOMAIN Outer : n \in DOMAIN fills /\ Outer[n] = fills[n]
    <2> DEFINE m == Len(fills) - 1
    <2>1. m \in 0 .. Len(fills)
      BY <1>1
    <2>2. Outer = SubSeq(fills, 1, m)
      BY DEF Outer
    <2> HIDE DEF m
    <2>3. /\ Outer \in Seq(FillRecord) /\ Len(Outer) = m
          /\ \A n \in 1 .. m : Outer[n] = fills[n]
      BY <1>1, <2>1, <2>2
    <2> QED BY <1>1, <2>1, <2>3 DEF m
  <1> QED BY <1>1, <1>2, <1>3 DEF FillsSound, Innermost

LEMMA RaiseInv ==
    ASSUME Inv, NEW e \in Exceptions, Raise(e)
    PROVE  Inv'
  <1>1. ArraysSound'
    BY DEF Inv, Raise, ArraysSound, Allocated
  <1>2. FillsSound'
    BY DEF Raise, FillsSound
  <1> QED BY <1>1, <1>2 DEF Inv, Raise, Operations

LEMMA AllocateInv ==
    ASSUME Inv, NEW a \in Arrays \ Allocated, NEW x, Sound(x),
           NEW op \in Operations, Allocate(a, x, op)
    PROVE  Inv'
  <1>1. ArraysSound' /\ \A f : FillSound(f) => FillSound(f)'
    BY ReplaceArray DEF Inv, Allocate
  <1>2. FillsSound'
    BY <1>1, FillsAfterReplacement DEF Inv, Allocate
  <1> QED BY <1>1, <1>2 DEF Inv, Allocate

(* A fill with one more answer: stored, or finished.                         *)
Stored(f) == /\ f \in FillRecord /\ f.array = Innermost.array /\ f.size = Innermost.size
             /\ Len(f.store) = Len(Innermost.store) + 1 /\ KeepsAnswers(f)
             /\ f.mode # "first"
             /\ operation' \in Operations

(* ... leaves sound storage with these answers when it is the last one.      *)
LEMMA SoundFilled ==
    ASSUME NEW f \in FillRecord, f.mode # "first", Complete(f), NEW x, KeepsAnswers(f)
    PROVE  Sound(Filled(f, x)) /\ Filled(f, x).store = f.store
  <1>1. f.size \in Nat /\ f.store \in Seq(Values) /\ f.size = Len(f.store)
    BY DEF FillRecord, Complete
  <1>2. CASE f.mode = "nil"
    <2>1. \A i \in DOMAIN f.store : f.store[i] = nilObject
      <3>1. \A i \in DOMAIN f.store : KindOf[f.store[i]] = "nil" /\ f.store[i] \in Values
        BY <1>1, <1>2 DEF KeepsAnswers
      <3> QED BY <3>1, ValueAssumption
    <2>2. Nils(f.size) = f.store
      BY <1>1, <2>1 DEF Nils
    <2> QED BY <1>1, <1>2, <2>2, FromSizeSound DEF Filled
  <1>3. CASE f.mode # "nil"
    <2>1. f.mode \in {"long", "double", "obj"}
      BY <1>3 DEF FillRecord
    <2>2. Sound(Array(f.mode, f.store)) /\ Array(f.mode, f.store).store = f.store
      BY <1>1, <2>1, ArraySound DEF Strategies, Unboxed, KeepsAnswers
    <2> QED BY <1>3, <2>2 DEF Filled
  <1> QED BY <1>2, <1>3

LEMMA ContinueInv ==
    ASSUME Inv, fills # <<>>, NEW f, Stored(f), Continue(f)
    PROVE  Inv'
  <1>1. /\ FillSound(Innermost) /\ f \in FillRecord
        /\ f.size \in Nat /\ f.store \in Seq(Values)
    BY Unfinished DEF Inv, FillRecord, Stored
  <1>2. f.array \in Allocated /\ f.size = Len(arrays[f.array].store) /\ f.array \in Arrays
    BY <1>1 DEF FillSound, FillRecord, Stored
  <1>3. Len(Innermost.store) < f.size /\ Len(Innermost.store) \in Nat
    BY <1>1 DEF FillSound, FillRecord, Stored
  <1>4. CASE Complete(f)
    <2>1. /\ arrays' = [arrays EXCEPT ![f.array] = Filled(f, arrays[f.array])]
          /\ fills' = SubSeq(fills, 1, Len(fills) - 1)
      BY <1>2, <1>4 DEF Continue, Outer
    <2>2. Sound(Filled(f, arrays[f.array])) /\ Len(Filled(f, arrays[f.array]).store) = f.size
      BY <1>4, SoundFilled DEF Stored, Complete
    <2>3. ArraysSound' /\ \A g : FillSound(g) => FillSound(g)'
      BY <1>2, <2>1, <2>2, ReplaceArray DEF Inv
    <2>4. FillsSound'
      BY <2>1, <2>3, FillsLeft, Unfinished DEF Inv
    <2> QED BY <2>3, <2>4 DEF Inv, Continue, Stored
  <1>5. CASE ~Complete(f)
    <2>1. fills' = Append(Outer, f) /\ UNCHANGED arrays
      BY <1>5 DEF Continue
    <2>2. ArraysSound' /\ \A g : FillSound(g) => FillSound(g)'
      BY <2>1 DEF Inv, ArraysSound, Allocated, FillSound
    <2>3. FillSound(f)
      BY <1>1, <1>2, <1>3, <1>5 DEF FillSound, Complete, Stored
    <2>4. FillsSound'
      BY <2>1, <2>2, <2>3, FillsPushed, Unfinished DEF Inv
    <2> QED BY <2>2, <2>4 DEF Inv, Continue, Stored
  <1> QED BY <1>4, <1>5

LEMMA InitInv ==
    ASSUME Init PROVE Inv
  <1>1. Allocated = {}
    BY DEF Init, Allocated
  <1>2. fills \in Seq(FillRecord) /\ DOMAIN fills = {}
    BY DEF Init
  <1> QED BY <1>1, <1>2 DEF Init, Inv, ArraysSound, FillsSound, Operations

LEMMA ArgumentsType ==
    ASSUME NEW values \in Arguments
    PROVE  values \in Seq(Values)
  <1>1. PICK n \in 0 .. MaxSize : values \in [1 .. n -> Values]
    BY DEF Arguments
  <1>2. n \in Nat
    BY <1>1, BoundAssumption
  <1> QED BY <1>1, <1>2

(* A new array or a copy has sound storage, unless its elements do not fit.  *)
Made(op, values) ==
    \/ op = <<"new", values>>
    \/ \E b \in Allocated : op = <<"copy", b>> /\ values = arrays[b].store
    \/ \E b \in Allocated, v \in Values :
          op = <<"copyAndExtend", b, v>> /\ values = Append(arrays[b].store, v)

Fails == \E e \in Exceptions : Raise(e)
Allocates == \E a \in Arrays \ Allocated, op \in Operations :
                \E x : Sound(x) /\ Allocate(a, x, op) /\ Made(op, x.store)

LEMMA SoundAllocations ==
    ASSUME Inv, ~MixedArguments, Allocations
    PROVE  Fails \/ Allocates
  <1>1. PICK a \in Arrays \ Allocated :
          \/ New(a) \/ FromObjects(a) \/ FromIntegers(a) \/ FromValues(a)
          \/ \E b \in Allocated : Copy(a, b)
          \/ \E b \in Allocated, v \in Values : CopyAndExtend(a, b, v)
    BY DEF Allocations
  <1>2. CASE New(a)
    <2>1. PICK size \in 0 .. MaxSize : Allocate(a, FromSize(size), <<"new", Nils(size)>>)
      BY <1>2 DEF New
    <2>2. /\ Sound(FromSize(size)) /\ FromSize(size).store = Nils(size)
          /\ Nils(size) \in Seq(Values)
      BY <2>1, BoundAssumption, FromSizeSound, NilsAreSequence
    <2>3. <<"new", Nils(size)>> \in Operations
      BY <2>2 DEF Operations
    <2> QED BY <2>1, <2>2, <2>3 DEF Allocates, Made
  <1>3. CASE FromObjects(a)
    <2>1. PICK values \in Arguments : Allocate(a, Array("obj", values), <<"new", values>>)
      BY <1>3 DEF FromObjects
    <2>2. values \in Seq(Values)
      BY <2>1, ArgumentsType
    <2>3. Sound(Array("obj", values)) /\ Array("obj", values).store = values
      BY <2>2, ArraySound DEF Strategies, Unboxed
    <2>4. <<"new", values>> \in Operations
      BY <2>2 DEF Operations
    <2> QED BY <2>1, <2>3, <2>4 DEF Allocates, Made
  <1>4. CASE FromIntegers(a)
    <2>1. PICK values \in Arguments : /\ \A i \in DOMAIN values : KindOf[values[i]] = "long"
                                     /\ Allocate(a, Array("long", values), <<"new", values>>)
      BY <1>4 DEF FromIntegers
    <2>2. values \in Seq(Values)
      BY <2>1, ArgumentsType
    <2>3. Sound(Array("long", values)) /\ Array("long", values).store = values
      BY <2>1, <2>2, ArraySound DEF Strategies, Unboxed
    <2>4. <<"new", values>> \in Operations
      BY <2>2 DEF Operations
    <2> QED BY <2>1, <2>3, <2>4 DEF Allocates, Made
  <1>5. CASE FromValues(a)
    <2>1. PICK values \in Arguments :
            /\ ~Misfits(StrategyFor(values), values)
            /\ Allocate(a, Array(StrategyFor(values),
                                 StoreWithValues(StrategyFor(values), values)), <<"new", values>>)
      BY <1>5 DEF FromValues
    <2>2. values \in Seq(Values)
      BY <2>1, ArgumentsType
    <2>3. <<"new", values>> \in Operations
      BY <2>2 DEF Operations
    <2> QED BY <2>1, <2>2, <2>3, FromValuesSound DEF Allocates, Made
  <1>6. ASSUME NEW b \in Allocated, Copy(a, b) PROVE Fails \/ Allocates
    <2>1. Sound(arrays[b]) /\ Allocate(a, Copied(arrays[b]), <<"copy", b>>)
      BY <1>6 DEF Inv, ArraysSound, Copy
    <2>2. <<"copy", b>> \in Operations
      BY DEF Operations, Allocated
    <2> QED BY <2>1, <2>2, CopiedSound DEF Allocates, Made
  <1>7. ASSUME NEW b \in Allocated, NEW v \in Values, CopyAndExtend(a, b, v) PROVE Fails \/ Allocates
    <2>1. Sound(arrays[b])
      BY DEF Inv, ArraysSound
    <2>2. CASE arrays[b].strategy \in Unboxed /\ KindOf[v] # arrays[b].strategy
      BY <1>7, <2>2 DEF CopyAndExtend, Exceptions, Fails
    <2>3. CASE ~(arrays[b].strategy \in Unboxed /\ KindOf[v] # arrays[b].strategy)
      <3>1. Allocate(a, Extended(arrays[b], v), <<"copyAndExtend", b, v>>)
        BY <1>7, <2>3 DEF CopyAndExtend
      <3>2. /\ Sound(Extended(arrays[b], v))
            /\ Extended(arrays[b], v).store = Append(arrays[b].store, v)
        BY <2>1, <2>3, ExtendedSound
      <3>3. <<"copyAndExtend", b, v>> \in Operations
        BY DEF Operations, Allocated
      <3> QED BY <3>1, <3>2, <3>3 DEF Allocates, Made
    <2> QED BY <2>2, <2>3
  <1> QED BY <1>1, <1>2, <1>3, <1>4, <1>5, <1>6, <1>7

LEMMA AllocationsInv ==
    ASSUME Inv, ~MixedArguments, Allocations
    PROVE  Inv'
  BY SoundAllocations, AllocateInv, RaiseInv DEF Fails, Allocates

(* at:put: and putAll: with a value leave an array of the same size, with    *)
(* one element or all of them changed.                                       *)
Changes(a, x) == /\ Sound(x) /\ Len(x.store) = Len(arrays[a].store)
                 /\ arrays' = [arrays EXCEPT ![a] = x]
                 /\ outcome' = "done" /\ UNCHANGED fills
                 /\ operation' \in Operations

Puts == \E a \in Allocated, v \in Values : \E x :
          /\ Changes(a, x)
          /\ \E i \in DOMAIN arrays[a].store :
                /\ x.store = [arrays[a].store EXCEPT ![i] = v]
                /\ operation' \in {<<"at:put:", a, i, v>>,
                                   <<"at:put:", a, i - Len(arrays[a].store), v>>}

PutsAll == \E a \in Allocated, v \in Values : \E x :
             /\ Changes(a, x)
             /\ x.store = [i \in DOMAIN arrays[a].store |-> v]
             /\ operation' = <<"putAll:", a, v>>

LEMMA SoundAtPut ==
    ASSUME Inv, NEW a \in Allocated, NEW index \in Indices, NEW v \in Values,
           AtPut(a, index, v)
    PROVE  Fails \/ Puts
  <1> DEFINE x == arrays[a]
             i == ElementAt(x, index)
  <1>1. Sound(x) /\ x.store \in Seq(Values)
    BY DEF Inv, ArraysSound, Sound, ArrayRecord, Allocated
  <1>2. CASE ~SetIdxAsserts(x, v) \/ i \notin DOMAIN x.store
    BY <1>2 DEF AtPut, Exceptions, Fails
  <1>3. CASE SetIdxAsserts(x, v) /\ i \in DOMAIN x.store
    <2>1. /\ arrays' = [arrays EXCEPT ![a] = SetIdx(x, i, v)]
          /\ outcome' = "done" /\ UNCHANGED fills
          /\ operation' = <<"at:put:", a, index, v>>
      BY <1>3 DEF AtPut
    <2>4. index \in Int /\ (index = i \/ index = i - Len(x.store))
      BY <1>1, BoundAssumption DEF ElementAt
    <2>5. operation' \in Operations
      BY <2>1, <2>4 DEF Operations, Allocated
    <2> HIDE DEF i
    <2>2. Sound(SetIdx(x, i, v)) /\ SetIdx(x, i, v).store = [x.store EXCEPT ![i] = v]
      BY <1>1, <1>3, SetIdxSound
    <2>3. Len(SetIdx(x, i, v).store) = Len(x.store)
      BY <1>1, <1>3, <2>2, ExceptSeq
    <2> QED BY <1>3, <2>1, <2>2, <2>3, <2>4, <2>5 DEF Puts, Changes
  <1> QED BY <1>2, <1>3

LEMMA SoundPutAll ==
    ASSUME Inv, NEW a \in Allocated, NEW v \in Values, PutAll(a, v)
    PROVE  PutsAll
  <1> DEFINE x == arrays[a]
  <1>1. Sound(x) /\ x.store \in Seq(Values)
    BY DEF Inv, ArraysSound, Sound, ArrayRecord, Allocated
  <1>2. /\ arrays' = [arrays EXCEPT ![a] = SetAll(x, v)]
        /\ outcome' = "done" /\ UNCHANGED fills
        /\ operation' = <<"putAll:", a, v>>
    BY DEF PutAll
  <1>5. operation' \in Operations
    BY <1>2 DEF Operations, Allocated
  <1>3. Sound(SetAll(x, v)) /\ SetAll(x, v).store = [i \in DOMAIN x.store |-> v]
    BY <1>1, SetAllSound
  <1>4. Len(SetAll(x, v).store) = Len(x.store)
    BY <1>1, <1>3
  <1> QED BY <1>2, <1>3, <1>4, <1>5 DEF PutsAll, Changes

LEMMA ChangesInv ==
    ASSUME Inv, NEW a \in Allocated, NEW x, Changes(a, x)
    PROVE  Inv'
  <1>1. ArraysSound' /\ \A f : FillSound(f) => FillSound(f)'
    BY ReplaceArray DEF Inv, Changes, Allocated
  <1>2. FillsSound'
    BY <1>1, FillsAfterReplacement DEF Inv, Changes
  <1> QED BY <1>1, <1>2 DEF Inv, Changes

LEMMA StoresInv ==
    ASSUME Inv, Stores
    PROVE  Inv'
  <1>1. Fails \/ Puts \/ PutsAll
    BY SoundAtPut, SoundPutAll DEF Stores
  <1> QED BY <1>1, RaiseInv, ChangesInv DEF Fails, Puts, PutsAll

(* An answer of the block of putAll: is stored as it is, unless Kept lets it *)
(* go.                                                                       *)
Answers(v) == \E f, w : /\ fills # <<>> /\ Stored(f) /\ Continue(f)
                        /\ f.answers = Append(Innermost.answers, v)
                        /\ f.store = Append(Innermost.store, w)
                        /\ w \in Contents!Kept(Innermost.answers, v)
                        /\ operation' = <<"answer", v>>

LEMMA FirstIsStored ==
    ASSUME Inv, NEW v \in Values, FirstAnswer(v)
    PROVE  Answers(v)
  <1> DEFINE g == Innermost
             f == [g EXCEPT !.mode = FirstMode(v), !.store = <<v>>, !.answers = <<v>>]
  <1>1. /\ fills # <<>> /\ g.mode = "first" /\ (MixedFills \/ KindOf[v] # "bool") /\ Continue(f)
        /\ operation' = <<"answer", v>>
    BY DEF FirstAnswer
  <1>2. FillSound(g) /\ g \in FillRecord /\ g.store = <<>> /\ g.answers = <<>>
    <2>1. FillSound(g)
      BY <1>1, Unfinished DEF Inv
    <2>2. g \in FillRecord /\ g.store = <<>> /\ g.store = g.answers
      BY <1>1, <2>1 DEF FillSound, KeepsAnswers
    <2> QED BY <2>1, <2>2
  <1>3. /\ FirstMode(v) \in {"nil", "long", "double", "obj"}
        /\ (FirstMode(v) \in {"nil", "long"} \/ (FirstMode(v) = "double" /\ ~MixedFills)) =>
              KindOf[v] = FirstMode(v)
    BY <1>1, ValueAssumption DEF FirstMode, Unboxed
  <1>4. /\ f \in FillRecord /\ f.array = g.array /\ f.size = g.size
        /\ f.store = <<v>> /\ f.answers = <<v>> /\ f.mode = FirstMode(v)
    <2> HIDE DEF g
    <2>1. <<v>> \in Seq(Values)
      OBVIOUS
    <2> QED BY <1>2, <1>3, <2>1 DEF FillRecord
  <1>5. Len(f.store) = Len(g.store) + 1 /\ KeepsAnswers(f)
    BY <1>2, <1>3, <1>4 DEF KeepsAnswers
  <1>6. /\ f.answers = Append(g.answers, v) /\ f.store = Append(g.store, v)
        /\ v \in Contents!Kept(g.answers, v) /\ operation' \in Operations
    BY <1>1, <1>2, <1>4 DEF Contents!Kept, Operations
  <1> HIDE DEF f, g
  <1> QED BY <1>1, <1>3, <1>4, <1>5, <1>6 DEF g, Answers, Stored

LEMMA FittingIsStored ==
    ASSUME Inv, NEW v \in Values, FittingAnswer(v)
    PROVE  Answers(v)
  <1> DEFINE g == Innermost
             f == [g EXCEPT !.store = Append(@, v), !.answers = Append(@, v)]
  <1>1. /\ fills # <<>> /\ g.mode # "first" /\ Fits(g, v) /\ Continue(f)
        /\ operation' = <<"answer", v>>
    BY DEF FittingAnswer
  <1>2. /\ FillSound(g) /\ g \in FillRecord /\ KeepsAnswers(g)
        /\ g.store \in Seq(Values) /\ g.answers \in Seq(Values)
    BY <1>1, Unfinished DEF Inv, FillSound, FillRecord
  <1>3. /\ f \in FillRecord /\ f.array = g.array /\ f.size = g.size /\ f.mode = g.mode
        /\ f.store = Append(g.store, v) /\ f.answers = Append(g.answers, v)
    <2> HIDE DEF g
    <2>1. Append(g.store, v) \in Seq(Values) /\ Append(g.answers, v) \in Seq(Values)
      BY <1>2
    <2> QED BY <1>2, <2>1 DEF FillRecord
  <1>4. Len(f.store) = Len(g.store) + 1 /\ KeepsAnswers(f)
    BY <1>1, <1>2, <1>3 DEF KeepsAnswers, Fits
  <1>5. v \in Contents!Kept(g.answers, v) /\ operation' \in Operations
    BY <1>1 DEF Contents!Kept, Operations
  <1> HIDE DEF f, g
  <1> QED BY <1>1, <1>3, <1>4, <1>5 DEF g, Answers, Stored

LEMMA OtherIsStored ==
    ASSUME Inv, NEW v \in Values, OtherAnswer(v)
    PROVE  Fails \/ Answers(v)
  <1> DEFINE g == Innermost
             w == IF g.mode = "nil" THEN v ELSE Zero[g.mode]
             f == [g EXCEPT !.mode = "obj", !.store = AfterMisfit(g, v), !.answers = Append(@, v)]
  <1>1. CASE g.mode # "nil" /\ BoxingFails(g)
    BY <1>1 DEF OtherAnswer, Fails, Exceptions
  <1>2. CASE ~(g.mode # "nil" /\ BoxingFails(g))
    <2>1. /\ fills # <<>> /\ g.mode # "first" /\ ~Fits(g, v) /\ Continue(f)
          /\ (MixedFills \/ g.mode = "nil")
          /\ operation' = <<"answer", v>>
      BY <1>2 DEF OtherAnswer
    <2>2. /\ FillSound(g) /\ g \in FillRecord /\ KeepsAnswers(g)
          /\ g.store \in Seq(Values) /\ g.answers \in Seq(Values)
      BY <2>1, Unfinished DEF Inv, FillSound, FillRecord
    <2>3. g.mode \in {"nil", "long", "double"} /\ KindOf[v] # g.mode
      BY <2>1, <2>2 DEF Fits, FillRecord
    <2>4. w \in Values /\ AfterMisfit(g, v) = Append(g.store, w)
      BY <2>3, ValueAssumption DEF AfterMisfit, Zero
    <2>5. g.store = g.answers /\ \A i \in DOMAIN g.store : KindOf[g.store[i]] = g.mode
      <3>1. g.store = g.answers
        BY <2>2, <2>3 DEF KeepsAnswers
      <3>2. CASE g.mode = "nil"
        BY <2>2, <3>2 DEF KeepsAnswers
      <3>3. CASE g.mode # "nil"
        BY <1>2, <3>1, <3>3 DEF BoxingFails
      <3> QED BY <3>1, <3>2, <3>3
    <2>6. w \in Contents!Kept(g.answers, v)
      <3>1. CASE g.mode = "nil"
        BY <3>1 DEF Contents!Kept
      <3>2. CASE g.mode # "nil"
        <4>1. g.mode \in DOMAIN Zero /\ w = Zero[g.mode]
          BY <2>3, <3>2 DEF Zero
        <4>2. g.answers # <<>>
          BY <2>2, <2>3, <2>5 DEF FillSound
        <4> QED BY <2>3, <2>5, <4>1, <4>2 DEF Contents!Kept
      <3> QED BY <3>1, <3>2
    <2>7. /\ f \in FillRecord /\ f.array = g.array /\ f.size = g.size /\ f.mode = "obj"
          /\ f.store = Append(g.store, w) /\ f.answers = Append(g.answers, v)
      <3> HIDE DEF g, w
      <3>1. Append(g.store, w) \in Seq(Values) /\ Append(g.answers, v) \in Seq(Values)
        BY <2>2, <2>4
      <3> QED BY <2>2, <2>4, <3>1 DEF FillRecord
    <2>8. ~MixedFills => w = v
      BY <2>1
    <2>9. Len(f.store) = Len(g.store) + 1 /\ KeepsAnswers(f)
      <3> HIDE DEF w
      <3> QED BY <2>2, <2>4, <2>5, <2>7, <2>8 DEF KeepsAnswers
    <2>10. operation' \in Operations
      BY <2>1 DEF Operations
    <2> HIDE DEF f, g, w
    <2> QED BY <2>1, <2>6, <2>7, <2>9, <2>10 DEF g, Answers, Stored
  <1> QED BY <1>1, <1>2

LEMMA SoundAnswer ==
    ASSUME Inv, NEW v \in Values, FirstAnswer(v) \/ FittingAnswer(v) \/ OtherAnswer(v)
    PROVE  Fails \/ Answers(v)
  BY FirstIsStored, FittingIsStored, OtherIsStored

LEMMA FillStepsInv ==
    ASSUME Inv, FillSteps
    PROVE  Inv'
  <1>1. ASSUME NEW a \in Allocated, BeginFill(a) PROVE Inv'
    <2>1. /\ Sound(arrays[a]) /\ a \in Arrays /\ arrays[a].store \in Seq(Values)
          /\ Len(arrays[a].store) \in Nat
      BY DEF Inv, ArraysSound, Sound, ArrayRecord, Allocated
    <2>2. CASE arrays[a].store = <<>>
      <3>1. /\ arrays' = [arrays EXCEPT ![a] = FromSize(0)]
            /\ outcome' = "done" /\ UNCHANGED fills
        BY <1>1, <2>2 DEF BeginFill
      <3>2. Sound(FromSize(0)) /\ Len(FromSize(0).store) = Len(arrays[a].store)
        BY <2>2, FromSizeSound, NilsAreSequence
      <3>3. ArraysSound' /\ \A f : FillSound(f) => FillSound(f)'
        BY <2>1, <3>1, <3>2, ReplaceArray DEF Inv
      <3>4. FillsSound'
        BY <3>1, <3>3, FillsAfterReplacement DEF Inv
      <3> QED BY <1>1, <3>1, <3>3, <3>4 DEF Inv, BeginFill, Operations, Allocated
    <2>3. CASE arrays[a].store # <<>>
      <3> DEFINE f == Fill(a, Len(arrays[a].store), "first", <<>>, <<>>)
      <3>1. fills' = Append(fills, f) /\ UNCHANGED arrays /\ outcome' = "done"
        BY <1>1, <2>3 DEF BeginFill
      <3>2. FillSound(f)
        <4>1. f \in FillRecord /\ f.answers = <<>> /\ f.store = <<>> /\ f.mode = "first"
          BY <2>1 DEF Fill, FillRecord
        <4>2. f.array = a /\ f.size = Len(arrays[a].store) /\ f.size > 0
          BY <2>1, <2>3 DEF Fill
        <4> HIDE DEF f
        <4> QED BY <4>1, <4>2 DEF FillSound, KeepsAnswers
      <3> HIDE DEF f
      <3>3. ArraysSound' /\ \A g : FillSound(g) => FillSound(g)'
        BY <3>1 DEF Inv, ArraysSound, Allocated, FillSound
      <3>4. FillsSound'
        BY <3>1, <3>2, <3>3, FillsPushed DEF Inv, FillsSound
      <3> QED BY <1>1, <3>1, <3>3, <3>4 DEF Inv, BeginFill, Operations, Allocated
    <2> QED BY <2>2, <2>3
  <1>2. ASSUME NEW v \in Values, FirstAnswer(v) \/ FittingAnswer(v) \/ OtherAnswer(v)
        PROVE  Inv'
    BY <1>2, SoundAnswer, ContinueInv, RaiseInv DEF Answers, Fails
  <1>3. ASSUME Abandon PROVE Inv'
    <2>1. PICK n \in 0 .. Len(fills) - 1 : fills' = SubSeq(fills, 1, n)
      BY <1>3 DEF Abandon
    <2>2. n \in 0 .. Len(fills)
      BY <2>1 DEF Inv, FillsSound
    <2>3. ArraysSound' /\ \A f : FillSound(f) => FillSound(f)'
      BY <1>3 DEF Inv, ArraysSound, Allocated, FillSound, Abandon
    <2>4. FillsSound'
      BY <2>1, <2>2, <2>3, FillsLeft DEF Inv
    <2> QED BY <1>3, <2>3, <2>4 DEF Inv, Abandon, Operations
  <1> QED BY <1>1, <1>2, <1>3 DEF FillSteps

LEMMA StutterInv ==
    ASSUME Inv, UNCHANGED vars
    PROVE  Inv'
  BY DEF Inv, vars, ArraysSound, FillsSound, FillSound, Allocated

(* The invariant holds as long as no caller of from_values mixes nil with    *)
(* values of one kind.                                                       *)
THEOREM Invariance == ASSUME ~MixedArguments PROVE Spec => []Inv
  <1>1. Init => Inv
    BY InitInv
  <1>2. Inv /\ [Next]_vars => Inv'
    BY AllocationsInv, StoresInv, FillStepsInv, StutterInv DEF Next
  <1> QED BY <1>1, <1>2, PTL DEF Spec

LEMMA InvImplies ==
    ASSUME Inv
    PROVE  TypeOK /\ PartialKnowsItsKind /\ (~MixedFills => ReadsSucceed)
  BY DEF Inv, ArraysSound, FillsSound, FillSound, Sound, Holds, HoldsItsKind,
         TypeOK, ReadsSucceed, PartialKnowsItsKind

(* Storage, counts and types stay within what the strategies declare.        *)
THEOREM TypeCorrectness == ASSUME ~MixedArguments PROVE Spec => []TypeOK
  BY Invariance, InvImplies, PTL

(* Unboxed storage holds values of its kind only: no read of an element of   *)
(* any array fails, if no block answers booleans or values of several kinds. *)
THEOREM NoReadFails == ASSUME ~MixedFills, ~MixedArguments PROVE Spec => []ReadsSucceed
  BY Invariance, InvImplies, PTL

(* A partially empty array is converted only when every element has the kind *)
(* of the new storage, although the count of a copy is wrong.                *)
THEOREM ConversionsFit == ASSUME ~MixedArguments PROVE Spec => []PartialKnowsItsKind
  BY Invariance, InvImplies, PTL

-------------------------------------------------------------------------------
(* The storage implements arrays that are just sequences of values.          *)

Entry(f) == [array |-> f.array, answers |-> f.answers, kept |-> f.store]
Entries == [array : Arrays, answers : Seq(Values), kept : Seq(Values)]

LEMMA OngoingSeq ==
    ASSUME NEW s \in Seq(FillRecord)
    PROVE  /\ Len(Ongoing(s)) = Len(s) /\ Ongoing(s) \in Seq(Entries)
           /\ \A n \in 1 .. Len(s) : Ongoing(s)[n] = Entry(s[n])
  <1>1. DOMAIN s = 1 .. Len(s) /\ Len(s) \in Nat /\ \A n \in 1 .. Len(s) : s[n] \in FillRecord
    OBVIOUS
  <1>2. \A n \in 1 .. Len(s) : Entry(s[n]) \in Entries
    BY <1>1 DEF FillRecord, Entry, Entries
  <1>3. Ongoing(s) = [n \in 1 .. Len(s) |-> Entry(s[n])]
    BY <1>1 DEF Ongoing, Entry
  <1>4. Ongoing(s) \in [1 .. Len(s) -> Entries]
    BY <1>2, <1>3
  <1> QED BY <1>1, <1>3, <1>4

LEMMA OngoingAppend ==
    ASSUME NEW s \in Seq(FillRecord), NEW f \in FillRecord
    PROVE  Ongoing(Append(s, f)) = Append(Ongoing(s), Entry(f))
  <1>1. Entry(f) \in Entries
    BY DEF FillRecord, Entry, Entries
  <1>2. Append(s, f) \in Seq(FillRecord) /\ Len(Append(s, f)) = Len(s) + 1
    OBVIOUS
  <1>3. /\ Ongoing(Append(s, f)) \in Seq(Entries) /\ Len(Ongoing(Append(s, f))) = Len(s) + 1
        /\ Ongoing(s) \in Seq(Entries) /\ Len(Ongoing(s)) = Len(s)
    BY <1>2, OngoingSeq
  <1>4. \A i \in 1 .. Len(s) + 1 : Ongoing(Append(s, f))[i] = Append(Ongoing(s), Entry(f))[i]
    <2>1. \A i \in 1 .. Len(s) + 1 : Ongoing(Append(s, f))[i] = Entry(Append(s, f)[i])
      BY <1>2, OngoingSeq
    <2>2. \A i \in 1 .. Len(s) : Ongoing(s)[i] = Entry(s[i]) /\ Append(s, f)[i] = s[i]
      BY OngoingSeq
    <2>3. Append(s, f)[Len(s) + 1] = f
      OBVIOUS
    <2> QED BY <1>3, <2>1, <2>2, <2>3
  <1>5. /\ Append(Ongoing(s), Entry(f)) \in Seq(Entries)
        /\ Len(Append(Ongoing(s), Entry(f))) = Len(s) + 1
    BY <1>1, <1>3
  <1> QED BY <1>3, <1>4, <1>5, SeqEqual

LEMMA OngoingSubSeq ==
    ASSUME NEW s \in Seq(FillRecord), NEW n \in 0 .. Len(s)
    PROVE  Ongoing(SubSeq(s, 1, n)) = SubSeq(Ongoing(s), 1, n)
  <1>1. /\ SubSeq(s, 1, n) \in Seq(FillRecord) /\ Len(SubSeq(s, 1, n)) = n
        /\ \A i \in 1 .. n : SubSeq(s, 1, n)[i] = s[i]
    OBVIOUS
  <1>2. /\ Ongoing(SubSeq(s, 1, n)) \in Seq(Entries) /\ Len(Ongoing(SubSeq(s, 1, n))) = n
        /\ Ongoing(s) \in Seq(Entries) /\ Len(Ongoing(s)) = Len(s)
    BY <1>1, OngoingSeq
  <1>3. /\ SubSeq(Ongoing(s), 1, n) \in Seq(Entries) /\ Len(SubSeq(Ongoing(s), 1, n)) = n
        /\ \A i \in 1 .. n : SubSeq(Ongoing(s), 1, n)[i] = Ongoing(s)[i]
    BY <1>2
  <1>4. \A i \in 1 .. n : Ongoing(SubSeq(s, 1, n))[i] = Ongoing(s)[i]
    <2>1. \A i \in 1 .. n : Ongoing(SubSeq(s, 1, n))[i] = Entry(SubSeq(s, 1, n)[i])
      BY <1>1, OngoingSeq
    <2>2. \A i \in 1 .. n : Ongoing(s)[i] = Entry(s[i])
      BY OngoingSeq
    <2> QED BY <1>1, <2>1, <2>2
  <1> QED BY <1>2, <1>3, <1>4, SeqEqual

(* What an array holds in the abstract specification.                        *)
LEMMA ContentOfArrays ==
    ASSUME Inv
    PROVE  /\ Contents!Allocated = Allocated
           /\ \A a \in Allocated : ContentOf[a] = arrays[a].store
           /\ \A a \in Allocated : ContentOf[a] \in Seq(Values)
  <1>1. \A a \in Allocated : arrays[a].store \in Seq(Values) /\ a \in Arrays
    BY DEF Inv, ArraysSound, Sound, ArrayRecord, Allocated
  <1>2. \A a \in Allocated : ContentOf[a] = arrays[a].store
    BY <1>1 DEF ContentOf, Allocated
  <1>3. \A a \in Arrays \ Allocated : ContentOf[a] = Unallocated
    BY DEF ContentOf, Allocated
  <1>4. Contents!Allocated = Allocated
    BY <1>1, <1>2, <1>3, UnallocatedAssumption DEF Contents!Allocated, Allocated
  <1> QED BY <1>1, <1>2, <1>4

LEMMA ContentReplaced ==
    ASSUME Inv, NEW a \in Arrays, NEW x, Sound(x), arrays' = [arrays EXCEPT ![a] = x]
    PROVE  ContentOf' = [ContentOf EXCEPT ![a] = x.store] /\ ContentOf'[a] = x.store
  <1>1. x \in ArrayRecord /\ x # Unallocated
    BY UnallocatedAssumption DEF Sound
  <1>2. Allocated' = Allocated \cup {a}
    BY <1>1 DEF Inv, ArraysSound, Allocated
  <1> QED BY <1>2 DEF ContentOf, Inv, ArraysSound, Allocated

LEMMA ContentUnchanged ==
    ASSUME UNCHANGED arrays
    PROVE  ContentOf' = ContentOf
  BY DEF ContentOf, Allocated

LEMMA RaiseImplements ==
    ASSUME Inv, Fails
    PROVE  Contents!ACNext
  <1>1. PICK e \in Exceptions : Raise(e)
    BY DEF Fails
  <1>2. ContentOf' = ContentOf /\ operation' = <<"leave">>
    BY <1>1, ContentUnchanged DEF Raise
  <1>3. fills \in Seq(FillRecord) /\ fills' = <<>>
    BY <1>1 DEF Inv, FillsSound, Raise
  <1>4. fills' = SubSeq(fills, 1, 0) /\ 0 \in 0 .. Len(fills) /\ Len(Ongoing(fills)) = Len(fills)
    BY <1>3, OngoingSeq
  <1>5. Ongoing(fills') = SubSeq(Ongoing(fills), 1, 0)
    BY <1>3, <1>4, OngoingSubSeq
  <1> QED BY <1>2, <1>4, <1>5 DEF Contents!ACNext, Contents!Leave

LEMMA AllocateImplements ==
    ASSUME Inv, Allocates
    PROVE  Contents!ACNext
  <1>1. PICK a \in Arrays \ Allocated, op \in Operations :
          \E x : Sound(x) /\ Allocate(a, x, op) /\ Made(op, x.store)
    BY DEF Allocates
  <1>2. PICK x : Sound(x) /\ Allocate(a, x, op) /\ Made(op, x.store)
    BY <1>1
  <1>3. /\ ContentOf' = [ContentOf EXCEPT ![a] = x.store] /\ ContentOf'[a] = x.store
        /\ fills' = fills /\ operation' = op
    BY <1>2, ContentReplaced DEF Allocate
  <1>4. /\ x.store \in Seq(Values) /\ a \in Arrays \ Contents!Allocated
        /\ Contents!Allocated = Allocated /\ \A b \in Allocated : ContentOf[b] = arrays[b].store
    BY <1>2, ContentOfArrays DEF Sound, ArrayRecord
  <1>5. op[1] \in {"new", "copy", "copyAndExtend"}
    BY <1>2 DEF Made
  <1>6. Contents!New(x.store)
    BY <1>2, <1>3, <1>4 DEF Made, Contents!New
  <1> QED BY <1>3, <1>5, <1>6 DEF Contents!ACNext

LEMMA PutsImplement ==
    ASSUME Inv, Puts
    PROVE  Contents!ACNext
  <1>0. PICK a \in Allocated, v \in Values :
          \E x : /\ Changes(a, x)
                 /\ \E i \in DOMAIN arrays[a].store :
                       /\ x.store = [arrays[a].store EXCEPT ![i] = v]
                       /\ operation' \in {<<"at:put:", a, i, v>>,
                                          <<"at:put:", a, i - Len(arrays[a].store), v>>}
    BY DEF Puts
  <1>1. PICK x : /\ Changes(a, x)
                 /\ \E i \in DOMAIN arrays[a].store :
                       /\ x.store = [arrays[a].store EXCEPT ![i] = v]
                       /\ operation' \in {<<"at:put:", a, i, v>>,
                                          <<"at:put:", a, i - Len(arrays[a].store), v>>}
    BY <1>0
  <1>2. PICK i \in DOMAIN arrays[a].store :
                       /\ x.store = [arrays[a].store EXCEPT ![i] = v]
                       /\ operation' \in {<<"at:put:", a, i, v>>,
                                          <<"at:put:", a, i - Len(arrays[a].store), v>>}
    BY <1>1
  <1>3. /\ a \in Contents!Allocated /\ ContentOf[a] = arrays[a].store
        /\ ContentOf[a] \in Seq(Values) /\ i \in 1 .. Len(ContentOf[a])
    BY ContentOfArrays
  <1>4. ContentOf' = [ContentOf EXCEPT ![a] = x.store] /\ fills' = fills
    BY <1>1, ContentReplaced DEF Changes, Allocated
  <1>5. ContentOf' = [ContentOf EXCEPT ![a][i] = v]
    BY <1>2, <1>3, <1>4
  <1>6. Contents!Put(a, i, v)
    BY <1>2, <1>3, <1>4, <1>5 DEF Contents!Put
  <1>7. operation'[1] = "at:put:"
    BY <1>2
  <1> QED BY <1>3, <1>6, <1>7 DEF Contents!ACNext

LEMMA PutsAllImplement ==
    ASSUME Inv, PutsAll
    PROVE  Contents!ACNext
  <1>0. PICK a \in Allocated, v \in Values :
          \E x : /\ Changes(a, x) /\ x.store = [i \in DOMAIN arrays[a].store |-> v]
                 /\ operation' = <<"putAll:", a, v>>
    BY DEF PutsAll
  <1>1. PICK x : /\ Changes(a, x) /\ x.store = [i \in DOMAIN arrays[a].store |-> v]
                 /\ operation' = <<"putAll:", a, v>>
    BY <1>0
  <1>3. /\ a \in Contents!Allocated /\ ContentOf[a] = arrays[a].store
        /\ ContentOf[a] \in Seq(Values)
    BY ContentOfArrays
  <1>4. ContentOf' = [ContentOf EXCEPT ![a] = x.store] /\ fills' = fills
    BY <1>1, ContentReplaced DEF Changes, Allocated
  <1>5. x.store = [i \in 1 .. Len(ContentOf[a]) |-> v]
    BY <1>1, <1>3
  <1>6. Contents!PutAll(a, v)
    BY <1>1, <1>4, <1>5 DEF Contents!PutAll
  <1>7. operation'[1] = "putAll:"
    BY <1>1
  <1> QED BY <1>3, <1>6, <1>7 DEF Contents!ACNext

LEMMA BeginFillImplements ==
    ASSUME Inv, NEW a \in Allocated, BeginFill(a)
    PROVE  Contents!ACNext
  <1>1. /\ a \in Contents!Allocated /\ ContentOf[a] = arrays[a].store
        /\ ContentOf[a] \in Seq(Values) /\ a \in Arrays
    BY ContentOfArrays DEF Allocated
  <1>2. operation' = <<"fill", a>> /\ operation'[1] = "fill"
    BY DEF BeginFill
  <1>3. CASE arrays[a].store = <<>>
    <2>1. arrays' = [arrays EXCEPT ![a] = FromSize(0)] /\ fills' = fills
      BY <1>3 DEF BeginFill
    <2>2. Sound(FromSize(0)) /\ FromSize(0).store = <<>>
      BY FromSizeSound, NilsAreSequence
    <2>3. ContentOf' = [ContentOf EXCEPT ![a] = <<>>]
      BY <1>1, <2>1, <2>2, ContentReplaced
    <2>4. ContentOf' = ContentOf
      BY <1>1, <1>3, <2>3 DEF ContentOf
    <2> QED BY <1>1, <1>2, <1>3, <2>1, <2>4 DEF Contents!ACNext, Contents!BeginFill
  <1>4. CASE arrays[a].store # <<>>
    <2> DEFINE f == Fill(a, Len(arrays[a].store), "first", <<>>, <<>>)
    <2>1. fills' = Append(fills, f) /\ UNCHANGED arrays
      BY <1>4 DEF BeginFill
    <2>2. f \in FillRecord /\ Entry(f) = [array |-> a, answers |-> <<>>, kept |-> <<>>]
      BY <1>1 DEF Fill, FillRecord, Entry
    <2> HIDE DEF f
    <2>3. Ongoing(fills') = Append(Ongoing(fills), [array |-> a, answers |-> <<>>, kept |-> <<>>])
      BY <2>1, <2>2, OngoingAppend DEF Inv, FillsSound
    <2>4. ContentOf' = ContentOf
      BY <2>1, ContentUnchanged
    <2> QED BY <1>1, <1>2, <1>4, <2>3, <2>4 DEF Contents!ACNext, Contents!BeginFill
  <1> QED BY <1>3, <1>4

(* The answers of the last fill, and the fills around it.                    *)
LEMMA OngoingInnermost ==
    ASSUME FillsSound, fills # <<>>
    PROVE  /\ Ongoing(fills) # <<>>
           /\ Contents!Innermost = Entry(Innermost)
           /\ Contents!Outer = Ongoing(Outer)
  <1>1. fills \in Seq(FillRecord) /\ Len(fills) \in Nat \ {0}
    BY DEF FillsSound
  <1>2. Len(Ongoing(fills)) = Len(fills)
    BY <1>1, OngoingSeq
  <1>3. Ongoing(fills)[Len(fills)] = Entry(Innermost)
    BY <1>1, OngoingSeq DEF Innermost
  <1>4. Len(fills) - 1 \in 0 .. Len(fills)
    BY <1>1
  <1>5. Ongoing(Outer) = SubSeq(Ongoing(fills), 1, Len(fills) - 1)
    BY <1>1, <1>4, OngoingSubSeq DEF Outer
  <1> QED BY <1>1, <1>2, <1>3, <1>5 DEF Contents!Innermost, Contents!Outer

LEMMA AnswerImplements ==
    ASSUME Inv, NEW v \in Values, Answers(v)
    PROVE  Contents!ACNext
  <1>1. PICK f, w : /\ fills # <<>> /\ Stored(f) /\ Continue(f)
                    /\ f.answers = Append(Innermost.answers, v)
                    /\ f.store = Append(Innermost.store, w)
                    /\ w \in Contents!Kept(Innermost.answers, v)
                    /\ operation' = <<"answer", v>>
    BY DEF Answers
  <1>2. /\ FillSound(Innermost) /\ Outer \in Seq(FillRecord) /\ f \in FillRecord
        /\ f.array \in Allocated /\ f.array = Innermost.array
        /\ f.store \in Seq(Values) /\ f.size = Len(arrays[f.array].store)
        /\ Len(f.store) <= f.size
    BY <1>1, Unfinished DEF Inv, Stored, FillSound, FillRecord
  <1>3. Len(ContentOf[f.array]) = f.size /\ f.array \in Arrays
    BY <1>2, ContentOfArrays DEF Allocated
  <1>4. /\ Ongoing(fills) # <<>> /\ Contents!Outer = Ongoing(Outer)
        /\ Contents!Innermost.array = f.array
        /\ Contents!Innermost.answers = Innermost.answers
        /\ Append(Contents!Innermost.answers, v) = f.answers
        /\ Append(Contents!Innermost.kept, w) = f.store
    BY <1>1, <1>2, OngoingInnermost DEF Inv, Entry
  <1>5. operation' = <<"answer", v>> /\ operation'[1] = "answer"
    BY <1>1
  <1>6. CASE Complete(f)
    <2> DEFINE x == Filled(f, arrays[f.array])
    <2>1. arrays' = [arrays EXCEPT ![f.array] = x] /\ fills' = Outer
      BY <1>1, <1>3, <1>6 DEF Continue
    <2>2. Sound(x) /\ x.store = f.store
      BY <1>1, <1>2, <1>6, SoundFilled DEF Stored
    <2> HIDE DEF x
    <2>3. ContentOf' = [ContentOf EXCEPT ![f.array] = f.store]
      <3>1. PICK y : y = x
        OBVIOUS
      <3>2. Sound(y) /\ arrays' = [arrays EXCEPT ![f.array] = y]
        BY <2>1, <2>2, <3>1
      <3>3. ContentOf' = [ContentOf EXCEPT ![f.array] = y.store]
        BY <1>3, <3>2, ContentReplaced
      <3> QED BY <2>2, <3>1, <3>3
    <2>4. ~(Len(f.store) < Len(ContentOf[f.array]))
      BY <1>2, <1>3, <1>6 DEF Complete
    <2>5. Contents!Answer(v, w)
      BY <1>1, <1>4, <1>5, <2>1, <2>3, <2>4 DEF Contents!Answer
    <2> QED BY <1>1, <1>4, <1>5, <2>5 DEF Contents!ACNext
  <1>7. CASE ~Complete(f)
    <2>1. fills' = Append(Outer, f) /\ UNCHANGED arrays
      BY <1>1, <1>7 DEF Continue
    <2>2. Ongoing(fills') = Append(Ongoing(Outer), [array |-> f.array, kept |-> f.store,
                                                    answers |-> f.answers])
      BY <1>2, <2>1, OngoingAppend DEF Entry
    <2>3. ContentOf' = ContentOf
      BY <2>1, ContentUnchanged
    <2>4. Len(f.store) < Len(ContentOf[f.array])
      <3>1. Len(f.store) # f.size /\ Len(f.store) \in Nat /\ f.size \in Nat
        BY <1>2, <1>7 DEF Complete, FillRecord
      <3> QED BY <1>2, <1>3, <3>1
    <2>5. Contents!Answer(v, w)
      BY <1>1, <1>4, <1>5, <2>2, <2>3, <2>4 DEF Contents!Answer
    <2> QED BY <1>1, <1>4, <1>5, <2>5 DEF Contents!ACNext
  <1> QED BY <1>6, <1>7

LEMMA AbandonImplements ==
    ASSUME Inv, Abandon
    PROVE  Contents!ACNext
  <1>1. PICK n \in 0 .. Len(fills) - 1 : fills' = SubSeq(fills, 1, n)
    BY DEF Abandon
  <1>2. fills \in Seq(FillRecord) /\ n \in 0 .. Len(fills) /\ operation' = <<"leave">>
    BY <1>1 DEF Inv, FillsSound, Abandon
  <1>3. Ongoing(fills') = SubSeq(Ongoing(fills), 1, n) /\ Len(Ongoing(fills)) = Len(fills)
    BY <1>1, <1>2, OngoingSubSeq, OngoingSeq
  <1>4. ContentOf' = ContentOf
    BY ContentUnchanged DEF Abandon
  <1> QED BY <1>2, <1>3, <1>4 DEF Contents!ACNext, Contents!Leave

LEMMA StepImplements ==
    ASSUME Inv, ~MixedArguments, [Next]_vars
    PROVE  [Contents!ACNext]_<<ContentOf, Ongoing(fills), operation>>
  <1>1. CASE Allocations
    BY <1>1, SoundAllocations, RaiseImplements, AllocateImplements
  <1>2. CASE Stores
    <2>1. Fails \/ Puts \/ PutsAll
      BY <1>2, SoundAtPut, SoundPutAll DEF Stores
    <2> QED BY <2>1, RaiseImplements, PutsImplement, PutsAllImplement
  <1>3. CASE FillSteps
    BY <1>3, BeginFillImplements, SoundAnswer, AnswerImplements, RaiseImplements,
       AbandonImplements DEF FillSteps
  <1>4. CASE UNCHANGED vars
    BY <1>4, ContentUnchanged DEF vars
  <1> QED BY <1>1, <1>2, <1>3, <1>4 DEF Next

LEMMA InitImplements ==
    ASSUME Init PROVE Contents!ACInit
  <1>1. Allocated = {}
    BY DEF Init, Allocated
  <1>2. ContentOf = [a \in Arrays |-> Unallocated]
    BY DEF Init, ContentOf
  <1>3. Ongoing(fills) = <<>>
    <2>1. fills \in Seq(FillRecord) /\ Len(fills) = 0
      BY DEF Init
    <2>2. Ongoing(fills) \in Seq(Entries) /\ Len(Ongoing(fills)) = 0
      BY <2>1, OngoingSeq
    <2> QED BY <2>2
  <1> QED BY <1>2, <1>3 DEF Init, Contents!ACInit

(* Arrays hold what was put into them: no change of strategy, no copy and no *)
(* putAll:, however deeply nested and whatever its block answers, changes an *)
(* element that the abstract array would keep.                               *)
THEOREM Refinement == ASSUME ~MixedArguments PROVE Spec => ContentsSpec
  <1>1. Init => Contents!ACInit
    BY InitImplements
  <1>2. Inv /\ [Next]_vars => [Contents!ACNext]_<<ContentOf, Ongoing(fills), operation>>
    BY StepImplements
  <1> QED BY <1>1, <1>2, Invariance, PTL DEF Spec, ContentsSpec, Contents!ACSpec
===============================================================================
