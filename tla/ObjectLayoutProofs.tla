-------------------------- MODULE ObjectLayoutProofs --------------------------
(***************************************************************************)
(* Proofs about ObjectLayout, for every number of instances and fields.    *)
(***************************************************************************)
EXTENDS ObjectLayout, FiniteSetTheorems, TLAPS

-------------------------------------------------------------------------------
(* Slots.  The rank of an element of a finite set of fields is below the     *)
(* size of the set, and two elements have different ranks.                   *)

Rank(S, f) == Cardinality({g \in S : g < f})

LEMMA RankProperties ==
    ASSUME NEW S \in SUBSET Fields
    PROVE  /\ IsFiniteSet(S) /\ Cardinality(S) \in Nat
           /\ \A f \in S : Rank(S, f) \in Nat /\ Rank(S, f) < Cardinality(S)
           /\ \A f, g \in S : Rank(S, f) = Rank(S, g) => f = g
  <1>1. /\ IsFiniteSet(Fields) /\ Fields \subseteq Nat
    BY LayoutAssumption, FS_Interval DEF Fields
  <1>2. \A T \in SUBSET Fields : IsFiniteSet(T) /\ Cardinality(T) \in Nat
    BY <1>1, FS_Subset, FS_CardinalityType
  <1>3. ASSUME NEW T \in SUBSET Fields, NEW U \in SUBSET T, NEW x \in T, x \notin U
        PROVE  Cardinality(U) < Cardinality(T)
    <2>1. Cardinality(U) <= Cardinality(T) /\ (Cardinality(T) = Cardinality(U) => T = U)
      BY <1>2, FS_Subset
    <2> QED BY <2>1, <1>2, <1>3
  <1>4. ASSUME NEW f \in S PROVE Rank(S, f) \in Nat /\ Rank(S, f) < Cardinality(S)
    <2>1. {g \in S : g < f} \in SUBSET S /\ f \notin {g \in S : g < f}
      BY <1>1
    <2> QED BY <2>1, <1>2, <1>3 DEF Rank
  <1>5. ASSUME NEW f \in S, NEW g \in S, f < g PROVE Rank(S, f) < Rank(S, g)
    <2>1. \A h \in S : h \in Nat
      BY <1>1
    <2>2. \A h \in S : h < f => h < g
      BY <2>1, <1>5
    <2>3. {h \in S : h < g} \in SUBSET Fields
      OBVIOUS
    <2>4. {h \in S : h < f} \in SUBSET {h \in S : h < g}
      BY <2>2
    <2>5. f \in {h \in S : h < g} /\ f \notin {h \in S : h < f}
      BY <2>1, <1>5
    <2> QED BY <2>3, <2>4, <2>5, <1>3 DEF Rank
  <1>6. ASSUME NEW f \in S, NEW g \in S, f # g PROVE Rank(S, f) # Rank(S, g)
    <2>1. /\ f \in Nat /\ g \in Nat /\ Rank(S, f) \in Nat /\ Rank(S, g) \in Nat
      BY <1>1, <1>4
    <2>2. f < g \/ g < f
      BY <2>1, <1>6
    <2> QED BY <2>1, <2>2, <1>5
  <1> QED BY <1>2, <1>4, <1>6

LEMMA PrimSlot ==
    ASSUME NEW l \in Layout
    PROVE  /\ \A f \in PrimFields(l) : PrimIdx(l, f) \in PrimSlots(l)
           /\ \A f, g \in PrimFields(l) : PrimIdx(l, f) = PrimIdx(l, g) => f = g
           /\ \A f \in PrimFields(l) : PrimIdx(l, f) \in 0 .. NumFields - 1
  <1>1. PrimFields(l) \in SUBSET Fields
    BY DEF PrimFields
  <1>2. \A f : PrimIdx(l, f) = Rank(PrimFields(l), f)
    BY DEF PrimIdx, Rank
  <1>3. Cardinality(PrimFields(l)) <= NumFields
    <2>1. IsFiniteSet(Fields) /\ Cardinality(Fields) = NumFields
      BY LayoutAssumption, FS_Interval DEF Fields
    <2> QED BY <1>1, <2>1, FS_Subset
  <1> QED BY <1>1, <1>2, <1>3, RankProperties, LayoutAssumption DEF PrimSlots, Slots

LEMMA PtrSlot ==
    ASSUME NEW l \in Layout
    PROVE  /\ \A f \in PtrFields(l) : PtrIdx(l, f) \in PtrSlots(l)
           /\ \A f, g \in PtrFields(l) : PtrIdx(l, f) = PtrIdx(l, g) => f = g
  <1>1. PtrFields(l) \in SUBSET Fields
    BY DEF PtrFields
  <1>2. \A f : PtrIdx(l, f) = Rank(PtrFields(l), f)
    BY DEF PtrIdx, Rank
  <1> QED BY <1>1, <1>2, RankProperties, LayoutAssumption DEF PtrSlots, Slots

-------------------------------------------------------------------------------
(* One object.                                                               *)

SomeValue == Object \cup {nilObject}

LEMMA ValueFacts ==
    /\ Written \subseteq SomeValue
    /\ \A v \in Object : v.kind \in {"Integer", "Double", "Object"} /\ v.bits \in Bits
    /\ \A v \in Object : v = [kind |-> v.kind, bits |-> v.bits]
    /\ nilObject.kind = "Nil" /\ nilObject.bits \in Bits
    /\ \A v \in Object : v # nilObject
  <1>1. nilObject.kind = "Nil" /\ nilObject.bits \in Bits
    BY LayoutAssumption DEF nilObject
  <1>2. \A v \in Object : v.kind \in {"Integer", "Double", "Object"} /\ v.bits \in Bits
    BY DEF Object
  <1>3. \A v \in Object : v = [kind |-> v.kind, bits |-> v.bits]
    BY DEF Object
  <1>4. Written \subseteq SomeValue
    BY LayoutAssumption DEF SomeValue, Object, Written
  <1> QED BY <1>1, <1>2, <1>3, <1>4

(* The new object is well formed and all its fields read as nil.             *)
LEMMA NewObjectIsEmpty ==
    ASSUME NEW l \in Layout, NEW id \in Nat \ {0}
    PROVE  /\ NewObject(id, l) \in Memory(l)
           /\ NewObject(id, l).layout = id
           /\ \A f \in Fields : Get(NewObject(id, l), l, f) = nilObject
  <1>1. NewObject(id, l) \in Memory(l) /\ NewObject(id, l).layout = id
    BY LayoutAssumption DEF NewObject, Memory
  <1>2. ASSUME NEW f \in Fields PROVE Get(NewObject(id, l), l, f) = nilObject
    <2>1. CASE f \in PtrFields(l)
      BY <2>1, PtrSlot DEF Get, NewObject
    <2>2. CASE f \notin PtrFields(l)
      BY <2>2 DEF Get, NewObject, IsPrimitiveSet
    <2> QED BY <2>1, <2>2
  <1> QED BY <1>1, <1>2

(* A write that does not raise keeps the object well formed.                 *)
LEMMA PutIsWellFormed ==
    ASSUME NEW l \in Layout, NEW m \in Memory(l), NEW f \in Fields, NEW v \in SomeValue,
           Outcome(l[f], v) = "stored"
    PROVE  Put(m, l, f, v) \in Memory(l) /\ Put(m, l, f, v).layout = m.layout
  <1>1. CASE f \in PtrFields(l)
    BY <1>1 DEF Put, Memory, SomeValue
  <1>2. CASE f \in PrimFields(l) /\ v = nilObject
    BY <1>2 DEF Put, Memory, PtrFields, PrimFields, PrimType
  <1>3. CASE f \in PrimFields(l) /\ v # nilObject
    <2>1. v.bits \in Bits
      BY <1>3, ValueFacts DEF SomeValue
    <2>2. f \notin PtrFields(l)
      BY <1>3 DEF PtrFields, PrimFields, PrimType
    <2> QED BY <1>3, <2>1, <2>2 DEF Put, Memory, Mask
  <1>4. CASE f \notin PtrFields(l) /\ f \notin PrimFields(l)
    BY <1>4 DEF Put, Memory
  <1> QED BY <1>1, <1>2, <1>3, <1>4

LEMMA GetIsValue ==
    ASSUME NEW l \in Layout, NEW m \in Memory(l), NEW f \in Fields
    PROVE  /\ Get(m, l, f) \in SomeValue
           /\ f \in PrimFields(l) => Get(m, l, f).kind \in {l[f], "Nil"}
           /\ f \notin PrimFields(l) /\ f \notin PtrFields(l) => Get(m, l, f) = nilObject
  <1>1. CASE f \in PtrFields(l)
    BY <1>1, PtrSlot DEF Get, Memory, SomeValue, PtrFields, PrimFields, PrimType
  <1>2. CASE f \in PrimFields(l)
    <2>1. /\ m.prims[PrimIdx(l, f)] \in Bits
          /\ f \notin PtrFields(l) /\ l[f] \in {"Integer", "Double"}
      BY <1>2, PrimSlot DEF Memory, PtrFields, PrimFields, PrimType
    <2> QED BY <1>2, <2>1, ValueFacts DEF Get, SomeValue, Object
  <1>3. CASE f \notin PtrFields(l) /\ f \notin PrimFields(l)
    BY <1>3 DEF Get, SomeValue
  <1> QED BY <1>1, <1>2, <1>3

(* A move whose stores do not raise keeps the object well formed.            *)
LEMMA MovedIsWellFormed ==
    ASSUME NEW l \in Layout, NEW new \in Layout, NEW m \in Memory(l), NEW id \in Nat \ {0}
    PROVE  Moved(m, l, id, new) \in Memory(new) /\ Moved(m, l, id, new).layout = id
  <1> DEFINE vals == AllFields(m, l)
             set == {f \in PrimFields(new) : vals[f] # nilObject}
             prim(s) == {f \in set : PrimIdx(new, f) = s}
             ptr(s) == {f \in PtrFields(new) : PtrIdx(new, f) = s}
  <1>1. \A f \in Fields : vals[f] \in SomeValue
    BY GetIsValue DEF AllFields
  <1>2. ASSUME NEW s \in PrimSlots(new), prim(s) # {}
        PROVE  vals[CHOOSE f \in prim(s) : TRUE].bits \in Bits
    <2>1. (CHOOSE f \in prim(s) : TRUE) \in prim(s)
      BY <1>2
    <2>2. \A f \in prim(s) : f \in Fields
      BY DEF PrimFields
    <2> QED BY <2>1, <2>2, <1>1, ValueFacts DEF SomeValue
  <1>3. ASSUME NEW s \in PtrSlots(new), ptr(s) # {}
        PROVE  vals[CHOOSE f \in ptr(s) : TRUE] \in SomeValue
    <2>1. (CHOOSE f \in ptr(s) : TRUE) \in ptr(s)
      BY <1>3
    <2>2. \A f \in ptr(s) : f \in Fields
      BY DEF PtrFields
    <2> QED BY <2>1, <2>2, <1>1
  <1>4. UNION {Mask(PrimIdx(new, f)) : f \in set} \subseteq 0 .. MaskBits - 1
    BY DEF Mask
  <1> HIDE DEF vals, set, prim, ptr
  <1> DEFINE moved == [layout |-> id,
        prims  |-> [s \in PrimSlots(new) |->
                      IF prim(s) # {} THEN vals[CHOOSE f \in prim(s) : TRUE].bits
                      ELSE IF s < DirectPrims THEN Scrub ELSE Zero],
        used   |-> UNION {Mask(PrimIdx(new, f)) : f \in set},
        ptrs   |-> [s \in PtrSlots(new) |->
                      IF ptr(s) # {} THEN vals[CHOOSE f \in ptr(s) : TRUE]
                      ELSE nilObject]]
  <1>5. moved \in Memory(new) /\ moved.layout = id
    BY <1>2, <1>3, <1>4, LayoutAssumption DEF Memory, SomeValue
  <1>6. Moved(m, l, id, new) = moved
    BY DEF Moved, moved, vals, set, prim, ptr
  <1> QED BY <1>5, <1>6

(* A write that does not raise changes what its field reads as and no other, *)
(* as long as every primitive slot has a bit in the used map.                *)
LEMMA PutReadsBack ==
    ASSUME NumFields <= MaskBits,
           NEW l \in Layout, NEW m \in Memory(l), NEW f \in Fields, NEW v \in SomeValue,
           Outcome(l[f], v) = "stored", NEW g \in Fields
    PROVE  Get(Put(m, l, f, v), l, g) = IF g = f THEN v ELSE Get(m, l, g)
  <1> DEFINE p == Put(m, l, f, v)
  <1>1. l[f] \in StorageType /\ l[g] \in StorageType
    BY DEF Layout
  <1>2. \A h \in Fields : ~(h \in PtrFields(l) /\ h \in PrimFields(l))
    BY DEF PtrFields, PrimFields, PrimType
  <1>3. \A h \in PrimFields(l) : Mask(PrimIdx(l, h)) = {PrimIdx(l, h)}
    BY PrimSlot, LayoutAssumption DEF Mask
  <1>4. CASE f \in PtrFields(l)
    <2>1. /\ p.ptrs = [m.ptrs EXCEPT ![PtrIdx(l, f)] = v]
          /\ p.prims = m.prims /\ p.used = m.used
      BY <1>4 DEF Put, Memory
    <2>2. m.ptrs \in [PtrSlots(l) -> SomeValue]
      BY DEF Memory, SomeValue
    <2>3. CASE g \in PtrFields(l)
      BY <2>1, <2>2, <2>3, <1>4, PtrSlot DEF Get
    <2>4. CASE g \notin PtrFields(l)
      BY <2>1, <2>4, <1>4 DEF Get, IsPrimitiveSet
    <2> QED BY <2>3, <2>4
  <1>5. CASE f \in PrimFields(l) /\ v = nilObject
    <2>1. p.used = m.used \ Mask(PrimIdx(l, f)) /\ p.prims = m.prims /\ p.ptrs = m.ptrs
      BY <1>5, <1>2 DEF Put, Memory
    <2>2. CASE g \in PrimFields(l)
      <3>1. PrimIdx(l, f) = PrimIdx(l, g) => f = g
        BY <1>5, <2>2, PrimSlot
      <3>2. IsPrimitiveSet(p, PrimIdx(l, g)) <=> g # f /\ IsPrimitiveSet(m, PrimIdx(l, g))
        BY <2>1, <2>2, <1>5, <1>3, <3>1 DEF IsPrimitiveSet
      <3> HIDE DEF p
      <3> QED BY <2>1, <2>2, <3>2, <1>2, <1>5 DEF Get, p
    <2>3. CASE g \notin PrimFields(l)
      BY <2>1, <2>3, <1>5 DEF Get
    <2> QED BY <2>2, <2>3
  <1>6. CASE f \in PrimFields(l) /\ v # nilObject
    <2>1. /\ p.used = m.used \cup Mask(PrimIdx(l, f))
          /\ p.prims = [m.prims EXCEPT ![PrimIdx(l, f)] = v.bits]
          /\ p.ptrs = m.ptrs
      BY <1>6, <1>2 DEF Put, Memory
    <2>2. m.prims \in [PrimSlots(l) -> Bits] /\ PrimIdx(l, f) \in PrimSlots(l)
      BY <1>6, PrimSlot DEF Memory
    <2>3. v = [kind |-> l[f], bits |-> v.bits]
      BY <1>6, ValueFacts DEF SomeValue, Outcome, PrimFields, PrimType
    <2>4. CASE g \in PrimFields(l)
      <3>1. PrimIdx(l, f) = PrimIdx(l, g) => f = g
        BY <1>6, <2>4, PrimSlot
      <3>2. IsPrimitiveSet(p, PrimIdx(l, g)) <=> g = f \/ IsPrimitiveSet(m, PrimIdx(l, g))
        BY <2>1, <2>4, <1>6, <1>3, <3>1 DEF IsPrimitiveSet
      <3>3. p.prims[PrimIdx(l, g)] = IF g = f THEN v.bits ELSE m.prims[PrimIdx(l, g)]
        BY <2>1, <2>2, <2>4, <3>1, PrimSlot
      <3> HIDE DEF p
      <3> QED BY <2>3, <2>4, <3>2, <3>3, <1>2 DEF Get, p
    <2>5. CASE g \notin PrimFields(l)
      BY <2>1, <2>5, <1>6 DEF Get
    <2> QED BY <2>4, <2>5
  <1>7. CASE f \notin PtrFields(l) /\ f \notin PrimFields(l)
    <2>1. v = nilObject /\ p = m
      BY <1>7, <1>1 DEF Put, Outcome, PtrFields, PrimFields, StorageType
    <2> QED BY <2>1, <1>7 DEF Get
  <1> QED BY <1>4, <1>5, <1>6, <1>7

(* A move changes no field, as long as its stores do not raise.              *)
LEMMA MovedReadsTheSame ==
    ASSUME NumFields <= MaskBits,
           NEW l \in Layout, NEW new \in Layout, NEW m \in Memory(l), NEW id \in Nat \ {0},
           ~TransferRaises(m, l, new), NEW f \in Fields
    PROVE  Get(Moved(m, l, id, new), new, f) = Get(m, l, f)
  <1> DEFINE vals == AllFields(m, l)
             set == {g \in PrimFields(new) : vals[g] # nilObject}
             prim(s) == {g \in set : PrimIdx(new, g) = s}
             ptr(s) == {g \in PtrFields(new) : PtrIdx(new, g) = s}
             moved == Moved(m, l, id, new)
  <1>1. vals[f] = Get(m, l, f) /\ vals[f] \in SomeValue /\ Outcome(new[f], vals[f]) = "stored"
    BY GetIsValue DEF AllFields, TransferRaises
  <1>2. moved.prims = [s \in PrimSlots(new) |->
                         IF prim(s) # {} THEN vals[CHOOSE g \in prim(s) : TRUE].bits
                         ELSE IF s < DirectPrims THEN Scrub ELSE Zero]
    BY DEF Moved
  <1>3. moved.used = UNION {Mask(PrimIdx(new, g)) : g \in set}
    BY DEF Moved
  <1>4. moved.ptrs = [s \in PtrSlots(new) |->
                         IF ptr(s) # {} THEN vals[CHOOSE g \in ptr(s) : TRUE] ELSE nilObject]
    BY DEF Moved
  <1>5. new[f] \in StorageType
    BY DEF Layout
  <1> HIDE DEF moved, vals
  <1>6. CASE f \in PtrFields(new)
    <2>1. ptr(PtrIdx(new, f)) = {f} /\ PtrIdx(new, f) \in PtrSlots(new)
      BY <1>6, PtrSlot
    <2>2. (CHOOSE g \in ptr(PtrIdx(new, f)) : TRUE) = f
      BY <2>1
    <2> QED BY <1>6, <2>1, <2>2, <1>4, <1>1 DEF Get, moved
  <1>7. CASE f \in PrimFields(new)
    <2>1. \A g \in PrimFields(new) : Mask(PrimIdx(new, g)) = {PrimIdx(new, g)}
      BY PrimSlot, LayoutAssumption DEF Mask
    <2>2. IsPrimitiveSet(moved, PrimIdx(new, f)) <=> vals[f] # nilObject
      BY <2>1, <1>3, <1>7, PrimSlot DEF IsPrimitiveSet, PrimFields
    <2>3. ASSUME vals[f] # nilObject
          PROVE  moved.prims[PrimIdx(new, f)] = vals[f].bits /\ vals[f].kind = new[f]
      <3>1. prim(PrimIdx(new, f)) = {f} /\ PrimIdx(new, f) \in PrimSlots(new)
        BY <1>7, <2>3, PrimSlot
      <3>2. (CHOOSE g \in prim(PrimIdx(new, f)) : TRUE) = f
        BY <3>1
      <3>3. vals[f].kind = new[f]
        BY <1>1, <1>7, <2>3, ValueFacts DEF SomeValue, Outcome, PrimFields
      <3> QED BY <3>1, <3>2, <3>3, <1>2
    <2>4. f \notin PtrFields(new)
      BY <1>7 DEF PtrFields, PrimFields, PrimType
    <2> QED BY <1>7, <2>2, <2>3, <2>4, <1>1, ValueFacts DEF Get, moved, SomeValue
  <1>8. CASE f \notin PtrFields(new) /\ f \notin PrimFields(new)
    BY <1>8, <1>1, <1>5 DEF Get, Outcome, PtrFields, PrimFields, StorageType
  <1> QED BY <1>6, <1>7, <1>8

-------------------------------------------------------------------------------
(* The inductive invariant is the conjunction of the state properties: a     *)
(* move is safe because layouts only generalise, layouts only generalise     *)
(* because the class publishes what it derives from its own last layout, and *)
(* is_latest follows the last one.                                           *)

Inv == /\ TypeOK
       /\ OnlyClassLayoutIsLatest
       /\ LayoutsGeneralize
       /\ TransitionsByConstruction

MapFits == NumFields <= MaskBits

Reads == [o \in Objects |-> [f \in Fields |-> ReadField(o, f)]]

(* Values survive a move to a more general layout.                           *)
LEMMA GeneralLayoutHoldsAll ==
    ASSUME NEW l \in Layout, NEW new \in Layout, NEW m \in Memory(l),
           \A f \in Fields : Below(l[f], new[f])
    PROVE  ~TransferRaises(m, l, new)
  <1> SUFFICES ASSUME NEW f \in Fields
               PROVE  Outcome(new[f], Get(m, l, f)) = "stored"
    BY DEF TransferRaises
  <1>1. l[f] \in StorageType /\ Below(l[f], new[f])
    BY DEF Layout
  <1>2. CASE f \in PtrFields(l)
    BY <1>1, <1>2 DEF Below, PtrFields, Outcome, PrimType
  <1>3. CASE f \in PrimFields(l)
    BY <1>1, <1>3, GetIsValue DEF Below, PrimFields, Outcome, PrimType
  <1>4. CASE f \notin PtrFields(l) /\ f \notin PrimFields(l)
    BY <1>4, GetIsValue, ValueFacts DEF Outcome
  <1> QED BY <1>2, <1>3, <1>4

LEMMA ObjectFacts ==
    ASSUME Inv, NEW o \in Objects, Allocated(o)
    PROVE  /\ objects[o].layout \in 1 .. Len(layouts) /\ objects[o].layout \in Nat \ {0}
           /\ LayoutOf(o) \in Layout
           /\ objects[o] \in Memory(LayoutOf(o))
           /\ layouts[classLayout] \in Layout
           /\ \A f \in Fields : Below(LayoutOf(o)[f], layouts[classLayout][f])
  <1>1. /\ objects[o].layout \in 1 .. Len(layouts)
        /\ objects[o] \in Memory(LayoutOf(o))
        /\ layouts \in Seq(Layout) /\ classLayout = Len(layouts) /\ classLayout \in 1 .. Len(layouts)
    BY DEF Inv, TypeOK, LayoutsGeneralize
  <1>2. \A f \in Fields : Below(LayoutOf(o)[f], layouts[classLayout][f])
    <2>1. CASE objects[o].layout = classLayout
      BY <2>1 DEF Below, LayoutOf
    <2>2. CASE objects[o].layout < classLayout
      BY <1>1, <2>2 DEF Inv, LayoutsGeneralize, LayoutOf
    <2> QED BY <1>1, <2>1, <2>2
  <1> QED BY <1>1, <1>2 DEF LayoutOf

LEMMA ClassFacts ==
    ASSUME Inv
    PROVE  /\ layouts \in Seq(Layout) /\ Len(layouts) \in Nat
           /\ classLayout = Len(layouts) /\ classLayout \in 1 .. Len(layouts)
           /\ layouts[classLayout] \in Layout
           /\ isLatest \in [1 .. Len(layouts) -> BOOLEAN]
  <1>1. /\ layouts \in Seq(Layout) /\ classLayout = Len(layouts)
        /\ classLayout \in 1 .. Len(layouts)
        /\ isLatest \in [1 .. Len(layouts) -> BOOLEAN]
    BY DEF Inv, TypeOK, LayoutsGeneralize
  <1>2. \A n \in 1 .. Len(layouts) : layouts[n] \in Layout
    BY <1>1
  <1> QED BY <1>1, <1>2

(* A new layout derived from the last one by generalising one field keeps    *)
(* the facts about the history of layouts.                                   *)
LEMMA PublishKeepsHistory ==
    ASSUME Inv, Running, NEW f \in Fields, NEW t \in StorageType,
           layouts[classLayout][f] # t, Below(layouts[classLayout][f], t),
           Publish([layouts[classLayout] EXCEPT ![f] = t])
    PROVE  /\ layouts' \in Seq(Layout) /\ Len(layouts') = Len(layouts) + 1
           /\ \A i \in 1 .. Len(layouts) : layouts'[i] = layouts[i]
           /\ layouts'[Len(layouts) + 1] = [layouts[classLayout] EXCEPT ![f] = t]
           /\ classLayout' = Len(layouts')
           /\ isLatest' \in [1 .. Len(layouts') -> BOOLEAN]
           /\ OnlyClassLayoutIsLatest' /\ LayoutsGeneralize'
  <1> DEFINE cur == layouts[classLayout]
             new == [cur EXCEPT ![f] = t]
  <1>1. /\ layouts \in Seq(Layout) /\ cur \in Layout /\ new \in Layout
        /\ classLayout = Len(layouts) /\ Len(layouts) \in Nat \ {0}
    BY ClassFacts DEF Layout
  <1>2. /\ layouts' = Append(layouts, new) /\ classLayout' = Len(layouts) + 1
        /\ isLatest' = [i \in 1 .. Len(layouts) + 1 |->
                          i > Len(layouts) \/ (isLatest[i] /\ i # classLayout)]
    BY DEF Publish
  <1> HIDE DEF new
  <1>3. /\ layouts' \in Seq(Layout) /\ Len(layouts') = Len(layouts) + 1
        /\ \A i \in 1 .. Len(layouts) : layouts'[i] = layouts[i]
        /\ layouts'[Len(layouts) + 1] = new
    BY <1>1, <1>2
  <1>4. isLatest' = [i \in 1 .. Len(layouts) + 1 |-> i = Len(layouts) + 1]
    <2>1. \A i \in 1 .. Len(layouts) : isLatest[i] <=> i = classLayout
      BY DEF Inv, OnlyClassLayoutIsLatest
    <2>2. \A i \in 1 .. Len(layouts) + 1 :
             (i > Len(layouts) \/ (isLatest[i] /\ i # classLayout)) = (i = Len(layouts) + 1)
      BY <2>1, <1>1
    <2> QED BY <2>2, <1>2
  <1>5. ASSUME NEW i \in 1 .. Len(layouts)
        PROVE  layouts[i] # new /\ \A g \in Fields : Below(layouts[i][g], new[g])
    <2>1. \A g \in Fields : Below(layouts[i][g], cur[g])
      <3>1. CASE i = Len(layouts)
        BY <3>1, <1>1 DEF Below
      <3>2. CASE i < Len(layouts)
        BY <3>2, <1>1 DEF Inv, LayoutsGeneralize
      <3> QED BY <1>1, <3>1, <3>2
    <2>2. new[f] = t /\ (\A g \in Fields : g # f => new[g] = cur[g])
      BY <1>1 DEF new, Layout
    <2>3. layouts[i][f] # t
      BY <2>1 DEF Below
    <2> QED BY <2>1, <2>2, <2>3 DEF Below
  <1>6. LayoutsGeneralize'
    <2> SUFFICES ASSUME NEW i \in 1 .. Len(layouts'), NEW j \in 1 .. Len(layouts'), i < j
                 PROVE  /\ layouts'[i] # layouts'[j]
                        /\ \A g \in Fields : Below(layouts'[i][g], layouts'[j][g])
      BY <1>2, <1>3 DEF LayoutsGeneralize
    <2>1. CASE j = Len(layouts) + 1
      BY <2>1, <1>1, <1>3, <1>5
    <2>2. CASE j # Len(layouts) + 1
      BY <2>2, <1>1, <1>3 DEF Inv, LayoutsGeneralize
    <2> QED BY <2>1, <2>2
  <1>7. OnlyClassLayoutIsLatest'
    BY <1>2, <1>3, <1>4 DEF OnlyClassLayoutIsLatest
  <1> QED BY <1>1, <1>2, <1>3, <1>4, <1>6, <1>7 DEF new

(* Layouts are only added: an object that is not written keeps its layout    *)
(* and reads the same.                                                       *)
HistoryKept == /\ layouts' \in Seq(Layout) /\ Len(layouts) <= Len(layouts')
               /\ \A i \in 1 .. Len(layouts) : layouts'[i] = layouts[i]

ObjectsOK == /\ \A o \in Objects : Allocated(o) =>
                   /\ objects[o].layout \in 1 .. Len(layouts)
                   /\ objects[o] \in Memory(LayoutOf(o))
             /\ DOMAIN objects = Objects

LEMMA OneObjectChanges ==
    ASSUME Inv, HistoryKept, NEW o \in Objects, NEW X,
           objects' = [objects EXCEPT ![o] = X],
           X.layout \in 1 .. Len(layouts'), X \in Memory(layouts'[X.layout])
    PROVE  /\ ObjectsOK'
           /\ \A p \in Objects, f \in Fields :
                 ReadField(p, f)' = IF p = o THEN Get(X, layouts'[X.layout], f)
                                    ELSE ReadField(p, f)
  <1>1. ObjectsOK /\ Len(layouts) \in Nat /\ Len(layouts') \in Nat
    <2>1. ObjectsOK
      BY DEF Inv, TypeOK, ObjectsOK
    <2>2. layouts' \in Seq(Layout)
      BY DEF HistoryKept
    <2> QED BY <2>1, <2>2, ClassFacts
  <1>2. DOMAIN objects' = Objects /\ objects'[o] = X
        /\ \A p \in Objects : p # o => objects'[p] = objects[p]
    BY <1>1 DEF ObjectsOK
  <1>3. X # Unallocated
    BY <1>1 DEF Unallocated
  <1>4. ASSUME NEW p \in Objects, p # o, Allocated(p)
        PROVE  /\ objects[p].layout \in 1 .. Len(layouts')
               /\ layouts'[objects[p].layout] = LayoutOf(p)
               /\ objects[p] \in Memory(LayoutOf(p))
    BY <1>1, <1>4 DEF HistoryKept, ObjectsOK, LayoutOf
  <1>5. ObjectsOK'
    BY <1>2, <1>4 DEF ObjectsOK, Allocated, LayoutOf
  <1>6. ASSUME NEW p \in Objects, NEW f \in Fields
        PROVE  ReadField(p, f)' = IF p = o THEN Get(X, layouts'[X.layout], f)
                                  ELSE ReadField(p, f)
    <2>1. CASE p = o
      BY <2>1, <1>2, <1>3 DEF ReadField, Allocated, LayoutOf, Get
    <2>2. CASE p # o
      BY <2>2, <1>2, <1>4 DEF ReadField, Allocated, LayoutOf, Get
    <2> QED BY <2>1, <2>2
  <1> QED BY <1>5, <1>6

LEMMA NoObjectChanges ==
    ASSUME Inv, HistoryKept, UNCHANGED objects
    PROVE  ObjectsOK' /\ Reads' = Reads
  <1>1. ObjectsOK /\ Len(layouts) \in Nat /\ Len(layouts') \in Nat
    <2>1. ObjectsOK
      BY DEF Inv, TypeOK, ObjectsOK
    <2>2. layouts' \in Seq(Layout)
      BY DEF HistoryKept
    <2> QED BY <2>1, <2>2, ClassFacts
  <1>2. \A p \in Objects : Allocated(p) =>
           /\ objects[p].layout \in 1 .. Len(layouts')
           /\ layouts'[objects[p].layout] = LayoutOf(p)
    BY <1>1 DEF HistoryKept, ObjectsOK, LayoutOf
  <1>3. ObjectsOK'
    BY <1>1, <1>2 DEF ObjectsOK, Allocated, LayoutOf
  <1>4. \A p \in Objects, f \in Fields : ReadField(p, f)' = ReadField(p, f)
    BY <1>2 DEF ReadField, Allocated, LayoutOf, Get
  <1> QED BY <1>3, <1>4 DEF Reads

(* A write of v to field f of o as the abstract store sees it.               *)
Stores(o, f, v) == Reads' = [Reads EXCEPT ![o][f] = v]

LEMMA OneFieldChanges ==
    ASSUME NEW o \in Objects, NEW f \in Fields, NEW v,
           \A p \in Objects, g \in Fields :
              ReadField(p, g)' = IF p = o /\ g = f THEN v ELSE ReadField(p, g)
    PROVE  Stores(o, f, v)
  BY DEF Stores, Reads

(* The effect of a transition whose new layout is above the old one and can  *)
(* hold v: it does not fail, and its only effect on the store is the write.  *)
LEMMA MoveAndStoreSucceeds ==
    ASSUME Inv, HistoryKept, NEW o \in Objects, Allocated(o), NEW f \in Fields,
           NEW v \in Written, NEW id \in 1 .. Len(layouts'),
           NEW new \in Layout, new = layouts'[id],
           \A g \in Fields : Below(LayoutOf(o)[g], new[g]),
           Outcome(new[f], v) = "stored", id # objects[o].layout,
           MoveAndStore(o, id, new, f, v)
    PROVE  ObjectsOK' /\ abort' = "none" /\ (MapFits => Stores(o, f, v))
  <1> DEFINE m == objects[o]
             l == LayoutOf(o)
             moved == Moved(m, l, id, new)
             X == Put(moved, new, f, v)
  <1>1. /\ m \in Memory(l) /\ l \in Layout /\ ~TransferRaises(m, l, new)
        /\ id \in Nat \ {0} /\ v \in SomeValue
    BY ObjectFacts, GeneralLayoutHoldsAll, ValueFacts DEF HistoryKept
  <1>2. abort' = "none" /\ objects' = [objects EXCEPT ![o] = X]
    BY <1>1 DEF MoveAndStore
  <1>3. moved \in Memory(new) /\ moved.layout = id
    <2>1. \A k \in Memory(l) : /\ Moved(k, l, id, new) \in Memory(new)
                                /\ Moved(k, l, id, new).layout = id
      BY <1>1, MovedIsWellFormed
    <2> QED BY <1>1, <2>1
  <1>4. X \in Memory(new) /\ X.layout = id
    BY <1>1, <1>3, PutIsWellFormed
  <1>5. ASSUME MapFits, NEW g \in Fields
        PROVE  Get(X, new, g) = IF g = f THEN v ELSE ReadField(o, g)
    <2>1. Get(moved, new, g) = Get(m, l, g)
      BY <1>1, <1>5, MovedReadsTheSame DEF MapFits
    <2>2. Get(X, new, g) = IF g = f THEN v ELSE Get(moved, new, g)
      BY <1>1, <1>3, <1>5, PutReadsBack DEF MapFits
    <2> QED BY <2>1, <2>2 DEF ReadField
  <1> HIDE DEF X, moved, m, l
  <1>6. /\ ObjectsOK'
        /\ \A p \in Objects, g \in Fields :
              ReadField(p, g)' = IF p = o THEN Get(X, new, g) ELSE ReadField(p, g)
    BY <1>2, <1>4, OneObjectChanges
  <1>7. MapFits => Stores(o, f, v)
    BY <1>5, <1>6, OneFieldChanges
  <1> QED BY <1>2, <1>6, <1>7

-------------------------------------------------------------------------------
(* Each action: the invariant is kept, and the step is a step of the store.  *)

Behind(o) == Allocated(o) /\ objects[o].layout # classLayout

Asked(o, f, v) == request' = Request(o, f, v)

(* What a step means for the store and for the interpreter.                  *)
StoreStep ==
    \/ /\ UNCHANGED <<abort, request>>
       /\ MapFits => Reads' = Reads
    \/ \E o \in Objects, f \in Fields, v \in Written :
          /\ Running /\ Asked(o, f, v)
          /\ \/ abort' = abort /\ (MapFits => Stores(o, f, v))
             \/ abort' # "none" /\ Behind(o) /\ Reads' = Reads

LEMMA AskedIsRequest ==
    ASSUME NEW o \in Objects, NEW f \in Fields, NEW v \in Written, Asked(o, f, v)
    PROVE  request' \in Requests
  BY DEF Asked, Request, Requests

LEMMA LayoutsUnchanged ==
    ASSUME Inv, Running, UNCHANGED <<layouts, isLatest, classLayout>>, ObjectsOK',
           abort' = "none", request' \in Requests
    PROVE  Inv'
  <1>1. TypeOK'
    BY DEF Inv, TypeOK, ObjectsOK
  <1>2. OnlyClassLayoutIsLatest'
    BY DEF Inv, OnlyClassLayoutIsLatest
  <1>3. LayoutsGeneralize'
    BY DEF Inv, LayoutsGeneralize
  <1> QED BY <1>1, <1>2, <1>3 DEF Inv, TransitionsByConstruction

LEMMA HistoryUnchanged ==
    ASSUME Inv, UNCHANGED layouts
    PROVE  HistoryKept
  BY ClassFacts DEF HistoryKept

LEMMA NewStep ==
    ASSUME Inv, NEW o \in Objects, New(o)
    PROVE  Inv' /\ StoreStep
  <1> DEFINE X == NewObject(classLayout, layouts[classLayout])
  <1>1. /\ X \in Memory(layouts[classLayout]) /\ X.layout = classLayout
        /\ \A f \in Fields : Get(X, layouts[classLayout], f) = nilObject
    BY ClassFacts, NewObjectIsEmpty
  <1>2. /\ objects' = [objects EXCEPT ![o] = X] /\ ~Allocated(o) /\ abort' = "none"
        /\ UNCHANGED <<layouts, isLatest, classLayout, request>> /\ abort' = abort
        /\ request \in Requests
    BY DEF New, Running, Inv, TypeOK
  <1> HIDE DEF X
  <1>3. HistoryKept
    BY <1>2, HistoryUnchanged
  <1>4. /\ ObjectsOK'
        /\ \A p \in Objects, f \in Fields :
              ReadField(p, f)' = IF p = o THEN Get(X, layouts'[X.layout], f)
                                 ELSE ReadField(p, f)
    BY <1>1, <1>2, <1>3, ClassFacts, OneObjectChanges
  <1>5. Reads' = Reads
    BY <1>1, <1>2, <1>4 DEF Reads, ReadField
  <1> QED BY <1>2, <1>4, <1>5, LayoutsUnchanged DEF StoreStep, Running

LEMMA WriteInPlaceStep ==
    ASSUME Inv, NEW o \in Objects, NEW f \in Fields, NEW v \in Written,
           WriteInPlace(o, f, v), Asked(o, f, v)
    PROVE  Inv' /\ StoreStep
  <1> DEFINE l == LayoutOf(o)
             X == Put(objects[o], l, f, v)
  <1>1. /\ Allocated(o) /\ Outcome(l[f], v) = "stored"
        /\ objects' = [objects EXCEPT ![o] = X]
        /\ UNCHANGED <<layouts, isLatest, classLayout>> /\ abort' = "none" /\ abort' = abort
    BY DEF WriteInPlace, Running
  <1>2. /\ objects[o] \in Memory(l) /\ l \in Layout /\ v \in SomeValue
        /\ objects[o].layout \in 1 .. Len(layouts) /\ l = layouts[objects[o].layout]
    BY <1>1, ObjectFacts, ValueFacts DEF LayoutOf
  <1>3. X \in Memory(l) /\ X.layout = objects[o].layout
    BY <1>1, <1>2, PutIsWellFormed
  <1>4. ASSUME MapFits, NEW g \in Fields
        PROVE  Get(X, l, g) = IF g = f THEN v ELSE ReadField(o, g)
    BY <1>1, <1>2, <1>4, PutReadsBack DEF MapFits, ReadField
  <1> HIDE DEF X, l
  <1>5. HistoryKept
    BY <1>1, HistoryUnchanged
  <1>6. /\ ObjectsOK'
        /\ \A p \in Objects, g \in Fields :
              ReadField(p, g)' = IF p = o THEN Get(X, l, g) ELSE ReadField(p, g)
    <2>1. /\ X.layout \in 1 .. Len(layouts') /\ X \in Memory(layouts'[X.layout])
          /\ layouts'[X.layout] = l
      BY <1>1, <1>2, <1>3
    <2> QED BY <1>1, <1>5, <2>1, OneObjectChanges
  <1>7. MapFits => Stores(o, f, v)
    BY <1>4, <1>6, OneFieldChanges
  <1>8. Inv'
    BY <1>1, <1>6, AskedIsRequest, LayoutsUnchanged DEF Running
  <1> QED BY <1>1, <1>7, <1>8 DEF StoreStep, Running

LEMMA FailedAssertionStep ==
    ASSUME Inv, Running, AssertionFails("initialized already"), NEW o \in Objects,
           NEW f \in Fields, NEW v \in Written, Asked(o, f, v), Behind(o)
    PROVE  Inv' /\ StoreStep
  <1>1. /\ isLatest' = [isLatest EXCEPT ![classLayout] = FALSE]
        /\ abort' = "initialized already" /\ UNCHANGED <<layouts, classLayout, objects>>
    BY DEF AssertionFails
  <1>2. HistoryKept
    BY <1>1, HistoryUnchanged
  <1>3. ObjectsOK' /\ Reads' = Reads
    BY <1>1, <1>2, NoObjectChanges
  <1>4. isLatest' \in [1 .. Len(layouts) -> BOOLEAN]
    BY <1>1, ClassFacts
  <1>5. TypeOK'
    BY <1>1, <1>3, <1>4, AskedIsRequest DEF Inv, TypeOK, ObjectsOK
  <1>6. OnlyClassLayoutIsLatest'
    BY <1>1 DEF OnlyClassLayoutIsLatest, Running
  <1>7. LayoutsGeneralize'
    BY <1>1 DEF Inv, LayoutsGeneralize
  <1>8. Inv'
    BY <1>1, <1>5, <1>6, <1>7 DEF Inv, TransitionsByConstruction
  <1> QED BY <1>1, <1>3, <1>8 DEF StoreStep, Running

(* Both transitions: the object goes to the layout the class has, or to the  *)
(* one the class publishes for this write.                                   *)
LEMMA TransitionStep ==
    ASSUME Inv, Running, NEW o \in Objects, Allocated(o), NEW f \in Fields,
           NEW v \in Written, NEW t \in StorageType,
           Asked(o, f, v), LayoutOf(o)[f] # t, Outcome(t, v) = "stored",
           Below(layouts[classLayout][f], t),
           \/ /\ layouts[classLayout][f] = t
              /\ UNCHANGED <<layouts, isLatest, classLayout>>
              /\ MoveAndStore(o, classLayout, layouts[classLayout], f, v)
           \/ /\ layouts[classLayout][f] # t
              /\ Publish([layouts[classLayout] EXCEPT ![f] = t])
              /\ MoveAndStore(o, Len(layouts) + 1, [layouts[classLayout] EXCEPT ![f] = t], f, v)
    PROVE  Inv' /\ StoreStep
  <1> DEFINE cur == layouts[classLayout]
             new == [cur EXCEPT ![f] = t]
  <1>1. /\ cur \in Layout /\ LayoutOf(o) \in Layout /\ Len(layouts) \in Nat
        /\ \A g \in Fields : Below(LayoutOf(o)[g], cur[g])
        /\ objects[o].layout \in 1 .. Len(layouts) /\ classLayout \in 1 .. Len(layouts)
    BY ObjectFacts, ClassFacts
  <1>2. CASE /\ cur[f] = t /\ UNCHANGED <<layouts, isLatest, classLayout>>
             /\ MoveAndStore(o, classLayout, cur, f, v)
    <2>1. HistoryKept
      BY <1>2, HistoryUnchanged
    <2>2. classLayout # objects[o].layout
      BY <1>2 DEF LayoutOf
    <2>3. ObjectsOK' /\ abort' = "none" /\ (MapFits => Stores(o, f, v))
      BY <1>1, <1>2, <2>1, <2>2, MoveAndStoreSucceeds
    <2>4. Inv'
      BY <1>2, <2>3, AskedIsRequest, LayoutsUnchanged
    <2> QED BY <2>3, <2>4 DEF StoreStep, Running
  <1>3. CASE /\ cur[f] # t /\ Publish(new)
             /\ MoveAndStore(o, Len(layouts) + 1, new, f, v)
    <2>1. /\ layouts' \in Seq(Layout) /\ Len(layouts') = Len(layouts) + 1
          /\ \A i \in 1 .. Len(layouts) : layouts'[i] = layouts[i]
          /\ layouts'[Len(layouts) + 1] = new
          /\ classLayout' = Len(layouts')
          /\ isLatest' \in [1 .. Len(layouts') -> BOOLEAN]
          /\ OnlyClassLayoutIsLatest' /\ LayoutsGeneralize'
      BY <1>3, PublishKeepsHistory
    <2>2. HistoryKept
      BY <2>1, <1>1 DEF HistoryKept
    <2>3. new \in Layout /\ new[f] = t /\ \A g \in Fields : g # f => new[g] = cur[g]
      BY <1>1 DEF Layout
    <2>4. \A g \in Fields : Below(LayoutOf(o)[g], new[g])
      BY <2>3, <1>1 DEF Below
    <2>5. Len(layouts) + 1 \in 1 .. Len(layouts') /\ Len(layouts) + 1 # objects[o].layout
      BY <2>1, <1>1
    <2> HIDE DEF new
    <2>6. ObjectsOK' /\ abort' = "none" /\ (MapFits => Stores(o, f, v))
      BY <1>3, <2>1, <2>2, <2>3, <2>4, <2>5, MoveAndStoreSucceeds
    <2>7. classLayout' \in 1 .. Len(layouts')
      BY <2>1, <1>1
    <2>8. Inv'
      BY <2>1, <2>6, <2>7, AskedIsRequest
         DEF Inv, TypeOK, ObjectsOK, TransitionsByConstruction
    <2> QED BY <2>6, <2>8 DEF StoreStep, Running
  <1> QED BY <1>2, <1>3

LEMMA InitializeFieldStep ==
    ASSUME Inv, NEW o \in Objects, NEW f \in Fields, NEW v \in Written,
           InitializeField(o, f, v), Asked(o, f, v)
    PROVE  Inv' /\ StoreStep
  <1> DEFINE cur == layouts[classLayout]
             spec == SpecType(v)
  <1>1. /\ Running /\ Allocated(o)
        /\ LayoutOf(o)[f] = "None" /\ v # nilObject
    BY DEF InitializeField, Outcome
  <1>2. spec \in StorageType /\ spec # "None" /\ Outcome(spec, v) = "stored"
    BY <1>1, ValueFacts DEF SpecType, StorageType, PrimType, Outcome, SomeValue
  <1>3. CASE cur[f] \in {spec, "None"}
    <2>1. \/ /\ cur[f] = spec
             /\ UNCHANGED <<layouts, isLatest, classLayout>>
             /\ MoveAndStore(o, classLayout, cur, f, v)
          \/ /\ cur[f] # spec
             /\ Publish([cur EXCEPT ![f] = spec])
             /\ MoveAndStore(o, Len(layouts) + 1, [cur EXCEPT ![f] = spec], f, v)
      BY <1>2, <1>3 DEF InitializeField, WithInitializedField
    <2>2. LayoutOf(o)[f] # spec /\ Below(cur[f], spec)
      BY <1>1, <1>2, <1>3 DEF Below
    <2> HIDE DEF spec
    <2> QED BY <1>1, <1>2, <2>1, <2>2, TransitionStep
  <1>4. CASE cur[f] \notin {spec, "None"}
    <2>1. AssertionFails("initialized already")
      BY <1>4 DEF InitializeField
    <2>2. objects[o].layout # classLayout
      BY <1>1, <1>4 DEF LayoutOf
    <2> QED BY <1>1, <2>1, <2>2, FailedAssertionStep DEF Behind
  <1> QED BY <1>3, <1>4

LEMMA GeneralizeFieldStep ==
    ASSUME Inv, NEW o \in Objects, NEW f \in Fields, NEW v \in Written,
           GeneralizeField(o, f, v), Asked(o, f, v)
    PROVE  Inv' /\ StoreStep
  <1> DEFINE cur == layouts[classLayout]
  <1>1. Running /\ Allocated(o) /\ LayoutOf(o)[f] \in PrimType
    BY DEF GeneralizeField, Outcome
  <1>2. Below(LayoutOf(o)[f], cur[f])
    BY <1>1, ObjectFacts
  <1>3. /\ "Object" \in StorageType /\ Outcome("Object", v) = "stored"
        /\ LayoutOf(o)[f] # "Object" /\ Below(cur[f], "Object") /\ cur[f] # "None"
    BY <1>1, <1>2 DEF StorageType, Outcome, PrimType, Below
  <1>4. \/ /\ cur[f] = "Object"
           /\ UNCHANGED <<layouts, isLatest, classLayout>>
           /\ MoveAndStore(o, classLayout, cur, f, v)
        \/ /\ cur[f] # "Object"
           /\ Publish([cur EXCEPT ![f] = "Object"])
           /\ MoveAndStore(o, Len(layouts) + 1, [cur EXCEPT ![f] = "Object"], f, v)
    BY <1>3 DEF GeneralizeField, WithGeneralizedField
  <1> QED BY <1>1, <1>3, <1>4, TransitionStep

LEMMA UpdateLayoutStep ==
    ASSUME Inv, NEW o \in Objects, UpdateLayoutToMatchClass(o)
    PROVE  Inv' /\ StoreStep
  <1> DEFINE cur == layouts[classLayout]
             X == Moved(objects[o], LayoutOf(o), classLayout, cur)
  <1>1. /\ Running /\ Allocated(o)
        /\ UNCHANGED <<layouts, isLatest, classLayout, request>> /\ request \in Requests
    BY DEF UpdateLayoutToMatchClass, Inv, TypeOK
  <1>2. /\ LayoutOf(o) \in Layout /\ cur \in Layout /\ objects[o] \in Memory(LayoutOf(o))
        /\ classLayout \in 1 .. Len(layouts) /\ classLayout \in Nat \ {0}
        /\ ~TransferRaises(objects[o], LayoutOf(o), cur)
    BY <1>1, ObjectFacts, ClassFacts, GeneralLayoutHoldsAll
  <1>3. abort' = "none" /\ objects' = [objects EXCEPT ![o] = X]
    BY <1>2 DEF UpdateLayoutToMatchClass
  <1>4. X \in Memory(cur) /\ X.layout = classLayout
    BY <1>2, MovedIsWellFormed
  <1>5. ASSUME MapFits, NEW g \in Fields PROVE Get(X, cur, g) = ReadField(o, g)
    BY <1>1, <1>2, <1>5, MovedReadsTheSame DEF MapFits, ReadField
  <1> HIDE DEF X
  <1>6. HistoryKept
    BY <1>1, HistoryUnchanged
  <1>7. /\ ObjectsOK'
        /\ \A p \in Objects, g \in Fields :
              ReadField(p, g)' = IF p = o THEN Get(X, cur, g) ELSE ReadField(p, g)
    BY <1>1, <1>2, <1>3, <1>4, <1>6, OneObjectChanges
  <1>8. MapFits => Reads' = Reads
    BY <1>5, <1>7 DEF Reads
  <1> QED BY <1>1, <1>3, <1>7, <1>8, LayoutsUnchanged DEF StoreStep, Running

LEMMA StutterStep ==
    ASSUME Inv, UNCHANGED vars
    PROVE  Inv' /\ StoreStep
  <1>1. Inv'
    BY DEF Inv, vars, TypeOK, OnlyClassLayoutIsLatest, LayoutsGeneralize,
           TransitionsByConstruction, Running, Allocated, LayoutOf
  <1>2. Reads' = Reads
    BY DEF vars, Reads, ReadField, Allocated, LayoutOf
  <1> QED BY <1>1, <1>2 DEF StoreStep, vars

LEMMA InitStep == Init => Inv /\ Reads = [o \in Objects |-> [f \in Fields |-> nilObject]]
  <1> SUFFICES ASSUME Init
               PROVE  Inv /\ Reads = [o \in Objects |-> [f \in Fields |-> nilObject]]
    OBVIOUS
  <1>1. [f \in Fields |-> "None"] \in Layout
    BY DEF Layout, StorageType
  <1>2. \A o \in Objects : ~Allocated(o)
    BY DEF Init, Allocated
  <1>3. TypeOK
    <2>1. /\ layouts \in Seq(Layout) /\ Len(layouts) = 1
          /\ isLatest \in [1 .. Len(layouts) -> BOOLEAN]
      BY <1>1 DEF Init
    <2> QED BY <2>1, <1>2 DEF Init, TypeOK, Requests
  <1>4. OnlyClassLayoutIsLatest /\ LayoutsGeneralize
    <2>1. Len(layouts) = 1 /\ classLayout = 1 /\ isLatest[1]
      BY DEF Init
    <2> QED BY <2>1 DEF OnlyClassLayoutIsLatest, LayoutsGeneralize
  <1>5. TransitionsByConstruction
    BY DEF Init, TransitionsByConstruction
  <1>6. Reads = [o \in Objects |-> [f \in Fields |-> nilObject]]
    BY <1>2 DEF Reads, ReadField
  <1> QED BY <1>3, <1>4, <1>5, <1>6 DEF Inv

LEMMA NextStep == Inv /\ [Next]_vars => Inv' /\ StoreStep
  <1> SUFFICES ASSUME Inv, [Next]_vars PROVE Inv' /\ StoreStep
    OBVIOUS
  <1>1. ASSUME NEW o \in Objects, New(o) PROVE Inv' /\ StoreStep
    BY <1>1, NewStep
  <1>2. ASSUME NEW o \in Objects, NEW f \in Fields, NEW v \in Written,
               WriteInPlace(o, f, v), Asked(o, f, v)
        PROVE  Inv' /\ StoreStep
    BY <1>2, WriteInPlaceStep
  <1>3. ASSUME NEW o \in Objects, NEW f \in Fields, NEW v \in Written,
               InitializeField(o, f, v), Asked(o, f, v)
        PROVE  Inv' /\ StoreStep
    BY <1>3, InitializeFieldStep
  <1>4. ASSUME NEW o \in Objects, NEW f \in Fields, NEW v \in Written,
               GeneralizeField(o, f, v), Asked(o, f, v)
        PROVE  Inv' /\ StoreStep
    BY <1>4, GeneralizeFieldStep
  <1>5. ASSUME NEW o \in Objects, UpdateLayoutToMatchClass(o) PROVE Inv' /\ StoreStep
    BY <1>5, UpdateLayoutStep
  <1>6. CASE UNCHANGED vars
    BY <1>6, StutterStep
  <1> QED BY <1>1, <1>2, <1>3, <1>4, <1>5, <1>6 DEF Next, SetField, Asked

-------------------------------------------------------------------------------
(* Theorems                                                                  *)

(* In every reachable state objects own exactly the slots of their layout,   *)
(* is_latest marks the layout of the class and no other, a later layout      *)
(* holds whatever an earlier one could, and no transition failed but on the  *)
(* assertion of with_initialized_field.                                      *)
THEOREM Invariance == Spec => []Inv
  <1>1. Init => Inv
    BY InitStep
  <1>2. Inv /\ [Next]_vars => Inv'
    BY NextStep
  <1> QED BY <1>1, <1>2, PTL DEF Spec

(* The type invariant of the object storage, for any number of fields.       *)
THEOREM TypeCorrectness == Spec => []TypeOK
  <1>1. Inv => TypeOK
    BY DEF Inv
  <1> QED BY <1>1, Invariance, PTL

(* Layouts of a class only ever generalise.                                  *)
THEOREM Generalization == Spec => []LayoutsGeneralize
  <1>1. Inv => LayoutsGeneralize
    BY DEF Inv
  <1> QED BY <1>1, Invariance, PTL

(* The flag the inline caches test is right while the interpreter runs.      *)
THEOREM LatestFlag == Spec => []OnlyClassLayoutIsLatest
  <1>1. Inv => OnlyClassLayoutIsLatest
    BY DEF Inv
  <1> QED BY <1>1, Invariance, PTL

(* The exceptions "that should not happen by construction" do not happen.    *)
THEOREM ByConstruction == Spec => []TransitionsByConstruction
  <1>1. Inv => TransitionsByConstruction
    BY DEF Inv
  <1> QED BY <1>1, Invariance, PTL

(* Only a write to an object behind its class can fail an assertion.         *)
THEOREM AbortNeedsStaleObject == Spec => AbortOnlyOnStaleObject
  <1>1. ASSUME Inv, [Next]_vars, abort' # abort
        PROVE  LET o == request'.object IN Allocated(o) /\ objects[o].layout # classLayout
    <2>1. PICK o \in Objects, f \in Fields, v \in Written : Asked(o, f, v) /\ Behind(o)
      BY <1>1, NextStep DEF StoreStep
    <2> QED BY <2>1 DEF Asked, Request, Behind
  <1>2. Inv /\ [Next]_vars =>
          [abort' # abort =>
             LET o == request'.object
             IN Allocated(o) /\ objects[o].layout # classLayout]_vars
    BY <1>1
  <1> QED BY <1>2, Invariance, PTL DEF Spec, AbortOnlyOnStaleObject

(* The storage model implements the field store if the class has no more     *)
(* fields than _primitive_used_map has bits.                                 *)
THEOREM Refinement == ASSUME MapFits PROVE Spec => FieldStoreSpec
  <1>1. Init => FS!FSInit
    BY InitStep DEF FS!FSInit, FS!NoRequest, NoRequest, Reads, Init, Running
  <1>2. Inv /\ [Next]_vars => [FS!FSNext]_(FS!fsVars)
    <2> SUFFICES ASSUME Inv, [Next]_vars PROVE [FS!FSNext]_(FS!fsVars)
      OBVIOUS
    <2>1. StoreStep
      BY NextStep
    <2>2. CASE UNCHANGED <<abort, request>> /\ Reads' = Reads
      BY <2>2 DEF FS!fsVars, Reads, Running
    <2>3. ASSUME NEW o \in Objects, NEW f \in Fields, NEW v \in Written,
                 Running, Asked(o, f, v), abort' = abort, Stores(o, f, v)
          PROVE  FS!FSNext
      BY <2>3 DEF FS!FSNext, FS!Write, FS!Request, Asked, Request, Stores, Reads, Running,
                  Written
    <2>4. ASSUME NEW o \in Objects, NEW f \in Fields, NEW v \in Written,
                 Running, Asked(o, f, v), abort' # "none", Reads' = Reads
          PROVE  FS!FSNext
      BY <2>4 DEF FS!FSNext, FS!Halt, FS!Request, Asked, Request, Reads, Running, Written
    <2> QED BY <2>1, <2>2, <2>3, <2>4, MapFits DEF StoreStep
  <1> QED BY <1>1, <1>2, Invariance, PTL DEF Spec, FieldStoreSpec, FS!FSSpec
===============================================================================
