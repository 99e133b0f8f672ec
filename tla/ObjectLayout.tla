----------------------------- MODULE ObjectLayout -----------------------------
(***************************************************************************)
(* The object storage model of one SOM class and its instances             *)
(* (som/interpreter/objectstorage, vmobjects/object_with_layout.py and the *)
(* layout part of vmobjects/clazz.py).                                     *)
(*                                                                         *)
(* A class starts with a layout in which no field has a storage type.      *)
(* Writing a field gives it one (Integer, Double or Object), writing a     *)
(* value that does not fit generalises it to Object; each time the class   *)
(* gets a new layout and the written object is moved to it.  Every other   *)
(* instance keeps its old layout until it causes a transition itself or a  *)
(* failed lookup brings it up to date.  Integers and doubles live as raw   *)
(* bits in shared primitive slots; a bit map says which slots are set.     *)
(*                                                                         *)
(* The interpreter has one thread and no operation here runs SOM code, so  *)
(* each operation is one atomic action, its nested calls included.         *)
(***************************************************************************)
EXTENDS Naturals, Sequences, FiniteSets

CONSTANTS Objects,      \* the instances of the class
          NumFields,    \* number_of_fields of the class
          DirectPrims,  \* NUMBER_OF_PRIMITIVE_FIELDS (5 in the code)
          DirectPtrs,   \* NUMBER_OF_POINTER_FIELDS (5 in the code)
          MaskBits,     \* slots with a bit in _primitive_used_map (32)
          Bits,         \* payloads of values: machine words and references
          Values,       \* the values the program writes
          Zero,         \* the content of a new primitive slot
          Scrub         \* 1234567890, written over the direct slots by a move

ASSUME LayoutAssumption ==
    /\ NumFields \in Nat
    /\ DirectPrims \in Nat /\ DirectPtrs \in Nat /\ MaskBits \in Nat
    /\ Zero \in Bits /\ Scrub \in Bits
    /\ Values \subseteq [kind : {"Integer", "Double", "Object"}, bits : Bits]

Fields == 0 .. NumFields - 1

PrimType == {"Integer", "Double"}
StorageType == PrimType \cup {"None", "Object"}
Layout == [Fields -> StorageType]

(* A SOM value as the storage model sees it: its class and its machine word  *)
(* or reference; "Object" stands for every class but Integer and Double.     *)
Object == [kind : {"Integer", "Double", "Object"}, bits : Bits]
nilObject == [kind |-> "Nil", bits |-> Zero]

Written == Values \cup {nilObject}

VARIABLES layouts,      \* the layouts the class ever had; an index is an identity
          isLatest,     \* ObjectLayout.is_latest of each of them
          classLayout,  \* Class._layout_for_instances
          objects,      \* the memory of each allocated instance
          abort,        \* the failed assertion that stopped the interpreter
          request       \* history: the write the program asked for last

vars == <<layouts, isLatest, classLayout, objects, abort, request>>

Unallocated == [layout |-> 0]
NoRequest == <<>>
Request(o, f, v) == [object |-> o, field |-> f, value |-> v]
Requests == {NoRequest} \cup [object : Objects, field : Fields, value : Written]

-------------------------------------------------------------------------------
(* Locations: which slot a layout gives to a field.                          *)

PrimFields(l) == {f \in Fields : l[f] \in PrimType}
PtrFields(l) == {f \in Fields : l[f] = "Object"}

(* next_free_prim_idx and next_free_ptr_idx when the constructor reaches f.  *)
PrimIdx(l, f) == Cardinality({g \in PrimFields(l) : g < f})
PtrIdx(l, f) == Cardinality({g \in PtrFields(l) : g < f})

(* The slots of an object: the preallocated ones, then the extension array.  *)
Slots(used, direct) == 0 .. (IF used > direct THEN used ELSE direct) - 1
PrimSlots(l) == Slots(Cardinality(PrimFields(l)), DirectPrims)
PtrSlots(l) == Slots(Cardinality(PtrFields(l)), DirectPtrs)

(* _get_primitive_field_mask: the bit of a slot, none from MaskBits on.      *)
Mask(slot) == {slot} \cap (0 .. MaskBits - 1)

-------------------------------------------------------------------------------
(* Reading and writing one location.                                         *)

IsPrimitiveSet(m, slot) == m.used \cap Mask(slot) # {}

Get(m, l, f) ==
    IF f \in PtrFields(l) THEN m.ptrs[PtrIdx(l, f)]
    ELSE IF f \in PrimFields(l) /\ IsPrimitiveSet(m, PrimIdx(l, f))
    THEN [kind |-> l[f], bits |-> m.prims[PrimIdx(l, f)]]
    ELSE nilObject  \* unwritten, or a primitive slot that is not set

(* Mutant: a primitive location raises the exception of an unwritten one.    *)
OutcomeWrongException(type, v) ==
    IF type \in {"None"} \cup PrimType /\ v.kind \notin {type, "Nil"}
    THEN "uninitialized" ELSE "stored"

(* What write_fn does with v: store it, or raise one of the two exceptions.  *)
Outcome(type, v) ==
    IF type = "None" /\ v # nilObject THEN "uninitialized"
    ELSE IF type \in PrimType /\ v.kind \notin {type, "Nil"} THEN "generalize"
    ELSE "stored"

(* Mutant: a primitive value is stored, but its slot is not marked as set.   *)
PutUnmarked(m, l, f, v) ==
    IF f \in PtrFields(l) THEN [m EXCEPT !.ptrs[PtrIdx(l, f)] = v]
    ELSE IF f \in PrimFields(l) /\ v # nilObject
    THEN [m EXCEPT !.prims[PrimIdx(l, f)] = v.bits]
    ELSE m

Put(m, l, f, v) ==
    IF f \in PtrFields(l) THEN [m EXCEPT !.ptrs[PtrIdx(l, f)] = v]
    ELSE IF f \notin PrimFields(l) THEN m
    ELSE IF v = nilObject
    THEN [m EXCEPT !.used = @ \ Mask(PrimIdx(l, f))]
    ELSE [m EXCEPT !.prims[PrimIdx(l, f)] = v.bits,
                   !.used = @ \cup Mask(PrimIdx(l, f))]

-------------------------------------------------------------------------------
(* Object.__init__: an instance of the class under layout id.                *)
NewObject(id, l) == [layout |-> id,
                     prims  |-> [s \in PrimSlots(l) |-> Zero],
                     used   |-> {},
                     ptrs   |-> [s \in PtrSlots(l) |-> nilObject]]

AllFields(m, l) == [f \in Fields |-> Get(m, l, f)]

(* Mutant: the extension arrays stay as they were.                           *)
MovedWithoutResizing(m, l, id, new) == [m EXCEPT !.layout = id]

(* _set_layout_and_transfer_fields: storage sized for the new layout, the    *)
(* direct primitive slots scrubbed, every set field stored again.  The       *)
(* stores of the loop go to different slots, so they are written as one.     *)
Moved(m, l, id, new) ==
    LET vals == AllFields(m, l)
        set == {f \in PrimFields(new) : vals[f] # nilObject}
        prim(s) == {f \in set : PrimIdx(new, f) = s}
        ptr(s) == {f \in PtrFields(new) : PtrIdx(new, f) = s}
    IN [layout |-> id,
        prims  |-> [s \in PrimSlots(new) |->
                      IF prim(s) # {} THEN vals[CHOOSE f \in prim(s) : TRUE].bits
                      ELSE IF s < DirectPrims THEN Scrub ELSE Zero],
        used   |-> UNION {Mask(PrimIdx(new, f)) : f \in set},
        ptrs   |-> [s \in PtrSlots(new) |->
                      IF ptr(s) # {} THEN vals[CHOOSE f \in ptr(s) : TRUE]
                      ELSE nilObject]]

(* A store of the transfer loop that raised would start a second transition  *)
(* inside the first.                                                         *)
TransferRaises(m, l, new) ==
    \E f \in Fields : Outcome(new[f], Get(m, l, f)) # "stored"

(* Mutant: the new layout does not start from a copy of the known types.     *)
WithInitializedFieldOnly(l, f, spec) == [g \in Fields |-> IF g = f THEN spec ELSE "None"]

(* The storage types of the layout that replaces l.                          *)
WithInitializedField(l, f, spec) == [l EXCEPT ![f] = spec]
WithGeneralizedField(l, f) == [l EXCEPT ![f] = "Object"]

-------------------------------------------------------------------------------
Init == /\ layouts = <<[f \in Fields |-> "None"]>>
        /\ isLatest = [i \in 1 .. 1 |-> TRUE]
        /\ classLayout = 1
        /\ objects = [o \in Objects |-> Unallocated]
        /\ abort = "none"
        /\ request = NoRequest

Running == abort = "none"
Allocated(o) == objects[o] # Unallocated
LayoutOf(o) == layouts[objects[o].layout]

(* Universe.new_instance.                                                    *)
New(o) == /\ Running /\ ~Allocated(o)
          /\ objects' = [objects EXCEPT ![o] = NewObject(classLayout, layouts[classLayout])]
          /\ UNCHANGED <<layouts, isLatest, classLayout, abort, request>>

(* Mutant: the replaced layout still says it is the latest.                  *)
PublishKeepingLatest(l) == /\ layouts' = Append(layouts, l)
                           /\ isLatest' = [i \in 1 .. Len(layouts) + 1 |->
                                             i > Len(layouts) \/ isLatest[i]]
                           /\ classLayout' = Len(layouts) + 1

(* The class replaces its layout by l; the old one is no longer the latest.  *)
Publish(l) == /\ layouts' = Append(layouts, l)
              /\ isLatest' = [i \in 1 .. Len(layouts) + 1 |->
                                 i > Len(layouts) \/ (isLatest[i] /\ i # classLayout)]
              /\ classLayout' = Len(layouts) + 1

(* The rest of update_layout_with_..._field and set_field_after_layout_change *)
(* for the layout `new` the class answered.  abort names what must not happen *)
(* "by construction": the class answers the layout the object has already, a  *)
(* transfer that causes a transition, a final write that raises.              *)
MoveAndStore(o, id, new, f, v) ==
    LET m == objects[o]
        l == LayoutOf(o)
        failure == IF id = m.layout THEN "same layout"
                   ELSE IF TransferRaises(m, l, new) THEN "nested transition"
                   ELSE IF Outcome(new[f], v) # "stored" THEN "unhandled transition"
                   ELSE "none"
    IN /\ abort' = failure
       /\ objects' = IF failure = "none"
                     THEN [objects EXCEPT ![o] = Put(Moved(m, l, id, new), new, f, v)]
                     ELSE objects

(* A failed assertion in with_..._field: is_latest is cleared before it.     *)
AssertionFails(what) == /\ isLatest' = [isLatest EXCEPT ![classLayout] = FALSE]
                        /\ abort' = what
                        /\ UNCHANGED <<layouts, classLayout, objects>>

WriteInPlace(o, f, v) ==
    /\ Running /\ Allocated(o)
    /\ Outcome(LayoutOf(o)[f], v) = "stored"
    /\ objects' = [objects EXCEPT ![o] = Put(@, LayoutOf(o), f, v)]
    /\ UNCHANGED <<layouts, isLatest, classLayout, abort>>

(* Mutant: every number is taken for an integer.                             *)
SpecTypeOfNumber(v) == IF v.kind \in PrimType THEN "Integer" ELSE "Object"

(* The field types a layout distinguishes, "don't need more precision".      *)
SpecType(v) == IF v.kind \in PrimType THEN v.kind ELSE "Object"

(* set_field on UninitializedStorageLocationException.                       *)
InitializeField(o, f, v) ==
    LET cur == layouts[classLayout]
        spec == SpecType(v)
        new == WithInitializedField(cur, f, spec)
    IN /\ Running /\ Allocated(o)
       /\ Outcome(LayoutOf(o)[f], v) = "uninitialized"
       /\ \/ /\ cur[f] = spec
             /\ UNCHANGED <<layouts, isLatest, classLayout>>
             /\ MoveAndStore(o, classLayout, cur, f, v)
          \/ /\ cur[f] = "None"
             /\ Publish(new)
             /\ MoveAndStore(o, Len(layouts) + 1, new, f, v)
          \/ /\ cur[f] \notin {spec, "None"}
             /\ AssertionFails("initialized already")

(* set_field on GeneralizeStorageLocationException.                          *)
GeneralizeField(o, f, v) ==
    LET cur == layouts[classLayout]
        new == WithGeneralizedField(cur, f)
    IN /\ Running /\ Allocated(o)
       /\ Outcome(LayoutOf(o)[f], v) = "generalize"
       /\ \/ /\ cur[f] = "Object"
             /\ UNCHANGED <<layouts, isLatest, classLayout>>
             /\ MoveAndStore(o, classLayout, cur, f, v)
          \/ /\ cur[f] # "Object"
             /\ IF cur[f] = "None" THEN AssertionFails("not initialized")
                ELSE /\ Publish(new)
                     /\ MoveAndStore(o, Len(layouts) + 1, new, f, v)

SetField(o, f, v) ==
    /\ request' = Request(o, f, v)
    /\ \/ WriteInPlace(o, f, v)
       \/ InitializeField(o, f, v)
       \/ GeneralizeField(o, f, v)

(* Called when a lookup failed and the layout of the object is not latest.   *)
UpdateLayoutToMatchClass(o) ==
    LET m == objects[o]
        cur == layouts[classLayout]
        failure == IF TransferRaises(m, LayoutOf(o), cur)
                   THEN "nested transition" ELSE "none"
    IN /\ Running /\ Allocated(o)
       /\ ~isLatest[m.layout]
       /\ m.layout # classLayout
       /\ abort' = failure
       /\ objects' = IF failure = "none"
                     THEN [objects EXCEPT ![o] = Moved(m, LayoutOf(o), classLayout, cur)]
                     ELSE objects
       /\ UNCHANGED <<layouts, isLatest, classLayout, request>>

Next == \E o \in Objects :
           \/ New(o)
           \/ \E f \in Fields, v \in Written : SetField(o, f, v)
           \/ UpdateLayoutToMatchClass(o)

Spec == Init /\ [][Next]_vars

-------------------------------------------------------------------------------
(* Properties                                                                *)

Memory(l) == [layout : Nat \ {0}, prims : [PrimSlots(l) -> Bits],
              used : SUBSET (0 .. MaskBits - 1),
              ptrs : [PtrSlots(l) -> Object \cup {nilObject}]]

(* Every object points to a layout the class had, and owns exactly the slots *)
(* that layout uses: the extension arrays were resized by every move.        *)
TypeOK == /\ layouts \in Seq(Layout)
          /\ isLatest \in [1 .. Len(layouts) -> BOOLEAN]
          /\ classLayout \in 1 .. Len(layouts)
          /\ \A o \in Objects : Allocated(o) =>
                /\ objects[o].layout \in 1 .. Len(layouts)
                /\ objects[o] \in Memory(LayoutOf(o))
          /\ DOMAIN objects = Objects
          /\ abort \in {"none", "same layout", "nested transition",
                       "unhandled transition", "initialized already", "not initialized"}
          /\ request \in Requests

(* While the interpreter runs, the layout of the class and no other carries  *)
(* is_latest: the flag inline caches and dispatch chains test before they    *)
(* drop an entry.                                                            *)
OnlyClassLayoutIsLatest ==
    Running => \A i \in 1 .. Len(layouts) : isLatest[i] <=> i = classLayout

Below(s, t) == s = t \/ s = "None" \/ t = "Object"

(* A later layout of a class can hold whatever an earlier one could, field   *)
(* by field, and is a different layout; the class has the last one.  This is *)
(* why an object can be moved from any old layout without losing a value.    *)
LayoutsGeneralize ==
    /\ classLayout = Len(layouts)
    /\ \A i, j \in 1 .. Len(layouts) : i < j =>
          /\ layouts[i] # layouts[j]
          /\ \A f \in Fields : Below(layouts[i][f], layouts[j][f])

(* "they should not happen by construction": no move causes a second         *)
(* transition, no write raises after the transition made for it, no object   *)
(* is moved to the layout it has, and only an initialised field generalises. *)
TransitionsByConstruction == abort \in {"none", "initialized already"}

(* The remaining assertion, of with_initialized_field, is only ever met by a *)
(* write to an object whose own layout is behind the layout of its class.    *)
AbortOnlyOnStaleObject ==
    [][abort' # abort =>
          LET o == request'.object
          IN Allocated(o) /\ objects[o].layout # classLayout]_vars

ReadField(o, f) == IF Allocated(o) THEN Get(objects[o], LayoutOf(o), f) ELSE nilObject

FS == INSTANCE FieldStore WITH
          store <- [o \in Objects |-> [f \in Fields |-> ReadField(o, f)]],
          halted <- ~Running

(* Reads through get_field give what set_field was last asked to store, for  *)
(* every object and across all moves of it and of other instances, as long   *)
(* as every primitive slot has a bit in the used map.                        *)
FieldStoreSpec == FS!FSSpec

(* The assertion of with_initialized_field ("assert self._storage_types      *)
(* [field_idx] is None") and every other assertion of a transition holds.    *)
AssertionsHold == Running
===============================================================================
