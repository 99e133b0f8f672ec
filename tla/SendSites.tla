------------------------------ MODULE SendSites ------------------------------
(***************************************************************************)
(* What every message send depends on, in both interpreters: classes and   *)
(* their method tables (vmobjects/clazz.py), and the layouts of receivers, *)
(* of which send sites remember what was looked up before                  *)
(* (interpreter/objectstorage/object_layout.py,                            *)
(* vmobjects/object_with_layout.py).  BytecodeSends and AstSends extend    *)
(* this module with the caches of a send site.                             *)
(*                                                                         *)
(* A layout is a class and the number of layouts the class had before:     *)
(* what fields a layout has does not matter here, ObjectLayout models it.  *)
(* Layouts change while no send is between its lookup and its invocation:  *)
(* there is one thread, and a nested send is a send after this one.        *)
(***************************************************************************)
EXTENDS Integers, Sequences, FiniteSets

CONSTANTS Classes,
          Chain,          \* class -> itself and its superclasses, in order
          Selectors,
          Defines,        \* class -> the selectors it has a method for
          DoesNotUnderstand,  \* the selector doesNotUnderstand:arguments:
          Objects, ClassOf,
          LayoutsOf,      \* bound: class -> number of layouts it may have
          FailingWrites,  \* may the assertion of with_initialized_field fail?
          Sites, SelectorOf,
          SuperSites, HolderOf,  \* sites that send to super, and the class they are in
          None,
          Failed          \* instead of a method: the send raised an exception

Methods == Classes \X Selectors
Ancestors(c) == 1 .. Len(Chain[c])

ASSUME ClassAssumption ==
    /\ Chain \in [Classes -> Seq(Classes)]
    /\ \A c \in Classes : Chain[c] # <<>> /\ Chain[c][1] = c
    /\ \A c \in Classes : \A i \in Ancestors(c) :
          /\ Len(Chain[Chain[c][i]]) = Len(Chain[c]) - i + 1
          /\ \A j \in Ancestors(Chain[c][i]) : Chain[Chain[c][i]][j] = Chain[c][i + j - 1]
    /\ Defines \in [Classes -> SUBSET Selectors]
    /\ DoesNotUnderstand \in Selectors
    /\ \A c \in Classes : \E i \in Ancestors(c) : DoesNotUnderstand \in Defines[Chain[c][i]]

ASSUME SiteAssumption ==
    /\ ClassOf \in [Objects -> Classes]
    /\ LayoutsOf \in [Classes -> Nat \ {0}]
    /\ FailingWrites \in BOOLEAN
    /\ SelectorOf \in [Sites -> Selectors]
    /\ SuperSites \subseteq Sites
    /\ HolderOf \in [SuperSites -> Classes]
    /\ \A s \in SuperSites : Len(Chain[HolderOf[s]]) > 1
    /\ None \notin Methods /\ None \notin Classes \X Nat
    /\ None \notin Sites \X Objects
    /\ Failed \notin Methods /\ Failed # None

VARIABLES tables,    \* class -> selector -> method, or None: _invokables_table
          newest,    \* class -> number of the layout its instances should have
          retired,   \* the layouts whose is_latest is FALSE
          layout,    \* object -> number of its layout
          pending,   \* the send being executed, or None
          answered   \* the method that ran last

classVars == <<tables, newest, retired, layout>>

Layouts == Classes \X Nat

(* A super send can only be reached with a receiver that inherits from the   *)
(* class of the sending method.                                              *)
Sends == {send \in Sites \X Objects :
            send[1] \in SuperSites =>
              \E i \in Ancestors(ClassOf[send[2]]) :
                 Chain[ClassOf[send[2]]][i] = HolderOf[send[1]]}

InitClasses ==
    /\ tables = [c \in Classes |-> [s \in Selectors |->
                   IF s \in Defines[c] THEN <<c, s>> ELSE None]]
    /\ newest = [c \in Classes |-> 1]
    /\ retired = {}
    /\ layout = [o \in Objects |-> 1]

-------------------------------------------------------------------------------
(* Method lookup.                                                            *)

SuperClass(c) == Chain[c][2]

(* The nearest class of the chain that has an entry for s.                   *)
Providers(c, s) == {i \in Ancestors(c) : tables[Chain[c][i]][s] # None}
Nearest(c, s) == CHOOSE i \in Providers(c, s) : \A j \in Providers(c, s) : i <= j

LookupInvokable(c, s) ==
    IF Providers(c, s) = {} THEN None ELSE tables[Chain[c][Nearest(c, s)]][s]

(* Mutant: lookup copies into every class of the chain.                      *)
WholeChain(c, s) == {Chain[c][i] : i \in Ancestors(c)}

(* The classes lookup went through before it found the method of s.          *)
Below(c, s) == {Chain[c][i] : i \in {j \in Ancestors(c) : \A k \in Providers(c, s) : j < k}}

(* Lookups of the messages ss in c: each copies an inherited method into the *)
(* tables it went through.                                                   *)
LookupsChangeTables(c, ss) ==
    tables' = [k \in Classes |-> [s \in Selectors |->
                 IF s \in ss /\ k \in Below(c, s) THEN LookupInvokable(c, s) ELSE tables[k][s]]]

(* What a class and its superclasses define for s, the tables aside.         *)
Definers(c, s) == {i \in Ancestors(c) : s \in Defines[Chain[c][i]]}
Resolve(c, s) ==
    IF Definers(c, s) = {} THEN None
    ELSE <<Chain[c][CHOOSE i \in Definers(c, s) : \A j \in Definers(c, s) : i <= j], s>>

(* The method a send has to run.  A super send of a message that no          *)
(* superclass has raises an exception in both interpreters.                  *)
Answer(send) ==
    LET site == send[1]
        class == ClassOf[send[2]]
        found == IF site \in SuperSites
                 THEN Resolve(SuperClass(HolderOf[site]), SelectorOf[site])
                 ELSE Resolve(class, SelectorOf[site])
    IN IF found # None THEN found
       ELSE IF site \in SuperSites THEN Failed
       ELSE Resolve(class, DoesNotUnderstand)

-------------------------------------------------------------------------------
(* Layouts.                                                                  *)

LayoutOf(o) == <<ClassOf[o], layout[o]>>
NewestLayout(c) == <<c, newest[c]>>
IsLatest(l) == l \notin retired

UpdateLayoutToMatchClass(o) == layout' = [layout EXCEPT ![o] = newest[ClassOf[o]]]

(* A field write the layout of o does not allow for and the layout of its    *)
(* class does; or o is dropped and a new instance takes its place.           *)
TakeNewestLayout(o) == /\ pending = None
                       /\ UpdateLayoutToMatchClass(o)
                       /\ UNCHANGED <<tables, newest, retired, pending, answered>>

(* A field write that changes the layout of the class.                       *)
WriteNewLayout(o) ==
    LET c == ClassOf[o]
    IN /\ pending = None
       /\ newest[c] < LayoutsOf[c]
       /\ newest' = [newest EXCEPT ![c] = @ + 1]
       /\ retired' = retired \cup {NewestLayout(c)}
       /\ layout' = [layout EXCEPT ![o] = newest[c] + 1]
       /\ UNCHANGED <<tables, pending, answered>>

(* A write to an object with an old layout that ends in the failed assertion *)
(* of with_initialized_field, which is_latest of the newest layout was       *)
(* cleared before: ObjectLayout shows when.                                  *)
WriteFails(o) == /\ FailingWrites /\ layout[o] # newest[ClassOf[o]]
                 /\ pending = None
                 /\ retired' = retired \cup {NewestLayout(ClassOf[o])}
                 /\ UNCHANGED <<tables, newest, layout, pending, answered>>

ChangeLayouts == \E o \in Objects : \/ TakeNewestLayout(o)
                                    \/ WriteNewLayout(o)
                                    \/ WriteFails(o)

(* The interpreter reaches a send.                                           *)
Begin(send) == /\ pending = None
               /\ pending' = send
               /\ answered' = None
               /\ UNCHANGED classVars

(* The send ends with the method m.                                          *)
Run(m) == /\ pending' = None
          /\ answered' = m

Site == pending[1]
Receiver == pending[2]
Class == ClassOf[Receiver]
Selector == SelectorOf[Site]
-------------------------------------------------------------------------------
Tables == [Classes -> [Selectors -> Methods \cup {None}]]

(* Whatever was sent and whichever inherited methods were copied since, the  *)
(* method table of a class answers what the class and its superclasses       *)
(* define (Class.lookup_invokable).                                          *)
TablesTellTheTruth ==
    \A c \in Classes : \A s \in Selectors :
        /\ tables[c][s] \in {None, Resolve(c, s)}
        /\ s \in Defines[c] => tables[c][s] = <<c, s>>
===============================================================================
