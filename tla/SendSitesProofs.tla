---------------------------- MODULE SendSitesProofs ----------------------------
(***************************************************************************)
(* Method lookup answers what the classes define, although it reads tables *)
(* that it copies inherited methods into: for every hierarchy of classes.  *)
(***************************************************************************)
EXTENDS SendSites, WellFoundedInduction, TLAPS

Least(i, S) == i \in S /\ \A j \in S : i <= j

LEMMA LeastExists ==
    ASSUME NEW S, S \subseteq Nat, S # {}
    PROVE  \E i \in S : Least(i, S)
  <1>1. IsWellFoundedOn(OpToRel(<, Nat), Nat)
    BY NatLessThanWellFounded
  <1>2. PICK i \in S : \A j \in S : ~ (<<j, i>> \in OpToRel(<, Nat))
    BY <1>1, WFMin
  <1>3. \A j \in S : ~ (j < i)
    BY <1>2 DEF OpToRel
  <1>4. \A j \in S : i \in Nat /\ j \in Nat
    OBVIOUS
  <1> QED BY <1>3, <1>4 DEF Least

LEMMA LeastUnique ==
    ASSUME NEW S, S \subseteq Nat, NEW i, Least(i, S)
    PROVE  (CHOOSE k \in S : \A j \in S : k <= j) = i
  <1>1. \A k \in S : (\A j \in S : k <= j) => k = i
    BY DEF Least
  <1>2. i \in S /\ \A j \in S : i <= j
    BY DEF Least
  <1> QED BY <1>1, <1>2

(* The classes of a hierarchy.                                               *)
LEMMA Hierarchy ==
    ASSUME NEW c \in Classes
    PROVE  /\ Chain[c] \in Seq(Classes) /\ Len(Chain[c]) \in Nat
           /\ Ancestors(c) \subseteq Nat
           /\ \A i \in Ancestors(c) : i \in Nat /\ Chain[c][i] \in Classes
           /\ 1 \in Ancestors(c) /\ Chain[c][1] = c
  <1>1. Chain[c] \in Seq(Classes) /\ Chain[c] # <<>> /\ Chain[c][1] = c
    BY ClassAssumption
  <1>2. Len(Chain[c]) \in Nat \ {0} /\ \A i \in 1 .. Len(Chain[c]) : Chain[c][i] \in Classes
    BY <1>1
  <1> QED BY <1>1, <1>2 DEF Ancestors

(* Whatever is below the nearest definition inherits it.                     *)
LEMMA Inherits ==
    ASSUME NEW c \in Classes, NEW s \in Selectors, NEW i \in Ancestors(c),
           \A k \in Definers(c, s) : i <= k
    PROVE  Resolve(Chain[c][i], s) = Resolve(c, s)
  <1> DEFINE d == Chain[c][i]
  <1>1. d \in Classes /\ i \in Nat /\ i >= 1 /\ Len(Chain[c]) \in Nat
    BY Hierarchy DEF Ancestors
  <1>2. Len(Chain[d]) = Len(Chain[c]) - i + 1
    BY ClassAssumption
  <1>3. \A j \in Ancestors(d) : Chain[d][j] = Chain[c][i + j - 1]
    BY ClassAssumption
  <1>4. \A j \in Ancestors(d) : j \in Nat /\ i + j - 1 \in Ancestors(c)
    BY <1>1, <1>2 DEF Ancestors
  <1>5. \A j \in Definers(d, s) : i + j - 1 \in Definers(c, s)
    BY <1>3, <1>4 DEF Definers
  <1>6. \A k \in Definers(c, s) : /\ k \in Nat /\ k - i + 1 \in Ancestors(d)
                                  /\ i + (k - i + 1) - 1 = k
    BY <1>1, <1>2 DEF Definers, Ancestors
  <1>7. \A k \in Definers(c, s) : k - i + 1 \in Definers(d, s)
    BY <1>3, <1>6 DEF Definers
  <1>8. CASE Definers(c, s) = {}
    BY <1>5, <1>8 DEF Resolve
  <1>9. CASE Definers(c, s) # {}
    <2>1. Definers(c, s) \subseteq Nat /\ Definers(d, s) \subseteq Nat
      BY <1>4, <1>6 DEF Definers
    <2>2. PICK k \in Definers(c, s) : Least(k, Definers(c, s))
      BY <1>9, <2>1, LeastExists
    <2>3. Resolve(c, s) = <<Chain[c][k], s>>
      BY <1>9, <2>1, <2>2, LeastUnique DEF Resolve
    <2>4. \A j \in Definers(d, s) : k - i + 1 <= j
      <3> TAKE j \in Definers(d, s)
      <3>1. k <= i + j - 1
        BY <1>5, <2>2 DEF Least
      <3> QED BY <3>1, <1>1, <2>1
    <2>5. Least(k - i + 1, Definers(d, s))
      BY <1>7, <2>4 DEF Least
    <2>6. Resolve(d, s) = <<Chain[d][k - i + 1], s>>
      <3>1. Definers(d, s) # {}
        BY <1>7, <2>2
      <3> HIDE DEF d
      <3> QED BY <3>1, <2>1, <2>5, LeastUnique DEF Resolve
    <2>7. Chain[d][k - i + 1] = Chain[c][k]
      BY <1>3, <1>6, <2>2
    <2> QED BY <2>3, <2>6, <2>7
  <1> QED BY <1>8, <1>9

LEMMA ResolveType ==
    ASSUME NEW c \in Classes, NEW s \in Selectors
    PROVE  Resolve(c, s) \in Methods \cup {None}
  <1>1. CASE Definers(c, s) = {}
    BY <1>1 DEF Resolve
  <1>2. CASE Definers(c, s) # {}
    <2>1. Definers(c, s) \subseteq Nat
      BY Hierarchy DEF Definers
    <2>2. PICK k \in Definers(c, s) : Least(k, Definers(c, s))
      BY <1>2, <2>1, LeastExists
    <2>3. Resolve(c, s) = <<Chain[c][k], s>>
      BY <1>2, <2>1, <2>2, LeastUnique DEF Resolve
    <2> QED BY <2>3, Hierarchy DEF Definers, Methods
  <1> QED BY <1>1, <1>2

(* Object has doesNotUnderstand:arguments:.                                  *)
LEMMA SomethingRuns ==
    ASSUME NEW c \in Classes
    PROVE  Resolve(c, DoesNotUnderstand) \in Methods
  <1>1. Definers(c, DoesNotUnderstand) # {}
    BY ClassAssumption DEF Definers
  <1>2. Definers(c, DoesNotUnderstand) \subseteq Nat
    BY Hierarchy DEF Definers
  <1>3. PICK k \in Definers(c, DoesNotUnderstand) : Least(k, Definers(c, DoesNotUnderstand))
    BY <1>1, <1>2, LeastExists
  <1>4. Resolve(c, DoesNotUnderstand) = <<Chain[c][k], DoesNotUnderstand>>
    BY <1>1, <1>2, <1>3, LeastUnique DEF Resolve
  <1>5. Chain[c][k] \in Classes /\ DoesNotUnderstand \in Selectors
    BY <1>3, Hierarchy, ClassAssumption DEF Definers
  <1> QED BY <1>4, <1>5 DEF Methods

-------------------------------------------------------------------------------
LEMMA Superclass ==
    ASSUME NEW s \in SuperSites
    PROVE  SuperClass(HolderOf[s]) \in Classes
  <1>1. HolderOf[s] \in Classes /\ Len(Chain[HolderOf[s]]) > 1
    BY SiteAssumption
  <1>2. 2 \in Ancestors(HolderOf[s])
    BY <1>1, Hierarchy DEF Ancestors
  <1> QED BY <1>1, <1>2, Hierarchy DEF SuperClass

LEMMA SendInProgress ==
    ASSUME pending \in Sends
    PROVE  /\ Site \in Sites /\ Receiver \in Objects
           /\ Class \in Classes /\ Selector \in Selectors
  <1>1. pending \in Sites \X Objects
    BY DEF Sends
  <1>2. Site \in Sites /\ Receiver \in Objects
    BY <1>1 DEF Site, Receiver
  <1> QED BY <1>2, SiteAssumption DEF Class, Selector

(* The tables of classes nothing was sent to.                                *)
LEMMA InitialTables ==
    ASSUME InitClasses
    PROVE  tables \in Tables /\ TablesTellTheTruth
  <1> USE DEF InitClasses
  <1>1. tables \in Tables
    BY DEF Tables, Methods
  <1> SUFFICES ASSUME NEW c \in Classes, NEW s \in Selectors
               PROVE  /\ tables[c][s] = None \/ tables[c][s] = Resolve(c, s)
                      /\ s \in Defines[c] => tables[c][s] = <<c, s>>
    BY <1>1 DEF TablesTellTheTruth
  <1>2. tables[c][s] = IF s \in Defines[c] THEN <<c, s>> ELSE None
    OBVIOUS
  <1>3. CASE s \in Defines[c]
    <2>1. 1 \in Definers(c, s) /\ Definers(c, s) \subseteq Nat
      BY <1>3, Hierarchy DEF Definers
    <2>2. \A j \in Definers(c, s) : 1 <= j
      BY Hierarchy DEF Definers, Ancestors
    <2>3. Least(1, Definers(c, s))
      BY <2>1, <2>2 DEF Least
    <2>4. Resolve(c, s) = <<Chain[c][1], s>>
      BY <2>1, <2>3, LeastUnique DEF Resolve
    <2> QED BY <1>2, <1>3, <2>4, Hierarchy
  <1> QED BY <1>2, <1>3

LEMMA TableEntry ==
    ASSUME TablesTellTheTruth, NEW c \in Classes, NEW s \in Selectors
    PROVE  /\ tables[c][s] = None \/ tables[c][s] = Resolve(c, s)
           /\ s \in Defines[c] => tables[c][s] = <<c, s>>
  BY DEF TablesTellTheTruth

(* A class with a definition has an entry.                                   *)
LEMMA DefinersProvide ==
    ASSUME tables \in Tables, TablesTellTheTruth, NEW c \in Classes, NEW s \in Selectors
    PROVE  Definers(c, s) \subseteq Providers(c, s)
  <1>1. \A i \in Definers(c, s) : /\ i \in Ancestors(c) /\ Chain[c][i] \in Classes
                                  /\ tables[Chain[c][i]][s] = <<Chain[c][i], s>>
    <2> TAKE i \in Definers(c, s)
    <2>1. i \in Ancestors(c) /\ s \in Defines[Chain[c][i]]
      BY DEF Definers
    <2>2. Chain[c][i] \in Classes
      BY <2>1, Hierarchy
    <2> QED BY <2>1, <2>2, TableEntry
  <1>2. \A i \in Definers(c, s) : <<Chain[c][i], s>> # None
    BY <1>1, SiteAssumption DEF Methods
  <1> QED BY <1>1, <1>2 DEF Providers

(* Class.lookup_invokable finds the method the class has by inheritance.     *)
LEMMA LookupIsResolve ==
    ASSUME tables \in Tables, TablesTellTheTruth, NEW c \in Classes, NEW s \in Selectors
    PROVE  LookupInvokable(c, s) = Resolve(c, s)
  <1>1. Providers(c, s) \subseteq Nat
    BY Hierarchy DEF Providers
  <1>2. CASE Providers(c, s) = {}
    BY <1>2, DefinersProvide DEF LookupInvokable, Resolve
  <1>3. CASE Providers(c, s) # {}
    <2>1. PICK i \in Providers(c, s) : Least(i, Providers(c, s))
      BY <1>1, <1>3, LeastExists
    <2>2. LookupInvokable(c, s) = tables[Chain[c][i]][s]
      BY <1>1, <1>3, <2>1, LeastUnique DEF LookupInvokable, Nearest
    <2>3. i \in Ancestors(c) /\ Chain[c][i] \in Classes /\ tables[Chain[c][i]][s] # None
      BY <2>1, Hierarchy DEF Providers
    <2>4. tables[Chain[c][i]][s] = Resolve(Chain[c][i], s)
      BY <2>3, TableEntry
    <2>5. \A k \in Definers(c, s) : i <= k
      BY <2>1, DefinersProvide DEF Least
    <2> QED BY <2>2, <2>3, <2>4, <2>5, Inherits
  <1> QED BY <1>2, <1>3

(* The copies lookup makes keep the tables true.                             *)
LEMMA CopiesAreTrue ==
    ASSUME tables \in Tables, TablesTellTheTruth, NEW c \in Classes,
           NEW ss \in SUBSET Selectors, LookupsChangeTables(c, ss)
    PROVE  (tables \in Tables)' /\ TablesTellTheTruth'
  <1>1. \A k \in Classes : \A s \in Selectors :
          tables'[k][s] = IF s \in ss /\ k \in Below(c, s)
                          THEN LookupInvokable(c, s) ELSE tables[k][s]
    BY DEF LookupsChangeTables
  <1>2. ASSUME NEW k \in Classes, NEW s \in Selectors, k \in Below(c, s)
        PROVE  Resolve(c, s) = Resolve(k, s) /\ s \notin Defines[k]
    <2>1. PICK i \in Ancestors(c) : k = Chain[c][i] /\ \A j \in Providers(c, s) : i < j
      BY <1>2 DEF Below
    <2>2. \A j \in Definers(c, s) : i < j
      BY <2>1, DefinersProvide
    <2>3. i \in Nat /\ Definers(c, s) \subseteq Nat
      BY Hierarchy DEF Definers
    <2>4. \A j \in Definers(c, s) : i <= j
      BY <2>2, <2>3
    <2>5. i \notin Definers(c, s)
      BY <2>2, <2>3
    <2> QED BY <2>1, <2>4, <2>5, Inherits DEF Definers
  <1>3. \A k \in Classes : \A s \in Selectors :
          tables'[k][s] \in {tables[k][s], Resolve(k, s)}
                 /\ (s \in Defines[k] => tables'[k][s] = tables[k][s])
    BY <1>1, <1>2, LookupIsResolve
  <1>4. tables' \in Tables
    <2>1. \A k \in Classes : \A s \in Selectors : tables'[k][s] \in Methods \cup {None}
      BY <1>3, ResolveType DEF Tables
    <2>2. tables' = [k \in Classes |-> [s \in Selectors |-> tables'[k][s]]]
      BY DEF LookupsChangeTables
    <2> QED BY <2>1, <2>2 DEF Tables
  <1>5. TablesTellTheTruth'
    <2> SUFFICES ASSUME NEW k \in Classes, NEW s \in Selectors
                 PROVE  /\ tables'[k][s] \in {None, Resolve(k, s)}
                        /\ s \in Defines[k] => tables'[k][s] = <<k, s>>
      BY DEF TablesTellTheTruth
    <2>1. tables'[k][s] = tables[k][s] \/ tables'[k][s] = Resolve(k, s)
      BY <1>3
    <2>2. s \in Defines[k] => tables'[k][s] = tables[k][s]
      BY <1>3
    <2> QED BY <2>1, <2>2, TableEntry
  <1> QED BY <1>4, <1>5
===============================================================================
