---------------------------- MODULE AstSendsProofs ----------------------------
(***************************************************************************)
(* Proofs about AstSends, for every hierarchy of classes, every set of     *)
(* send sites, every number of layouts and every length of the chains:     *)
(* what a chain remembers does not change which method a send runs, and    *)
(* only classes make a site megamorphic, never layouts.                    *)
(***************************************************************************)
EXTENDS AstSends, SendSitesProofs, FiniteSetTheorems, FunctionTheorems

-------------------------------------------------------------------------------
(* Dropping the nodes of old layouts.                                        *)

KeptNext(nodes, kept, i) ==
    IF IsLatest(nodes[i].layout) THEN Append(kept, nodes[i]) ELSE kept

(* The loop has a result for every number of nodes it looked at.             *)
IsKept(nodes, n, g) ==
    g = [i \in 0 .. n |-> IF i = 0 THEN <<>> ELSE KeptNext(nodes, g[i - 1], i)]

LEMMA KeptExists ==
    ASSUME NEW nodes, NEW n \in Nat
    PROVE  \E g : IsKept(nodes, n, g)
  <1> DEFINE Bad == {m \in Nat : ~ \E g : IsKept(nodes, m, g)}
  <1> SUFFICES ASSUME Bad # {} PROVE FALSE
    OBVIOUS
  <1>1. PICK m \in Bad : Least(m, Bad)
    BY LeastExists
  <1>2. m \in Nat /\ ~ \E g : IsKept(nodes, m, g)
    OBVIOUS
  <1>3. CASE m = 0
    <2> DEFINE h == [i \in 0 .. 0 |-> <<>>]
    <2>1. h = [i \in 0 .. 0 |-> IF i = 0 THEN <<>> ELSE KeptNext(nodes, h[i - 1], i)]
      OBVIOUS
    <2> QED BY <1>2, <1>3, <2>1 DEF IsKept
  <1>4. CASE m # 0
    <2>1. m - 1 \in Nat /\ m - 1 \notin Bad
      BY <1>1, <1>2, <1>4 DEF Least
    <2>2. PICK g : IsKept(nodes, m - 1, g)
      BY <2>1
    <2> DEFINE h == [i \in 0 .. m |-> IF i = 0 THEN <<>> ELSE KeptNext(nodes, g[i - 1], i)]
    <2>3. \A i \in 0 .. (m - 1) : h[i] = g[i]
      <3> TAKE i \in 0 .. (m - 1)
      <3>1. i \in 0 .. m
        BY <1>2
      <3>2. g[i] = IF i = 0 THEN <<>> ELSE KeptNext(nodes, g[i - 1], i)
        BY <2>2 DEF IsKept
      <3> QED BY <3>1, <3>2
    <2>4. \A i \in 0 .. m : i # 0 => i - 1 \in 0 .. (m - 1)
      BY <1>2
    <2>5. h = [i \in 0 .. m |-> IF i = 0 THEN <<>> ELSE KeptNext(nodes, h[i - 1], i)]
      BY <2>3, <2>4
    <2> QED BY <1>2, <2>5 DEF IsKept
  <1> QED BY <1>3, <1>4

LEMMA KeptSteps ==
    ASSUME NEW nodes, Len(nodes) \in Nat
    PROVE  /\ Kept(nodes)[0] = <<>>
           /\ \A i \in 1 .. Len(nodes) :
                 Kept(nodes)[i] = KeptNext(nodes, Kept(nodes)[i - 1], i)
  <1> DEFINE n == Len(nodes)
             g == CHOOSE h : IsKept(nodes, n, h)
  <1>1. IsKept(nodes, n, g)
    BY KeptExists
  <1>2. Kept(nodes) = g
    BY DEF Kept, IsKept, KeptNext
  <1>3. \A i \in 0 .. n : g[i] = IF i = 0 THEN <<>> ELSE KeptNext(nodes, g[i - 1], i)
    BY <1>1 DEF IsKept
  <1>4. 0 \in 0 .. n /\ \A i \in 1 .. n : i \in 0 .. n /\ i # 0
    OBVIOUS
  <1> HIDE DEF g
  <1> QED BY <1>2, <1>3, <1>4

Distinct(nodes) ==
    \A i, j \in 1 .. Len(nodes) : nodes[i].layout = nodes[j].layout => i = j

(* What is left of the first i nodes: some of them, of which no layout is    *)
(* old; all of them if it is as many.                                        *)
LeftOver(T, nodes, i, kept) ==
    /\ kept \in Seq(T)
    /\ Len(kept) <= i
    /\ \A j \in 1 .. Len(kept) : /\ IsLatest(kept[j].layout)
                                 /\ \E k \in 1 .. i : kept[j] = nodes[k]
    /\ Len(kept) = i => \A k \in 1 .. i : IsLatest(nodes[k].layout)
    /\ Distinct(nodes) => Distinct(kept)

LEMMA LeftOverNext ==
    ASSUME NEW T, NEW nodes \in Seq(T), NEW i \in 1 .. Len(nodes),
           NEW kept, LeftOver(T, nodes, i - 1, kept)
    PROVE  LeftOver(T, nodes, i, KeptNext(nodes, kept, i))
  <1> DEFINE next == KeptNext(nodes, kept, i)
  <1>1. i \in Nat /\ i - 1 \in Nat /\ Len(nodes) \in Nat /\ nodes[i] \in T
    OBVIOUS
  <1>2. /\ kept \in Seq(T) /\ Len(kept) \in Nat /\ Len(kept) <= i - 1
        /\ \A j \in 1 .. Len(kept) : /\ IsLatest(kept[j].layout)
                                     /\ \E k \in 1 .. (i - 1) : kept[j] = nodes[k]
        /\ Len(kept) = i - 1 => \A k \in 1 .. (i - 1) : IsLatest(nodes[k].layout)
        /\ Distinct(nodes) => Distinct(kept)
    BY DEF LeftOver
  <1>3. CASE ~ IsLatest(nodes[i].layout)
    <2>1. next = kept
      BY <1>3 DEF KeptNext
    <2>2. Len(kept) <= i /\ Len(kept) # i
      BY <1>1, <1>2
    <2>3. \A k \in 1 .. (i - 1) : k \in 1 .. i
      BY <1>1
    <2> QED BY <1>2, <2>1, <2>2, <2>3 DEF LeftOver
  <1>4. CASE IsLatest(nodes[i].layout)
    <2>1. next = Append(kept, nodes[i])
      BY <1>4 DEF KeptNext
    <2>2. /\ next \in Seq(T) /\ Len(next) = Len(kept) + 1
          /\ \A j \in 1 .. Len(kept) : next[j] = kept[j]
          /\ next[Len(kept) + 1] = nodes[i]
      BY <1>1, <1>2, <2>1
    <2> HIDE DEF next
    <2>3. Len(next) <= i
      BY <1>1, <1>2, <2>2
    <2>4. ASSUME NEW j \in 1 .. Len(next)
          PROVE  IsLatest(next[j].layout) /\ \E k \in 1 .. i : next[j] = nodes[k]
      <3>1. CASE j = Len(kept) + 1
        BY <1>1, <1>4, <2>2, <3>1
      <3>2. CASE j # Len(kept) + 1
        <4>1. j \in 1 .. Len(kept)
          BY <1>2, <2>2, <3>2
        <4>2. PICK k \in 1 .. (i - 1) : kept[j] = nodes[k]
          BY <1>2, <4>1
        <4>3. k \in 1 .. i
          BY <1>1
        <4> QED BY <1>2, <2>2, <4>1, <4>2, <4>3
      <3> QED BY <3>1, <3>2
    <2>5. Len(next) = i => \A k \in 1 .. i : IsLatest(nodes[k].layout)
      <3> SUFFICES ASSUME Len(next) = i, NEW k \in 1 .. i
                   PROVE  IsLatest(nodes[k].layout)
        OBVIOUS
      <3>1. Len(kept) = i - 1
        BY <1>1, <1>2, <2>2
      <3>2. k = i \/ k \in 1 .. (i - 1)
        BY <1>1
      <3> QED BY <1>2, <1>4, <3>1, <3>2
    <2>6. ASSUME Distinct(nodes) PROVE Distinct(next)
      <3>1. ASSUME NEW j \in 1 .. Len(kept) PROVE kept[j].layout # nodes[i].layout
        <4>1. PICK k \in 1 .. (i - 1) : kept[j] = nodes[k]
          BY <1>2
        <4>2. k \in 1 .. Len(nodes) /\ k # i
          BY <1>1
        <4> QED BY <2>6, <4>1, <4>2 DEF Distinct
      <3>2. \A j \in 1 .. Len(next) : j \in 1 .. Len(kept) \/ j = Len(kept) + 1
        BY <1>2, <2>2
      <3>3. Distinct(kept)
        BY <1>2, <2>6
      <3> SUFFICES ASSUME NEW a \in 1 .. Len(next), NEW b \in 1 .. Len(next),
                          next[a].layout = next[b].layout
                   PROVE  a = b
        BY DEF Distinct
      <3>4. CASE a \in 1 .. Len(kept) /\ b \in 1 .. Len(kept)
        BY <2>2, <3>3, <3>4 DEF Distinct
      <3>5. CASE a \in 1 .. Len(kept) /\ b = Len(kept) + 1
        BY <2>2, <3>1, <3>5
      <3>6. CASE a = Len(kept) + 1 /\ b \in 1 .. Len(kept)
        BY <2>2, <3>1, <3>6
      <3> QED BY <3>2, <3>4, <3>5, <3>6
    <2>7. LeftOver(T, nodes, i, next)
      BY <2>2, <2>3, <2>4, <2>5, <2>6 DEF LeftOver
    <2> QED BY <2>7 DEF next
  <1> QED BY <1>3, <1>4

(* _get_cache_size_and_drop_old_entries, of a chain of any length.           *)
LEMMA LatestOnlyKeeps ==
    ASSUME NEW T, NEW nodes \in Seq(T)
    PROVE  LeftOver(T, nodes, Len(nodes), LatestOnly(nodes))
  <1> DEFINE n == Len(nodes)
             Bad == {i \in 0 .. n : ~ LeftOver(T, nodes, i, Kept(nodes)[i])}
  <1>1. n \in Nat /\ n \in 0 .. n
    OBVIOUS
  <1>2. Bad = {}
    <2> SUFFICES ASSUME Bad # {} PROVE FALSE
      OBVIOUS
    <2>1. PICK i \in Bad : Least(i, Bad)
      <3>1. Bad \subseteq Nat
        OBVIOUS
      <3> HIDE DEF Bad
      <3> QED BY <3>1, LeastExists
    <2>2. i \in 0 .. n /\ ~ LeftOver(T, nodes, i, Kept(nodes)[i])
      OBVIOUS
    <2>3. CASE i = 0
      <3>1. Kept(nodes)[0] = <<>>
        BY <1>1, KeptSteps
      <3>2. LeftOver(T, nodes, 0, <<>>)
        <4>1. <<>> \in Seq(T) /\ Len(<<>>) = 0 /\ 1 .. 0 = {}
          OBVIOUS
        <4> QED BY <4>1 DEF LeftOver, Distinct
      <3> QED BY <2>2, <2>3, <3>1, <3>2
    <2>4. CASE i # 0
      <3>1. i \in 1 .. n /\ i - 1 \in 0 .. n /\ ~ (i <= i - 1)
        BY <1>1, <2>2, <2>4
      <3>2. LeftOver(T, nodes, i - 1, Kept(nodes)[i - 1])
        BY <2>1, <3>1 DEF Least
      <3>3. Kept(nodes)[i] = KeptNext(nodes, Kept(nodes)[i - 1], i)
        BY <1>1, <3>1, KeptSteps
      <3> QED BY <2>2, <3>1, <3>2, <3>3, LeftOverNext
    <2> QED BY <2>3, <2>4
  <1> QED BY <1>1, <1>2 DEF LatestOnly

(* A chain that is cleaned up and gets a node for another layout.            *)
LEMMA NodeAdded ==
    ASSUME NEW T, NEW nodes \in Seq(T), NEW node \in T,
           \A k \in 1 .. Len(nodes) : nodes[k].layout # node.layout
    PROVE  LET new == <<node>> \o LatestOnly(nodes)
           IN /\ new \in Seq(T) /\ Len(new) = Len(LatestOnly(nodes)) + 1
              /\ \A j \in 1 .. Len(new) :
                    new[j] = node \/ \E k \in 1 .. Len(nodes) : new[j] = nodes[k]
              /\ Distinct(nodes) => Distinct(new)
  <1> DEFINE rest == LatestOnly(nodes)
             new == <<node>> \o rest
  <1>1. LeftOver(T, nodes, Len(nodes), rest)
    BY LatestOnlyKeeps
  <1>2. /\ rest \in Seq(T) /\ Len(rest) \in Nat
        /\ \A j \in 1 .. Len(rest) : \E k \in 1 .. Len(nodes) : rest[j] = nodes[k]
        /\ Distinct(nodes) => Distinct(rest)
    BY <1>1 DEF LeftOver
  <1> HIDE DEF rest
  <1>3. /\ new \in Seq(T) /\ Len(new) = Len(rest) + 1 /\ new[1] = node
        /\ \A j \in 1 .. Len(new) : j # 1 => j - 1 \in 1 .. Len(rest) /\ new[j] = rest[j - 1]
    BY <1>2
  <1> HIDE DEF new
  <1>4. ASSUME NEW j \in 1 .. Len(new)
        PROVE  new[j] = node \/ \E k \in 1 .. Len(nodes) : new[j] = nodes[k]
    <2>1. CASE j = 1
      BY <1>3, <2>1
    <2>2. CASE j # 1
      <3>1. j - 1 \in 1 .. Len(rest) /\ new[j] = rest[j - 1]
        BY <1>3, <2>2
      <3> QED BY <1>2, <3>1
    <2> QED BY <2>1, <2>2
  <1>5. ASSUME Distinct(nodes) PROVE Distinct(new)
    <2>1. \A j \in 1 .. Len(new) : j # 1 => new[j].layout # new[1].layout
      BY <1>2, <1>3
    <2>2. Distinct(rest)
      BY <1>2, <1>5
    <2> SUFFICES ASSUME NEW a \in 1 .. Len(new), NEW b \in 1 .. Len(new),
                        new[a].layout = new[b].layout
                 PROVE  a = b
      BY DEF Distinct
    <2>3. CASE a = 1 \/ b = 1
      BY <2>1, <2>3
    <2>4. CASE a # 1 /\ b # 1
      <3>1. a - 1 = b - 1
        BY <1>3, <2>2, <2>4 DEF Distinct
      <3> QED BY <1>2, <1>3, <3>1
    <2> QED BY <2>3, <2>4
  <1> QED BY <1>3, <1>4, <1>5 DEF new, rest

-------------------------------------------------------------------------------
(* The invariant.                                                            *)

(* What the message s has to run in class c.                                 *)
Proper(c, s) == IF Resolve(c, s) # None THEN Resolve(c, s)
                ELSE Resolve(c, DoesNotUnderstand)

(* A node remembers what its class has to run.                               *)
NodesTellTheTruth ==
    \A s \in Sites : \A n \in Nodes(s) : n.method = Proper(n.layout[1], SelectorOf[s])

(* A super node remembers what the superclass of its class has to run.       *)
SupersTellTheTruth ==
    \A s \in SuperSites :
        superMethod[s] \in {None, Resolve(SuperClass(HolderOf[s]), SelectorOf[s])}

(* Of a class, only one layout can be the latest.                            *)
LatestIsNewest(l) == IsLatest(l) => l = NewestLayout(l[1])
OneLatest == /\ \A o \in Objects : LatestIsNewest(LayoutOf(o))
             /\ \A s \in Sites : \A n \in Nodes(s) : LatestIsNewest(n.layout)

Inv == /\ TypeOK
       /\ ChainsWellFormed
       /\ TablesTellTheTruth
       /\ NodesTellTheTruth
       /\ SupersTellTheTruth
       /\ OneLatest

DispatchNodes == [layout : Layouts, method : Methods]

-------------------------------------------------------------------------------
LEMMA PendingSend ==
    ASSUME TypeOK, pending # None
    PROVE  /\ pending \in Sends
           /\ Site \in Sites /\ Receiver \in Objects
           /\ Class \in Classes /\ Selector \in Selectors
  <1>1. pending \in Sends
    BY DEF TypeOK
  <1> QED BY <1>1, SendInProgress

LEMMA LayoutType ==
    ASSUME TypeOK
    PROVE  /\ \A o \in Objects : LayoutOf(o) \in Layouts /\ LayoutOf(o)[1] = ClassOf[o]
           /\ \A c \in Classes : NewestLayout(c) \in Layouts /\ NewestLayout(c)[1] = c
  BY SiteAssumption DEF TypeOK, LayoutOf, NewestLayout, Layouts

LEMMA NodeType ==
    ASSUME TypeOK, NEW s \in Sites
    PROVE  /\ chain[s] \in Seq(DispatchNodes) /\ Len(chain[s]) \in Nat
           /\ \A i \in 1 .. Len(chain[s]) : chain[s][i] \in Nodes(s)
           /\ \A n \in Nodes(s) : /\ n \in DispatchNodes
                                  /\ n.layout \in Layouts /\ n.layout[1] \in Classes
                                  /\ n.method \in Methods
  <1>1. chain[s] \in Seq(DispatchNodes) /\ Len(chain[s]) \in Nat
    <2>1. chain \in [Sites -> Seq(DispatchNodes)]
      BY DEF TypeOK, DispatchNodes
    <2> QED BY <2>1
  <1>2. \A n \in Nodes(s) : n \in DispatchNodes
    BY <1>1 DEF Nodes
  <1>3. \A n \in DispatchNodes : n.layout \in Layouts /\ n.layout[1] \in Classes
                                 /\ n.method \in Methods
    BY DEF DispatchNodes, Layouts
  <1> QED BY <1>1, <1>2, <1>3 DEF Nodes

(* Looking the message up finds what has to run, which is a method.          *)
LEMMA LookupIsProper ==
    ASSUME Inv, pending # None
    PROVE  /\ MethodToRun = Proper(Class, Selector) /\ MethodToRun \in Methods
           /\ Searched \in SUBSET Selectors
  <1>1. tables \in Tables /\ TablesTellTheTruth /\ Class \in Classes /\ Selector \in Selectors
    BY PendingSend DEF Inv, TypeOK
  <1>2. DoesNotUnderstand \in Selectors
    BY ClassAssumption
  <1>3. /\ LookupInvokable(Class, Selector) = Resolve(Class, Selector)
        /\ LookupInvokable(Class, DoesNotUnderstand) = Resolve(Class, DoesNotUnderstand)
    BY <1>1, <1>2, LookupIsResolve
  <1>4. Resolve(Class, Selector) \in Methods \cup {None}
    BY <1>1, ResolveType
  <1>5. Resolve(Class, DoesNotUnderstand) \in Methods
    BY <1>1, SomethingRuns
  <1> QED BY <1>1, <1>2, <1>3, <1>4, <1>5 DEF MethodToRun, Proper, Searched

LEMMA InitInv == Init => Inv
  <1> SUFFICES ASSUME Init PROVE Inv
    OBVIOUS
  <1> USE DEF Init
  <1>1. tables \in Tables /\ TablesTellTheTruth
    BY InitialTables
  <1>2. /\ newest \in [Classes -> Nat] /\ retired = {}
        /\ layout = [o \in Objects |-> 1] /\ newest = [c \in Classes |-> 1]
    BY DEF InitClasses
  <1>3. \A s \in Sites : chain[s] = <<>> /\ Len(chain[s]) = 0 /\ Nodes(s) = {}
    BY DEF Nodes
  <1>4. TypeOK
    <2>1. chain \in [Sites -> Seq([layout : Layouts, method : Methods])]
      OBVIOUS
    <2> QED BY <1>1, <1>2, <2>1 DEF TypeOK
  <1>5. ChainsWellFormed
    BY <1>3, InlineCacheAssumption DEF ChainsWellFormed
  <1>6. NodesTellTheTruth /\ SupersTellTheTruth
    BY <1>3 DEF NodesTellTheTruth, SupersTellTheTruth
  <1>7. OneLatest
    BY <1>2, <1>3, SiteAssumption DEF OneLatest, LatestIsNewest, LayoutOf, NewestLayout
  <1> QED BY <1>1, <1>4, <1>5, <1>6, <1>7 DEF Inv

-------------------------------------------------------------------------------
(* Inv is preserved, one lemma per kind of step.                             *)

(* What is remembered does not depend on tables or layouts.                  *)
LEMMA NodesUnchanged ==
    ASSUME Inv, UNCHANGED nodeVars
    PROVE  /\ ChainsWellFormed' /\ NodesTellTheTruth' /\ SupersTellTheTruth'
           /\ \A s \in Sites : Nodes(s)' = Nodes(s)
  <1>1. UNCHANGED <<chain, megamorphic, superMethod>>
    BY DEF nodeVars
  <1> QED BY <1>1 DEF Inv, ChainsWellFormed, NodesTellTheTruth, SupersTellTheTruth, Nodes

LEMMA AllUnchanged ==
    ASSUME Inv, UNCHANGED <<classVars, nodeVars>>,
           pending' \in Sends \cup {None}, answered' \in Methods \cup {None, Failed}
    PROVE  Inv'
  <1>1. UNCHANGED <<tables, newest, retired, layout, chain, megamorphic, superMethod>>
    BY DEF classVars, nodeVars
  <1>2. TypeOK' /\ TablesTellTheTruth'
    BY <1>1 DEF Inv, TypeOK, TablesTellTheTruth
  <1>3. OneLatest'
    BY <1>1 DEF Inv, OneLatest, LatestIsNewest, LayoutOf, NewestLayout, IsLatest, Nodes
  <1> QED BY <1>2, <1>3, NodesUnchanged DEF Inv

LEMMA ReceiverUpdated ==
    ASSUME Inv, pending # None, UpdateReceiver, UNCHANGED <<newest, retired>>
    PROVE  /\ layout' \in [Objects -> Nat]
           /\ \A o \in Objects : LatestIsNewest(LayoutOf(o))'
           /\ UpdatedLayout \in Layouts /\ UpdatedLayout[1] = Class
           /\ LatestIsNewest(UpdatedLayout)
  <1>1. Receiver \in Objects /\ Class \in Classes /\ Class = ClassOf[Receiver]
    BY PendingSend DEF Inv, Class
  <1>2. /\ layout \in [Objects -> Nat] /\ newest \in [Classes -> Nat]
        /\ \A o \in Objects : LatestIsNewest(LayoutOf(o))
    BY DEF Inv, TypeOK, OneLatest
  <1>3. /\ LayoutOf(Receiver) \in Layouts /\ LayoutOf(Receiver)[1] = Class
        /\ NewestLayout(Class) \in Layouts /\ NewestLayout(Class)[1] = Class
    BY <1>1, LayoutType DEF Inv
  <1>4. CASE IsLatest(LayoutOf(Receiver))
    <2>1. layout' = layout /\ UpdatedLayout = LayoutOf(Receiver)
      BY <1>4 DEF UpdateReceiver, UpdatedLayout
    <2>2. \A o \in Objects : LatestIsNewest(LayoutOf(o))'
      BY <1>2, <2>1 DEF LatestIsNewest, LayoutOf, NewestLayout, IsLatest
    <2> QED BY <1>1, <1>2, <1>3, <2>1, <2>2
  <1>5. CASE ~ IsLatest(LayoutOf(Receiver))
    <2>1. /\ layout' = [layout EXCEPT ![Receiver] = newest[Class]]
          /\ UpdatedLayout = NewestLayout(Class)
      BY <1>1, <1>5 DEF UpdateReceiver, UpdatedLayout, UpdateLayoutToMatchClass
    <2>2. layout' \in [Objects -> Nat]
      BY <1>1, <1>2, <2>1
    <2>3. ASSUME NEW o \in Objects PROVE LatestIsNewest(LayoutOf(o))'
      <3>1. CASE o = Receiver
        BY <1>1, <1>2, <2>1, <3>1 DEF LatestIsNewest, LayoutOf, NewestLayout
      <3>2. CASE o # Receiver
        BY <1>2, <2>1, <3>2 DEF LatestIsNewest, LayoutOf, NewestLayout, IsLatest
      <3> QED BY <3>1, <3>2
    <2>4. LatestIsNewest(UpdatedLayout)
      BY <1>3, <2>1 DEF LatestIsNewest
    <2> QED BY <1>3, <2>1, <2>2, <2>3, <2>4
  <1> QED BY <1>4, <1>5 DEF IsLatest

(* A site that finds what has to run in its chain.                           *)
LEMMA CachedSendInv == ASSUME Inv, CachedSend PROVE Inv'
  <1>1. Site \in Sites
    BY PendingSend DEF Inv, CachedSend, AtSend
  <1>2. PICK n \in NodesFor(Site, LayoutOf(Receiver)) : Run(n.method)
    BY DEF CachedSend
  <1>3. n \in Nodes(Site) /\ n.method \in Methods
    BY <1>1, <1>2, NodeType DEF Inv, NodesFor
  <1> QED BY <1>2, <1>3, AllUnchanged DEF CachedSend, Run

LEMMA CachedAfterUpdateInv == ASSUME Inv, CachedAfterUpdate PROVE Inv'
  <1>1. /\ UNCHANGED <<tables, newest, retired, nodeVars>> /\ UpdateReceiver
        /\ pending # None
    BY DEF CachedAfterUpdate, Missed, AtSend
  <1>2. PICK n \in NodesFor(Site, UpdatedLayout) : Run(n.method)
    BY DEF CachedAfterUpdate
  <1>3. n.method \in Methods
    BY <1>1, <1>2, PendingSend, NodeType DEF Inv, NodesFor
  <1>4. layout' \in [Objects -> Nat] /\ \A o \in Objects : LatestIsNewest(LayoutOf(o))'
    BY <1>1, ReceiverUpdated
  <1>5. TypeOK' /\ TablesTellTheTruth'
    BY <1>1, <1>2, <1>3, <1>4 DEF Inv, TypeOK, TablesTellTheTruth, nodeVars, Run
  <1>6. OneLatest'
    <2>1. \A s \in Sites : Nodes(s)' = Nodes(s)
      BY <1>1, NodesUnchanged
    <2>2. \A s \in Sites : \A m \in Nodes(s)' : LatestIsNewest(m.layout)'
      BY <1>1, <2>1 DEF Inv, OneLatest, LatestIsNewest, NewestLayout, IsLatest
    <2> QED BY <1>4, <2>2 DEF OneLatest
  <1> QED BY <1>1, <1>5, <1>6, NodesUnchanged DEF Inv

LEMMA GenericSendInv == ASSUME Inv, GenericSend PROVE Inv'
  <1>1. /\ UNCHANGED <<newest, retired, layout, nodeVars>> /\ pending # None
        /\ Run(MethodToRun) /\ LookupsChangeTables(Class, Searched)
    BY DEF GenericSend, AtSend
  <1>2. /\ MethodToRun \in Methods /\ Searched \in SUBSET Selectors /\ Class \in Classes
        /\ tables \in Tables /\ TablesTellTheTruth
    BY <1>1, LookupIsProper, PendingSend DEF Inv, TypeOK
  <1>3. (tables \in Tables)' /\ TablesTellTheTruth'
    BY <1>1, <1>2, CopiesAreTrue
  <1>4. TypeOK'
    BY <1>1, <1>2, <1>3 DEF Inv, TypeOK, nodeVars, Run
  <1>5. OneLatest'
    BY <1>1 DEF Inv, OneLatest, LatestIsNewest, LayoutOf, NewestLayout, IsLatest, Nodes, nodeVars
  <1> QED BY <1>1, <1>3, <1>4, <1>5, NodesUnchanged DEF Inv

(* What a miss does beside changing the chain.                               *)
LEMMA MissedAgainFacts ==
    ASSUME Inv, MissedAgain
    PROVE  /\ pending # None /\ Site \in Sites /\ Site \notin megamorphic
           /\ UNCHANGED <<newest, retired, superMethod>>
           /\ (tables \in Tables)' /\ TablesTellTheTruth'
           /\ pending' = None /\ answered' \in Methods
           /\ layout' \in [Objects -> Nat]
           /\ \A o \in Objects : LatestIsNewest(LayoutOf(o))'
  <1>1. /\ pending # None /\ Site \notin megamorphic /\ UpdateReceiver
        /\ Run(MethodToRun) /\ LookupsChangeTables(Class, Searched)
        /\ UNCHANGED <<newest, retired, superMethod>>
    BY DEF MissedAgain, Missed, AtSend
  <1>2. /\ MethodToRun \in Methods /\ Searched \in SUBSET Selectors /\ Class \in Classes
        /\ Site \in Sites /\ tables \in Tables /\ TablesTellTheTruth
    BY <1>1, LookupIsProper, PendingSend DEF Inv, TypeOK
  <1>3. (tables \in Tables)' /\ TablesTellTheTruth'
    BY <1>1, <1>2, CopiesAreTrue
  <1>4. layout' \in [Objects -> Nat] /\ \A o \in Objects : LatestIsNewest(LayoutOf(o))'
    BY <1>1, ReceiverUpdated
  <1> QED BY <1>1, <1>2, <1>3, <1>4 DEF Run

LEMMA AddNodeInv == ASSUME Inv, AddNode PROVE Inv'
  <1> DEFINE node == DispatchNode(UpdatedLayout, MethodToRun)
             new == <<node>> \o LatestOnly(chain[Site])
             old == chain[Site]
  <1>1. /\ MissedAgain /\ UNCHANGED megamorphic
        /\ Len(LatestOnly(old)) < InlineCacheSize
        /\ chain' = [chain EXCEPT ![Site] = new]
        /\ NodesFor(Site, UpdatedLayout) = {}
    BY DEF AddNode, MissedAgain
  <1>2. /\ pending # None /\ Site \in Sites /\ Site \notin megamorphic
        /\ UNCHANGED <<newest, retired, superMethod>>
        /\ (tables \in Tables)' /\ TablesTellTheTruth'
        /\ pending' = None /\ answered' \in Methods
        /\ layout' \in [Objects -> Nat]
        /\ \A o \in Objects : LatestIsNewest(LayoutOf(o))'
    BY <1>1, MissedAgainFacts
  <1>3. /\ UpdatedLayout \in Layouts /\ UpdatedLayout[1] = Class
        /\ LatestIsNewest(UpdatedLayout)
        /\ MethodToRun = Proper(Class, Selector) /\ MethodToRun \in Methods
    BY <1>1, <1>2, ReceiverUpdated, LookupIsProper DEF MissedAgain
  <1>4. node \in DispatchNodes /\ node.layout = UpdatedLayout /\ node.method = MethodToRun
    BY <1>3 DEF DispatchNode, DispatchNodes
  <1>5. /\ old \in Seq(DispatchNodes)
        /\ \A k \in 1 .. Len(old) : old[k] \in Nodes(Site)
    BY <1>2, NodeType DEF Inv
  <1>6. \A k \in 1 .. Len(old) : old[k].layout # node.layout
    BY <1>1, <1>4, <1>5 DEF NodesFor
  <1> HIDE DEF node
  <1>7. /\ new \in Seq(DispatchNodes) /\ Len(new) = Len(LatestOnly(old)) + 1
        /\ \A j \in 1 .. Len(new) :
              new[j] = node \/ \E k \in 1 .. Len(old) : new[j] = old[k]
        /\ Distinct(old) => Distinct(new)
    BY <1>4, <1>5, <1>6, NodeAdded
  <1>8. Len(LatestOnly(old)) \in Nat /\ Distinct(old)
    BY <1>2, <1>5, LatestOnlyKeeps DEF LeftOver, Inv, ChainsWellFormed, Distinct
  <1> HIDE DEF new, old
  <1>9. /\ chain' \in [Sites -> Seq(DispatchNodes)]
        /\ chain'[Site] = new /\ \A s \in Sites : s # Site => chain'[s] = chain[s]
    <2>1. chain \in [Sites -> Seq(DispatchNodes)]
      BY DEF Inv, TypeOK, DispatchNodes
    <2> QED BY <1>1, <1>2, <1>7, <2>1
  <1>10. \A s \in Sites : \A n \in Nodes(s)' : n \in Nodes(s) \/ (s = Site /\ n = node)
    <2> SUFFICES ASSUME NEW s \in Sites, NEW n \in Nodes(s)'
                 PROVE  n \in Nodes(s) \/ (s = Site /\ n = node)
      OBVIOUS
    <2>1. CASE s # Site
      BY <1>9, <2>1 DEF Nodes
    <2>2. CASE s = Site
      <3>1. PICK j \in 1 .. Len(new) : n = new[j]
        BY <1>9, <2>2 DEF Nodes
      <3> QED BY <1>5, <1>7, <2>2, <3>1
    <2> QED BY <2>1, <2>2
  <1>11. TypeOK'
    BY <1>1, <1>2, <1>9 DEF Inv, TypeOK, DispatchNodes
  <1>12. ChainsWellFormed'
    <2>1. Len(new) <= InlineCacheSize /\ Distinct(new)
      BY <1>1, <1>7, <1>8, InlineCacheAssumption
    <2> SUFFICES ASSUME NEW s \in Sites
                 PROVE  /\ Len(chain'[s]) <= InlineCacheSize
                        /\ Distinct(chain'[s])
                        /\ s \in megamorphic' => chain'[s] = <<>>
      BY DEF ChainsWellFormed, Distinct
    <2>2. CASE s = Site
      BY <1>1, <1>2, <1>9, <2>1, <2>2
    <2>3. CASE s # Site
      BY <1>1, <1>9, <2>3 DEF Inv, ChainsWellFormed, Distinct
    <2> QED BY <2>2, <2>3
  <1>13. NodesTellTheTruth'
    <2> SUFFICES ASSUME NEW s \in Sites, NEW n \in Nodes(s)'
                 PROVE  n.method = Proper(n.layout[1], SelectorOf[s])
      BY DEF NodesTellTheTruth
    <2>1. CASE n \in Nodes(s)
      BY <2>1 DEF Inv, NodesTellTheTruth
    <2>2. CASE s = Site /\ n = node
      BY <1>3, <1>4, <2>2 DEF Selector
    <2> QED BY <1>10, <2>1, <2>2
  <1>14. OneLatest'
    <2> SUFFICES ASSUME NEW s \in Sites, NEW n \in Nodes(s)'
                 PROVE  LatestIsNewest(n.layout)'
      BY <1>2 DEF OneLatest
    <2>1. CASE n \in Nodes(s)
      BY <1>2, <2>1 DEF Inv, OneLatest, LatestIsNewest, NewestLayout, IsLatest
    <2>2. CASE n = node
      BY <1>2, <1>3, <1>4, <2>2 DEF LatestIsNewest, NewestLayout, IsLatest
    <2> QED BY <1>10, <2>1, <2>2
  <1>15. SupersTellTheTruth'
    BY <1>2 DEF Inv, SupersTellTheTruth
  <1> QED BY <1>2, <1>11, <1>12, <1>13, <1>14, <1>15 DEF Inv

LEMMA BecomeMegamorphicInv == ASSUME Inv, BecomeMegamorphic PROVE Inv'
  <1>1. /\ MissedAgain /\ chain' = [chain EXCEPT ![Site] = <<>>]
        /\ megamorphic' = megamorphic \cup {Site}
    BY DEF BecomeMegamorphic
  <1>2. /\ pending # None /\ Site \in Sites /\ Site \notin megamorphic
        /\ UNCHANGED <<newest, retired, superMethod>>
        /\ (tables \in Tables)' /\ TablesTellTheTruth'
        /\ pending' = None /\ answered' \in Methods
        /\ layout' \in [Objects -> Nat]
        /\ \A o \in Objects : LatestIsNewest(LayoutOf(o))'
    BY <1>1, MissedAgainFacts
  <1>3. /\ chain' \in [Sites -> Seq(DispatchNodes)]
        /\ chain'[Site] = <<>> /\ \A s \in Sites : s # Site => chain'[s] = chain[s]
    <2>1. chain \in [Sites -> Seq(DispatchNodes)]
      BY DEF Inv, TypeOK, DispatchNodes
    <2> QED BY <1>1, <1>2, <2>1
  <1>4. \A s \in Sites : \A n \in Nodes(s)' : n \in Nodes(s)
    <2> SUFFICES ASSUME NEW s \in Sites, NEW n \in Nodes(s)' PROVE n \in Nodes(s)
      OBVIOUS
    <2>1. CASE s = Site
      <3>1. chain'[s] = <<>> /\ Len(<<>>) = 0 /\ 1 .. 0 = {}
        BY <1>3, <2>1
      <3> QED BY <3>1 DEF Nodes
    <2>2. CASE s # Site
      BY <1>3, <2>2 DEF Nodes
    <2> QED BY <2>1, <2>2
  <1>5. TypeOK'
    BY <1>1, <1>2, <1>3 DEF Inv, TypeOK, DispatchNodes
  <1>6. ChainsWellFormed'
    <2> SUFFICES ASSUME NEW s \in Sites
                 PROVE  /\ Len(chain'[s]) <= InlineCacheSize
                        /\ Distinct(chain'[s])
                        /\ s \in megamorphic' => chain'[s] = <<>>
      BY DEF ChainsWellFormed, Distinct
    <2>1. CASE s = Site
      BY <1>3, <2>1, InlineCacheAssumption DEF Distinct
    <2>2. CASE s # Site
      BY <1>1, <1>3, <2>2 DEF Inv, ChainsWellFormed, Distinct
    <2> QED BY <2>1, <2>2
  <1>7. NodesTellTheTruth' /\ SupersTellTheTruth'
    BY <1>2, <1>4 DEF Inv, NodesTellTheTruth, SupersTellTheTruth
  <1>8. OneLatest'
    BY <1>2, <1>4 DEF Inv, OneLatest, LatestIsNewest, NewestLayout, IsLatest
  <1> QED BY <1>2, <1>5, <1>6, <1>7, <1>8 DEF Inv

LEMMA SuperSendInv == ASSUME Inv, SuperSend PROVE Inv'
  <1> DEFINE super == SuperClass(HolderOf[Site])
             m == LookupInvokable(super, Selector)
  <1>1. /\ pending # None /\ Site \in SuperSites
        /\ UNCHANGED <<newest, retired, layout, chain, megamorphic>>
    BY DEF SuperSend
  <1>2. /\ super \in Classes /\ Selector \in Selectors /\ Selector = SelectorOf[Site]
        /\ tables \in Tables /\ TablesTellTheTruth
    BY <1>1, Superclass, PendingSend DEF Inv, TypeOK, Selector
  <1>3. m = Resolve(super, Selector) /\ m \in Methods \cup {None}
    BY <1>2, LookupIsResolve, ResolveType
  <1>4. superMethod \in [SuperSites -> Methods \cup {None}]
    BY DEF Inv, TypeOK
  <1>5. /\ (tables \in Tables)' /\ TablesTellTheTruth'
        /\ superMethod' \in [SuperSites -> Methods \cup {None}]
        /\ SupersTellTheTruth'
        /\ pending' = None /\ answered' \in Methods \cup {Failed}
    <2>1. CASE superMethod[Site] # None
      <3>1. UNCHANGED <<tables, superMethod>> /\ Run(superMethod[Site])
        BY <2>1 DEF SuperSend
      <3>2. TablesTellTheTruth' /\ SupersTellTheTruth'
        BY <1>2, <3>1 DEF Inv, TablesTellTheTruth, SupersTellTheTruth
      <3> QED BY <1>1, <1>2, <1>4, <2>1, <3>1, <3>2 DEF Run
    <2>2. CASE superMethod[Site] = None
      <3>1. /\ LookupsChangeTables(super, {Selector})
            /\ Run(IF m = None THEN Failed ELSE m)
            /\ superMethod' = [superMethod EXCEPT ![Site] = m]
        BY <2>2 DEF SuperSend
      <3> HIDE DEF super, m
      <3>2. (tables \in Tables)' /\ TablesTellTheTruth'
        BY <1>2, <3>1, CopiesAreTrue
      <3>3. superMethod' \in [SuperSites -> Methods \cup {None}]
        BY <1>3, <1>4, <3>1
      <3>4. SupersTellTheTruth'
        <4> SUFFICES ASSUME NEW s \in SuperSites
                     PROVE  superMethod'[s] \in
                              {None, Resolve(SuperClass(HolderOf[s]), SelectorOf[s])}
          BY DEF SupersTellTheTruth
        <4>1. CASE s = Site
          BY <1>2, <1>3, <1>4, <3>1, <4>1 DEF super
        <4>2. CASE s # Site
          BY <1>4, <3>1, <4>2 DEF Inv, SupersTellTheTruth
        <4> QED BY <4>1, <4>2
      <3> QED BY <1>3, <3>1, <3>2, <3>3, <3>4 DEF Run
    <2> QED BY <2>1, <2>2
  <1>6. TypeOK'
    BY <1>1, <1>5 DEF Inv, TypeOK
  <1>7. ChainsWellFormed' /\ NodesTellTheTruth'
    BY <1>1 DEF Inv, ChainsWellFormed, NodesTellTheTruth, Nodes
  <1>8. OneLatest'
    BY <1>1 DEF Inv, OneLatest, LatestIsNewest, LayoutOf, NewestLayout, IsLatest, Nodes
  <1> QED BY <1>5, <1>6, <1>7, <1>8 DEF Inv

(* A layout stays the newest of its class or is retired.                     *)
LEMMA LatestStaysNewest ==
    ASSUME NEW l \in Layouts, LatestIsNewest(l), newest \in [Classes -> Nat],
           NEW c \in Classes,
           retired' = retired \cup {NewestLayout(c)},
           \A k \in Classes : k # c => newest'[k] = newest[k]
    PROVE  LatestIsNewest(l)'
  <1>1. CASE l \in retired \/ l = NewestLayout(c)
    BY <1>1 DEF LatestIsNewest, IsLatest
  <1>2. CASE l \notin retired /\ l # NewestLayout(c)
    <2>1. l = NewestLayout(l[1]) /\ l[1] # c /\ l[1] \in Classes
      BY <1>2 DEF LatestIsNewest, IsLatest, Layouts
    <2> QED BY <2>1 DEF LatestIsNewest, NewestLayout
  <1> QED BY <1>1, <1>2

LEMMA ChangeLayoutsInv == ASSUME Inv, ChangeLayouts, UNCHANGED nodeVars PROVE Inv'
  <1>1. PICK o \in Objects : TakeNewestLayout(o) \/ WriteNewLayout(o) \/ WriteFails(o)
    BY DEF ChangeLayouts
  <1> DEFINE c == ClassOf[o]
  <1>2. /\ c \in Classes /\ layout \in [Objects -> Nat] /\ newest \in [Classes -> Nat]
        /\ retired \subseteq Layouts /\ NewestLayout(c) \in Layouts
        /\ \A p \in Objects : LayoutOf(p) \in Layouts /\ LatestIsNewest(LayoutOf(p))
    BY SiteAssumption, LayoutType DEF Inv, TypeOK, OneLatest
  <1>3. \A s \in Sites : /\ Nodes(s)' = Nodes(s)
                         /\ \A n \in Nodes(s) : /\ n.layout \in Layouts
                                                /\ LatestIsNewest(n.layout)
    BY NodesUnchanged, NodeType DEF Inv, OneLatest
  <1>4. UNCHANGED <<tables, pending, answered>>
    BY <1>1 DEF TakeNewestLayout, WriteNewLayout, WriteFails
  <1>5. TablesTellTheTruth'
    BY <1>4 DEF Inv, TablesTellTheTruth
  <1>6. /\ layout' \in [Objects -> Nat] /\ newest' \in [Classes -> Nat]
        /\ retired' \subseteq Layouts
        /\ OneLatest'
    <2>1. CASE TakeNewestLayout(o)
      <3>1. layout' = [layout EXCEPT ![o] = newest[c]] /\ UNCHANGED <<newest, retired>>
        BY <2>1 DEF TakeNewestLayout, UpdateLayoutToMatchClass
      <3>2. ASSUME NEW p \in Objects PROVE LatestIsNewest(LayoutOf(p))'
        <4>1. CASE p = o
          BY <1>2, <3>1, <4>1 DEF LatestIsNewest, LayoutOf, NewestLayout
        <4>2. CASE p # o
          BY <1>2, <3>1, <4>2 DEF LatestIsNewest, LayoutOf, NewestLayout, IsLatest
        <4> QED BY <4>1, <4>2
      <3>3. \A s \in Sites : \A n \in Nodes(s)' : LatestIsNewest(n.layout)'
        BY <1>3, <3>1 DEF LatestIsNewest, NewestLayout, IsLatest
      <3> QED BY <1>2, <3>1, <3>2, <3>3 DEF OneLatest
    <2>2. CASE WriteNewLayout(o)
      <3>1. /\ newest' = [newest EXCEPT ![c] = newest[c] + 1]
            /\ retired' = retired \cup {NewestLayout(c)}
            /\ layout' = [layout EXCEPT ![o] = newest[c] + 1]
        BY <2>2 DEF WriteNewLayout
      <3>2. \A k \in Classes : k # c => newest'[k] = newest[k]
        BY <1>2, <3>1
      <3>3. ASSUME NEW p \in Objects PROVE LatestIsNewest(LayoutOf(p))'
        <4>1. CASE p = o
          BY <1>2, <3>1, <4>1 DEF LatestIsNewest, LayoutOf, NewestLayout
        <4>2. CASE p # o
          <5>1. LayoutOf(p)' = LayoutOf(p)
            BY <1>2, <3>1, <4>2 DEF LayoutOf
          <5>2. \A l \in Layouts : LatestIsNewest(l) => LatestIsNewest(l)'
            BY <1>2, <3>1, <3>2, LatestStaysNewest
          <5> QED BY <1>2, <5>1, <5>2 DEF LatestIsNewest, IsLatest, NewestLayout
        <4> QED BY <4>1, <4>2
      <3>4. \A s \in Sites : \A n \in Nodes(s)' : LatestIsNewest(n.layout)'
        <4>1. \A l \in Layouts : LatestIsNewest(l) => LatestIsNewest(l)'
          BY <1>2, <3>1, <3>2, LatestStaysNewest
        <4> QED BY <1>3, <4>1
      <3> QED BY <1>2, <3>1, <3>3, <3>4 DEF OneLatest
    <2>3. CASE WriteFails(o)
      <3>1. retired' = retired \cup {NewestLayout(c)} /\ UNCHANGED <<newest, layout>>
        BY <2>3 DEF WriteFails
      <3>2. \A l \in Layouts : LatestIsNewest(l) => LatestIsNewest(l)'
        BY <1>2, <3>1, LatestStaysNewest
      <3>3. \A p \in Objects : LatestIsNewest(LayoutOf(p))'
        BY <1>2, <3>1, <3>2 DEF LayoutOf, LatestIsNewest, IsLatest, NewestLayout
      <3>4. \A s \in Sites : \A n \in Nodes(s)' : LatestIsNewest(n.layout)'
        BY <1>3, <3>2
      <3> QED BY <1>2, <3>1, <3>3, <3>4 DEF OneLatest
    <2> QED BY <1>1, <2>1, <2>2, <2>3
  <1>7. TypeOK'
    BY <1>4, <1>6 DEF Inv, TypeOK, nodeVars
  <1> QED BY <1>5, <1>6, <1>7, NodesUnchanged DEF Inv

LEMMA NextInv == ASSUME Inv, [Next]_vars PROVE Inv'
  <1>1. CASE Execute
    BY <1>1, CachedSendInv, GenericSendInv, CachedAfterUpdateInv, AddNodeInv,
       BecomeMegamorphicInv, SuperSendInv DEF Execute
  <1>2. CASE \E send \in Sends : Begin(send) /\ UNCHANGED nodeVars
    BY <1>2, AllUnchanged DEF Begin
  <1>3. CASE ChangeLayouts /\ UNCHANGED nodeVars
    BY <1>3, ChangeLayoutsInv
  <1>4. CASE UNCHANGED vars
    BY <1>4, AllUnchanged DEF vars, classVars, nodeVars, Inv, TypeOK
  <1> QED BY <1>1, <1>2, <1>3, <1>4 DEF Next

-------------------------------------------------------------------------------
(* What follows from the invariant.                                          *)

(* Inv is an invariant of the specification.                                 *)
THEOREM Invariance == Spec => []Inv
  <1>1. Init => Inv
    BY InitInv
  <1>2. Inv /\ [Next]_vars => Inv'
    BY NextInv
  <1> QED BY <1>1, <1>2, PTL DEF Spec

(* Types, for every hierarchy, every set of sites and every size of chains.  *)
THEOREM TypeCorrectness == Spec => []TypeOK
  <1>1. Inv => TypeOK
    BY DEF Inv
  <1> QED BY <1>1, Invariance, PTL

(* No chain grows past INLINE_CACHE_SIZE, has two nodes for a layout or a    *)
(* node after the generic one (_specialize).                                 *)
THEOREM Chains == Spec => []ChainsWellFormed
  <1>1. Inv => ChainsWellFormed
    BY DEF Inv
  <1> QED BY <1>1, Invariance, PTL

-------------------------------------------------------------------------------
(* What makes a site megamorphic.                                            *)

Remembered(s) == {n.layout[1] : n \in {m \in Nodes(s) : IsLatest(m.layout)}}

(* The nodes of a full chain without old layouts are for different classes.  *)
LEMMA FullChain ==
    ASSUME Inv, NEW s \in Sites, Len(LatestOnly(chain[s])) >= InlineCacheSize
    PROVE  Cardinality(Remembered(s)) = InlineCacheSize
  <1> DEFINE nodes == chain[s]
             n == Len(nodes)
             class == [i \in 1 .. n |-> nodes[i].layout[1]]
  <1>1. /\ nodes \in Seq(DispatchNodes) /\ n \in Nat
        /\ \A i \in 1 .. n : nodes[i] \in Nodes(s)
    BY NodeType DEF Inv
  <1>2. n <= InlineCacheSize /\ Distinct(nodes) /\ InlineCacheSize \in Nat
    BY InlineCacheAssumption DEF Inv, ChainsWellFormed, Distinct
  <1>3. n = InlineCacheSize /\ \A i \in 1 .. n : IsLatest(nodes[i].layout)
    <2>1. LeftOver(DispatchNodes, nodes, n, LatestOnly(nodes))
      BY <1>1, LatestOnlyKeeps
    <2>2. Len(LatestOnly(nodes)) \in Nat /\ Len(LatestOnly(nodes)) <= n
      BY <2>1 DEF LeftOver
    <2>3. Len(LatestOnly(nodes)) = n /\ n = InlineCacheSize
      BY <1>1, <1>2, <2>2
    <2> QED BY <2>1, <2>3 DEF LeftOver
  <1>4. \A i \in 1 .. n : nodes[i].layout = NewestLayout(nodes[i].layout[1])
    BY <1>1, <1>3 DEF Inv, OneLatest, LatestIsNewest
  <1>5. class \in [1 .. n -> Remembered(s)]
    BY <1>1, <1>3 DEF Remembered
  <1>6. \A a, b \in 1 .. n : class[a] = class[b] => a = b
    BY <1>2, <1>4 DEF Distinct
  <1>7. \A t \in Remembered(s) : \E i \in 1 .. n : class[i] = t
    BY DEF Remembered, Nodes
  <1> HIDE DEF class, n
  <1>8. class \in Bijection(1 .. n, Remembered(s))
    BY <1>5, <1>6, <1>7, Fun_IsBij
  <1>9. ExistsBijection(1 .. n, Remembered(s))
    BY <1>8 DEF ExistsBijection
  <1>10. Cardinality(Remembered(s)) = n
    BY <1>1, <1>9, FS_CountingElements
  <1> QED BY <1>3, <1>10

(* A site that misses has no node for the latest layout of the receiver's    *)
(* class.                                                                    *)
LEMMA MissedClass ==
    ASSUME Inv, MissedAgain
    PROVE  Class \notin Remembered(Site)
  <1> SUFFICES ASSUME NEW n \in Nodes(Site), IsLatest(n.layout), n.layout[1] = Class
               PROVE  FALSE
    BY DEF Remembered
  <1>1. /\ pending # None /\ Site \in Sites /\ Receiver \in Objects
        /\ NodesFor(Site, UpdatedLayout) = {}
    BY PendingSend DEF Inv, MissedAgain, Missed, AtSend
  <1>2. n.layout = NewestLayout(Class)
    BY <1>1 DEF Inv, OneLatest, LatestIsNewest
  <1>3. UpdatedLayout = NewestLayout(Class)
    <2>1. LatestIsNewest(LayoutOf(Receiver)) /\ LayoutOf(Receiver)[1] = Class
      BY <1>1, LayoutType DEF Inv, OneLatest, Class
    <2> QED BY <2>1 DEF UpdatedLayout, LatestIsNewest
  <1> QED BY <1>1, <1>2, <1>3 DEF NodesFor

(* Layouts never make a site megamorphic: it remembered INLINE_CACHE_SIZE    *)
(* classes and met another one (_specialize).                                *)
THEOREM ClassesMakeMegamorphic == Spec => MegamorphicOnlyByClasses
  <1>1. ASSUME Inv, Next, NEW s \in megamorphic' \ megamorphic
        PROVE  /\ Cardinality(Remembered(s)) = InlineCacheSize
               /\ Class \notin Remembered(s)
    <2>1. BecomeMegamorphic
      BY <1>1 DEF Next, Execute, CachedSend, GenericSend, CachedAfterUpdate, AddNode,
                  SuperSend, nodeVars
    <2>2. s = Site /\ MissedAgain /\ Len(LatestOnly(chain[Site])) >= InlineCacheSize
      BY <1>1, <2>1 DEF BecomeMegamorphic
    <2>3. Site \in Sites
      BY <1>1, <2>2, MissedAgainFacts
    <2> QED BY <1>1, <2>2, <2>3, FullChain, MissedClass
  <1>2. Inv /\ [Next]_vars =>
          [\A s \in megamorphic' \ megamorphic :
             LET remembered == {n.layout[1] : n \in {m \in Nodes(s) : IsLatest(m.layout)}}
             IN /\ Cardinality(remembered) = InlineCacheSize
                /\ Class \notin remembered]_vars
    BY <1>1 DEF Remembered
  <1> QED BY <1>2, Invariance, PTL DEF Spec, MegamorphicOnlyByClasses

-------------------------------------------------------------------------------
(* Refinement.                                                               *)

Answers == [send \in Sends |-> Answer(send)]

LEMMA OrdinaryAnswer ==
    ASSUME Inv, AtSend
    PROVE  Answers[pending] = Proper(Class, Selector)
  <1>1. pending # None /\ Site \notin SuperSites /\ pending \in Sends
    BY PendingSend DEF Inv, AtSend
  <1> QED BY <1>1 DEF Answers, Answer, Proper, Site, Receiver, Class, Selector

LEMMA NodeAnswer ==
    ASSUME Inv, AtSend, NEW l, l[1] = Class, NEW n \in NodesFor(Site, l)
    PROVE  n.method = Answers[pending]
  <1>1. Site \in Sites /\ n \in Nodes(Site) /\ n.layout = l
    BY PendingSend DEF Inv, AtSend, NodesFor
  <1>2. n.method = Proper(Class, Selector)
    BY <1>1 DEF Inv, NodesTellTheTruth, Selector
  <1> QED BY <1>2, OrdinaryAnswer

LEMMA SuperAnswer ==
    ASSUME Inv, pending # None, Site \in SuperSites
    PROVE  LET m == Resolve(SuperClass(HolderOf[Site]), Selector)
           IN Answers[pending] = IF m # None THEN m ELSE Failed
  <1>1. pending \in Sends
    BY PendingSend DEF Inv
  <1> QED BY <1>1 DEF Answers, Answer, Site, Selector

LEMMA ExecuteAnswers ==
    ASSUME Inv, Execute
    PROVE  pending # None /\ pending' = None /\ answered' = Answers[pending]
  <1>1. CASE CachedSend
    <2>1. AtSend /\ LayoutOf(Receiver)[1] = Class
      BY <1>1 DEF CachedSend, LayoutOf, Class
    <2>2. PICK n \in NodesFor(Site, LayoutOf(Receiver)) : Run(n.method)
      BY <1>1 DEF CachedSend
    <2>3. n.method = Answers[pending]
      BY <2>1, NodeAnswer
    <2> QED BY <2>1, <2>2, <2>3 DEF AtSend, Run
  <1>2. CASE GenericSend
    BY <1>2, LookupIsProper, OrdinaryAnswer DEF GenericSend, AtSend, Run
  <1>3. CASE CachedAfterUpdate
    <2>1. AtSend /\ UpdateReceiver /\ UNCHANGED <<newest, retired>>
      BY <1>3 DEF CachedAfterUpdate, Missed
    <2>2. UpdatedLayout[1] = Class
      BY <2>1, ReceiverUpdated DEF AtSend
    <2>3. PICK n \in NodesFor(Site, UpdatedLayout) : Run(n.method)
      BY <1>3 DEF CachedAfterUpdate
    <2>4. n.method = Answers[pending]
      BY <2>1, <2>2, NodeAnswer
    <2> QED BY <2>1, <2>3, <2>4 DEF AtSend, Run
  <1>4. CASE AddNode \/ BecomeMegamorphic
    BY <1>4, LookupIsProper, OrdinaryAnswer
       DEF AddNode, BecomeMegamorphic, MissedAgain, Missed, AtSend, Run
  <1>5. CASE SuperSend
    <2> DEFINE super == SuperClass(HolderOf[Site])
    <2>1. /\ pending # None /\ Site \in SuperSites /\ pending' = None
          /\ answered' = IF superMethod[Site] # None THEN superMethod[Site]
                         ELSE IF LookupInvokable(super, Selector) = None THEN Failed
                         ELSE LookupInvokable(super, Selector)
      BY <1>5 DEF SuperSend, Run
    <2>2. super \in Classes /\ Selector \in Selectors
      BY <2>1, Superclass, PendingSend DEF Inv
    <2>3. LookupInvokable(super, Selector) = Resolve(super, Selector)
      BY <2>2, LookupIsResolve DEF Inv, TypeOK
    <2>4. superMethod[Site] \in {None, Resolve(super, Selector)}
      BY <2>1 DEF Inv, SupersTellTheTruth, Selector
    <2> QED BY <2>1, <2>3, <2>4, SuperAnswer
  <1> QED BY <1>1, <1>2, <1>3, <1>4, <1>5 DEF Execute

LEMMA StepRefines ==
    ASSUME Inv, [Next]_vars
    PROVE  [Dispatch!MDNext]_(Dispatch!mdVars)
  <1> USE DEF Dispatch!MDNext, Dispatch!mdVars
  <1>1. CASE Execute
    BY <1>1, ExecuteAnswers DEF Dispatch!Dispatch, Answers
  <1>2. ASSUME NEW send \in Sends, Begin(send)
        PROVE  Dispatch!MDNext
    BY <1>2 DEF Begin, Dispatch!Send
  <1>3. CASE ChangeLayouts
    BY <1>3 DEF ChangeLayouts, TakeNewestLayout, WriteNewLayout, WriteFails
  <1>4. CASE UNCHANGED vars
    BY <1>4 DEF vars
  <1> QED BY <1>1, <1>2, <1>3, <1>4 DEF Next

(* Sends with chains of dispatch nodes run the methods that MethodDispatch   *)
(* says.                                                                     *)
THEOREM Refinement == Spec => DispatchSafety
  <1>1. Init => Dispatch!MDInit
    BY DEF Init, Dispatch!MDInit
  <1>2. Inv /\ [Next]_vars => [Dispatch!MDNext]_(Dispatch!mdVars)
    BY StepRefines
  <1> QED BY <1>1, <1>2, Invariance, PTL DEF Spec, DispatchSafety, Dispatch!MDSafety
===============================================================================
