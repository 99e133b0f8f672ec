------------------------------- MODULE AstSends -------------------------------
(***************************************************************************)
(* Message sends of the AST interpreter (interpreter/ast/nodes/dispatch.py,*)
(* message/generic_node.py, message/super_node.py).  A send node has a     *)
(* chain of dispatch nodes, one per layout, the youngest first.  A miss    *)
(* gives a receiver of an old layout the newest one, drops the nodes of    *)
(* old layouts and adds a node; when INLINE_CACHE_SIZE nodes are left, the *)
(* chain is replaced by a generic node for good.  A node for a layout      *)
(* whose class does not understand the message remembers the method of     *)
(* doesNotUnderstand:arguments:.  A super node remembers its method.       *)
(*                                                                         *)
(* Nothing runs between the lookup and the invocation: an action is a send.*)
(***************************************************************************)
EXTENDS SendSites

CONSTANT InlineCacheSize  \* INLINE_CACHE_SIZE

ASSUME InlineCacheAssumption == InlineCacheSize \in Nat \ {0}

VARIABLES chain,       \* site -> its dispatch nodes
          megamorphic, \* the sites whose only node is a GenericDispatchNode
          superMethod  \* super site -> the method it remembers, or None

nodeVars == <<chain, megamorphic, superMethod>>
vars == <<tables, newest, retired, layout, pending, answered, chain, megamorphic, superMethod>>

DispatchNode(l, m) == [layout |-> l, method |-> m]

Init == /\ InitClasses
        /\ pending = None /\ answered = None
        /\ chain = [s \in Sites |-> <<>>]
        /\ megamorphic = {}
        /\ superMethod = [s \in SuperSites |-> None]

-------------------------------------------------------------------------------
Nodes(site) == {chain[site][i] : i \in 1 .. Len(chain[site])}
NodesFor(site, l) == {n \in Nodes(site) : n.layout = l}

(* Mutant: a message that is not understood is dispatched like any other.    *)
MethodToRunUnchecked == LookupInvokable(Class, Selector)

(* What runs for the message in the class of the receiver, and the lookups   *)
(* it takes to find out.                                                     *)
MethodToRun == IF LookupInvokable(Class, Selector) # None
               THEN LookupInvokable(Class, Selector)
               ELSE LookupInvokable(Class, DoesNotUnderstand)
Searched == IF LookupInvokable(Class, Selector) # None
            THEN {Selector} ELSE {Selector, DoesNotUnderstand}

AtSend == pending # None /\ Site \notin SuperSites

(* _lookup finds a node for the layout.                                      *)
CachedSend == /\ AtSend
              /\ \E n \in NodesFor(Site, LayoutOf(Receiver)) : Run(n.method)
              /\ UNCHANGED <<classVars, nodeVars>>

(* Mutant: the generic node does not ask whether a method was found.         *)
GenericSendUnchecked == /\ AtSend
                        /\ Site \in megamorphic
                        /\ Run(LookupInvokable(Class, Selector))
                        /\ LookupsChangeTables(Class, Searched)
                        /\ UNCHANGED <<newest, retired, layout, nodeVars>>

(* _lookup finds the generic node.                                           *)
GenericSend == /\ AtSend
               /\ Site \in megamorphic
               /\ Run(MethodToRun)
               /\ LookupsChangeTables(Class, Searched)
               /\ UNCHANGED <<newest, retired, layout, nodeVars>>

-------------------------------------------------------------------------------
(* _specialize.                                                              *)

Missed == /\ AtSend
          /\ Site \notin megamorphic
          /\ NodesFor(Site, LayoutOf(Receiver)) = {}

(* The layout of the receiver once it matches its class.                     *)
UpdatedLayout == IF IsLatest(LayoutOf(Receiver)) THEN LayoutOf(Receiver)
                 ELSE NewestLayout(Class)
UpdateReceiver == IF IsLatest(LayoutOf(Receiver)) THEN UNCHANGED layout
                  ELSE UpdateLayoutToMatchClass(Receiver)

(* Mutant: the nodes of old layouts are kept and counted.                    *)
AllNodes(nodes) == nodes

(* _get_cache_size_and_drop_old_entries: what is left after the first i.     *)
Kept(nodes) ==
    LET kept[i \in 0 .. Len(nodes)] ==
            IF i = 0 THEN <<>>
            ELSE IF IsLatest(nodes[i].layout) THEN Append(kept[i - 1], nodes[i])
            ELSE kept[i - 1]
    IN kept
LatestOnly(nodes) == Kept(nodes)[Len(nodes)]

CachedAfterUpdate == /\ Missed
                     /\ \E n \in NodesFor(Site, UpdatedLayout) : Run(n.method)
                     /\ UpdateReceiver
                     /\ UNCHANGED <<tables, newest, retired, nodeVars>>

(* Mutant: the chain is not searched again for the new layout.               *)
MissedOnce == /\ Missed
              /\ UpdateReceiver
              /\ Run(MethodToRun)
              /\ LookupsChangeTables(Class, Searched)
              /\ UNCHANGED <<newest, retired, superMethod>>

MissedAgain == /\ Missed
               /\ NodesFor(Site, UpdatedLayout) = {}
               /\ UpdateReceiver
               /\ Run(MethodToRun)
               /\ LookupsChangeTables(Class, Searched)
               /\ UNCHANGED <<newest, retired, superMethod>>

AddNode == /\ MissedAgain
           /\ Len(LatestOnly(chain[Site])) < InlineCacheSize
           /\ chain' = [chain EXCEPT ![Site] =
                          <<DispatchNode(UpdatedLayout, MethodToRun)>> \o LatestOnly(@)]
           /\ UNCHANGED megamorphic

BecomeMegamorphic == /\ MissedAgain
                     /\ Len(LatestOnly(chain[Site])) >= InlineCacheSize
                     /\ chain' = [chain EXCEPT ![Site] = <<>>]
                     /\ megamorphic' = megamorphic \cup {Site}

-------------------------------------------------------------------------------
(* A super node.  It raises "Not yet implemented" when there is no method.   *)
SuperSend ==
    /\ pending # None /\ Site \in SuperSites
    /\ LET super == SuperClass(HolderOf[Site])
           m == LookupInvokable(super, Selector)
       IN IF superMethod[Site] # None
          THEN Run(superMethod[Site]) /\ UNCHANGED <<tables, superMethod>>
          ELSE /\ LookupsChangeTables(super, {Selector})
               /\ Run(IF m = None THEN Failed ELSE m)
               /\ superMethod' = [superMethod EXCEPT ![Site] = m]
    /\ UNCHANGED <<newest, retired, layout, chain, megamorphic>>

Execute == \/ CachedSend \/ GenericSend
           \/ CachedAfterUpdate \/ AddNode \/ BecomeMegamorphic
           \/ SuperSend

Next == \/ Execute
        \/ (\/ \E send \in Sends : Begin(send)
            \/ ChangeLayouts) /\ UNCHANGED nodeVars

Spec == Init /\ [][Next]_vars

-------------------------------------------------------------------------------
(* Properties.                                                               *)

(* Types.                                                                    *)
TypeOK == /\ tables \in Tables
          /\ newest \in [Classes -> Nat]
          /\ retired \subseteq Layouts
          /\ layout \in [Objects -> Nat]
          /\ pending \in Sends \cup {None}
          /\ answered \in Methods \cup {None, Failed}
          /\ chain \in [Sites -> Seq([layout : Layouts, method : Methods])]
          /\ megamorphic \subseteq Sites
          /\ superMethod \in [SuperSites -> Methods \cup {None}]

(* A chain never grows past INLINE_CACHE_SIZE and never has two nodes for a  *)
(* layout, whatever layouts came and went and however often receivers of old *)
(* layouts were updated on the way; a generic node has no successor.         *)
ChainsWellFormed ==
    \A s \in Sites :
        /\ Len(chain[s]) <= InlineCacheSize
        /\ \A i, j \in 1 .. Len(chain[s]) : chain[s][i].layout = chain[s][j].layout => i = j
        /\ s \in megamorphic => chain[s] = <<>>

(* Instances of the same class never make a site megamorphic, however often  *)
(* the layout of the class changes: a site that turns megamorphic remembered *)
(* INLINE_CACHE_SIZE classes, and meets another.                             *)
MegamorphicOnlyByClasses ==
    [][\A s \in megamorphic' \ megamorphic :
          LET remembered == {n.layout[1] : n \in {m \in Nodes(s) : IsLatest(m.layout)}}
          IN /\ Cardinality(remembered) = InlineCacheSize
             /\ Class \notin remembered]_vars

(* A send runs the method MethodDispatch says, whatever the chain holds,     *)
(* even when a failed assertion left the class with a retired layout.        *)
Dispatch == INSTANCE MethodDispatch
                WITH Answers <- [send \in Sends |-> Answer(send)],
                     NoSend <- None, NoAnswer <- None
DispatchSafety == Dispatch!MDSafety
===============================================================================
