----------------------------- MODULE MCHierarchy -----------------------------
(***************************************************************************)
(* A hierarchy of three classes for TLC: foo is inherited by Mid and       *)
(* overridden in Leaf, bar is defined in Mid, so that instances of Top do  *)
(* not understand it, and Leaf has a doesNotUnderstand:arguments: of its   *)
(* own.  Classes with two instances can have one with an old layout.       *)
(***************************************************************************)
EXTENDS Sequences, TLC

CONSTANTS Top, Mid, Leaf,          \* classes
          foo, bar, dnu,           \* selectors
          top1, top2, mid1, mid2, leaf,  \* objects
          sendBar, superFoo, superBar  \* send sites

MCChain == Top :> <<Top>> @@ Mid :> <<Mid, Top>> @@ Leaf :> <<Leaf, Mid, Top>>
MCDefines == Top :> {foo, dnu} @@ Mid :> {bar} @@ Leaf :> {foo, dnu}
MCClassOf == top1 :> Top @@ top2 :> Top @@ mid1 :> Mid @@ mid2 :> Mid @@ leaf :> Leaf
MCLayoutsOf == Top :> 2 @@ Mid :> 2 @@ Leaf :> 1
MCSelectorOf == sendBar :> bar @@ superFoo :> foo @@ superBar :> bar
MCHolderOf == superFoo :> Leaf @@ superBar :> Mid
Instances == Permutations({top1, top2}) \cup Permutations({mid1, mid2})
===============================================================================
