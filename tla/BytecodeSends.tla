---------------------------- MODULE BytecodeSends ----------------------------
(***************************************************************************)
(* Message sends of the bytecode interpreters (interpreter_tier1.py,       *)
(* interpreter_tier2.py).  A send bytecode has two cache entries, kept at  *)
(* its own index and at that of its literal; an entry holds a layout and   *)
(* what lookup found for it, None included.  When nothing was found and    *)
(* the layout of the receiver is old, the receiver gets the newest layout, *)
(* entries of old layouts are removed and the bytecode is executed again.  *)
(* A super send keeps the method it found in the first entry and rewrites  *)
(* itself to q_super_send_*, which runs the method without any test.       *)
(*                                                                         *)
(* A send bytecode takes two steps: _lookup, and what is done with the     *)
(* result, which the local variables of the handler hold in between.       *)
(***************************************************************************)
EXTENDS SendSites

VARIABLES first,      \* site -> [layout, invokable]: the entry at the bytecode
          second,     \* the entry at the literal
          quickened,  \* the super sites that were rewritten
          local       \* layout and invokable of the handler, or None

cacheVars == <<first, second, quickened>>
vars == <<tables, newest, retired, layout, pending, answered, first, second, quickened, local>>

Entry(l, m) == [layout |-> l, invokable |-> m]
Empty == Entry(None, None)

Init == /\ InitClasses
        /\ pending = None /\ answered = None
        /\ first = [s \in Sites |-> Empty]
        /\ second = [s \in Sites |-> Empty]
        /\ quickened = {}
        /\ local = None

-------------------------------------------------------------------------------
Found(l, m) == local' = Entry(l, m)

(* _lookup: the first entry; an empty first entry; the second entry.         *)
HitFirst(l) == /\ first[Site].layout = l
               /\ Found(l, first[Site].invokable)
               /\ UNCHANGED <<first, second, tables>>

(* Mutant: the arguments of set_inline_cache swapped.                        *)
FillFirstSwapped(l) == /\ first[Site].layout = None
                       /\ Found(l, LookupInvokable(Class, Selector))
                       /\ first' = [first EXCEPT ![Site] =
                                      Entry(LookupInvokable(Class, Selector), l)]
                       /\ LookupsChangeTables(Class, {Selector})
                       /\ UNCHANGED second

FillFirst(l) == /\ first[Site].layout = None
                /\ Found(l, LookupInvokable(Class, Selector))
                /\ first' = [first EXCEPT ![Site] = Entry(l, LookupInvokable(Class, Selector))]
                /\ LookupsChangeTables(Class, {Selector})
                /\ UNCHANGED second

(* Mutant: a hit in the second entry runs the method of the first.           *)
HitSecondReadFirst(l) == /\ first[Site].layout \notin {l, None}
                         /\ second[Site].layout = l
                         /\ Found(l, first[Site].invokable)
                         /\ UNCHANGED <<first, second, tables>>

HitSecond(l) == /\ first[Site].layout \notin {l, None}
                /\ second[Site].layout = l
                /\ Found(l, second[Site].invokable)
                /\ UNCHANGED <<first, second, tables>>

MissBoth(l) == /\ first[Site].layout \notin {l, None}
               /\ second[Site].layout # l
               /\ Found(l, LookupInvokable(Class, Selector))
               /\ second' = IF second[Site].layout = None
                            THEN [second EXCEPT ![Site] = Entry(l, LookupInvokable(Class, Selector))]
                            ELSE second
               /\ LookupsChangeTables(Class, {Selector})
               /\ UNCHANGED first

Lookup == /\ pending # None /\ local = None
          /\ Site \notin SuperSites
          /\ LET l == LayoutOf(Receiver)
             IN HitFirst(l) \/ FillFirst(l) \/ HitSecond(l) \/ MissBoth(l)
          /\ UNCHANGED <<newest, retired, layout, pending, answered, quickened>>

Invoke == /\ local # None
          /\ local.invokable # None
          /\ Run(local.invokable)
          /\ local' = None
          /\ UNCHANGED <<classVars, cacheVars>>

Invalidate(entry) == IF entry.layout # None /\ ~IsLatest(entry.layout) THEN Empty ELSE entry

(* Mutant: the caches are emptied, the receiver keeps its layout.            *)
RetryWithoutUpdate ==
    /\ local # None
    /\ local.invokable = None /\ ~IsLatest(local.layout)
    /\ first' = [first EXCEPT ![Site] = Invalidate(@)]
    /\ second' = [second EXCEPT ![Site] = Invalidate(@)]
    /\ local' = None
    /\ UNCHANGED <<tables, newest, retired, layout, pending, answered, quickened>>

(* _update_object_and_invalidate_old_caches; next_bc_idx = current_bc_idx.   *)
UpdateAndRetry ==
    /\ local # None
    /\ local.invokable = None /\ ~IsLatest(local.layout)
    /\ UpdateLayoutToMatchClass(Receiver)
    /\ first' = [first EXCEPT ![Site] = Invalidate(@)]
    /\ second' = [second EXCEPT ![Site] = Invalidate(@)]
    /\ local' = None
    /\ UNCHANGED <<tables, newest, retired, pending, answered, quickened>>

(* _send_does_not_understand: its lookup uses no cache.                      *)
NotUnderstood ==
    /\ local # None
    /\ local.invokable = None /\ IsLatest(local.layout)
    /\ Run(LookupInvokable(Class, DoesNotUnderstand))
    /\ LookupsChangeTables(Class, {DoesNotUnderstand})
    /\ local' = None
    /\ UNCHANGED <<newest, retired, layout, cacheVars>>

(* Mutant: the super send rewrites itself before it tests what it found.     *)
SuperSendQuickenFirst ==
    /\ pending # None /\ Site \in SuperSites \ quickened
    /\ LET super == SuperClass(HolderOf[Site])
           m == LookupInvokable(super, Selector)
       IN /\ LookupsChangeTables(super, {Selector})
          /\ first' = [first EXCEPT ![Site] = Entry(NewestLayout(super), m)]
          /\ quickened' = quickened \cup {Site}
          /\ Run(IF m = None THEN Failed ELSE m)
    /\ UNCHANGED <<newest, retired, layout, second, local>>

(* _do_super_send.  None has no number of arguments: the handler fails       *)
(* before it asks whether a method was found.                                *)
SuperSend ==
    /\ pending # None /\ Site \in SuperSites \ quickened
    /\ LET super == SuperClass(HolderOf[Site])
           m == LookupInvokable(super, Selector)
       IN /\ LookupsChangeTables(super, {Selector})
          /\ IF m = None
             THEN Run(Failed) /\ UNCHANGED <<first, quickened>>
             ELSE /\ Run(m)
                  /\ first' = [first EXCEPT ![Site] = Entry(NewestLayout(super), m)]
                  /\ quickened' = quickened \cup {Site}
    /\ UNCHANGED <<newest, retired, layout, second, local>>

(* q_super_send_1, _2, _3, _4, _n.                                           *)
QuickSuperSend == /\ pending # None /\ Site \in quickened
                  /\ Run(first[Site].invokable)
                  /\ UNCHANGED <<classVars, cacheVars, local>>

(* The interpreter loop executes the current bytecode.                       *)
Execute == Lookup \/ Invoke \/ UpdateAndRetry \/ NotUnderstood \/ SuperSend \/ QuickSuperSend

Next == \/ Execute
        \/ (\/ \E send \in Sends : Begin(send)
            \/ ChangeLayouts) /\ UNCHANGED <<cacheVars, local>>

(* There is one thread and nothing to wait for in a send: the loop goes on.  *)
Spec == Init /\ [][Next]_vars /\ WF_vars(Execute)
-------------------------------------------------------------------------------
(* Properties.                                                               *)

Entries(layouts) == [layout : layouts, invokable : Methods \cup {None}]

(* Types.  A layout that is not the newest of its class is not the latest.   *)
TypeOK == /\ tables \in Tables
          /\ newest \in [Classes -> Nat]
          /\ retired \subseteq Layouts
          /\ layout \in [Objects -> Nat]
          /\ pending \in Sends \cup {None}
          /\ answered \in Methods \cup {None, Failed}
          /\ first \in [Sites -> Entries(Layouts \cup {None})]
          /\ second \in [Sites -> Entries(Layouts \cup {None})]
          /\ quickened \subseteq SuperSites
          /\ local \in Entries(Layouts) \cup {None}

EntryTellsTheTruth(site, entry) ==
    entry.layout # None => entry.invokable = Resolve(entry.layout[1], SelectorOf[site])

(* A cache entry says for its layout what the class of the layout has for    *)
(* the message, nothing included, although entries are filled, emptied and   *)
(* filled again for other layouts; the entry of a rewritten super send holds *)
(* the method of the superclass.                                             *)
CachesTellTheTruth ==
    /\ \A s \in Sites \ SuperSites :
          /\ EntryTellsTheTruth(s, first[s])
          /\ EntryTellsTheTruth(s, second[s])
    /\ \A s \in quickened :
          /\ first[s].invokable # None
          /\ EntryTellsTheTruth(s, first[s])

(* A send is retried at most once: when a bytecode is executed again because *)
(* the receiver had an old layout, the receiver has a layout now that is the *)
(* latest.  It needs that layouts are retired only by their successors.      *)
RetriedOnce == [][UpdateAndRetry => IsLatest(LayoutOf(Receiver)')]_vars

(* A send runs the method MethodDispatch says, whatever the caches hold.     *)
Dispatch == INSTANCE MethodDispatch
                WITH Answers <- [send \in Sends |-> Answer(send)],
                     NoSend <- None, NoAnswer <- None
DispatchSafety == Dispatch!MDSafety

(* A send that was begun is answered: retrying the bytecode does not go on   *)
(* for ever.                                                                 *)
EverySendIsAnswered == \A send \in Sends : pending = send ~> pending = None
===============================================================================
