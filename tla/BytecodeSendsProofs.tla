-------------------------- MODULE BytecodeSendsProofs --------------------------
(***************************************************************************)
(* Proofs about BytecodeSends, for every hierarchy of classes, every set   *)
(* of send sites and every number of layouts: the caches of a send do not  *)
(* change which method it runs.                                            *)
(***************************************************************************)
EXTENDS BytecodeSends, SendSitesProofs

(* What the handler found between its two steps.                             *)
LocalTellsTheTruth ==
    local # None => /\ pending # None
                    /\ Site \in Sites \ SuperSites
                    /\ local.layout[1] = Class
                    /\ local.invokable = Resolve(Class, Selector)

(* A rewritten super send keeps the layout of the superclass.                *)
SuperEntries ==
    \A s \in quickened : /\ first[s].layout # None
                         /\ first[s].layout[1] = SuperClass(HolderOf[s])

Inv == /\ TypeOK
       /\ TablesTellTheTruth
       /\ CachesTellTheTruth
       /\ LocalTellsTheTruth
       /\ SuperEntries

-------------------------------------------------------------------------------
LEMMA PendingSend ==
    ASSUME TypeOK, pending # None
    PROVE  /\ pending \in Sends
           /\ Site \in Sites /\ Receiver \in Objects
           /\ Class \in Classes /\ Selector \in Selectors
  <1>1. pending \in Sends
    BY DEF TypeOK
  <1> QED BY <1>1, SendInProgress

LEMMA LayoutType ==
    ASSUME TypeOK
    PROVE  /\ \A o \in Objects : LayoutOf(o) \in Layouts /\ LayoutOf(o)[1] = ClassOf[o]
           /\ \A c \in Classes : NewestLayout(c) \in Layouts /\ NewestLayout(c)[1] = c
           /\ \A l \in Layouts : l # None /\ l[1] \in Classes
  <1>1. \A o \in Objects : LayoutOf(o) \in Layouts /\ LayoutOf(o)[1] = ClassOf[o]
    BY SiteAssumption DEF TypeOK, LayoutOf, Layouts
  <1>2. \A c \in Classes : NewestLayout(c) \in Layouts /\ NewestLayout(c)[1] = c
    BY DEF TypeOK, NewestLayout, Layouts
  <1>3. \A l \in Layouts : l # None /\ l[1] \in Classes
    BY SiteAssumption DEF Layouts
  <1> QED BY <1>1, <1>2, <1>3

LEMMA InitInv == Init => Inv
  <1> SUFFICES ASSUME Init PROVE Inv
    OBVIOUS
  <1> USE DEF Init, InitClasses
  <1>1. TypeOK
    <2>1. tables \in Tables
      BY InitialTables
    <2>2. Empty \in Entries(Layouts \cup {None})
      BY DEF Empty, Entry, Entries
    <2>3. newest \in [Classes -> Nat] /\ layout \in [Objects -> Nat]
      OBVIOUS
    <2> QED BY <2>1, <2>2, <2>3 DEF TypeOK
  <1>2. TablesTellTheTruth
    BY InitialTables
  <1>3. CachesTellTheTruth /\ LocalTellsTheTruth /\ SuperEntries
    BY SiteAssumption
       DEF CachesTellTheTruth, EntryTellsTheTruth, LocalTellsTheTruth, SuperEntries, Empty, Entry
  <1> QED BY <1>1, <1>2, <1>3 DEF Inv

-------------------------------------------------------------------------------
(* Inv is preserved, one lemma per action.                                   *)

(* What _lookup finds and what it may write, whichever entry is used.        *)
LEMMA LookupFinds ==
    ASSUME Inv, Lookup
    PROVE  /\ local' = Entry(LayoutOf(Receiver), Resolve(Class, Selector))
           /\ first' = first \/ first' = [first EXCEPT ![Site] = local']
           /\ second' = second \/ second' = [second EXCEPT ![Site] = local']
           /\ (tables \in Tables)' /\ TablesTellTheTruth'
  <1> DEFINE l == LayoutOf(Receiver)
             m == Resolve(Class, Selector)
  <1>1. /\ Site \in Sites \ SuperSites /\ Receiver \in Objects
        /\ Class \in Classes /\ Selector \in Selectors
    BY PendingSend DEF Inv, Lookup
  <1>2. l \in Layouts /\ l # None /\ l[1] = Class
    BY <1>1, LayoutType DEF Inv, Class
  <1>3. /\ first[Site].layout = l => first[Site].invokable = m
        /\ second[Site].layout = l => second[Site].invokable = m
    BY <1>1, <1>2 DEF Inv, CachesTellTheTruth, EntryTellsTheTruth, Selector
  <1>4. tables \in Tables /\ TablesTellTheTruth
    BY DEF Inv, TypeOK
  <1>5. LookupInvokable(Class, Selector) = m
    BY <1>1, <1>4, LookupIsResolve
  <1>6. CASE HitFirst(l)
    BY <1>3, <1>4, <1>6 DEF HitFirst, Found, TablesTellTheTruth
  <1>7. CASE FillFirst(l)
    <2>1. (tables \in Tables)' /\ TablesTellTheTruth'
      BY <1>1, <1>4, <1>7, CopiesAreTrue DEF FillFirst
    <2> QED BY <1>5, <1>7, <2>1 DEF FillFirst, Found
  <1>8. CASE HitSecond(l)
    BY <1>3, <1>4, <1>8 DEF HitSecond, Found, TablesTellTheTruth
  <1>9. CASE MissBoth(l)
    <2>1. (tables \in Tables)' /\ TablesTellTheTruth'
      BY <1>1, <1>4, <1>9, CopiesAreTrue DEF MissBoth
    <2> QED BY <1>5, <1>9, <2>1 DEF MissBoth, Found
  <1> QED BY <1>6, <1>7, <1>8, <1>9 DEF Lookup

(* A site may replace an entry by one that tells the truth.                  *)
LEMMA EntriesReplaced ==
    ASSUME NEW cache \in [Sites -> Entries(Layouts \cup {None})],
           NEW site \in Sites, NEW e \in Entries(Layouts \cup {None}),
           \A s \in Sites \ SuperSites : EntryTellsTheTruth(s, cache[s]),
           site \notin SuperSites => EntryTellsTheTruth(site, e)
    PROVE  /\ [cache EXCEPT ![site] = e] \in [Sites -> Entries(Layouts \cup {None})]
           /\ \A s \in Sites \ SuperSites :
                 EntryTellsTheTruth(s, [cache EXCEPT ![site] = e][s])
           /\ \A s \in Sites : s # site => [cache EXCEPT ![site] = e][s] = cache[s]
           /\ [cache EXCEPT ![site] = e][site] = e
  <1>1. \A s \in Sites : [cache EXCEPT ![site] = e][s] = IF s = site THEN e ELSE cache[s]
    OBVIOUS
  <1>2. [cache EXCEPT ![site] = e] \in [Sites -> Entries(Layouts \cup {None})]
    OBVIOUS
  <1> QED BY <1>1, <1>2

(* An action that leaves super sites alone keeps the caches true.            *)
LEMMA CachesStayTrue ==
    ASSUME Inv, UNCHANGED quickened,
           \A s \in Sites \ SuperSites : /\ EntryTellsTheTruth(s, first'[s])
                                         /\ EntryTellsTheTruth(s, second'[s]),
           \A s \in SuperSites : first'[s] = first[s]
    PROVE  CachesTellTheTruth' /\ SuperEntries'
  <1>1. quickened \subseteq SuperSites
    BY DEF Inv, TypeOK
  <1>2. \A s \in quickened : first'[s] = first[s]
    BY <1>1
  <1>3. CachesTellTheTruth'
    BY <1>2 DEF Inv, CachesTellTheTruth, EntryTellsTheTruth
  <1>4. SuperEntries'
    BY <1>2 DEF Inv, SuperEntries
  <1> QED BY <1>3, <1>4

LEMMA LookupInv == ASSUME Inv, Lookup PROVE Inv'
  <1>1. /\ pending # None
        /\ Site \in Sites \ SuperSites /\ Receiver \in Objects
        /\ Class \in Classes /\ Selector \in Selectors
    BY PendingSend DEF Inv, Lookup
  <1> DEFINE l == LayoutOf(Receiver)
  <1>2. l \in Layouts /\ l # None /\ l[1] = Class
    BY <1>1, LayoutType DEF Inv, Class
  <1> DEFINE e == Entry(l, Resolve(Class, Selector))
  <1>3. e \in Entries(Layouts) /\ e \in Entries(Layouts \cup {None})
    BY <1>1, <1>2, ResolveType DEF Entry, Entries
  <1>4. EntryTellsTheTruth(Site, e)
    BY <1>2 DEF EntryTellsTheTruth, Entry, Selector
  <1>5. /\ local' = e
        /\ first' = first \/ first' = [first EXCEPT ![Site] = e]
        /\ second' = second \/ second' = [second EXCEPT ![Site] = e]
        /\ (tables \in Tables)' /\ TablesTellTheTruth'
    BY LookupFinds
  <1>6. UNCHANGED <<newest, retired, layout, pending, answered, quickened>>
    BY DEF Lookup
  <1>7. /\ first \in [Sites -> Entries(Layouts \cup {None})]
        /\ second \in [Sites -> Entries(Layouts \cup {None})]
        /\ \A s \in Sites \ SuperSites : /\ EntryTellsTheTruth(s, first[s])
                                         /\ EntryTellsTheTruth(s, second[s])
    BY DEF Inv, TypeOK, CachesTellTheTruth
  <1> HIDE DEF e, l
  <1>8. /\ first' \in [Sites -> Entries(Layouts \cup {None})]
        /\ \A s \in Sites \ SuperSites : EntryTellsTheTruth(s, first'[s])
        /\ \A s \in SuperSites : first'[s] = first[s]
    <2>1. CASE first' = first
      BY <1>7, <2>1
    <2>2. CASE first' = [first EXCEPT ![Site] = e]
      <3> DEFINE new == [first EXCEPT ![Site] = e]
      <3>1. /\ new \in [Sites -> Entries(Layouts \cup {None})]
            /\ \A s \in Sites \ SuperSites : EntryTellsTheTruth(s, new[s])
            /\ \A s \in Sites : s # Site => new[s] = first[s]
        BY <1>1, <1>3, <1>4, <1>7, EntriesReplaced
      <3>2. first' = new
        BY <2>2
      <3> HIDE DEF new
      <3> QED BY <1>1, <3>1, <3>2, SiteAssumption
    <2> QED BY <1>5, <2>1, <2>2
  <1>9. /\ second' \in [Sites -> Entries(Layouts \cup {None})]
        /\ \A s \in Sites \ SuperSites : EntryTellsTheTruth(s, second'[s])
    <2>1. CASE second' = second
      BY <1>7, <2>1
    <2>2. CASE second' = [second EXCEPT ![Site] = e]
      <3> DEFINE new == [second EXCEPT ![Site] = e]
      <3>1. /\ new \in [Sites -> Entries(Layouts \cup {None})]
            /\ \A s \in Sites \ SuperSites : EntryTellsTheTruth(s, new[s])
            /\ \A s \in Sites : s # Site => new[s] = second[s]
        BY <1>1, <1>3, <1>4, <1>7, EntriesReplaced
      <3>2. second' = new
        BY <2>2
      <3> HIDE DEF new
      <3> QED BY <1>1, <3>1, <3>2, SiteAssumption
    <2> QED BY <1>5, <2>1, <2>2
  <1>10. TypeOK'
    BY <1>3, <1>5, <1>6, <1>8, <1>9 DEF Inv, TypeOK
  <1>11. CachesTellTheTruth' /\ SuperEntries'
    BY <1>6, <1>8, <1>9, CachesStayTrue
  <1>12. LocalTellsTheTruth'
    <2>1. local'.layout = l /\ local'.invokable = Resolve(Class, Selector)
      BY <1>5 DEF e, Entry
    <2>2. pending' = pending
      BY <1>6
    <2> QED BY <1>1, <1>2, <2>1, <2>2
            DEF LocalTellsTheTruth, Site, Class, Receiver, Selector
  <1> QED BY <1>5, <1>10, <1>11, <1>12 DEF Inv

(* An action that leaves the tables and the caches as they are.              *)
LEMMA UnchangedCaches ==
    ASSUME Inv, UNCHANGED <<tables, first, second, quickened>>
    PROVE  TablesTellTheTruth' /\ CachesTellTheTruth' /\ SuperEntries'
  BY DEF Inv, TablesTellTheTruth, CachesTellTheTruth, EntryTellsTheTruth, SuperEntries

LEMMA InvokeInv == ASSUME Inv, Invoke PROVE Inv'
  <1>1. /\ pending' = None /\ local' = None /\ answered' = local.invokable
        /\ UNCHANGED <<tables, newest, retired, layout, first, second, quickened>>
    BY DEF Invoke, Run, classVars, cacheVars
  <1>2. local \in Entries(Layouts)
    BY DEF Inv, TypeOK, Invoke
  <1>3. local.invokable \in Methods \cup {None}
    BY <1>2 DEF Entries
  <1>4. TypeOK'
    BY <1>1, <1>3 DEF Inv, TypeOK
  <1>5. LocalTellsTheTruth'
    BY <1>1 DEF LocalTellsTheTruth
  <1> QED BY <1>1, <1>4, <1>5, UnchangedCaches DEF Inv

LEMMA UpdateAndRetryInv == ASSUME Inv, UpdateAndRetry PROVE Inv'
  <1>1. /\ pending # None /\ Site \in Sites \ SuperSites
        /\ Receiver \in Objects /\ Class \in Classes
    BY PendingSend DEF Inv, UpdateAndRetry, LocalTellsTheTruth
  <1>2. /\ local' = None
        /\ UNCHANGED <<tables, newest, retired, pending, answered, quickened>>
        /\ layout' = [layout EXCEPT ![Receiver] = newest[Class]]
        /\ first' = [first EXCEPT ![Site] = Invalidate(first[Site])]
        /\ second' = [second EXCEPT ![Site] = Invalidate(second[Site])]
    BY DEF UpdateAndRetry, UpdateLayoutToMatchClass, Class
  <1>3. /\ first \in [Sites -> Entries(Layouts \cup {None})]
        /\ second \in [Sites -> Entries(Layouts \cup {None})]
        /\ newest \in [Classes -> Nat] /\ layout \in [Objects -> Nat]
        /\ \A s \in Sites \ SuperSites : /\ EntryTellsTheTruth(s, first[s])
                                         /\ EntryTellsTheTruth(s, second[s])
    BY DEF Inv, TypeOK, CachesTellTheTruth
  <1>4. Empty \in Entries(Layouts \cup {None}) /\ EntryTellsTheTruth(Site, Empty)
    BY DEF Empty, Entry, Entries, EntryTellsTheTruth
  <1>5. ASSUME NEW cache \in [Sites -> Entries(Layouts \cup {None})],
               \A s \in Sites \ SuperSites : EntryTellsTheTruth(s, cache[s])
        PROVE  LET new == [cache EXCEPT ![Site] = Invalidate(cache[Site])]
               IN /\ new \in [Sites -> Entries(Layouts \cup {None})]
                  /\ \A s \in Sites \ SuperSites : EntryTellsTheTruth(s, new[s])
                  /\ \A s \in Sites : s # Site => new[s] = cache[s]
    <2>1. Invalidate(cache[Site]) = Empty \/ Invalidate(cache[Site]) = cache[Site]
      BY DEF Invalidate
    <2>2. /\ Invalidate(cache[Site]) \in Entries(Layouts \cup {None})
          /\ EntryTellsTheTruth(Site, Invalidate(cache[Site]))
      BY <2>1, <1>1, <1>4, <1>5
    <2> QED BY <2>2, <1>1, <1>5, EntriesReplaced
  <1>6. /\ first' \in [Sites -> Entries(Layouts \cup {None})]
        /\ \A s \in Sites \ SuperSites : EntryTellsTheTruth(s, first'[s])
        /\ \A s \in Sites : s # Site => first'[s] = first[s]
    BY <1>2, <1>3, <1>5
  <1>7. /\ second' \in [Sites -> Entries(Layouts \cup {None})]
        /\ \A s \in Sites \ SuperSites : EntryTellsTheTruth(s, second'[s])
    BY <1>2, <1>3, <1>5
  <1>8. layout' \in [Objects -> Nat]
    BY <1>1, <1>2, <1>3
  <1>9. TypeOK'
    BY <1>2, <1>6, <1>7, <1>8 DEF Inv, TypeOK
  <1>10. \A s \in SuperSites : first'[s] = first[s]
    BY <1>1, <1>6, SiteAssumption
  <1>11. CachesTellTheTruth' /\ SuperEntries'
    BY <1>2, <1>6, <1>7, <1>10, CachesStayTrue
  <1>12. TablesTellTheTruth' /\ LocalTellsTheTruth'
    BY <1>2 DEF Inv, TablesTellTheTruth, LocalTellsTheTruth
  <1> QED BY <1>9, <1>11, <1>12 DEF Inv

LEMMA NotUnderstoodInv == ASSUME Inv, NotUnderstood PROVE Inv'
  <1>1. pending # None /\ Class \in Classes
    BY PendingSend DEF Inv, NotUnderstood, LocalTellsTheTruth
  <1>2. /\ pending' = None /\ local' = None
        /\ answered' = LookupInvokable(Class, DoesNotUnderstand)
        /\ UNCHANGED <<newest, retired, layout, first, second, quickened>>
        /\ LookupsChangeTables(Class, {DoesNotUnderstand})
    BY DEF NotUnderstood, Run, cacheVars
  <1>3. tables \in Tables /\ TablesTellTheTruth /\ DoesNotUnderstand \in Selectors
    BY ClassAssumption DEF Inv, TypeOK
  <1>4. (tables \in Tables)' /\ TablesTellTheTruth'
    BY <1>1, <1>2, <1>3, CopiesAreTrue
  <1>5. answered' \in Methods
    BY <1>1, <1>2, <1>3, LookupIsResolve, SomethingRuns
  <1>6. TypeOK'
    BY <1>2, <1>4, <1>5 DEF Inv, TypeOK
  <1>7. CachesTellTheTruth' /\ SuperEntries'
    BY <1>2 DEF Inv, CachesTellTheTruth, EntryTellsTheTruth, SuperEntries
  <1>8. LocalTellsTheTruth'
    BY <1>2 DEF LocalTellsTheTruth
  <1> QED BY <1>4, <1>6, <1>7, <1>8 DEF Inv

LEMMA SuperSendInv == ASSUME Inv, SuperSend PROVE Inv'
  <1>1. /\ pending # None /\ Site \in SuperSites /\ Site \in Sites
        /\ Selector \in Selectors
    BY PendingSend DEF Inv, SuperSend
  <1> DEFINE super == SuperClass(HolderOf[Site])
             m == LookupInvokable(super, Selector)
             e == Entry(NewestLayout(super), m)
  <1>2. super \in Classes
    BY <1>1, Superclass
  <1>3. tables \in Tables /\ TablesTellTheTruth
    BY DEF Inv, TypeOK
  <1>4. m = Resolve(super, Selector) /\ m \in Methods \cup {None}
    BY <1>1, <1>2, <1>3, LookupIsResolve, ResolveType
  <1>5. (tables \in Tables)' /\ TablesTellTheTruth'
    BY <1>1, <1>2, <1>3, CopiesAreTrue DEF SuperSend
  <1>6. /\ pending' = None
        /\ UNCHANGED <<newest, retired, layout, second, local>>
        /\ \/ answered' = Failed /\ UNCHANGED <<first, quickened>>
           \/ /\ m # None /\ answered' = m
              /\ first' = [first EXCEPT ![Site] = e]
              /\ quickened' = quickened \cup {Site}
    BY DEF SuperSend, Run
  <1>7. /\ NewestLayout(super) \in Layouts
        /\ NewestLayout(super) # None /\ NewestLayout(super)[1] = super
    BY <1>2, LayoutType DEF Inv
  <1>8. /\ e \in Entries(Layouts \cup {None})
        /\ e.layout # None /\ e.layout[1] = super
        /\ e.invokable = Resolve(super, Selector)
    BY <1>4, <1>7 DEF Entry, Entries
  <1>9. EntryTellsTheTruth(Site, e)
    BY <1>8 DEF EntryTellsTheTruth, Selector
  <1>10. local = None /\ local' = None
    BY <1>1, <1>6 DEF Inv, LocalTellsTheTruth
  <1>11. LocalTellsTheTruth'
    BY <1>10 DEF LocalTellsTheTruth
  <1>12. CASE answered' = Failed /\ UNCHANGED <<first, quickened>>
    <2>1. TypeOK'
      BY <1>5, <1>6, <1>12 DEF Inv, TypeOK
    <2>2. CachesTellTheTruth' /\ SuperEntries'
      BY <1>6, <1>12 DEF Inv, CachesTellTheTruth, EntryTellsTheTruth, SuperEntries
    <2> QED BY <1>5, <1>11, <2>1, <2>2 DEF Inv
  <1>13. CASE /\ m # None /\ answered' = m
              /\ first' = [first EXCEPT ![Site] = e]
              /\ quickened' = quickened \cup {Site}
    <2>1. /\ first \in [Sites -> Entries(Layouts \cup {None})]
          /\ \A s \in Sites \ SuperSites : /\ EntryTellsTheTruth(s, first[s])
                                           /\ EntryTellsTheTruth(s, second[s])
          /\ quickened \subseteq SuperSites
      BY DEF Inv, TypeOK, CachesTellTheTruth
    <2> HIDE DEF e, m, super
    <2>2. /\ first' \in [Sites -> Entries(Layouts \cup {None})]
          /\ \A s \in Sites \ SuperSites : EntryTellsTheTruth(s, first'[s])
          /\ \A s \in Sites : s # Site => first'[s] = first[s]
          /\ first'[Site] = e
      <3> DEFINE new == [first EXCEPT ![Site] = e]
      <3>1. /\ new \in [Sites -> Entries(Layouts \cup {None})]
            /\ \A s \in Sites \ SuperSites : EntryTellsTheTruth(s, new[s])
            /\ \A s \in Sites : s # Site => new[s] = first[s]
            /\ new[Site] = e
        BY <1>1, <1>8, <1>9, <2>1, EntriesReplaced
      <3>2. first' = new
        BY <1>13
      <3> HIDE DEF new
      <3> QED BY <3>1, <3>2
    <2>3. quickened' = quickened \cup {Site} /\ quickened' \subseteq SuperSites
      BY <1>1, <1>13, <2>1
    <2>4. answered' \in Methods
      BY <1>4, <1>13
    <2>5. TypeOK'
      BY <1>5, <1>6, <1>10, <2>2, <2>3, <2>4 DEF Inv, TypeOK
    <2>6. e.invokable # None
      BY <1>4, <1>8, <1>13
    <2>7. \A s \in quickened' : s = Site \/ (s \in quickened /\ first'[s] = first[s])
      BY <2>1, <2>2, <2>3, SiteAssumption
    <2>8. \A s \in quickened : /\ first[s].invokable # None
                               /\ EntryTellsTheTruth(s, first[s])
      BY DEF Inv, CachesTellTheTruth
    <2>9. \A s \in quickened' : /\ first'[s].invokable # None
                                /\ EntryTellsTheTruth(s, first'[s])
      BY <1>9, <2>2, <2>6, <2>7, <2>8
    <2>10. CachesTellTheTruth'
      BY <1>6, <2>1, <2>2, <2>9 DEF CachesTellTheTruth, EntryTellsTheTruth
    <2>11. SuperEntries'
      BY <1>8, <2>2, <2>7 DEF Inv, SuperEntries, super
    <2> QED BY <1>5, <1>11, <2>5, <2>10, <2>11 DEF Inv
  <1> QED BY <1>6, <1>12, <1>13

LEMMA QuickSuperSendInv == ASSUME Inv, QuickSuperSend PROVE Inv'
  <1>1. /\ pending # None /\ Site \in quickened /\ quickened \subseteq SuperSites
        /\ Site \in Sites
    BY PendingSend DEF Inv, TypeOK, QuickSuperSend
  <1>2. /\ pending' = None /\ answered' = first[Site].invokable
        /\ UNCHANGED <<tables, newest, retired, layout, first, second, quickened, local>>
    BY DEF QuickSuperSend, Run, classVars, cacheVars
  <1>3. first[Site] \in Entries(Layouts \cup {None})
    BY <1>1 DEF Inv, TypeOK
  <1>4. answered' \in Methods \cup {None}
    BY <1>2, <1>3 DEF Entries
  <1>5. local = None
    BY <1>1 DEF Inv, LocalTellsTheTruth
  <1>6. TypeOK'
    BY <1>2, <1>4 DEF Inv, TypeOK
  <1>7. LocalTellsTheTruth'
    BY <1>2, <1>5 DEF LocalTellsTheTruth
  <1> QED BY <1>2, <1>6, <1>7, UnchangedCaches DEF Inv

LEMMA BeginInv ==
    ASSUME Inv, NEW send \in Sends, Begin(send), UNCHANGED <<cacheVars, local>>
    PROVE  Inv'
  <1>1. /\ pending = None /\ pending' = send /\ answered' = None
        /\ UNCHANGED <<tables, newest, retired, layout, first, second, quickened, local>>
    BY DEF Begin, classVars, cacheVars
  <1>2. local = None
    BY <1>1 DEF Inv, LocalTellsTheTruth
  <1>3. TypeOK'
    BY <1>1 DEF Inv, TypeOK
  <1>4. LocalTellsTheTruth'
    BY <1>1, <1>2 DEF LocalTellsTheTruth
  <1> QED BY <1>1, <1>3, <1>4, UnchangedCaches DEF Inv

LEMMA ChangeLayoutsInv ==
    ASSUME Inv, ChangeLayouts, UNCHANGED <<cacheVars, local>>
    PROVE  Inv'
  <1>1. PICK o \in Objects : TakeNewestLayout(o) \/ WriteNewLayout(o) \/ WriteFails(o)
    BY DEF ChangeLayouts
  <1>2. /\ pending = None
        /\ UNCHANGED <<tables, pending, answered, first, second, quickened, local>>
    BY <1>1 DEF TakeNewestLayout, WriteNewLayout, WriteFails, cacheVars
  <1>3. local = None
    BY <1>2 DEF Inv, LocalTellsTheTruth
  <1>4. LocalTellsTheTruth'
    BY <1>2, <1>3 DEF LocalTellsTheTruth
  <1>5. ClassOf[o] \in Classes /\ NewestLayout(ClassOf[o]) \in Layouts
    BY SiteAssumption, LayoutType DEF Inv
  <1>6. newest \in [Classes -> Nat] /\ layout \in [Objects -> Nat] /\ retired \subseteq Layouts
    BY DEF Inv, TypeOK
  <1>7. newest' \in [Classes -> Nat] /\ layout' \in [Objects -> Nat] /\ retired' \subseteq Layouts
    <2>1. CASE TakeNewestLayout(o)
      BY <1>5, <1>6, <2>1 DEF TakeNewestLayout, UpdateLayoutToMatchClass
    <2>2. CASE WriteNewLayout(o)
      BY <1>5, <1>6, <2>2 DEF WriteNewLayout
    <2>3. CASE WriteFails(o)
      BY <1>5, <1>6, <2>3 DEF WriteFails
    <2> QED BY <1>1, <2>1, <2>2, <2>3
  <1>8. TypeOK'
    BY <1>2, <1>7 DEF Inv, TypeOK
  <1> QED BY <1>2, <1>4, <1>8, UnchangedCaches DEF Inv

LEMMA NextInv == Inv /\ [Next]_vars => Inv'
  <1> SUFFICES ASSUME Inv, [Next]_vars PROVE Inv'
    OBVIOUS
  <1>1. CASE Lookup
    BY <1>1, LookupInv
  <1>2. CASE Invoke
    BY <1>2, InvokeInv
  <1>3. CASE UpdateAndRetry
    BY <1>3, UpdateAndRetryInv
  <1>4. CASE NotUnderstood
    BY <1>4, NotUnderstoodInv
  <1>5. CASE SuperSend
    BY <1>5, SuperSendInv
  <1>6. CASE QuickSuperSend
    BY <1>6, QuickSuperSendInv
  <1>7. ASSUME NEW send \in Sends, Begin(send), UNCHANGED <<cacheVars, local>>
        PROVE  Inv'
    BY <1>7, BeginInv
  <1>8. CASE ChangeLayouts /\ UNCHANGED <<cacheVars, local>>
    BY <1>8, ChangeLayoutsInv
  <1>9. CASE UNCHANGED vars
    <2>1. UNCHANGED <<tables, newest, retired, layout, pending, answered, first, second,
                      quickened, local>>
      BY <1>9 DEF vars
    <2>2. TypeOK' /\ LocalTellsTheTruth'
      BY <2>1 DEF Inv, TypeOK, LocalTellsTheTruth, Site, Class, Receiver, Selector
    <2> QED BY <2>1, <2>2, UnchangedCaches DEF Inv
  <1> QED BY <1>1, <1>2, <1>3, <1>4, <1>5, <1>6, <1>7, <1>8, <1>9 DEF Next, Execute

(* Inv is an invariant of the specification.                                 *)
THEOREM Invariance == Spec => []Inv
  <1>1. Init => Inv
    BY InitInv
  <1>2. Inv /\ [Next]_vars => Inv'
    BY NextInv
  <1> QED BY <1>1, <1>2, PTL DEF Spec

(* Types, for every hierarchy and every set of sites.                        *)
THEOREM TypeCorrectness == Spec => []TypeOK
  <1>1. Inv => TypeOK
    BY DEF Inv
  <1> QED BY <1>1, Invariance, PTL

(* Method tables, with the copies of inherited methods that a lookup leaves  *)
(* behind in every class it comes by, answer what the classes define.        *)
THEOREM TablesTruth == Spec => []TablesTellTheTruth
  <1>1. Inv => TablesTellTheTruth
    BY DEF Inv
  <1> QED BY <1>1, Invariance, PTL

(* Both entries of the inline caches answer what the classes define.         *)
THEOREM Truth == Spec => []CachesTellTheTruth
  <1>1. Inv => CachesTellTheTruth
    BY DEF Inv
  <1> QED BY <1>1, Invariance, PTL

-------------------------------------------------------------------------------
(* A retired layout has a successor, unless a failed assertion retired it.   *)
RetiredAreOld == \A l \in retired : l[2] < newest[l[1]]

LEMMA RetiredAreOldStep ==
    ASSUME ~FailingWrites, TypeOK, RetiredAreOld, [Next]_vars
    PROVE  RetiredAreOld'
  <1>1. CASE UNCHANGED <<newest, retired>>
    BY <1>1 DEF RetiredAreOld
  <1>2. ASSUME NEW o \in Objects, WriteNewLayout(o)
        PROVE  RetiredAreOld'
    <2> DEFINE c == ClassOf[o]
    <2>1. c \in Classes /\ newest \in [Classes -> Nat] /\ retired \subseteq Layouts
      BY SiteAssumption DEF TypeOK
    <2>2. /\ newest' = [newest EXCEPT ![c] = newest[c] + 1]
          /\ retired' = retired \cup {NewestLayout(c)}
      BY <1>2 DEF WriteNewLayout
    <2>3. \A k \in Classes : /\ newest[k] \in Nat /\ newest'[k] \in Nat
                             /\ newest[k] <= newest'[k]
      BY <2>1, <2>2
    <2>4. NewestLayout(c)[2] < newest'[NewestLayout(c)[1]]
      BY <2>1, <2>2 DEF NewestLayout
    <2>5. ASSUME NEW l \in retired PROVE l[2] < newest'[l[1]]
      <3>1. l[1] \in Classes /\ l[2] \in Nat
        BY <2>1 DEF Layouts
      <3>2. l[2] < newest[l[1]]
        BY DEF RetiredAreOld
      <3> QED BY <2>3, <3>1, <3>2
    <2> QED BY <2>2, <2>4, <2>5 DEF RetiredAreOld
  <1>3. \/ UNCHANGED <<newest, retired>>
        \/ \E o \in Objects : WriteNewLayout(o)
    BY DEF Next, Execute, Lookup, Invoke, UpdateAndRetry, NotUnderstood, SuperSend,
           QuickSuperSend, Begin, ChangeLayouts, TakeNewestLayout, WriteFails, classVars, vars
  <1> QED BY <1>1, <1>2, <1>3

(* When no assertion of a layout transition fails, a send is retried once.   *)
THEOREM RetriesOnce == ASSUME ~FailingWrites PROVE Spec => RetriedOnce
  <1>1. Init => RetiredAreOld
    BY DEF Init, InitClasses, RetiredAreOld
  <1>2. TypeOK /\ RetiredAreOld /\ [Next]_vars => RetiredAreOld'
    BY RetiredAreOldStep
  <1>3. Inv /\ RetiredAreOld /\ UpdateAndRetry => IsLatest(LayoutOf(Receiver)')
    <2> SUFFICES ASSUME Inv, RetiredAreOld, UpdateAndRetry
                 PROVE  IsLatest(LayoutOf(Receiver)')
      OBVIOUS
    <2>1. Receiver \in Objects /\ Class \in Classes
      BY PendingSend DEF Inv, UpdateAndRetry, LocalTellsTheTruth
    <2>2. /\ layout' = [layout EXCEPT ![Receiver] = newest[Class]] /\ pending' = pending
          /\ layout \in [Objects -> Nat] /\ newest \in [Classes -> Nat]
      BY DEF UpdateAndRetry, UpdateLayoutToMatchClass, Class, Inv, TypeOK
    <2>3. LayoutOf(Receiver)' = <<Class, newest[Class]>>
      BY <2>1, <2>2 DEF LayoutOf, Receiver, Class
    <2>4. <<Class, newest[Class]>> \notin retired
      <3>1. SUFFICES ASSUME <<Class, newest[Class]>> \in retired PROVE FALSE
        OBVIOUS
      <3>2. <<Class, newest[Class]>>[2] < newest[<<Class, newest[Class]>>[1]]
        BY <3>1 DEF RetiredAreOld
      <3>3. newest[Class] < newest[Class]
        BY <3>2
      <3> QED BY <2>1, <2>2, <3>3
    <2> QED BY <2>3, <2>4 DEF IsLatest
  <1>4. Inv => TypeOK
    BY DEF Inv
  <1> QED BY <1>1, <1>2, <1>3, <1>4, Invariance, PTL DEF Spec, RetriedOnce

-------------------------------------------------------------------------------
(* Refinement.                                                               *)

Answers == [send \in Sends |-> Answer(send)]

LEMMA OrdinaryAnswer ==
    ASSUME Inv, local # None
    PROVE  Answers[pending] = IF local.invokable # None THEN local.invokable
                              ELSE Resolve(Class, DoesNotUnderstand)
  <1>1. /\ pending # None /\ Site \notin SuperSites
        /\ local.invokable = Resolve(Class, Selector)
    BY DEF Inv, LocalTellsTheTruth
  <1>2. pending \in Sends
    BY <1>1, PendingSend DEF Inv
  <1> QED BY <1>1, <1>2 DEF Answers, Answer, Site, Receiver, Class, Selector

LEMMA SuperAnswer ==
    ASSUME Inv, pending # None, Site \in SuperSites
    PROVE  LET m == Resolve(SuperClass(HolderOf[Site]), Selector)
           IN Answers[pending] = IF m # None THEN m ELSE Failed
  <1>1. pending \in Sends
    BY PendingSend DEF Inv
  <1> QED BY <1>1 DEF Answers, Answer, Site, Selector

LEMMA StepRefines ==
    ASSUME Inv, [Next]_vars
    PROVE  [Dispatch!MDNext]_(Dispatch!mdVars)
  <1> USE DEF Dispatch!MDNext, Dispatch!mdVars
  <1>1. CASE Lookup \/ UpdateAndRetry
    BY <1>1 DEF Lookup, UpdateAndRetry
  <1>2. CASE Invoke
    <2>1. /\ pending # None /\ pending' = None /\ answered' = local.invokable
          /\ local # None /\ local.invokable # None
      BY <1>2 DEF Inv, LocalTellsTheTruth, Invoke, Run
    <2> QED BY <2>1, OrdinaryAnswer DEF Dispatch!Dispatch, Answers
  <1>3. CASE NotUnderstood
    <2>1. /\ pending # None /\ pending' = None
          /\ answered' = LookupInvokable(Class, DoesNotUnderstand)
          /\ local # None /\ local.invokable = None
      BY <1>3 DEF Inv, LocalTellsTheTruth, NotUnderstood, Run
    <2>2. LookupInvokable(Class, DoesNotUnderstand) = Resolve(Class, DoesNotUnderstand)
      BY <2>1, PendingSend, ClassAssumption, LookupIsResolve DEF Inv, TypeOK
    <2> QED BY <2>1, <2>2, OrdinaryAnswer DEF Dispatch!Dispatch, Answers
  <1>4. CASE SuperSend
    <2> DEFINE super == SuperClass(HolderOf[Site])
    <2>1. /\ pending # None /\ Site \in SuperSites /\ pending' = None
          /\ answered' = IF LookupInvokable(super, Selector) = None THEN Failed
                         ELSE LookupInvokable(super, Selector)
      BY <1>4 DEF SuperSend, Run
    <2>2. super \in Classes /\ Selector \in Selectors
      BY <2>1, Superclass, PendingSend DEF Inv
    <2>3. LookupInvokable(super, Selector) = Resolve(super, Selector)
      BY <2>2, LookupIsResolve DEF Inv, TypeOK
    <2>4. answered' = Answers[pending]
      BY <2>1, <2>3, SuperAnswer
    <2> QED BY <2>1, <2>4 DEF Dispatch!Dispatch, Answers
  <1>5. CASE QuickSuperSend
    <2>1. /\ pending # None /\ Site \in quickened /\ Site \in SuperSites
          /\ pending' = None /\ answered' = first[Site].invokable
      BY <1>5 DEF Inv, TypeOK, QuickSuperSend, Run
    <2>2. /\ first[Site].invokable # None
          /\ first[Site].invokable = Resolve(SuperClass(HolderOf[Site]), Selector)
      BY <2>1 DEF Inv, CachesTellTheTruth, EntryTellsTheTruth, SuperEntries, Selector
    <2>3. answered' = Answers[pending]
      BY <2>1, <2>2, SuperAnswer
    <2> QED BY <2>1, <2>3 DEF Dispatch!Dispatch, Answers
  <1>6. ASSUME NEW send \in Sends, Begin(send)
        PROVE  Dispatch!MDNext
    BY <1>6 DEF Begin, Dispatch!Send
  <1>7. CASE ChangeLayouts
    BY <1>7 DEF ChangeLayouts, TakeNewestLayout, WriteNewLayout, WriteFails
  <1>8. CASE UNCHANGED vars
    BY <1>8 DEF vars
  <1> QED BY <1>1, <1>2, <1>3, <1>4, <1>5, <1>6, <1>7, <1>8 DEF Next, Execute

(* Sends with inline caches run the methods that MethodDispatch says.        *)
THEOREM Refinement == Spec => DispatchSafety
  <1>1. Init => Dispatch!MDInit
    BY DEF Init, Dispatch!MDInit
  <1>2. Inv /\ [Next]_vars => [Dispatch!MDNext]_(Dispatch!mdVars)
    BY StepRefines
  <1> QED BY <1>1, <1>2, Invariance, PTL DEF Spec, DispatchSafety, Dispatch!MDSafety
===============================================================================
