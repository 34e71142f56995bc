---------------------------- MODULE Plugins_proofs ----------------------------
(***************************************************************************)
(* From the start of the game to a plugin that works, for any number of    *)
(* plugins, requests, nested dispatches, versions of the game, addresses   *)
(* and launches, and whatever habits the plugins have.  In this order: the *)
(* lists of listeners, the dispatches that go through them, the addresses  *)
(* of the damage plugin, and the loader of the game.                       *)
(***************************************************************************)
EXTENDS PluginManager, PluginLoad, Launch, SequenceTheorems, FiniteSetTheorems,
        WellFoundedInduction, TLAPS

AnyEntry == [listener : Nat, code : Plugins]
Single(list) == \A i, j \in DOMAIN list : list[i].listener = list[j].listener => i = j

ListsInv ==
  /\ todo \subseteq Plugins /\ loading \in Plugins \cup {None}
  /\ plugins \in Seq(Plugins)
  /\ listeners \in Seq(Seq(AnyEntry))
  /\ \A s \in DOMAIN listeners : Single(listeners[s])

(* A plugin whose code runs has a handle.                                  *)
LEMMA HandleIsNumber ==
  ASSUME ListsInv, NEW p \in Running
  PROVE  HandleOf(p) \in Nat /\ p \in Plugins
PROOF
<1>1. (p = loading /\ loading # None) \/ p \in Loaded
  BY DEF Running
<1>2. CASE p = loading
  <2>1. Loaded \subseteq Plugins
    BY DEF ListsInv, Loaded
  <2> QED
    BY <1>1, <1>2, <2>1 DEF ListsInv, HandleOf
<1>3. CASE p \in Loaded /\ p # loading
  <2> DEFINE k == CHOOSE i \in DOMAIN plugins : plugins[i] = p
  <2>1. k \in DOMAIN plugins
    BY <1>3 DEF Loaded
  <2>2. DOMAIN plugins = 1..Len(plugins) /\ Len(plugins) \in Nat
    BY DEF ListsInv
  <2>3. HandleOf(p) = k
    BY <1>3 DEF HandleOf
  <2> QED
    BY <1>3, <2>1, <2>2, <2>3 DEF Loaded, ListsInv
<1> QED
  BY <1>1, <1>2, <1>3

(* The lists with new empty ones behind them.                              *)
LEMMA EnlargedFacts ==
  ASSUME ListsInv
  PROVE  /\ Enlarged \in Seq(Seq(AnyEntry)) /\ Len(Enlarged) \in Nat
         /\ DOMAIN Enlarged = 1..Len(Enlarged)
         /\ GetNumPlugins + 1 <= Len(Enlarged)
         /\ DOMAIN listeners \subseteq DOMAIN Enlarged
         /\ \A s \in DOMAIN Enlarged :
              Enlarged[s] = IF s \in DOMAIN listeners THEN listeners[s] ELSE <<>>
PROOF
<1>1. /\ GetNumPlugins \in Nat /\ Len(listeners) \in Nat
      /\ listeners \in Seq(Seq(AnyEntry)) /\ DOMAIN listeners = 1..Len(listeners)
  BY DEF ListsInv, GetNumPlugins
<1>2. CASE ~(Len(listeners) < GetNumPlugins + 1)
  BY <1>1, <1>2 DEF Enlarged
<1>3. CASE Len(listeners) < GetNumPlugins + 1
  <2> DEFINE n == GetNumPlugins + 6 - Len(listeners)
             new == [i \in 1..n |-> <<>>]
  <2>1. n \in Nat
    BY <1>1, <1>3
  <2> HIDE DEF n
  <2>2. new \in Seq(Seq(AnyEntry)) /\ Len(new) = n
    BY <2>1
  <2>3. \A i \in 1..n : new[i] = <<>>
    OBVIOUS
  <2>4. Enlarged = listeners \o new
    BY <1>3 DEF Enlarged, n
  <2> HIDE DEF new
  <2>5. /\ Enlarged \in Seq(Seq(AnyEntry)) /\ Len(Enlarged) = Len(listeners) + n
        /\ \A s \in 1..(Len(listeners) + n) :
             Enlarged[s] = IF s <= Len(listeners) THEN listeners[s] ELSE new[s - Len(listeners)]
    BY <1>1, <2>2, <2>4, ConcatProperties
  <2>6. DOMAIN Enlarged = 1..(Len(listeners) + n)
    BY <2>5
  <2>7. ASSUME NEW s \in 1..(Len(listeners) + n), ~(s <= Len(listeners))
        PROVE  Enlarged[s] = <<>>
    <3>1. s - Len(listeners) \in 1..n
      BY <1>1, <2>1, <2>7
    <3> QED
      BY <2>3, <2>5, <2>7, <3>1
  <2>8. \A s \in DOMAIN Enlarged :
              Enlarged[s] = IF s \in DOMAIN listeners THEN listeners[s] ELSE <<>>
    BY <1>1, <2>5, <2>6, <2>7
  <2>9. GetNumPlugins + 1 <= Len(listeners) + n
    BY <1>1 DEF n
  <2> QED
    BY <1>1, <2>1, <2>5, <2>6, <2>8, <2>9
<1> QED
  BY <1>2, <1>3

LEMMA EnlargedKeeps ==
  ASSUME ListsInv
  PROVE  /\ Enlarged \in Seq(Seq(AnyEntry))
         /\ \A s \in DOMAIN Enlarged : Single(Enlarged[s])
BY EnlargedFacts DEF ListsInv, Single

(* AddTo keeps a list single, whatever the handle.                         *)
LEMMA AddToKeeps ==
  ASSUME NEW list \in Seq(AnyEntry), Single(list), NEW h \in Nat, NEW p \in Plugins
  PROVE  AddTo(list, h, p) \in Seq(AnyEntry) /\ Single(AddTo(list, h, p))
PROOF
<1>1. CASE Listens(h, list)
  BY <1>1 DEF AddTo
<1>2. CASE ~Listens(h, list)
  <2> DEFINE e == [listener |-> h, code |-> p]
             longer == Append(list, e)
  <2>1. e \in AnyEntry /\ e.listener = h
    BY DEF AnyEntry
  <2>2. /\ longer \in Seq(AnyEntry) /\ DOMAIN longer = 1..(Len(list) + 1) /\ Len(list) \in Nat
        /\ longer[Len(list) + 1] = e /\ \A i \in 1..Len(list) : longer[i] = list[i]
        /\ DOMAIN list = 1..Len(list)
    BY <2>1
  <2> HIDE DEF e, longer
  <2>3. \A i \in 1..Len(list) : list[i].listener # h
    BY <1>2, <2>2 DEF Listens
  <2>4. ASSUME NEW i \in DOMAIN longer, NEW j \in DOMAIN longer,
               longer[i].listener = longer[j].listener
        PROVE  i = j
    <3>1. CASE i \in 1..Len(list) /\ j \in 1..Len(list)
      BY <2>2, <2>4, <3>1 DEF Single
    <3>2. CASE i = Len(list) + 1 /\ j \in 1..Len(list)
      BY <2>1, <2>2, <2>3, <2>4, <3>2
    <3>3. CASE j = Len(list) + 1 /\ i \in 1..Len(list)
      BY <2>1, <2>2, <2>3, <2>4, <3>3
    <3> QED
      BY <2>2, <3>1, <3>2, <3>3
  <2>5. Single(longer)
    BY <2>4 DEF Single
  <2> QED
    BY <1>2, <2>2, <2>5 DEF AddTo, longer, e
<1> QED
  BY <1>1, <1>2

LEMMA ListsInvHolds == PluginSafeSpec => []ListsInv
PROOF
<1>1. PluginInit => ListsInv
  BY DEF PluginInit, ListsInv
<1>2. ListsInv /\ [PluginNext]_pluginVars => ListsInv'
  <2> SUFFICES ASSUME ListsInv, [PluginNext]_pluginVars PROVE ListsInv'
    OBVIOUS
  <2> DEFINE Kept == todo' \subseteq todo /\ UNCHANGED <<loading, plugins>>
             Good(lists) == lists \in Seq(Seq(AnyEntry)) /\ \A s \in DOMAIN lists : Single(lists[s])
  <2>1. ASSUME NEW p \in Plugins, NEW h \in Handles, RegisterWith(p, h) PROVE ListsInv'
    <3>1. HandleOf(p) \in Nat
      BY <2>1, HandleIsNumber DEF RegisterWith
    <3>2. Good(Enlarged)
      BY EnlargedKeeps
    <3>3. listeners' = [Enlarged EXCEPT ![h + 1] = AddTo(Enlarged[h + 1], HandleOf(p), p)]
      BY <2>1 DEF RegisterWith
    <3>4. \A s \in DOMAIN Enlarged : Enlarged[s] \in Seq(AnyEntry)
      BY <3>2
    <3>5. h + 1 \in DOMAIN Enlarged =>
            /\ AddTo(Enlarged[h + 1], HandleOf(p), p) \in Seq(AnyEntry)
            /\ Single(AddTo(Enlarged[h + 1], HandleOf(p), p))
      BY <3>1, <3>2, <3>4, AddToKeeps
    <3>6. listeners' \in Seq(Seq(AnyEntry)) /\ DOMAIN listeners' = DOMAIN Enlarged
      <4> DEFINE added == AddTo(Enlarged[h + 1], HandleOf(p), p)
      <4>1. DOMAIN Enlarged = 1..Len(Enlarged) /\ Len(Enlarged) \in Nat
        BY <3>2
      <4>2. DOMAIN listeners' = DOMAIN Enlarged /\ listeners' = [i \in DOMAIN Enlarged |-> listeners'[i]]
        BY <3>3
      <4>3. \A s \in DOMAIN Enlarged : listeners'[s] \in Seq(AnyEntry)
        BY <3>3, <3>4, <3>5
      <4> QED
        BY <4>1, <4>2, <4>3
    <3>7. \A s \in DOMAIN listeners' : Single(listeners'[s])
      BY <3>2, <3>3, <3>5, <3>6
    <3> QED
      BY <2>1, <3>6, <3>7 DEF RegisterWith, ListsInv
  <2>2. ASSUME NEW p \in Plugins, RegisterWithAll(p) PROVE ListsInv'
    <3> DEFINE h == HandleOf(p)
               idx == IdxAt(h, Enlarged)
    <3>1. h \in Nat
      BY <2>2, HandleIsNumber DEF RegisterWithAll
    <3>2. Good(Enlarged)
      BY EnlargedKeeps
    <3>3. listeners' = [i \in DOMAIN Enlarged |->
             IF idx[i] = 0 \/ idx[i] = h THEN Enlarged[i] ELSE AddTo(Enlarged[i], h, p)]
      BY <2>2 DEF RegisterWithAll, AddToAll
    <3> HIDE DEF idx, h
    <3>4. \A s \in DOMAIN Enlarged : Enlarged[s] \in Seq(AnyEntry)
      BY <3>2
    <3>5. ASSUME NEW s \in DOMAIN Enlarged
          PROVE  listeners'[s] \in Seq(AnyEntry) /\ Single(listeners'[s])
      BY <3>1, <3>2, <3>3, <3>4, AddToKeeps
    <3>6. listeners' \in Seq(Seq(AnyEntry)) /\ DOMAIN listeners' = DOMAIN Enlarged
      <4>1. DOMAIN Enlarged = 1..Len(Enlarged) /\ Len(Enlarged) \in Nat
        BY <3>2
      <4>2. DOMAIN listeners' = 1..Len(Enlarged)
        BY <3>3, <4>1
      <4>3. listeners' = [i \in 1..Len(Enlarged) |-> listeners'[i]]
        BY <3>3, <4>1, <4>2
      <4> QED
        BY <3>5, <4>1, <4>2, <4>3
    <3> QED
      BY <2>2, <3>5, <3>6 DEF RegisterWithAll, ListsInv
  <2>3. ASSUME NEW p \in Plugins, RegisterRefused(p) PROVE ListsInv'
    BY <2>3, EnlargedKeeps DEF RegisterRefused, ListsInv
  <2>4. ASSUME NEW p \in Plugins, NEW target \in Handles \cup {Everyone}, Dispatch(p, target)
        PROVE  ListsInv'
    BY <2>4 DEF Dispatch, ListsInv
  <2>5. CASE GameMessage
    BY <2>5 DEF GameMessage, ListsInv
  <2>6. ASSUME NEW p \in Plugins, SkipFile(p) \/ BeginPlugin(p) PROVE ListsInv'
    BY <2>6 DEF SkipFile, BeginPlugin, ListsInv
  <2>7. CASE PluginLoads
    BY <2>7 DEF PluginLoads, ListsInv
  <2>8. CASE PluginFails \/ StartupGoesOn
    BY <2>8 DEF PluginFails, StartupGoesOn, ListsInv
  <2>9. CASE HandlerReturns \/ HandlerFaults
    BY <2>9 DEF HandlerReturns, HandlerFaults, ListsInv
  <2>10. CASE UNCHANGED pluginVars
    BY <2>10 DEF pluginVars, ListsInv
  <2> QED
    BY <2>1, <2>2, <2>3, <2>4, <2>5, <2>6, <2>7, <2>8, <2>9, <2>10 DEF PluginNext, PluginStep
<1> QED
  BY <1>1, <1>2, PTL DEF PluginSafeSpec

(* RegisterListener never puts a listener into a list a second time, so no *)
(* message reaches a handler twice, although idx and the lists drift apart *)
(* (PluginManager.cpp:497) and handles are given again (306).              *)
THEOREM NeverListedTwice == PluginSafeSpec => []NoDuplicateListener
PROOF
<1>1. ListsInv => NoDuplicateListener
  BY DEF ListsInv, Single, NoDuplicateListener
<1> QED
  BY <1>1, ListsInvHolds, PTL

-----------------------------------------------------------------------------
(***************************************************************************)
(* The dispatches.  A plugin is tried once, and its place in m_plugins is  *)
(* its handle from the moment it is tried; what is in the lists stays      *)
(* there, under the handle of its plugin unless that failed to load.       *)
(***************************************************************************)
Known(p) == p \in Loaded \/ (p = loading /\ p # None)

PluginsInOrder ==
  /\ phase \in {"loading", "game", "crashed"} \cup Startup
  /\ phase # "loading" => todo = {} /\ loading = None
  /\ \A i, j \in DOMAIN plugins : plugins[i] = plugins[j] => i = j
  /\ \A i \in DOMAIN plugins : plugins[i] \notin todo /\ plugins[i] # loading
  /\ loading \notin todo
  /\ Len(plugins) + Cardinality(todo) + (IF loading = None THEN 0 ELSE 1) <= Cardinality(Plugins)

EntryIsTrue(e) ==
  /\ e.listener \in Handles /\ e.code \notin todo
  /\ Known(e.code) => HandleOf(e.code) = e.listener
  /\ "fail" \notin habits => Known(e.code)

EntriesAreTrue ==
  \A s \in DOMAIN listeners : \A i \in DOMAIN listeners[s] : EntryIsTrue(listeners[s][i])

CallsAreTrue ==
  /\ calls \in Seq(Frame)
  /\ phase = "loading" => calls = <<>>
  /\ \A k \in DOMAIN calls : /\ calls[k].sender + 1 \in DOMAIN listeners
                             /\ calls[k].at \in DOMAIN listeners[calls[k].sender + 1]
  /\ "late" \notin habits => IterationIsStable /\ (phase = "PostLoad" => Len(calls) <= 1)

IsListed(p, h) ==
  /\ h + 1 \in DOMAIN listeners
  /\ \E i \in DOMAIN listeners[h + 1] : listeners[h + 1][i].code = p

AskedIsTrue ==
  /\ asked \subseteq Plugins \X Handles
  /\ \A a \in asked : /\ a[1] \notin todo
                      /\ habits \cap {"fail", "again"} = {} /\ Known(a[1]) => IsListed(a[1], a[2])

CountersInv ==
  habits \in HabitSets /\ requests \in 0..MaxRequests[habits] /\ heard \in [Plugins -> Seq(Startup)]

DispatchInv == PluginsInOrder /\ EntriesAreTrue /\ CallsAreTrue /\ AskedIsTrue /\ CountersInv

LEMMA LeastNumber ==
  ASSUME NEW T \in SUBSET Nat, T # {}
  PROVE  \E x \in T : \A y \in T : x <= y
PROOF
<1>1. \E x \in T : \A y \in T : ~ (<<y, x>> \in OpToRel(<, Nat))
  BY NatLessThanWellFounded, WFMin
<1>2. \A x, y \in T : y < x => <<y, x>> \in OpToRel(<, Nat)
  BY DEF OpToRel
<1>3. \E x \in T : \A y \in T : ~ (y < x)
  BY <1>1, <1>2, Zenon
<1> QED
  BY <1>3

(* A known plugin has one place, which is its handle.                      *)
LEMMA HandleFacts ==
  ASSUME ListsInv, PluginsInOrder, NEW p, Known(p)
  PROVE  /\ p \in Plugins /\ p # None
         /\ HandleOf(p) \in 1..(Len(plugins) + 1)
         /\ HandleOf(p) \in Handles
         /\ p # loading => HandleOf(p) \in DOMAIN plugins /\ plugins[HandleOf(p)] = p
         /\ p = loading => HandleOf(p) = Len(plugins) + 1
PROOF
<1>1. /\ DOMAIN plugins = 1..Len(plugins) /\ Len(plugins) \in Nat
      /\ \A i \in DOMAIN plugins : plugins[i] \in Plugins
      /\ todo \subseteq Plugins
  BY DEF ListsInv
<1>2. p \in Plugins
  BY <1>1 DEF Known, Loaded, ListsInv
<1>3. Cardinality(todo) \in Nat /\ Cardinality(Plugins) \in Nat
  BY <1>1, PluginsAssumption, FS_Subset, FS_CardinalityType
<1>4. Len(plugins) + (IF loading = None THEN 0 ELSE 1) <= Cardinality(Plugins)
  BY <1>1, <1>3 DEF PluginsInOrder
<1>5. CASE p = loading
  <2>1. HandleOf(p) = Len(plugins) + 1
    BY <1>5 DEF HandleOf
  <2> QED
    BY <1>1, <1>2, <1>3, <1>4, <1>5, <2>1, NoneAssumption DEF Handles
<1>6. CASE p # loading
  <2> DEFINE k == CHOOSE i \in DOMAIN plugins : plugins[i] = p
  <2>1. k \in DOMAIN plugins /\ plugins[k] = p
    BY <1>6 DEF Known, Loaded
  <2>2. HandleOf(p) = k
    BY <1>6 DEF HandleOf
  <2> HIDE DEF k
  <2> QED
    BY <1>1, <1>2, <1>3, <1>4, <1>6, <2>1, <2>2, NoneAssumption DEF Handles
<1> QED
  BY <1>5, <1>6

LEMMA HandlesDiffer ==
  ASSUME ListsInv, PluginsInOrder, NEW p, NEW q, Known(p), Known(q), HandleOf(p) = HandleOf(q)
  PROVE  p = q
PROOF
<1>1. /\ HandleOf(p) \in 1..(Len(plugins) + 1) /\ Len(plugins) \in Nat
      /\ DOMAIN plugins = 1..Len(plugins)
  BY HandleFacts DEF ListsInv
<1>2. CASE p = loading
  BY <1>1, <1>2, HandleFacts
<1>3. CASE p # loading
  BY <1>1, <1>3, HandleFacts
<1> QED
  BY <1>2, <1>3

LEMMA AddToFacts ==
  ASSUME NEW list \in Seq(AnyEntry), NEW h \in Nat, NEW p \in Plugins
  PROVE  LET new == AddTo(list, h, p) IN
         /\ DOMAIN list \subseteq DOMAIN new
         /\ \A i \in DOMAIN list : new[i] = list[i]
         /\ \A i \in DOMAIN new \ DOMAIN list : new[i] = [listener |-> h, code |-> p]
         /\ Listens(h, list) => new = list
         /\ ~Listens(h, list) => \E i \in DOMAIN new : new[i] = [listener |-> h, code |-> p]
PROOF
<1>1. CASE Listens(h, list)
  BY <1>1 DEF AddTo
<1>2. CASE ~Listens(h, list)
  <2> DEFINE e == [listener |-> h, code |-> p]
             longer == Append(list, e)
  <2>1. e \in AnyEntry
    BY DEF AnyEntry
  <2> HIDE DEF e
  <2>2. /\ DOMAIN longer = 1..(Len(list) + 1) /\ Len(list) \in Nat /\ DOMAIN list = 1..Len(list)
        /\ longer[Len(list) + 1] = e /\ \A i \in 1..Len(list) : longer[i] = list[i]
    BY <2>1
  <2>3. AddTo(list, h, p) = longer
    BY <1>2 DEF AddTo, e
  <2> HIDE DEF longer
  <2>4. \A i \in DOMAIN longer \ DOMAIN list : longer[i] = e
    BY <2>2
  <2>5. Len(list) + 1 \in DOMAIN longer /\ DOMAIN list \subseteq DOMAIN longer
    BY <2>2
  <2> QED
    BY <1>2, <2>2, <2>3, <2>4, <2>5 DEF e
<1> QED
  BY <1>1, <1>2

(* What a call of RegisterListener does to the lists: entries of the       *)
(* caller are added to lists that have none of that handle.                *)
Lengthened(h, p) ==
  /\ DOMAIN listeners \subseteq DOMAIN listeners'
  /\ \A s \in DOMAIN listeners :
       /\ DOMAIN listeners[s] \subseteq DOMAIN listeners'[s]
       /\ \A i \in DOMAIN listeners[s] : listeners'[s][i] = listeners[s][i]
       /\ Listens(h, listeners[s]) => listeners'[s] = listeners[s]
  /\ \A s \in DOMAIN listeners' : \A i \in DOMAIN listeners'[s] :
       \/ s \in DOMAIN listeners /\ i \in DOMAIN listeners[s]
       \/ listeners'[s][i] = [listener |-> h, code |-> p]

LEMMA AddingLengthens ==
  ASSUME ListsInv, NEW h \in Nat, NEW p \in Plugins, DOMAIN listeners' = DOMAIN Enlarged,
         \A s \in DOMAIN Enlarged : listeners'[s] \in {Enlarged[s], AddTo(Enlarged[s], h, p)}
  PROVE  Lengthened(h, p)
PROOF
<1>1. /\ DOMAIN listeners \subseteq DOMAIN listeners'
      /\ \A s \in DOMAIN Enlarged : Enlarged[s] \in Seq(AnyEntry)
  BY EnlargedFacts
<1>2. ASSUME NEW s \in DOMAIN listeners'
      PROVE  /\ DOMAIN Enlarged[s] \subseteq DOMAIN listeners'[s]
             /\ \A i \in DOMAIN Enlarged[s] : listeners'[s][i] = Enlarged[s][i]
             /\ \A i \in DOMAIN listeners'[s] \ DOMAIN Enlarged[s] :
                  listeners'[s][i] = [listener |-> h, code |-> p]
             /\ Listens(h, Enlarged[s]) => listeners'[s] = Enlarged[s]
  <2>1. CASE listeners'[s] = Enlarged[s]
    BY <2>1
  <2>2. CASE listeners'[s] = AddTo(Enlarged[s], h, p)
    BY <1>1, <2>2, AddToFacts
  <2> QED
    BY <2>1, <2>2
<1>3. \A s \in DOMAIN listeners : Enlarged[s] = listeners[s]
  BY EnlargedFacts
<1>4. \A s \in DOMAIN Enlarged \ DOMAIN listeners : Enlarged[s] = <<>>
  BY EnlargedFacts
<1>5. ASSUME NEW s \in DOMAIN listeners', NEW i \in DOMAIN listeners'[s]
      PROVE  \/ s \in DOMAIN listeners /\ i \in DOMAIN listeners[s]
             \/ listeners'[s][i] = [listener |-> h, code |-> p]
  <2>1. CASE s \in DOMAIN listeners
    BY <1>2, <1>3, <2>1
  <2>2. CASE s \notin DOMAIN listeners
    BY <1>2, <1>4, <2>2
  <2> QED
    BY <2>1, <2>2
<1> QED
  BY <1>1, <1>2, <1>3, <1>5 DEF Lengthened

LEMMA RegisteringLengthens ==
  ASSUME ListsInv, NEW p \in Plugins,
         (\E h \in Handles : RegisterWith(p, h)) \/ RegisterWithAll(p)
  PROVE  HandleOf(p) \in Nat /\ Lengthened(HandleOf(p), p)
PROOF
<1>1. HandleOf(p) \in Nat
  BY HandleIsNumber DEF RegisterWith, RegisterWithAll
<1>2. CASE \E h \in Handles : RegisterWith(p, h)
  <2>1. PICK h \in Handles : listeners' = [Enlarged EXCEPT ![h + 1] = AddTo(@, HandleOf(p), p)]
    BY <1>2 DEF RegisterWith
  <2>2. /\ DOMAIN listeners' = DOMAIN Enlarged
        /\ \A s \in DOMAIN Enlarged :
             listeners'[s] \in {Enlarged[s], AddTo(Enlarged[s], HandleOf(p), p)}
    BY <2>1
  <2> QED
    BY <1>1, <2>2, AddingLengthens
<1>3. CASE RegisterWithAll(p)
  <2> DEFINE idx == IdxAt(HandleOf(p), Enlarged)
  <2>1. listeners' = [i \in DOMAIN Enlarged |->
             IF idx[i] = 0 \/ idx[i] = HandleOf(p) THEN Enlarged[i]
             ELSE AddTo(Enlarged[i], HandleOf(p), p)]
    BY <1>3 DEF RegisterWithAll, AddToAll
  <2> HIDE DEF idx
  <2>2. /\ DOMAIN listeners' = DOMAIN Enlarged
        /\ \A s \in DOMAIN Enlarged :
             listeners'[s] \in {Enlarged[s], AddTo(Enlarged[s], HandleOf(p), p)}
    BY <2>1
  <2> QED
    BY <1>1, <2>2, AddingLengthens
<1> QED
  BY <1>2, <1>3

(* A refused call adds no entry.                                           *)
LEMMA RefusedKeeps ==
  ASSUME ListsInv, NEW p \in Plugins, RegisterRefused(p)
  PROVE  /\ DOMAIN listeners \subseteq DOMAIN listeners'
         /\ \A s \in DOMAIN listeners : listeners'[s] = listeners[s]
         /\ \A s \in DOMAIN listeners' \ DOMAIN listeners : listeners'[s] = <<>>
BY EnlargedFacts DEF RegisterRefused

(* A handle that is in no list but perhaps the first skips none, and idx   *)
(* is the handle of each list's sender.                                    *)
LEMMA IndexFollows ==
  ASSUME NEW h \in Nat, NEW lists \in Seq(Seq(AnyEntry)),
         \A i \in DOMAIN lists : i > 1 => ~Listens(h, lists[i])
  PROVE  \A i \in DOMAIN lists : IdxAt(h, lists)[i] = i - 1
PROOF
<1> DEFINE S == DOMAIN lists
           Def(f) == f = [i \in S |-> IF i <= 1 THEN 0
                            ELSE f[i - 1] + IF SkipsIndex(h, f[i - 1], lists[i - 1]) THEN 0 ELSE 1]
           idx == IdxAt(h, lists)
           g == [i \in S |-> i - 1]
<1>1. S = 1..Len(lists) /\ Len(lists) \in Nat
  OBVIOUS
<1> HIDE DEF S
<1>2. \A i \in S : i > 1 => i - 1 \in S /\ g[i - 1] = i - 2
  BY <1>1
<1>3. \A i \in S : i > 1 => ~SkipsIndex(h, i - 2, lists[i - 1])
  <2> SUFFICES ASSUME NEW i \in S, i > 1, i - 2 # 0 PROVE ~Listens(h, lists[i - 1])
    BY DEF SkipsIndex
  <2>1. i - 1 \in S /\ i - 1 > 1
    BY <1>1
  <2> QED
    BY <2>1 DEF S
<1>4. Def(g)
  <2>1. \A i \in S : g[i] = IF i <= 1 THEN 0
                       ELSE g[i - 1] + IF SkipsIndex(h, g[i - 1], lists[i - 1]) THEN 0 ELSE 1
    <3> SUFFICES ASSUME NEW i \in S
                 PROVE  g[i] = IF i <= 1 THEN 0
                          ELSE g[i - 1] + IF SkipsIndex(h, g[i - 1], lists[i - 1]) THEN 0 ELSE 1
      OBVIOUS
    <3>1. CASE i <= 1
      BY <1>1, <3>1
    <3>2. CASE i > 1
      <4>1. g[i - 1] = i - 2 /\ g[i] = i - 1 /\ i \in Nat
        BY <1>1, <1>2, <3>2
      <4>2. ~SkipsIndex(h, g[i - 1], lists[i - 1])
        BY <1>3, <3>2, <4>1
      <4> QED
        BY <3>2, <4>1, <4>2
    <3> QED
      BY <1>1, <3>1, <3>2
  <2> QED
    BY <2>1
<1>5. Def(idx)
  <2>1. idx = CHOOSE f : Def(f)
    BY DEF IdxAt, S
  <2> HIDE DEF Def, idx, g
  <2> QED
    BY <1>4, <2>1
<1>6. \A i \in S : idx[i] = IF i <= 1 THEN 0
                    ELSE idx[i - 1] + IF SkipsIndex(h, idx[i - 1], lists[i - 1]) THEN 0 ELSE 1
  <2> HIDE DEF idx, g
  <2> QED
    BY <1>5
<1> HIDE DEF idx, Def, g
<1>7. ASSUME NEW k \in S, idx[k] # k - 1
      PROVE  FALSE
  <2> DEFINE T == {i \in S : idx[i] # i - 1}
  <2>0. k \in T
    BY <1>7
  <2>1. T \in SUBSET Nat /\ T # {}
    <3>1. S \subseteq Nat /\ T \subseteq S
      BY <1>1
    <3> HIDE DEF T
    <3> QED
      BY <2>0, <3>1
  <2>2. PICK i \in T : \A j \in T : i <= j
    BY <2>1, LeastNumber
  <2>3. i \in S /\ i \in Nat /\ idx[i] # i - 1
    BY <2>1, <2>2
  <2>4. CASE i <= 1
    BY <1>1, <1>6, <2>3, <2>4
  <2>5. CASE i > 1
    <3>1. i - 1 \in S /\ i - 1 \notin T
      BY <1>1, <2>2, <2>3, <2>5
    <3>2. idx[i - 1] = i - 2
      BY <2>3, <3>1
    <3>3. idx[i] = i - 1
      BY <1>3, <1>6, <2>3, <2>5, <3>2
    <3> QED
      BY <2>3, <3>3
  <2> QED
    BY <2>3, <2>4, <2>5
<1> QED
  BY <1>7 DEF S, idx

LEMMA RunningIsKnown ==
  ASSUME ListsInv, PluginsInOrder, NEW p \in Running
  PROVE  Known(p) /\ p \notin todo
PROOF
<1>1. Known(p)
  BY DEF Running, Known
<1>2. CASE p = loading
  BY <1>1, <1>2 DEF PluginsInOrder
<1>3. CASE p \in Loaded
  BY <1>1, <1>3 DEF PluginsInOrder, Loaded
<1> QED
  BY <1>1, <1>2, <1>3 DEF Known

(* The caller of RegisterListener from a handler is in that handler's list.*)
LEMMA OwnListIsKept ==
  ASSUME ListsInv, DispatchInv, calls # <<>>, NEW p \in Running, Lengthened(HandleOf(p), p)
  PROVE  listeners'[Top.sender + 1] = listeners[Top.sender + 1]
PROOF
<1> DEFINE s == Top.sender + 1
           e == listeners[s][Top.at]
<1>1. Len(calls) \in DOMAIN calls
  BY DEF DispatchInv, CallsAreTrue
<1>2. s \in DOMAIN listeners /\ Top.at \in DOMAIN listeners[s]
  BY <1>1 DEF DispatchInv, CallsAreTrue, Top
<1>3. phase # "loading"
  BY DEF DispatchInv, CallsAreTrue
<1>4. p = e.code
  BY <1>3 DEF Running, Top
<1>5. Known(p) /\ EntryIsTrue(e)
  BY <1>2, RunningIsKnown DEF DispatchInv, EntriesAreTrue
<1>6. Listens(HandleOf(p), listeners[s])
  BY <1>2, <1>4, <1>5 DEF EntryIsTrue, Listens
<1> QED
  BY <1>2, <1>6 DEF Lengthened

LEMMA RegisteringKeepsCalls ==
  ASSUME ListsInv, ListsInv', DispatchInv, NEW p \in Plugins,
         (\E h \in Handles : RegisterWith(p, h)) \/ RegisterWithAll(p)
  PROVE  PluginsInOrder' /\ EntriesAreTrue' /\ CallsAreTrue' /\ CountersInv'
PROOF
<1>1. /\ p \in Running /\ requests < MaxRequests[habits] /\ requests' = requests + 1
      /\ "late" \in habits \/ phase \in {"loading", "PostLoad"}
      /\ UNCHANGED <<habits, todo, loading, plugins, phase, calls, heard>>
  BY DEF RegisterWith, RegisterWithAll
<1>2. Lengthened(HandleOf(p), p)
  BY RegisteringLengthens
<1>3. Known(p) /\ p \notin todo
  BY <1>1, RunningIsKnown DEF DispatchInv
<1>4. HandleOf(p) \in Handles
  BY <1>3, HandleFacts DEF DispatchInv
<1>5. PluginsInOrder'
  BY <1>1 DEF DispatchInv, PluginsInOrder
<1>6. \A q : Known(q)' = Known(q) /\ HandleOf(q)' = HandleOf(q)
  BY <1>1 DEF Known, HandleOf, Loaded
<1>7. EntriesAreTrue'
  <2> SUFFICES ASSUME NEW s \in DOMAIN listeners', NEW i \in DOMAIN listeners'[s]
               PROVE  EntryIsTrue(listeners[s][i])'
    BY DEF EntriesAreTrue
  <2>1. CASE s \in DOMAIN listeners /\ i \in DOMAIN listeners[s]
    <3>1. listeners'[s][i] = listeners[s][i]
      BY <1>2, <2>1 DEF Lengthened
    <3>2. EntryIsTrue(listeners[s][i])
      BY <2>1 DEF DispatchInv, EntriesAreTrue
    <3> QED
      BY <1>1, <1>6, <3>1, <3>2 DEF EntryIsTrue
  <2>2. CASE listeners'[s][i] = [listener |-> HandleOf(p), code |-> p]
    BY <1>1, <1>3, <1>4, <1>6, <2>2 DEF EntryIsTrue
  <2> QED
    BY <1>2, <2>1, <2>2 DEF Lengthened
<1>8. CallsAreTrue'
  <2>1. ASSUME NEW k \in DOMAIN calls
        PROVE  /\ calls[k].sender + 1 \in DOMAIN listeners'
               /\ calls[k].at \in DOMAIN listeners'[calls[k].sender + 1]
    BY <1>2 DEF DispatchInv, CallsAreTrue, Lengthened
  <2>2. ASSUME "late" \notin habits, NEW k \in DOMAIN calls
        PROVE  calls[k].of = Len(listeners'[calls[k].sender + 1])
    <3>1. k = Len(calls) /\ calls # <<>>
      BY <1>1, <2>2 DEF DispatchInv, CallsAreTrue
    <3>2. listeners'[calls[k].sender + 1] = listeners[calls[k].sender + 1]
      BY <1>1, <1>2, <3>1, OwnListIsKept DEF Top
    <3> QED
      BY <2>2, <3>2 DEF DispatchInv, CallsAreTrue, IterationIsStable
  <2> QED
    BY <1>1, <2>1, <2>2 DEF DispatchInv, CallsAreTrue, IterationIsStable
<1>9. CountersInv'
  <2>1. MaxRequests[habits] \in Nat
    BY BoundsAssumption DEF DispatchInv, CountersInv
  <2> QED
    BY <1>1, <2>1 DEF DispatchInv, CountersInv
<1> QED
  BY <1>5, <1>7, <1>8, <1>9

(* What is listed stays listed.                                            *)
LEMMA ListedStays ==
  ASSUME NEW h, NEW p, Lengthened(h, p), NEW q, NEW g, IsListed(q, g)
  PROVE  IsListed(q, g)'
BY DEF Lengthened, IsListed

LEMMA AddedIsListed ==
  ASSUME ListsInv, DispatchInv, NEW p \in Running, NEW s \in DOMAIN Enlarged,
         "fail" \notin habits, p \in Plugins
  PROVE  \E i \in DOMAIN AddTo(Enlarged[s], HandleOf(p), p) :
           AddTo(Enlarged[s], HandleOf(p), p)[i].code = p
PROOF
<1>1. Known(p) /\ HandleOf(p) \in Nat
  BY RunningIsKnown, HandleIsNumber DEF DispatchInv
<1>2. Enlarged[s] \in Seq(AnyEntry)
  BY EnlargedFacts
<1>3. CASE ~Listens(HandleOf(p), Enlarged[s])
  BY <1>1, <1>2, <1>3, AddToFacts
<1>4. CASE Listens(HandleOf(p), Enlarged[s])
  <2>1. PICK i \in DOMAIN Enlarged[s] : Enlarged[s][i].listener = HandleOf(p)
    BY <1>4 DEF Listens
  <2>2. s \in DOMAIN listeners /\ Enlarged[s] = listeners[s]
    BY <2>1, EnlargedFacts
  <2>3. EntryIsTrue(Enlarged[s][i])
    BY <2>1, <2>2 DEF DispatchInv, EntriesAreTrue
  <2>4. Known(Enlarged[s][i].code) /\ HandleOf(Enlarged[s][i].code) = HandleOf(p)
    BY <2>1, <2>3 DEF EntryIsTrue
  <2>5. Enlarged[s][i].code = p
    BY <1>1, <2>4, HandlesDiffer DEF DispatchInv
  <2> QED
    BY <1>4, <2>1, <2>5 DEF AddTo
<1> QED
  BY <1>3, <1>4

LEMMA RegisteringKeepsAsked ==
  ASSUME ListsInv, ListsInv', DispatchInv, NEW p \in Plugins,
         (\E h \in Handles : RegisterWith(p, h)) \/ RegisterWithAll(p)
  PROVE  AskedIsTrue'
PROOF
<1>1. /\ p \in Running
      /\ UNCHANGED <<habits, todo, loading, plugins>>
  BY DEF RegisterWith, RegisterWithAll
<1>2. Lengthened(HandleOf(p), p)
  BY RegisteringLengthens
<1>3. Known(p) /\ p \notin todo
  BY <1>1, RunningIsKnown DEF DispatchInv
<1>4. \A q : Known(q)' = Known(q)
  BY <1>1 DEF Known, Loaded
<1>5. /\ Len(plugins) \in Nat /\ 0..Len(plugins) \subseteq Handles
      /\ 0..Len(plugins) \subseteq {h \in Nat : h + 1 \in DOMAIN Enlarged}
  <2>1. Len(plugins) \in Nat /\ todo \subseteq Plugins
    BY DEF ListsInv
  <2>2. Cardinality(todo) \in Nat /\ Cardinality(Plugins) \in Nat
    BY <2>1, PluginsAssumption, FS_Subset, FS_CardinalityType
  <2>3. Len(plugins) <= Cardinality(Plugins)
    BY <2>1, <2>2 DEF DispatchInv, PluginsInOrder
  <2>4. Len(plugins) + 1 <= Len(Enlarged)
    BY <2>1, EnlargedFacts DEF GetNumPlugins
  <2>5. Len(Enlarged) \in Nat /\ DOMAIN Enlarged = 1..Len(Enlarged)
    BY EnlargedFacts
  <2> QED
    BY <2>1, <2>2, <2>3, <2>4, <2>5 DEF Handles
<1> DEFINE Orderly == habits \cap {"fail", "again"} = {}
<1>6. ASSUME NEW a \in asked
      PROVE  a[1] \notin todo' /\ (Orderly' /\ Known(a[1])' => IsListed(a[1], a[2])')
  <2>1. a[1] \notin todo /\ (Orderly /\ Known(a[1]) => IsListed(a[1], a[2]))
    BY DEF DispatchInv, AskedIsTrue
  <2> QED
    BY <1>1, <1>2, <1>4, <2>1, ListedStays
<1>7. ASSUME NEW a \in asked' \ asked
      PROVE  /\ a \in Plugins \X Handles /\ a[1] = p
             /\ Orderly => IsListed(a[1], a[2])'
  <2>1. CASE \E h \in Handles : RegisterWith(p, h)
    <3>1. PICK h \in Handles : RegisterWith(p, h)
      BY <2>1
    <3>2. /\ h \in 0..Len(plugins) /\ asked' = asked \cup {<<p, h>>}
          /\ listeners' = [Enlarged EXCEPT ![h + 1] = AddTo(@, HandleOf(p), p)]
      BY <3>1 DEF RegisterWith
    <3>3. h + 1 \in DOMAIN Enlarged
      BY <1>5, <3>2
    <3>4. a = <<p, h>>
      BY <1>7, <3>2
    <3>5. /\ DOMAIN listeners' = DOMAIN Enlarged
          /\ listeners'[h + 1] = AddTo(Enlarged[h + 1], HandleOf(p), p)
      BY <3>2, <3>3
    <3>6. Orderly => \E i \in DOMAIN listeners'[h + 1] : listeners'[h + 1][i].code = p
      BY <1>1, <3>3, <3>5, AddedIsListed
    <3> QED
      BY <3>3, <3>4, <3>5, <3>6 DEF IsListed
  <2>2. CASE RegisterWithAll(p)
    <3> DEFINE idx == IdxAt(HandleOf(p), Enlarged)
    <3>1. /\ asked' = asked \cup {<<p, h>> : h \in (1..Len(plugins)) \ {HandleOf(p)}}
          /\ "again" \in habits
               \/ \A i \in DOMAIN listeners : i > 1 => ~Listens(HandleOf(p), listeners[i])
          /\ listeners' = [i \in DOMAIN Enlarged |->
               IF idx[i] = 0 \/ idx[i] = HandleOf(p) THEN Enlarged[i]
               ELSE AddTo(Enlarged[i], HandleOf(p), p)]
      BY <2>2 DEF RegisterWithAll, AddToAll
    <3>2. PICK h \in (1..Len(plugins)) \ {HandleOf(p)} : a = <<p, h>>
      BY <1>7, <3>1
    <3>3. h \in Handles /\ h \in Nat /\ h + 1 \in DOMAIN Enlarged
      BY <1>5, <3>2
    <3>4. ASSUME Orderly PROVE IsListed(p, h)'
      <4>1. \A i \in DOMAIN Enlarged : i > 1 => ~Listens(HandleOf(p), Enlarged[i])
        <5>1. \A i \in DOMAIN listeners : i > 1 => ~Listens(HandleOf(p), listeners[i])
          BY <3>1, <3>4
        <5>2. \A i \in DOMAIN Enlarged :
                Enlarged[i] = IF i \in DOMAIN listeners THEN listeners[i] ELSE <<>>
          BY EnlargedFacts
        <5> QED
          BY <5>1, <5>2 DEF Listens
      <4>2. HandleOf(p) \in Nat /\ Enlarged \in Seq(Seq(AnyEntry))
        BY <1>1, HandleIsNumber, EnlargedFacts
      <4>3. idx[h + 1] = h
        <5>1. idx[h + 1] = (h + 1) - 1
          BY <3>3, <4>1, <4>2, IndexFollows
        <5> QED
          BY <3>3, <5>1
      <4> HIDE DEF idx
      <4>4. /\ DOMAIN listeners' = DOMAIN Enlarged
            /\ listeners'[h + 1] = AddTo(Enlarged[h + 1], HandleOf(p), p)
        BY <3>1, <3>2, <3>3, <4>3
      <4>5. \E i \in DOMAIN listeners'[h + 1] : listeners'[h + 1][i].code = p
        BY <1>1, <3>3, <3>4, <4>4, AddedIsListed
      <4> QED
        BY <3>3, <4>4, <4>5 DEF IsListed
    <3> QED
      BY <3>2, <3>3, <3>4
  <2> QED
    BY <2>1, <2>2
<1>8. asked' \subseteq Plugins \X Handles
  BY <1>7 DEF DispatchInv, AskedIsTrue
<1> QED
  BY <1>1, <1>3, <1>4, <1>6, <1>7, <1>8 DEF AskedIsTrue

LEMMA SameEntries ==
  ASSUME DispatchInv, UNCHANGED <<habits, todo, loading, plugins, listeners>>
  PROVE  EntriesAreTrue' /\ (UNCHANGED asked => AskedIsTrue')
PROOF
<1>1. \A q : Known(q)' = Known(q) /\ HandleOf(q)' = HandleOf(q)
  BY DEF Known, HandleOf, Loaded
<1>2. EntriesAreTrue'
  BY <1>1 DEF DispatchInv, EntriesAreTrue, EntryIsTrue
<1>3. ASSUME UNCHANGED asked PROVE AskedIsTrue'
  BY <1>1, <1>3 DEF DispatchInv, AskedIsTrue, IsListed
<1> QED
  BY <1>2, <1>3

LEMMA HearsKeeps ==
  ASSUME ListsInv, DispatchInv, NEW h \in Nat, h + 1 \in DOMAIN listeners,
         NEW i \in DOMAIN listeners[h + 1], NEW depth, Hears(h, i, depth)
  PROVE  heard' \in [Plugins -> Seq(Startup)]
PROOF
<1> DEFINE p == listeners[h + 1][i].code
<1>1. p \in Plugins
  <2>1. listeners[h + 1] \in Seq(AnyEntry)
    BY DEF ListsInv
  <2>2. listeners[h + 1][i] \in AnyEntry
    BY <2>1
  <2> QED
    BY <2>2 DEF AnyEntry
<1>2. heard \in [Plugins -> Seq(Startup)]
  BY DEF DispatchInv, CountersInv
<1>3. CASE phase' \in Startup /\ depth = 1
  <2>1. heard' = [heard EXCEPT ![p] = Append(@, phase')]
    BY <1>3 DEF Hears
  <2> HIDE DEF p
  <2>2. Append(heard[p], phase') \in Seq(Startup)
    BY <1>1, <1>2, <1>3
  <2> QED
    BY <1>1, <1>2, <2>1, <2>2
<1>4. CASE ~(phase' \in Startup /\ depth = 1)
  BY <1>2, <1>4 DEF Hears
<1> QED
  BY <1>3, <1>4

(* A dispatch that begins is at an entry of its list, of the list's length.*)
LEMMA EnterKeeps ==
  ASSUME ListsInv, DispatchInv, UNCHANGED listeners, NEW h \in Handles,
         NEW target \in Handles \cup {Everyone}, Recipients(h, target) # {}, Enter(h, target),
         phase # "loading" \/ phase' # "loading"
  PROVE  /\ calls' \in Seq(Frame) /\ Len(calls') = Len(calls) + 1
         /\ \A k \in DOMAIN calls' : /\ calls'[k].sender + 1 \in DOMAIN listeners
                                     /\ calls'[k].at \in DOMAIN listeners[calls'[k].sender + 1]
         /\ IterationIsStable => IterationIsStable'
         /\ heard' \in [Plugins -> Seq(Startup)]
PROOF
<1> DEFINE R == Recipients(h, target)
           i == First(R)
           c == [sender |-> h, target |-> target, at |-> i, of |-> Len(listeners[h + 1])]
<1>1. /\ h \in Nat /\ listeners \in Seq(Seq(AnyEntry))
      /\ h + 1 \in DOMAIN listeners /\ R \subseteq DOMAIN listeners[h + 1]
  BY DEF ListsInv, Handles, Recipients
<1>2. /\ listeners[h + 1] \in Seq(AnyEntry) /\ Len(listeners[h + 1]) \in Nat
      /\ DOMAIN listeners[h + 1] = 1..Len(listeners[h + 1])
  BY <1>1
<1>3. i \in R
  <2> HIDE DEF R
  <2>1. R \in SUBSET Nat /\ R # {}
    BY <1>1, <1>2 DEF R
  <2>2. \E x \in R : \A y \in R : x <= y
    BY <2>1, LeastNumber
  <2> QED
    BY <2>2 DEF First
<1>4. i \in 1..Len(listeners[h + 1]) /\ i \in Nat \ {0}
  BY <1>1, <1>2, <1>3
<1>5. calls' = Append(calls, c) /\ Hears(h, i, Len(calls'))
  BY DEF Enter
<1>6. heard' \in [Plugins -> Seq(Startup)]
  <2> HIDE DEF i
  <2> QED
    BY <1>1, <1>2, <1>4, <1>5, HearsKeeps
<1> HIDE DEF i, R
<1>7. c \in Frame /\ c.sender = h /\ c.at = i /\ c.of = Len(listeners[h + 1])
  BY <1>2, <1>4 DEF Frame
<1> HIDE DEF c
<1>8. /\ calls \in Seq(Frame) /\ Len(calls) \in Nat /\ DOMAIN calls = 1..Len(calls)
      /\ calls' \in Seq(Frame) /\ Len(calls') = Len(calls) + 1
      /\ DOMAIN calls' = 1..(Len(calls) + 1)
      /\ \A k \in 1..Len(calls) : calls'[k] = calls[k]
      /\ calls'[Len(calls) + 1] = c
  BY <1>5, <1>7 DEF DispatchInv, CallsAreTrue
<1>9. \A k \in DOMAIN calls' : k \in DOMAIN calls \/ k = Len(calls) + 1
  BY <1>8
<1>10. \A k \in DOMAIN calls : /\ calls[k].sender + 1 \in DOMAIN listeners
                               /\ calls[k].at \in DOMAIN listeners[calls[k].sender + 1]
  BY DEF DispatchInv, CallsAreTrue
<1>11. \A k \in DOMAIN calls' : /\ calls'[k].sender + 1 \in DOMAIN listeners
                                /\ calls'[k].at \in DOMAIN listeners[calls'[k].sender + 1]
  BY <1>1, <1>2, <1>4, <1>7, <1>8, <1>9, <1>10
<1>12. IterationIsStable => IterationIsStable'
  BY <1>7, <1>8, <1>9 DEF IterationIsStable
<1> QED
  BY <1>6, <1>8, <1>11, <1>12

LEMMA DispatchingKeeps ==
  ASSUME ListsInv, DispatchInv,
         (\E p \in Plugins, target \in Handles \cup {Everyone} : Dispatch(p, target))
           \/ GameMessage \/ StartupGoesOn
  PROVE  DispatchInv'
PROOF
<1>1. /\ UNCHANGED <<habits, todo, loading, plugins, listeners, asked>>
      /\ requests' = requests \/ (requests' = requests + 1 /\ requests < MaxRequests[habits])
  BY DEF Dispatch, GameMessage, StartupGoesOn
<1>2. EntriesAreTrue' /\ AskedIsTrue'
  BY <1>1, SameEntries
<1>3. habits' \in HabitSets /\ requests' \in 0..MaxRequests[habits']
  <2>1. MaxRequests[habits] \in Nat
    BY BoundsAssumption DEF DispatchInv, CountersInv
  <2> QED
    BY <1>1, <2>1 DEF DispatchInv, CountersInv
<1>4. PluginsInOrder'
  <2>1. phase' = phase \/ (phase' \in Startup \cup {"game"} /\ StartupGoesOn)
    BY DEF Dispatch, GameMessage, StartupGoesOn, Startup
  <2>2. StartupGoesOn => todo = {} /\ loading = None
    BY DEF StartupGoesOn, DispatchInv, PluginsInOrder
  <2>3. PluginsInOrder => PluginsInOrder'
    BY <1>1, <2>1, <2>2 DEF PluginsInOrder, Startup
  <2> QED
    BY <2>3 DEF DispatchInv
<1>5. 0 \in Handles /\ Everyone \in Handles \cup {Everyone}
  BY PluginsAssumption, FS_CardinalityType DEF Handles
<1>6. CASE \E p \in Plugins, target \in Handles \cup {Everyone} : Dispatch(p, target)
  <2>1. PICK p \in Plugins, target \in Handles \cup {Everyone} : Dispatch(p, target)
    BY <1>6
  <2>2. /\ p \in Running /\ p \in Loaded /\ phase' = phase
        /\ "late" \in habits \/ phase \in {"PostPostLoad", "game"}
        /\ Recipients(HandleOf(p), target) # {} /\ Enter(HandleOf(p), target)
    BY <2>1 DEF Dispatch
  <2>3. phase # "loading"
    BY <2>2 DEF Running, DispatchInv, PluginsInOrder, Loaded
  <2>4. HandleOf(p) \in Handles
    BY <2>2, HandleFacts DEF DispatchInv, Known
  <2>5. /\ calls' \in Seq(Frame)
        /\ \A k \in DOMAIN calls' : /\ calls'[k].sender + 1 \in DOMAIN listeners
                                    /\ calls'[k].at \in DOMAIN listeners[calls'[k].sender + 1]
        /\ IterationIsStable => IterationIsStable'
        /\ heard' \in [Plugins -> Seq(Startup)]
    BY <1>1, <2>2, <2>3, <2>4, EnterKeeps
  <2>6. CallsAreTrue'
    BY <1>1, <2>2, <2>3, <2>5 DEF DispatchInv, CallsAreTrue
  <2> QED
    BY <1>2, <1>3, <1>4, <2>5, <2>6 DEF DispatchInv, CountersInv
<1>7. CASE GameMessage
  <2>1. /\ phase = "game" /\ phase' = phase
        /\ Recipients(0, Everyone) # {} /\ Enter(0, Everyone)
    BY <1>7 DEF GameMessage
  <2>2. /\ calls' \in Seq(Frame)
        /\ \A k \in DOMAIN calls' : /\ calls'[k].sender + 1 \in DOMAIN listeners
                                    /\ calls'[k].at \in DOMAIN listeners[calls'[k].sender + 1]
        /\ IterationIsStable => IterationIsStable'
        /\ heard' \in [Plugins -> Seq(Startup)]
    BY <1>1, <1>5, <2>1, EnterKeeps
  <2>3. CallsAreTrue'
    BY <1>1, <2>1, <2>2 DEF DispatchInv, CallsAreTrue
  <2> QED
    BY <1>2, <1>3, <1>4, <2>2, <2>3 DEF DispatchInv, CountersInv
<1>8. CASE StartupGoesOn
  <2>1. phase' # "loading" /\ calls = <<>>
    BY <1>8 DEF StartupGoesOn, DispatchInv, CallsAreTrue
  <2>2. CASE Recipients(0, Everyone) # {} /\ Enter(0, Everyone)
    <3>1. /\ calls' \in Seq(Frame) /\ Len(calls') = Len(calls) + 1
          /\ \A k \in DOMAIN calls' : /\ calls'[k].sender + 1 \in DOMAIN listeners
                                      /\ calls'[k].at \in DOMAIN listeners[calls'[k].sender + 1]
          /\ IterationIsStable => IterationIsStable'
          /\ heard' \in [Plugins -> Seq(Startup)]
      BY <1>1, <1>5, <2>1, <2>2, EnterKeeps
    <3>2. Len(calls') <= 1
      BY <2>1, <3>1
    <3>3. CallsAreTrue'
      BY <1>1, <2>1, <3>1, <3>2 DEF DispatchInv, CallsAreTrue
    <3> QED
      BY <1>2, <1>3, <1>4, <3>1, <3>3 DEF DispatchInv, CountersInv
  <2>3. CASE UNCHANGED <<calls, heard>>
    <3>1. CallsAreTrue'
      BY <1>1, <2>1, <2>3 DEF DispatchInv, CallsAreTrue, IterationIsStable
    <3> QED
      BY <1>2, <1>3, <1>4, <2>3, <3>1 DEF DispatchInv, CountersInv
  <2> QED
    BY <1>8, <2>2, <2>3 DEF StartupGoesOn
<1> QED
  BY <1>6, <1>7, <1>8

(* A handler ends, and with it its dispatch unless there is a next entry.  *)
LEMMA ReturningKeeps ==
  ASSUME ListsInv, DispatchInv, HandlerReturns
  PROVE  DispatchInv'
PROOF
<1> DEFINE n == Len(calls)
           s == Top.sender + 1
<1>1. /\ UNCHANGED <<habits, todo, loading, plugins, listeners, phase, requests, asked>>
      /\ calls # <<>>
  BY DEF HandlerReturns
<1>2. EntriesAreTrue' /\ AskedIsTrue' /\ PluginsInOrder'
  BY <1>1, SameEntries DEF DispatchInv, PluginsInOrder
<1>3. /\ calls \in Seq(Frame) /\ n \in Nat \ {0} /\ DOMAIN calls = 1..n
      /\ phase # "loading" /\ n - 1 \in Nat
  BY <1>1 DEF DispatchInv, CallsAreTrue
<1>4. /\ Pop \in Seq(Frame) /\ Len(Pop) = n - 1
      /\ \A k \in 1..(n - 1) : Pop[k] = calls[k]
  BY <1>3, SubSeqProperties DEF Pop
<1>5. /\ Top \in Frame /\ s \in DOMAIN listeners /\ listeners[s] \in Seq(AnyEntry)
      /\ Top.sender \in Nat /\ Top.at \in Nat \ {0}
  <2>1. calls[n] \in Frame /\ n \in DOMAIN calls
    BY <1>3
  <2>2. s \in DOMAIN listeners
    BY <2>1 DEF DispatchInv, CallsAreTrue, Top
  <2> QED
    BY <2>1, <2>2 DEF ListsInv, Frame, Handles, Top
<1>6. CASE Top.target = Everyone /\ Top.at < Len(listeners[s])
  <2> DEFINE c == [sender |-> Top.sender, target |-> Everyone,
                   at |-> Top.at + 1, of |-> Len(listeners[s])]
  <2>1. /\ calls' = Append(Pop, c)
        /\ Hears(Top.sender, Top.at + 1, n)
    BY <1>6 DEF HandlerReturns
  <2>2. Len(listeners[s]) \in Nat /\ DOMAIN listeners[s] = 1..Len(listeners[s])
    BY <1>5
  <2>3. Top.at + 1 \in DOMAIN listeners[s]
    BY <1>5, <1>6, <2>2
  <2>4. heard' \in [Plugins -> Seq(Startup)]
    BY <1>5, <2>1, <2>3, HearsKeeps
  <2>5. c \in Frame /\ c.sender = Top.sender /\ c.at = Top.at + 1 /\ c.of = Len(listeners[s])
    BY <1>5, <2>2 DEF Frame, Handles
  <2> HIDE DEF c
  <2>6. /\ calls' \in Seq(Frame) /\ Len(calls') = n /\ DOMAIN calls' = 1..n
        /\ \A k \in 1..(n - 1) : calls'[k] = calls[k]
        /\ calls'[n] = c
    <3>1. Append(Pop, c) \in Seq(Frame) /\ Len(Append(Pop, c)) = Len(Pop) + 1
          /\ \A k \in 1..Len(Pop) : Append(Pop, c)[k] = Pop[k]
          /\ Append(Pop, c)[Len(Pop) + 1] = c
      BY <1>4, <2>5, AppendProperties
    <3>2. Len(Pop) + 1 = n
      BY <1>3, <1>4
    <3> HIDE DEF n
    <3> QED
      BY <1>4, <2>1, <3>1, <3>2
  <2>7. \A k \in DOMAIN calls' : k \in 1..(n - 1) \/ k = n
    BY <1>3, <2>6
  <2>8. \A k \in DOMAIN calls' : /\ calls'[k].sender + 1 \in DOMAIN listeners
                                 /\ calls'[k].at \in DOMAIN listeners[calls'[k].sender + 1]
    BY <1>3, <1>5, <2>3, <2>5, <2>6, <2>7 DEF DispatchInv, CallsAreTrue
  <2>9. IterationIsStable => IterationIsStable'
    BY <1>1, <1>3, <2>5, <2>6, <2>7 DEF IterationIsStable
  <2>10. CallsAreTrue'
    BY <1>1, <1>3, <2>6, <2>8, <2>9 DEF DispatchInv, CallsAreTrue
  <2> QED
    BY <1>1, <1>2, <2>4, <2>10 DEF DispatchInv, CountersInv
<1>7. CASE ~(Top.target = Everyone /\ Top.at < Len(listeners[s]))
  <2>1. calls' = Pop /\ heard' = heard
    BY <1>7 DEF HandlerReturns
  <2>2. DOMAIN calls' = 1..(n - 1) /\ 1..(n - 1) \subseteq DOMAIN calls /\ n - 1 <= n
    BY <1>3, <1>4, <2>1
  <2>3. IterationIsStable => IterationIsStable'
    BY <1>1, <1>4, <2>1, <2>2 DEF IterationIsStable
  <2>4. "late" \notin habits /\ phase = "PostLoad" => Len(calls') <= 1
    BY <1>3, <1>4, <2>1 DEF DispatchInv, CallsAreTrue
  <2>5. \A k \in DOMAIN calls' : /\ calls'[k].sender + 1 \in DOMAIN listeners
                                 /\ calls'[k].at \in DOMAIN listeners[calls'[k].sender + 1]
    BY <1>4, <2>1, <2>2 DEF DispatchInv, CallsAreTrue
  <2>6. CallsAreTrue'
    BY <1>1, <1>3, <1>4, <2>1, <2>3, <2>4, <2>5 DEF DispatchInv, CallsAreTrue
  <2> QED
    BY <1>1, <1>2, <2>1, <2>6 DEF DispatchInv, CountersInv
<1> QED
  BY <1>6, <1>7

LEMMA FaultingKeeps ==
  ASSUME ListsInv, DispatchInv, HandlerFaults
  PROVE  DispatchInv'
PROOF
<1>1. /\ UNCHANGED <<habits, todo, loading, plugins, listeners, requests, asked, heard>>
      /\ calls # <<>> /\ calls' = <<>> /\ phase' \in {"game", "crashed"}
  BY DEF HandlerFaults
<1>2. phase # "loading"
  BY <1>1 DEF DispatchInv, CallsAreTrue
<1>3. PluginsInOrder'
  BY <1>1, <1>2 DEF DispatchInv, PluginsInOrder
<1>4. CallsAreTrue'
  BY <1>1 DEF CallsAreTrue, IterationIsStable
<1> QED
  BY <1>1, <1>3, <1>4, SameEntries DEF DispatchInv, CountersInv

LEMMA RefusedKeepsInv ==
  ASSUME ListsInv, DispatchInv, NEW p \in Plugins, RegisterRefused(p)
  PROVE  DispatchInv'
PROOF
<1>1. /\ UNCHANGED <<habits, todo, loading, plugins, phase, calls, asked, heard>>
      /\ requests < MaxRequests[habits] /\ requests' = requests + 1
  BY DEF RegisterRefused
<1>2. /\ DOMAIN listeners \subseteq DOMAIN listeners'
      /\ \A s \in DOMAIN listeners : listeners'[s] = listeners[s]
      /\ \A s \in DOMAIN listeners' \ DOMAIN listeners : listeners'[s] = <<>>
  BY RefusedKeeps
<1>3. \A q : Known(q)' = Known(q) /\ HandleOf(q)' = HandleOf(q)
  BY <1>1 DEF Known, HandleOf, Loaded
<1>4. EntriesAreTrue'
  <2> SUFFICES ASSUME NEW s \in DOMAIN listeners', NEW i \in DOMAIN listeners'[s]
               PROVE  EntryIsTrue(listeners[s][i])'
    BY DEF EntriesAreTrue
  <2>1. s \in DOMAIN listeners
    BY <1>2
  <2>2. EntryIsTrue(listeners[s][i])
    BY <1>2, <2>1 DEF DispatchInv, EntriesAreTrue
  <2> QED
    BY <1>1, <1>2, <1>3, <2>1, <2>2 DEF EntryIsTrue
<1>5. CallsAreTrue'
  BY <1>1, <1>2 DEF DispatchInv, CallsAreTrue, IterationIsStable
<1>6. AskedIsTrue'
  BY <1>1, <1>2, <1>3 DEF DispatchInv, AskedIsTrue, IsListed
<1>7. CountersInv'
  <2>1. MaxRequests[habits] \in Nat
    BY BoundsAssumption DEF DispatchInv, CountersInv
  <2> QED
    BY <1>1, <2>1 DEF DispatchInv, CountersInv
<1>8. PluginsInOrder'
  BY <1>1 DEF DispatchInv, PluginsInOrder
<1> QED
  BY <1>4, <1>5, <1>6, <1>7, <1>8 DEF DispatchInv

(* A file is tried once: what has its code cannot be in the lists before,  *)
(* and what fails with nothing in the lists leaves nothing behind.         *)
LEMMA LoadingKeeps ==
  ASSUME ListsInv, DispatchInv,
         (\E p \in Plugins : SkipFile(p) \/ BeginPlugin(p)) \/ PluginLoads \/ PluginFails
  PROVE  DispatchInv'
PROOF
<1>1. UNCHANGED <<habits, listeners, phase, calls, requests, asked, heard>>
  BY DEF SkipFile, BeginPlugin, PluginLoads, PluginFails
<1>2. CallsAreTrue' /\ CountersInv'
  BY <1>1 DEF DispatchInv, CallsAreTrue, CountersInv, IterationIsStable
<1>3. /\ todo \subseteq Plugins /\ plugins \in Seq(Plugins) /\ Len(plugins) \in Nat
      /\ DOMAIN plugins = 1..Len(plugins)
  BY DEF ListsInv
<1>4. /\ IsFiniteSet(todo) /\ Cardinality(todo) \in Nat /\ Cardinality(Plugins) \in Nat
      /\ \A p \in todo : Cardinality(todo \ {p}) = Cardinality(todo) - 1
  BY <1>3, PluginsAssumption, FS_Subset, FS_CardinalityType, FS_RemoveElement
<1>5. CASE \E p \in Plugins : SkipFile(p) \/ BeginPlugin(p)
  <2>1. PICK p \in Plugins : SkipFile(p) \/ BeginPlugin(p)
    BY <1>5
  <2>2. /\ phase = "loading" /\ loading = None /\ p \in todo /\ todo' = todo \ {p}
        /\ loading' \in {None, p} /\ plugins' = plugins
    BY <2>1 DEF SkipFile, BeginPlugin
  <2>3. p # None /\ None \notin todo
    BY <1>3, <2>2, NoneAssumption
  <2>4. PluginsInOrder'
    <3>1. Len(plugins) + Cardinality(todo) <= Cardinality(Plugins)
      BY <1>3, <1>4, <2>2 DEF DispatchInv, PluginsInOrder
    <3>2. Len(plugins) + Cardinality(todo \ {p}) + (IF loading' = None THEN 0 ELSE 1)
            <= Cardinality(Plugins)
      BY <1>3, <1>4, <2>2, <2>3, <3>1
    <3>3. \A i \in DOMAIN plugins : plugins[i] # loading' /\ plugins[i] \notin todo'
      BY <2>2 DEF DispatchInv, PluginsInOrder
    <3>4. loading' \notin todo'
      BY <2>2, <2>3
    <3> QED
      BY <1>1, <2>2, <3>2, <3>3, <3>4 DEF DispatchInv, PluginsInOrder
  <2>5. \A q : q \notin todo => Known(q)' = Known(q) /\ (Known(q) => HandleOf(q)' = HandleOf(q))
    <3> SUFFICES ASSUME NEW q, q \notin todo
                 PROVE  Known(q)' = Known(q) /\ (Known(q) => HandleOf(q)' = HandleOf(q))
      OBVIOUS
    <3>1. q # p /\ Loaded' = Loaded
      BY <2>2 DEF Loaded
    <3>2. Known(q)' = Known(q)
      BY <2>2, <2>3, <3>1 DEF Known
    <3>3. ASSUME Known(q) PROVE HandleOf(q)' = HandleOf(q)
      <4>1. q # None
        BY <3>3, HandleFacts DEF DispatchInv
      <4> QED
        BY <2>2, <3>1, <4>1 DEF HandleOf
    <3> QED
      BY <3>2, <3>3
  <2>6. EntriesAreTrue'
    <3> SUFFICES ASSUME NEW s \in DOMAIN listeners, NEW i \in DOMAIN listeners[s]
                 PROVE  EntryIsTrue(listeners[s][i])'
      BY <1>1 DEF EntriesAreTrue
    <3>1. EntryIsTrue(listeners[s][i])
      BY DEF DispatchInv, EntriesAreTrue
    <3> QED
      BY <1>1, <2>2, <2>5, <3>1 DEF EntryIsTrue
  <2>7. AskedIsTrue'
    BY <1>1, <2>2, <2>5 DEF DispatchInv, AskedIsTrue, IsListed
  <2> QED
    BY <1>2, <2>4, <2>6, <2>7 DEF DispatchInv
<1>6. CASE PluginLoads
  <2>1. /\ loading # None /\ loading \in Plugins /\ loading' = None /\ todo' = todo
        /\ plugins' = Append(plugins, loading)
    BY <1>6 DEF PluginLoads, ListsInv
  <2>2. /\ DOMAIN plugins' = 1..(Len(plugins) + 1) /\ Len(plugins') = Len(plugins) + 1
        /\ plugins'[Len(plugins) + 1] = loading
        /\ \A i \in 1..Len(plugins) : plugins'[i] = plugins[i]
    BY <1>3, <2>1
  <2>3. \A i \in DOMAIN plugins' : i \in DOMAIN plugins \/ i = Len(plugins) + 1
    BY <1>3, <2>2
  <2>4. phase = "loading"
    BY <2>1 DEF DispatchInv, PluginsInOrder
  <2>5. /\ \A i, j \in DOMAIN plugins' : plugins'[i] = plugins'[j] => i = j
        /\ \A i \in DOMAIN plugins' : plugins'[i] \notin todo /\ plugins'[i] # None
    <3>1. \A i \in DOMAIN plugins : plugins[i] \in Plugins /\ plugins[i] # loading
      BY <1>3 DEF DispatchInv, PluginsInOrder
    <3>2. \A i, j \in DOMAIN plugins : plugins[i] = plugins[j] => i = j
      BY DEF DispatchInv, PluginsInOrder
    <3>3. \A i \in DOMAIN plugins : plugins[i] \notin todo
      BY DEF DispatchInv, PluginsInOrder
    <3>4. loading \notin todo
      BY DEF DispatchInv, PluginsInOrder
    <3> QED
      BY <1>3, <2>1, <2>2, <2>3, <3>1, <3>2, <3>3, <3>4, NoneAssumption
  <2>6. PluginsInOrder'
    <3>1. Len(plugins) + Cardinality(todo) + 1 <= Cardinality(Plugins)
      BY <2>1 DEF DispatchInv, PluginsInOrder
    <3>2. Len(plugins') + Cardinality(todo') + (IF loading' = None THEN 0 ELSE 1)
            <= Cardinality(Plugins)
      BY <1>3, <1>4, <2>1, <2>2, <3>1
    <3>3. None \notin todo
      BY <1>3, NoneAssumption
    <3> QED
      BY <1>1, <2>1, <2>4, <2>5, <3>2, <3>3 DEF PluginsInOrder
  <2>7. ASSUME NEW q, Known(q) \/ Known(q)'
        PROVE  Known(q) /\ Known(q)' /\ HandleOf(q)' = HandleOf(q)
    <3>1. Known(q) /\ Known(q)'
      BY <1>3, <2>1, <2>2, <2>3, <2>7, NoneAssumption DEF Known, Loaded
    <3>2. /\ HandleOf(q) \in DOMAIN plugins'
          /\ plugins'[HandleOf(q)] = q
      BY <1>3, <2>2, <3>1, HandleFacts DEF DispatchInv
    <3>3. HandleOf(q)' = CHOOSE i \in DOMAIN plugins' : plugins'[i] = q
      <4>1. q # None
        BY <3>1, HandleFacts DEF DispatchInv
      <4> QED
        BY <2>1, <4>1 DEF HandleOf
    <3>4. HandleOf(q)' \in DOMAIN plugins' /\ plugins'[HandleOf(q)'] = q
      BY <3>2, <3>3
    <3> QED
      BY <2>5, <3>1, <3>2, <3>4
  <2>8. EntriesAreTrue'
    <3> SUFFICES ASSUME NEW s \in DOMAIN listeners, NEW i \in DOMAIN listeners[s]
                 PROVE  EntryIsTrue(listeners[s][i])'
      BY <1>1 DEF EntriesAreTrue
    <3>1. EntryIsTrue(listeners[s][i])
      BY DEF DispatchInv, EntriesAreTrue
    <3> QED
      BY <1>1, <2>1, <2>7, <3>1 DEF EntryIsTrue
  <2>9. AskedIsTrue'
    BY <1>1, <2>1, <2>7 DEF DispatchInv, AskedIsTrue, IsListed
  <2> QED
    BY <1>2, <2>6, <2>8, <2>9 DEF DispatchInv
<1>7. CASE PluginFails
  <2>1. /\ loading # None /\ loading' = None /\ todo' = todo /\ plugins' = plugins
        /\ \/ "fail" \in habits
           \/ \A i \in DOMAIN listeners : ~Listens(HandleOf(loading), listeners[i])
    BY <1>7 DEF PluginFails
  <2>2. PluginsInOrder'
    <3>1. None \notin todo /\ \A i \in DOMAIN plugins : plugins[i] # None
      BY <1>3, NoneAssumption
    <3>2. Len(plugins) + Cardinality(todo) <= Cardinality(Plugins)
      BY <1>3, <1>4, <2>1 DEF DispatchInv, PluginsInOrder
    <3>3. Len(plugins') + Cardinality(todo') + (IF loading' = None THEN 0 ELSE 1)
            <= Cardinality(Plugins)
      BY <1>3, <1>4, <2>1, <3>2
    <3> QED
      BY <1>1, <2>1, <3>1, <3>3 DEF DispatchInv, PluginsInOrder
  <2>3. \A q : /\ Known(q)' => Known(q) /\ HandleOf(q)' = HandleOf(q)
               /\ Known(q) => Known(q)' \/ q = loading
    <3>1. \A q : q \in Loaded => q # loading /\ q # None
      BY <1>3, NoneAssumption DEF DispatchInv, PluginsInOrder, Loaded
    <3> QED
      BY <2>1, <3>1 DEF Known, HandleOf, Loaded
  <2>4. EntriesAreTrue'
    <3> SUFFICES ASSUME NEW s \in DOMAIN listeners, NEW i \in DOMAIN listeners[s]
                 PROVE  EntryIsTrue(listeners[s][i])'
      BY <1>1 DEF EntriesAreTrue
    <3>1. EntryIsTrue(listeners[s][i])
      BY DEF DispatchInv, EntriesAreTrue
    <3>2. "fail" \notin habits => listeners[s][i].code # loading
      <4>1. "fail" \notin habits => listeners[s][i].listener # HandleOf(loading)
        BY <2>1 DEF Listens
      <4> QED
        BY <3>1, <4>1 DEF EntryIsTrue
    <3> QED
      BY <1>1, <2>1, <2>3, <3>1, <3>2 DEF EntryIsTrue
  <2>5. AskedIsTrue'
    BY <1>1, <2>1, <2>3 DEF DispatchInv, AskedIsTrue, IsListed
  <2> QED
    BY <1>2, <2>2, <2>4, <2>5 DEF DispatchInv
<1> QED
  BY <1>5, <1>6, <1>7

LEMMA DispatchStep ==
  ASSUME ListsInv, ListsInv', DispatchInv, [PluginNext]_pluginVars
  PROVE  DispatchInv'
PROOF
<1>1. CASE UNCHANGED pluginVars
  <2>1. UNCHANGED <<habits, todo, loading, plugins, listeners, phase, calls, requests, asked, heard>>
    BY <1>1 DEF pluginVars
  <2> QED
    BY <2>1, SameEntries
       DEF DispatchInv, PluginsInOrder, CallsAreTrue, IterationIsStable, CountersInv
<1>2. CASE \E p \in Plugins : (\E h \in Handles : RegisterWith(p, h)) \/ RegisterWithAll(p)
  BY <1>2, RegisteringKeepsCalls, RegisteringKeepsAsked DEF DispatchInv
<1>3. CASE \E p \in Plugins : RegisterRefused(p)
  BY <1>3, RefusedKeepsInv
<1>4. CASE (\E p \in Plugins, target \in Handles \cup {Everyone} : Dispatch(p, target))
             \/ GameMessage \/ StartupGoesOn
  BY <1>4, DispatchingKeeps
<1>5. CASE (\E p \in Plugins : SkipFile(p) \/ BeginPlugin(p)) \/ PluginLoads \/ PluginFails
  BY <1>5, LoadingKeeps
<1>6. CASE HandlerReturns \/ HandlerFaults
  BY <1>6, ReturningKeeps, FaultingKeeps
<1> QED
  BY <1>1, <1>2, <1>3, <1>4, <1>5, <1>6 DEF PluginNext, PluginStep

LEMMA DispatchInvHolds == PluginSafeSpec => [](ListsInv /\ DispatchInv)
PROOF
<1>1. PluginInit => DispatchInv
  <2> SUFFICES ASSUME PluginInit PROVE DispatchInv
    OBVIOUS
  <2>1. habits \in HabitSets /\ 0 \in 0..MaxRequests[habits]
    BY BoundsAssumption DEF PluginInit
  <2>2. PluginsInOrder
    BY PluginsAssumption, FS_CardinalityType, NoneAssumption DEF PluginInit, PluginsInOrder
  <2>3. EntriesAreTrue /\ CallsAreTrue /\ AskedIsTrue
    BY DEF PluginInit, EntriesAreTrue, CallsAreTrue, AskedIsTrue, IterationIsStable
  <2> QED
    BY <2>1, <2>2, <2>3 DEF PluginInit, DispatchInv, CountersInv
<1>2. ListsInv /\ ListsInv' /\ DispatchInv /\ [PluginNext]_pluginVars => DispatchInv'
  BY DispatchStep
<1> QED
  BY <1>1, <1>2, ListsInvHolds, PTL DEF PluginSafeSpec

LEMMA DispatchTypes ==
  ASSUME ListsInv, DispatchInv
  PROVE  PluginTypeOK
PROOF
<1>1. listeners \in Seq(Seq(Entry))
  <2>1. /\ listeners \in Seq(Seq(AnyEntry)) /\ Len(listeners) \in Nat
        /\ DOMAIN listeners = 1..Len(listeners)
    BY DEF ListsInv
  <2>2. ASSUME NEW s \in DOMAIN listeners PROVE listeners[s] \in Seq(Entry)
    <3>1. listeners[s] \in Seq(AnyEntry)
      BY <2>1
    <3>2. ASSUME NEW i \in DOMAIN listeners[s] PROVE listeners[s][i] \in Entry
      <4>1. listeners[s][i] \in AnyEntry /\ listeners[s][i].listener \in Handles
        BY <3>1 DEF DispatchInv, EntriesAreTrue, EntryIsTrue
      <4> QED
        BY <4>1 DEF AnyEntry, Entry
    <3>3. Len(listeners[s]) \in Nat /\ DOMAIN listeners[s] = 1..Len(listeners[s])
          /\ listeners[s] = [i \in 1..Len(listeners[s]) |-> listeners[s][i]]
      BY <3>1
    <3> QED
      BY <3>2, <3>3
  <2>3. listeners = [s \in 1..Len(listeners) |-> listeners[s]]
    BY <2>1
  <2> QED
    BY <2>1, <2>2, <2>3
<1> QED
  BY <1>1
     DEF PluginTypeOK, ListsInv, DispatchInv, PluginsInOrder, CallsAreTrue, AskedIsTrue, CountersInv

(* Dispatch_Message is sound, for any number of plugins, nested dispatches *)
(* and requests: the list whose handler runs is only changed from within a *)
(* dispatch nested in it (PluginManager.cpp:547 iterates over the list it  *)
(* calls out of); without late registrations no list changes under any     *)
(* dispatch; and unless a plugin failed to load, whoever is called is      *)
(* loaded, under the handle the entry has.                                 *)
THEOREM DispatchesAlwaysSound == PluginSafeSpec => DispatchesAreSound
PROOF
<1>1. ListsInv /\ DispatchInv => PluginTypeOK
  BY DispatchTypes
<1>2. ListsInv /\ DispatchInv => ("fail" \notin habits => HandlersAreLoaded)
  <2> SUFFICES ASSUME ListsInv, DispatchInv, "fail" \notin habits, NEW k \in DOMAIN calls
               PROVE  LET e == listeners[calls[k].sender + 1][calls[k].at]
                      IN e.code \in Loaded /\ HandleOf(e.code) = e.listener
    BY DEF HandlersAreLoaded
  <2> DEFINE e == listeners[calls[k].sender + 1][calls[k].at]
  <2>1. EntryIsTrue(e)
    BY DEF DispatchInv, CallsAreTrue, EntriesAreTrue
  <2>2. loading = None
    BY DEF DispatchInv, CallsAreTrue, PluginsInOrder
  <2> QED
    BY <2>1, <2>2 DEF EntryIsTrue, Known
<1>3. DispatchInv => ("late" \notin habits => IterationIsStable)
  BY DEF DispatchInv, CallsAreTrue
<1>4. ListsInv /\ DispatchInv /\ [PluginNext]_pluginVars =>
        [\A k \in DOMAIN calls :
           listeners'[calls[k].sender + 1] # listeners[calls[k].sender + 1]
             => k < Len(calls)]_pluginVars
  <2> SUFFICES ASSUME ListsInv, DispatchInv, PluginNext, NEW k \in DOMAIN calls,
                      listeners'[calls[k].sender + 1] # listeners[calls[k].sender + 1]
               PROVE  k < Len(calls)
    OBVIOUS
  <2>1. /\ DOMAIN calls = 1..Len(calls) /\ Len(calls) \in Nat /\ calls # <<>>
        /\ calls[k].sender + 1 \in DOMAIN listeners
    BY DEF DispatchInv, CallsAreTrue
  <2>2. CASE listeners' = listeners
    BY <2>2
  <2>3. CASE \E p \in Plugins : RegisterRefused(p)
    BY <2>1, <2>3, RefusedKeeps
  <2>4. CASE \E p \in Plugins : (\E h \in Handles : RegisterWith(p, h)) \/ RegisterWithAll(p)
    <3>1. PICK p \in Plugins : (\E h \in Handles : RegisterWith(p, h)) \/ RegisterWithAll(p)
      BY <2>4
    <3>2. p \in Running
      BY <3>1 DEF RegisterWith, RegisterWithAll
    <3>3. listeners'[Top.sender + 1] = listeners[Top.sender + 1]
      BY <2>1, <3>1, <3>2, RegisteringLengthens, OwnListIsKept
    <3>4. k # Len(calls)
      BY <3>3 DEF Top
    <3> QED
      BY <2>1, <3>4
  <2>5. listeners' = listeners \/ (\E p \in Plugins : RegisterRefused(p))
          \/ (\E p \in Plugins : (\E h \in Handles : RegisterWith(p, h)) \/ RegisterWithAll(p))
    BY DEF PluginNext, PluginStep, SkipFile, BeginPlugin, PluginLoads, PluginFails,
           StartupGoesOn, HandlerReturns, HandlerFaults, Dispatch, GameMessage
  <2> QED
    BY <2>2, <2>3, <2>4, <2>5
<1>5. PluginSafeSpec => OwnHandlerKeepsList
  BY <1>4, DispatchInvHolds, PTL DEF PluginSafeSpec, OwnHandlerKeepsList
<1>6. PluginSafeSpec => [](/\ PluginTypeOK
                           /\ "fail" \notin habits => HandlersAreLoaded
                           /\ "late" \notin habits => IterationIsStable)
  BY <1>1, <1>2, <1>3, DispatchInvHolds, PTL
<1> QED
  BY <1>5, <1>6 DEF DispatchesAreSound

(* RegisterListener keeps its word: unless a plugin failed to load or      *)
(* registers with all a second time, a plugin that was told true is in the *)
(* list of every sender it asked for, because idx then follows the lists   *)
(* (PluginManager.cpp:497).                                                *)
THEOREM OrderlyRegistrationAlwaysHolds == PluginSafeSpec => []OrderlyRegistrationHolds
PROOF
<1>1. DispatchInv => OrderlyRegistrationHolds
  <2>1. ASSUME DispatchInv, habits \cap {"fail", "again"} = {}, NEW a \in asked,
               a[1] \in Loaded \cup {loading}
        PROVE  \E i \in DOMAIN listeners[a[2] + 1] : listeners[a[2] + 1][i].code = a[1]
    <3>1. a[1] \in Plugins
      BY <2>1 DEF DispatchInv, AskedIsTrue
    <3>2. Known(a[1])
      BY <2>1, <3>1, NoneAssumption DEF Known
    <3> QED
      BY <2>1, <3>2 DEF DispatchInv, AskedIsTrue, IsListed
  <2> QED
    BY <2>1 DEF OrderlyRegistrationHolds, RegistrationHolds
<1> QED
  BY <1>1, DispatchInvHolds, PTL

-----------------------------------------------------------------------------
(* The addresses of the damage plugin.  What makes it inductive: what is   *)
(* resolved is a beginning of the signatures, the cache too has a version's*)
(* own addresses unless a call was patched, and the hooks are the last two *)
(* signatures.                                                             *)
CacheIsOwn ==
  \A v \in Versions, n \in Names :
    cache[v][n] \in {NoAddress, Own(v, n)} \/ <<v, n>> \in everPatched

PatchedIsNoted == \A n \in patched : <<version, n>> \in everPatched

ResolvedInOrder ==
  /\ \A i \in DOMAIN Signatures : i < next => resolved[Signatures[i]] # NoAddress
  /\ at \in {"query", "create"} => next = 1
  /\ at \in {"register", "loaded"} => next = Len(Signatures) + 1
  /\ at # "failed" => library = "in"
  /\ hooks # {} => next > Len(Globals)

LoadInv ==
  LoadTypeOK /\ AddressesAreCurrent /\ CacheIsOwn /\ PatchedIsNoted /\ ResolvedInOrder

LEMMA SignaturesFacts ==
  /\ Len(Globals) \in Nat /\ DOMAIN Globals = 1..Len(Globals)
  /\ Len(Signatures) = Len(Globals) + 2 /\ DOMAIN Signatures = 1..(Len(Globals) + 2)
  /\ \A i \in 1..Len(Globals) : Signatures[i] = Globals[i]
  /\ Signatures[Len(Globals) + 1] = FrameHook /\ Signatures[Len(Globals) + 2] = HealthHook
<1> DEFINE S == {Globals[i] : i \in DOMAIN Globals} \cup {FrameHook, HealthHook}
<1>1. Globals \in Seq({Globals[i] : i \in DOMAIN Globals})
  BY GlobalsAssumption
<1>2. Globals \in Seq(S) /\ <<FrameHook, HealthHook>> \in Seq(S)
  <2>1. \A i \in 1..Len(Globals) : Globals[i] \in S
    BY <1>1
  <2>2. Globals = [i \in 1..Len(Globals) |-> Globals[i]] /\ Len(Globals) \in Nat
    BY <1>1
  <2>3. QED
    BY <2>1, <2>2
<1> HIDE DEF S
<1>3. QED
  BY <1>2 DEF Signatures

LEMMA LoadInitially == LoadInit => LoadInv
<1> SUFFICES ASSUME LoadInit PROVE LoadInv
  OBVIOUS
<1>1. 1 \in 1..(Len(Signatures) + 1) /\ Len(Signatures) \in Nat
  BY SignaturesFacts
<1>2. Nothing \in [Names -> Addresses] /\ \A n \in Names : Nothing[n] = NoAddress
  BY DEF Nothing, Addresses
<1>3. LoadTypeOK
  BY <1>1, <1>2, LaunchesAssumption DEF LoadInit, LoadTypeOK
<1>4. QED
  BY <1>1, <1>2, <1>3, SignaturesFacts
     DEF LoadInit, LoadInv, AddressesAreCurrent, CacheIsOwn, PatchedIsNoted, ResolvedInOrder

(* What an address may be: one kept from an earlier launch, one in the     *)
(* game, or one in a trampoline of this launch.                            *)
LEMMA LookupFacts ==
  ASSUME LoadInv, NEW n \in Names
  PROVE  /\ Lookup(n) \in Addresses
         /\ Lookup(n) \in {NoAddress, Own(version, n)} \/ <<version, n>> \in everPatched
<1>1. /\ version \in Versions /\ launch \in 1..MaxLaunches
      /\ cache[version][n] \in Addresses
      /\ cache[version][n] \in {NoAddress, Own(version, n)} \/ <<version, n>> \in everPatched
  BY DEF LoadInv, LoadTypeOK, CacheIsOwn
<1>2. Own(version, n) \in Addresses /\ Foreign(launch, n) \in Addresses /\ NoAddress \in Addresses
  BY <1>1 DEF Addresses, Own, Foreign
<1>3. n \in patched => <<version, n>> \in everPatched
  BY DEF LoadInv, PatchedIsNoted
<1>4. QED
  BY <1>1, <1>2, <1>3 DEF Lookup, Scanned

LEMMA ResolveKeeps ==
  ASSUME LoadInv, Resolve
  PROVE  LoadInv'
<1> DEFINE n == Signatures[next]
           address == Lookup(n)
<1>1. next \in 1..(Len(Globals) + 2) /\ Len(Globals) \in Nat /\ at = "resolve"
  BY SignaturesFacts DEF LoadInv, LoadTypeOK, Resolve
<1>2. n \in Names
  BY <1>1, SignaturesFacts DEF Names
<1>3. /\ address \in Addresses /\ address # NoAddress
      /\ address = Own(version, n) \/ <<version, n>> \in everPatched
  BY <1>2, LookupFacts DEF Resolve
<1>4. /\ resolved' = [resolved EXCEPT ![n] = address]
      /\ cache' = [cache EXCEPT ![version][n] = address]
      /\ hooks' \in {hooks, HooksAfter(n)} /\ next' = next + 1
      /\ at' = (IF next = Len(Signatures) THEN "register" ELSE "resolve")
      /\ UNCHANGED <<launch, version, patched, library, everPatched>>
  BY DEF Resolve
<1> HIDE DEF n, address
<1>5. /\ resolved \in [Names -> Addresses] /\ cache \in [Versions -> [Names -> Addresses]]
      /\ hooks \subseteq {FrameHook, HealthHook} /\ version \in Versions
  BY DEF LoadInv, LoadTypeOK
<1>6. resolved' \in [Names -> Addresses] /\ cache' \in [Versions -> [Names -> Addresses]]
  BY <1>2, <1>3, <1>4, <1>5
<1>7. LoadTypeOK'
  <2>1. hooks' \subseteq {FrameHook, HealthHook}
    BY <1>4, <1>5 DEF HooksAfter
  <2>2. next' \in 1..(Len(Signatures) + (IF at' = "resolve" THEN 0 ELSE 1))
    BY <1>1, <1>4, SignaturesFacts
  <2>3. QED
    BY <1>4, <1>6, <2>1, <2>2 DEF LoadInv, LoadTypeOK, Addresses, Names
<1>8. AddressesAreCurrent' /\ CacheIsOwn' /\ PatchedIsNoted'
  <2>1. AddressesAreCurrent'
    BY <1>3, <1>4, <1>5 DEF LoadInv, AddressesAreCurrent, Own
  <2>2. CacheIsOwn'
    BY <1>2, <1>3, <1>4, <1>5 DEF LoadInv, CacheIsOwn, Own
  <2>3. PatchedIsNoted'
    BY <1>4 DEF LoadInv, PatchedIsNoted
  <2>4. QED
    BY <2>1, <2>2, <2>3
<1>9. ResolvedInOrder'
  <2>1. ASSUME NEW i \in DOMAIN Signatures, i < next' PROVE resolved'[Signatures[i]] # NoAddress
    <3>1. Signatures[i] \in Names
      BY DEF Names
    <3>2. CASE Signatures[i] = n
      BY <1>2, <1>3, <1>4, <1>5, <3>2
    <3>3. CASE Signatures[i] # n
      <4>1. i < next
        BY <1>1, <1>4, <2>1, <3>3, SignaturesFacts DEF n
      <4>2. QED
        BY <1>4, <1>5, <3>1, <3>3, <4>1 DEF LoadInv, ResolvedInOrder
    <3>4. QED
      BY <3>2, <3>3
  <2>2. hooks' # {} => next' > Len(Globals)
    <3>1. CASE next <= Len(Globals)
      <4>1. n \notin {FrameHook, HealthHook}
        BY <1>1, <3>1, SignaturesFacts, HooksAssumption DEF n
      <4>2. hooks = {}
        BY <1>1, <3>1 DEF LoadInv, ResolvedInOrder
      <4>3. QED
        BY <1>4, <4>1, <4>2 DEF HooksAfter
    <3>2. CASE ~(next <= Len(Globals))
      BY <1>1, <1>4, <3>2
    <3>3. QED
      BY <3>1, <3>2
  <2>3. at' \in {"register", "loaded"} => next' = Len(Signatures) + 1
    BY <1>4
  <2>4. QED
    BY <1>1, <1>4, <2>1, <2>2, <2>3 DEF LoadInv, ResolvedInOrder
<1>10. QED
  BY <1>7, <1>8, <1>9 DEF LoadInv

LEMMA LoadStep == LoadInv /\ [LoadNext]_loadVars => LoadInv'
<1> SUFFICES ASSUME LoadInv, [LoadNext]_loadVars PROVE LoadInv'
  OBVIOUS
<1>1. ASSUME NEW v \in Versions, NEW p \in SUBSET Calls, launch < MaxLaunches,
             Started(v, p, launch + 1), UNCHANGED cache
      PROVE  LoadInv'
  <2>1. 1 \in 1..(Len(Signatures) + 1) /\ Len(Signatures) \in Nat
    BY SignaturesFacts
  <2>2. Nothing \in [Names -> Addresses] /\ \A n \in Names : Nothing[n] = NoAddress
    BY DEF Nothing, Addresses
  <2>3. everPatched' \subseteq Versions \X Names /\ everPatched \subseteq everPatched'
    BY <1>1, CallsAssumption DEF Started, LoadInv, LoadTypeOK
  <2>4. launch' \in 1..MaxLaunches
    BY <1>1, LaunchesAssumption DEF Started, LoadInv, LoadTypeOK
  <2>5. LoadTypeOK'
    BY <1>1, <2>1, <2>2, <2>3, <2>4 DEF Started, LoadInv, LoadTypeOK, Addresses, Names
  <2>6. AddressesAreCurrent' /\ CacheIsOwn' /\ PatchedIsNoted'
    BY <1>1, <2>2, <2>3 DEF Started, LoadInv, AddressesAreCurrent, CacheIsOwn, PatchedIsNoted, Own
  <2>7. ResolvedInOrder'
    BY <1>1, <2>1, SignaturesFacts DEF Started, ResolvedInOrder
  <2>8. QED
    BY <2>5, <2>6, <2>7 DEF LoadInv
<1>2. ASSUME UNCHANGED <<launch, version, patched, next, resolved, hooks, cache, everPatched>>
      PROVE  /\ AddressesAreCurrent' /\ CacheIsOwn' /\ PatchedIsNoted'
             /\ at' \in {"query", "create", "resolve", "register", "loaded", "failed"}
                /\ library' \in {"in", "freed"} /\ (at' = "resolve" => next # Len(Signatures) + 1)
                => LoadTypeOK'
  <2>1. AddressesAreCurrent' /\ CacheIsOwn' /\ PatchedIsNoted'
    BY <1>2 DEF LoadInv, AddressesAreCurrent, CacheIsOwn, PatchedIsNoted, Own
  <2>2. next \in 1..(Len(Signatures) + 1) /\ Len(Signatures) \in Nat
    BY SignaturesFacts DEF LoadInv, LoadTypeOK
  <2>3. at' = "resolve" /\ next # Len(Signatures) + 1 => next \in 1..(Len(Signatures) + 0)
    BY <2>2
  <2>4. QED
    BY <1>2, <2>1, <2>2, <2>3 DEF LoadInv, LoadTypeOK, Addresses, Names
<1>3. CASE Query \/ Create \/ GiveUp \/ Registered
  <2>1. /\ UNCHANGED <<launch, version, patched, next, resolved, hooks, cache, everPatched>>
        /\ at' \in {"query", "create", "resolve", "register", "loaded", "failed"}
        /\ library' \in {"in", "freed"} /\ (at' # "failed" => library' = library)
        /\ at' = "create" => at = "query"
        /\ at' = "resolve" => at = "create"
        /\ at' = "loaded" => at = "register"
        /\ at' \notin {"query", "register"}
    BY <1>3 DEF Query, Create, GiveUp, Registered, LoadInv, LoadTypeOK
  <2>2. ResolvedInOrder'
    BY <1>3, <2>1 DEF LoadInv, ResolvedInOrder, Query, Create, GiveUp, Registered
  <2>3. at' = "resolve" => next # Len(Signatures) + 1
    BY <2>1, SignaturesFacts DEF LoadInv, ResolvedInOrder
  <2>4. QED
    BY <1>2, <2>1, <2>2, <2>3 DEF LoadInv
<1>4. CASE UNCHANGED loadVars
  BY <1>4 DEF loadVars, LoadInv, LoadTypeOK, AddressesAreCurrent, CacheIsOwn, PatchedIsNoted,
              ResolvedInOrder, Addresses, Names, Own
<1>5. QED
  BY <1>1, <1>3, <1>4, ResolveKeeps DEF LoadNext, Restart

(* Whatever the game lacks and whatever is in FloatingDamage.mem, the hooks*)
(* are written last and a plugin that loaded has every address of the      *)
(* version that runs: for any versions, signatures, patched calls and      *)
(* number of launches.                                                     *)
THEOREM HooksAlwaysUseResolved == LoadSpec => []HooksUseResolved
<1>1. LoadInv => HooksUseResolved
  <2> SUFFICES ASSUME LoadInv PROVE HooksComeLast /\ LoadedIsResolved
    BY DEF LoadInv, HooksUseResolved
  <2>1. HooksComeLast
    <3> SUFFICES ASSUME hooks # {}, NEW i \in DOMAIN Globals
                 PROVE  resolved[Globals[i]] # NoAddress
      BY DEF HooksComeLast
    <3>1. i \in DOMAIN Signatures /\ Signatures[i] = Globals[i] /\ i <= Len(Globals)
      BY SignaturesFacts
    <3>2. next \in Nat /\ i < next
      BY <3>1, SignaturesFacts DEF LoadInv, LoadTypeOK, ResolvedInOrder
    <3>3. QED
      BY <3>1, <3>2 DEF LoadInv, ResolvedInOrder
  <2>2. LoadedIsResolved
    BY SignaturesFacts DEF LoadInv, ResolvedInOrder, LoadedIsResolved, Names
  <2>3. QED
    BY <2>1, <2>2
<1>2. QED
  BY <1>1, LoadInitially, LoadStep, PTL DEF LoadSpec

-----------------------------------------------------------------------------
(* The loader of the game.  Before the game is created nothing is in it;   *)
(* the name of the library is in the game until the injected thread has    *)
(* taken it; and unless something went wrong, a thread that ended left the *)
(* library behind, and a game that runs was let go by the loader, which    *)
(* waited for that.                                                        *)
NoGameYet ==
  /\ pc \in {"options", "identify", "dll", "steam", "input idle", "environment", "create"}
       => game = "none" /\ remote = "none" /\ ~injected
  /\ pc = "inject" => remote = "none" /\ ~injected
  /\ main = "winmain" => game \notin {"none", "suspended"}

NameIsKept ==
  /\ remote = "starting" => path # "none"
  /\ path = "garbled" => mishap
  /\ path = "freed" \/ pc = "free" => mishap \/ injected
  /\ injected => remote = "ended"

EndedHasLoaded ==
  ~mishap /\ remote = "ended" /\ Alive =>
    InjectedDll \in loaded /\ (InjectedDll = SteamLoader => hooked)

RunningWasReleased == game = "running" => mishap \/ injected

LaunchInv ==
  /\ mishap \in BOOLEAN /\ injected \in BOOLEAN /\ path \in {"none", "held", "garbled", "freed"}
  /\ NoGameYet /\ NameIsKept /\ EndedHasLoaded /\ RunningWasReleased /\ CleanLaunchHasF4SE

LEMMA LaunchInitially == LaunchInit => LaunchInv
BY DEF LaunchInit, LaunchInv, NoGameYet, NameIsKept, EndedHasLoaded, RunningWasReleased,
       CleanLaunchHasF4SE, Alive

(* The library that is injected is settled when the options are read.      *)
LEMMA DllIsSettled ==
  ASSUME UNCHANGED <<opts, exe>>
  PROVE  InjectedDll' = InjectedDll /\ BesideGame' = BesideGame
BY DEF InjectedDll, DllPath, BesideGame

(* Before there is a game.                                                 *)
LEMMA PreparingKeeps ==
  ASSUME LaunchInv, UNCHANGED <<gameVars, injected>>,
         pc \in {"options", "identify", "dll", "steam", "input idle", "environment"},
         pc' \in {"options", "identify", "dll", "steam", "input idle", "environment",
                  "create", "exit"},
         mishap' \in BOOLEAN, mishap => mishap'
  PROVE  LaunchInv'
<1>1. game = "none" /\ remote = "none" /\ main # "winmain" /\ ~injected
  BY DEF LaunchInv, NoGameYet
<1>2. /\ UNCHANGED <<game, given, path, remote, loaded, hooked, main, early>>
      /\ injected' = injected /\ injected \in BOOLEAN
  BY DEF gameVars, LaunchInv
<1>21. injected = FALSE
  BY <1>1, <1>2
<1>22. injected' = FALSE
  BY <1>21, <1>2
<1>3. NoGameYet'
  <2>1. game' = "none" /\ remote' = "none" /\ main' # "winmain"
    BY <1>1, <1>2
  <2>2. QED
    BY <2>1, <1>22 DEF NoGameYet
<1>4. NameIsKept'
  <2>1. pc' # "free" /\ remote' # "starting"
    BY <1>1, <1>2
  <2>2. (path = "garbled" => mishap) /\ (path = "freed" => mishap)
    BY <1>1 DEF LaunchInv, NameIsKept
  <2>3. QED
    BY <1>2, <1>22, <2>1, <2>2 DEF NameIsKept
<1>5. EndedHasLoaded' /\ RunningWasReleased' /\ CleanLaunchHasF4SE'
  BY <1>1, <1>2 DEF EndedHasLoaded, RunningWasReleased, CleanLaunchHasF4SE
<1>6. QED
  BY <1>2, <1>3, <1>4, <1>5 DEF LaunchInv

LEMMA PreparingSteps ==
  ASSUME LaunchInv,
         Options \/ Identify \/ FindDll \/ CheckSteam \/ WaitForSteam \/ SetEnvironment
  PROVE  LaunchInv'
<1>1. UNCHANGED <<gameVars, injected>>
  BY DEF Options, Identify, FindDll, CheckSteam, WaitForSteam, SetEnvironment
<1>2. /\ pc \in {"options", "identify", "dll", "steam", "input idle", "environment"}
      /\ pc' \in {"options", "identify", "dll", "steam", "input idle", "environment",
                  "create", "exit"}
  <2>1. CASE Options
    BY <2>1 DEF Options, ReadFlag, ReadValue, RejectArgument, ActOnOptions, Exit
  <2>2. CASE ~Options
    BY <2>2 DEF Identify, FindDll, CheckSteam, WaitForSteam, SetEnvironment, Exit
  <2>3. QED
    BY <2>1, <2>2
<1>3. mishap' = mishap \/ mishap' = TRUE
  BY DEF Options, Identify, FindDll, CheckSteam, WaitForSteam, SetEnvironment
<1>4. mishap' \in BOOLEAN /\ (mishap => mishap')
  BY <1>3 DEF LaunchInv
<1>5. QED
  BY <1>1, <1>2, <1>4, PreparingKeeps

(* The loader with the suspended game.                                     *)
LEMMA InjectingSteps ==
  ASSUME LaunchInv,
         CreateGame \/ InjectFails \/ StartThread \/ WaitObject \/ WaitTimeout \/ FreePath
  PROVE  LaunchInv'
<1>1. /\ InjectedDll' = InjectedDll /\ BesideGame' = BesideGame
      /\ UNCHANGED <<present, loaded, hooked, main>>
  BY DllIsSettled
     DEF CreateGame, InjectFails, StartThread, WaitObject, WaitTimeout, FreePath, disk, gameVars
<1>2. mishap' \in BOOLEAN /\ (mishap => mishap')
  BY DEF LaunchInv, CreateGame, InjectFails, StartThread, WaitObject, WaitTimeout, FreePath
<1>3. CASE CreateGame
  <2>1. /\ pc = "create" /\ UNCHANGED <<path, remote, injected>>
        /\ \/ pc' = "exit" /\ game' = game
           \/ pc' = "inject" /\ game' = "suspended"
    BY <1>3 DEF CreateGame, Exit
  <2>2. game = "none" /\ remote = "none" /\ ~injected /\ main # "winmain"
    BY <2>1 DEF LaunchInv, NoGameYet
  <2>3. QED
    BY <1>1, <1>2, <2>1, <2>2
       DEF LaunchInv, NoGameYet, NameIsKept, EndedHasLoaded, RunningWasReleased,
           CleanLaunchHasF4SE
<1>4. CASE StartThread
  <2>1. /\ pc = "inject" /\ pc' = "wait" /\ remote' = "starting" /\ path' \in {"held", "garbled"}
        /\ mishap' = (mishap \/ path' = "garbled") /\ UNCHANGED <<injected, game>>
    BY <1>4 DEF StartThread
  <2>2. ~injected /\ (game = "running" => mishap)
    BY <2>1 DEF LaunchInv, NoGameYet, RunningWasReleased
  <2>3. QED
    BY <1>1, <1>2, <2>1, <2>2
       DEF LaunchInv, NoGameYet, NameIsKept, EndedHasLoaded, RunningWasReleased,
           CleanLaunchHasF4SE
<1>5. CASE InjectFails \/ WaitTimeout
  <2>1. /\ pc' \in {"decide", "free"} /\ (pc' = "free" => mishap')
        /\ UNCHANGED <<injected, game, path, remote>>
    BY <1>5 DEF InjectFails, WaitTimeout, gameVars
  <2>2. QED
    BY <1>1, <1>2, <2>1
       DEF LaunchInv, NoGameYet, NameIsKept, EndedHasLoaded, RunningWasReleased,
           CleanLaunchHasF4SE, Alive
<1>6. CASE WaitObject
  <2>1. /\ pc = "wait" /\ pc' = "free" /\ remote = "ended" /\ injected' = TRUE /\ mishap' = mishap
        /\ UNCHANGED <<game, path, remote>>
    BY <1>6 DEF WaitObject, gameVars
  <2>2. QED
    BY <1>1, <1>2, <2>1
       DEF LaunchInv, NoGameYet, NameIsKept, EndedHasLoaded, RunningWasReleased,
           CleanLaunchHasF4SE, Alive
<1>7. CASE FreePath
  <2>1. /\ pc = "free" /\ pc' = "decide" /\ path' = "freed"
        /\ UNCHANGED <<injected, game, remote, mishap>>
    BY <1>7 DEF FreePath
  <2>2. QED
    BY <1>1, <1>2, <2>1
       DEF LaunchInv, NoGameYet, NameIsKept, EndedHasLoaded, RunningWasReleased,
           CleanLaunchHasF4SE, Alive
<1>8. QED
  BY <1>3, <1>4, <1>5, <1>6, <1>7

LEMMA EndingSteps ==
  ASSUME LaunchInv, ResumeGame \/ Terminate \/ WaitForClose
  PROVE  LaunchInv'
<1>1. /\ InjectedDll' = InjectedDll /\ BesideGame' = BesideGame
      /\ UNCHANGED <<present, loaded, hooked, main, path, injected, mishap>>
  BY DllIsSettled DEF ResumeGame, Terminate, WaitForClose, disk, gameVars
<1>2. pc' \in {"close", "exit"}
  BY DEF ResumeGame, Return, Terminate, WaitForClose, Exit
<1>3. CASE ResumeGame
  <2>1. /\ injected /\ remote' = remote
        /\ game' = IF game = "suspended" THEN "running" ELSE game
    BY <1>3 DEF ResumeGame
  <2>2. QED
    BY <1>1, <1>2, <2>1
       DEF LaunchInv, NoGameYet, NameIsKept, EndedHasLoaded, RunningWasReleased,
           CleanLaunchHasF4SE, Alive
<1>4. CASE Terminate
  <2>1. /\ ~injected
        /\ \/ game' = "terminated" /\ remote' \in {remote, "ended"}
           \/ game' = game /\ remote' = remote
        /\ remote' # "starting" \/ remote' = remote
    BY <1>4 DEF Terminate, Ends
  <2>2. QED
    BY <1>1, <1>2, <2>1
       DEF LaunchInv, NoGameYet, NameIsKept, EndedHasLoaded, RunningWasReleased,
           CleanLaunchHasF4SE, Alive
<1>5. CASE WaitForClose
  <2>1. UNCHANGED <<game, remote>>
    BY <1>5 DEF WaitForClose, gameVars
  <2>2. QED
    BY <1>1, <1>2, <2>1
       DEF LaunchInv, NoGameYet, NameIsKept, EndedHasLoaded, RunningWasReleased,
           CleanLaunchHasF4SE, Alive
<1>6. QED
  BY <1>3, <1>4, <1>5

(* The game and the rest of the machine.                                   *)
LEMMA GameSteps ==
  ASSUME LaunchInv, GameNext \/ OtherNext
  PROVE  LaunchInv'
<1>1. /\ InjectedDll' = InjectedDll /\ BesideGame' = BesideGame
      /\ UNCHANGED <<present, path, injected, pc>>
  BY DllIsSettled
     DEF GameNext, OtherNext, RemoteStarts, RemoteLoads, MainStarts, GameEnds, SteamStarts,
         SomeoneResumes, disk, gameVars, loader
<1>2. CASE RemoteStarts
  <2>1. /\ remote = "starting" /\ UNCHANGED <<loaded, hooked, main, mishap>>
        /\ \/ path = "held" /\ remote' = "loading" /\ game' = game
           \/ path = "garbled" /\ remote' = "ended" /\ game' = game
           \/ path = "freed" /\ game' = "gone" /\ remote' = "ended"
    BY <1>2 DEF RemoteStarts, Ends, LaunchInv, NameIsKept
  <2>2. QED
    BY <1>1, <2>1
       DEF LaunchInv, NoGameYet, NameIsKept, EndedHasLoaded, RunningWasReleased,
           CleanLaunchHasF4SE, Alive
<1>3. CASE RemoteLoads
  <2>1. /\ remote = "loading" /\ remote' = "ended" /\ UNCHANGED <<game, main>>
        /\ mishap' \in BOOLEAN /\ (mishap => mishap') /\ loaded \subseteq loaded'
        /\ ~mishap' => InjectedDll \in loaded' /\ (InjectedDll = SteamLoader => hooked')
    BY <1>3 DEF RemoteLoads, OnAttach, LaunchInv
  <2>2. ~injected
    BY <2>1 DEF LaunchInv, NameIsKept
  <2>3. QED
    BY <1>1, <2>1, <2>2
       DEF LaunchInv, NoGameYet, NameIsKept, EndedHasLoaded, RunningWasReleased,
           CleanLaunchHasF4SE, Alive
<1>4. CASE MainStarts
  <2>1. /\ game = "running" /\ main' = "winmain" /\ UNCHANGED <<game, remote, hooked>>
        /\ mishap' \in BOOLEAN /\ (mishap => mishap') /\ loaded \subseteq loaded'
        /\ hooked => \/ BesideGame \in loaded'
                     \/ BesideGame \in present => mishap'
    BY <1>4 DEF MainStarts, HookMain, LaunchInv
  <2>2. ~mishap' => InjectedDll \in loaded /\ (InjectedDll = SteamLoader => hooked)
    BY <2>1 DEF LaunchInv, NameIsKept, RunningWasReleased, EndedHasLoaded, Alive
  <2>3. /\ InjectedDll \in Runtimes \cup {SteamLoader} /\ BesideGame \in Runtimes
    BY DEF InjectedDll, DllPath, BesideGame, Runtimes
  <2>4. CleanLaunchHasF4SE'
    BY <1>1, <2>1, <2>2, <2>3 DEF CleanLaunchHasF4SE
  <2>5. QED
    BY <1>1, <2>1, <2>4
       DEF LaunchInv, NoGameYet, NameIsKept, EndedHasLoaded, RunningWasReleased, Alive
<1>5. CASE GameEnds \/ SomeoneResumes
  <2>1. /\ mishap' = TRUE /\ UNCHANGED <<loaded, hooked, main>>
        /\ game \in {"suspended", "running"} /\ game' \in {"gone", "running"}
        /\ remote' = remote \/ (remote' = "ended" /\ remote # "none")
    BY <1>5 DEF GameEnds, Ends, SomeoneResumes, Alive
  <2>2. QED
    BY <1>1, <2>1
       DEF LaunchInv, NoGameYet, NameIsKept, EndedHasLoaded, RunningWasReleased,
           CleanLaunchHasF4SE, Alive
<1>6. CASE SteamStarts
  <2>1. UNCHANGED <<loaded, hooked, main, mishap, game, remote>>
    BY <1>6 DEF SteamStarts, gameVars
  <2>2. QED
    BY <1>1, <2>1
       DEF LaunchInv, NoGameYet, NameIsKept, EndedHasLoaded, RunningWasReleased,
           CleanLaunchHasF4SE, Alive
<1>7. QED
  BY <1>2, <1>3, <1>4, <1>5, <1>6 DEF GameNext, OtherNext

(* A game whose first thread reached its own code has F4SE in it, whatever *)
(* the options, the game's file and the libraries on disk are, and however *)
(* the loader, the injected thread, the game and Steam interleave, if      *)
(* nothing outside the loader failed: no wait ran out, no other program let*)
(* the suspended game go, the injected thread loaded its library, whose    *)
(* hook was set and found F4SE; and if, where the loader injects the hook  *)
(* for Steam, there is an F4SE beside the game, where that hook looks for  *)
(* it whatever -altdll names.                                              *)
THEOREM CleanLaunchAlwaysHasF4SE == LaunchSpec => []CleanLaunchHasF4SE
<1>1. LaunchInv /\ [LaunchNext]_launchVars => LaunchInv'
  <2> SUFFICES ASSUME LaunchInv, [LaunchNext]_launchVars PROVE LaunchInv'
    OBVIOUS
  <2>1. CASE UNCHANGED launchVars
    <3>1. /\ InjectedDll' = InjectedDll /\ BesideGame' = BesideGame
          /\ UNCHANGED <<pc, present, loaded, hooked, main, mishap, game, remote, path, injected>>
      BY <2>1, DllIsSettled DEF launchVars, loader, disk, gameVars
    <3>2. QED
      BY <3>1 DEF LaunchInv, NoGameYet, NameIsKept, EndedHasLoaded, RunningWasReleased,
                  CleanLaunchHasF4SE, Alive
  <2>2. QED
    BY <2>1, PreparingSteps, InjectingSteps, EndingSteps, GameSteps DEF LaunchNext, LoaderNext
<1>2. LaunchInv => CleanLaunchHasF4SE
  BY DEF LaunchInv
<1>3. QED
  BY <1>1, <1>2, LaunchInitially, PTL DEF LaunchSpec
=============================================================================
