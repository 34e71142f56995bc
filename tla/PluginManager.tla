---------------------------- MODULE PluginManager ----------------------------
(***************************************************************************)
(* The plugins of F4SE and the messages they send each other               *)
(* (f4se/PluginManager.cpp: InstallPlugins, RegisterListener,              *)
(* Dispatch_Message and the lookups between names and handles).            *)
(*                                                                         *)
(* A plugin is its file and its name at once.  Its handle is its place in  *)
(* m_plugins, counted from 1, which is also the handle it is promised      *)
(* while it loads; handle 0 is F4SE.  listeners[h + 1] is the list of      *)
(* s_pluginListeners for the messages of handle h.  calls is the stack of  *)
(* Dispatch_Message activations, each with the place of the entry whose    *)
(* handler is running.                                                     *)
(*                                                                         *)
(* What plugins do besides the orderly is a set of habits:                 *)
(*   "fail"   a plugin registers a listener and then fails to load         *)
(*   "again"  a plugin registers with all when it is already with some     *)
(*   "late"   a plugin registers after loading and PostLoad, or dispatches *)
(*            before PostPostLoad                                          *)
(*   "throw"  a handler throws during the messages of the startup          *)
(***************************************************************************)
EXTENDS Naturals, Sequences, FiniteSets

CONSTANTS
  Plugins,     \* the files that look like plugins
  HabitSets,   \* the sets of habits to look at
  MaxRequests, \* with each: bound on the calls of RegisterListener and Dispatch
  MaxDepth,    \* bound on nested dispatches
  None

ASSUME PluginsAssumption == IsFiniteSet(Plugins)
ASSUME HabitsAssumption == HabitSets \subseteq SUBSET {"fail", "again", "late", "throw"}
ASSUME BoundsAssumption == MaxRequests \in [HabitSets -> Nat] /\ MaxDepth \in Nat
ASSUME NoneAssumption == None \notin Plugins

VARIABLES
  habits,    \* what the plugins do besides the orderly, from the start
  todo,      \* the files the directory iterator has yet to return
  loading,   \* the plugin whose Query or Load runs
  plugins,   \* m_plugins
  listeners, \* s_pluginListeners
  phase,     \* "loading", the startup message being sent, "game", "crashed"
  calls,     \* the activations of Dispatch_Message
  requests,  \* calls of plugins so far
  asked,     \* <<p, h>>: p was told that it gets the messages of handle h
  heard      \* the startup messages each plugin's handler got

pluginVars == <<habits, todo, loading, plugins, listeners, phase, calls, requests, asked, heard>>

Startup == {"PostLoad", "PostPostLoad"}
Handles == 0..Cardinality(Plugins)
Entry == [listener : Handles, code : Plugins]
Everyone == Cardinality(Plugins) + 1    \* no receiver was named
Frame == [sender : Handles, target : Handles \cup {Everyone}, at : Nat \ {0}, of : Nat]

Loaded == {plugins[i] : i \in DOMAIN plugins}

(* GetNumPlugins counts the plugin that is loading.                        *)
GetNumPlugins == Len(plugins) + (IF loading = None THEN 0 ELSE 1)

HandleOf(p) ==
  IF p = loading THEN Len(plugins) + 1 ELSE CHOOSE i \in DOMAIN plugins : plugins[i] = p

(* The plugins whose code may be running now: the one that loads, the      *)
(* owner of the innermost handler, or any plugin, from a hook of the game. *)
Running ==
  IF phase = "loading" THEN {loading} \ {None}
  ELSE IF calls # <<>>
    THEN LET top == calls[Len(calls)] IN {listeners[top.sender + 1][top.at].code} \cap Loaded
    ELSE IF phase = "game" THEN Loaded ELSE {}

PluginTypeOK ==
  /\ todo \subseteq Plugins /\ loading \in Plugins \cup {None}
  /\ plugins \in Seq(Plugins)
  /\ listeners \in Seq(Seq(Entry))
  /\ phase \in {"loading", "game", "crashed"} \cup Startup
  /\ calls \in Seq(Frame)
  /\ habits \in HabitSets
  /\ requests \in 0..MaxRequests[habits]
  /\ asked \subseteq Plugins \X Handles
  /\ heard \in [Plugins -> Seq(Startup)]

PluginInit ==
  /\ habits \in HabitSets
  /\ todo = Plugins /\ loading = None /\ plugins = <<>>
  /\ listeners = <<>> /\ phase = "loading" /\ calls = <<>>
  /\ requests = 0 /\ asked = {} /\ heard = [p \in Plugins |-> <<>>]

-----------------------------------------------------------------------------
(* RegisterListener.  The lists grow before the arguments are looked at.   *)
Enlarged ==
  IF Len(listeners) < GetNumPlugins + 1
    THEN listeners \o [i \in 1..(GetNumPlugins + 6 - Len(listeners)) |-> <<>>]
    ELSE listeners

Listens(h, list) == \E i \in DOMAIN list : list[i].listener = h

(* The value of idx at list i.  The index of a list that is skipped because*)
(* the listener is in it already is not counted.                           *)
SkipsIndex(h, idx, list) == idx # 0 /\ idx # h /\ Listens(h, list)

IdxAt(h, lists) ==
  LET idx[i \in DOMAIN lists] ==
        IF i <= 1 THEN 0
        ELSE idx[i - 1] + IF SkipsIndex(h, idx[i - 1], lists[i - 1]) THEN 0 ELSE 1
  IN idx

AddTo(list, h, p) ==
  IF Listens(h, list) THEN list ELSE Append(list, [listener |-> h, code |-> p])

(* A loop that does not look for an earlier registration.                  *)
AddToAllDuplicating(lists, h, p) ==
  [i \in DOMAIN lists |->
     IF i \in {1, h + 1} THEN lists[i] ELSE Append(lists[i], [listener |-> h, code |-> p])]

(* A loop that spares the list before the listener's own.                  *)
AddToAllMisplaced(lists, h, p) ==
  [i \in DOMAIN lists |-> IF i \in {1, h} THEN lists[i] ELSE AddTo(lists[i], h, p)]

AddToAll(lists, h, p) ==
  LET idx == IdxAt(h, lists)
  IN [i \in DOMAIN lists |->
        IF idx[i] = 0 \/ idx[i] = h THEN lists[i] ELSE AddTo(lists[i], h, p)]

(* RegisterWith without the search for an earlier registration.            *)
RegisterWithTwice(p, h) ==
  /\ p \in Running /\ requests < MaxRequests[habits]
  /\ h \in 0..Len(plugins)
  /\ "late" \in habits \/ phase \in {"loading", "PostLoad"}
  /\ listeners' = [Enlarged EXCEPT
                     ![h + 1] = Append(@, [listener |-> HandleOf(p), code |-> p])]
  /\ asked' = asked \cup {<<p, h>>}
  /\ requests' = requests + 1
  /\ UNCHANGED <<habits, todo, loading, plugins, phase, calls, heard>>

(* Plugin p registers its handler for the messages of handle h.  The name  *)
(* of a plugin that is not loaded is refused.                              *)
RegisterWith(p, h) ==
  /\ p \in Running /\ requests < MaxRequests[habits]
  /\ h \in 0..Len(plugins)
  /\ "late" \in habits \/ phase \in {"loading", "PostLoad"}
  /\ listeners' = [Enlarged EXCEPT ![h + 1] = AddTo(@, HandleOf(p), p)]
  /\ asked' = asked \cup {<<p, h>>}
  /\ requests' = requests + 1
  /\ UNCHANGED <<habits, todo, loading, plugins, phase, calls, heard>>

(* Plugin p names a sender that is not loaded.                             *)
RegisterRefused(p) ==
  /\ p \in Running /\ requests < MaxRequests[habits]
  /\ listeners' = Enlarged
  /\ requests' = requests + 1
  /\ UNCHANGED <<habits, todo, loading, plugins, phase, calls, asked, heard>>

(* Plugin p names no sender.                                               *)
RegisterWithAll(p) ==
  /\ p \in Running /\ requests < MaxRequests[habits]
  /\ "late" \in habits \/ phase \in {"loading", "PostLoad"}
  /\ "again" \in habits
       \/ \A i \in DOMAIN listeners : i > 1 => ~Listens(HandleOf(p), listeners[i])
  /\ listeners' = AddToAll(Enlarged, HandleOf(p), p)
  /\ asked' = asked \cup {<<p, h>> : h \in (1..Len(plugins)) \ {HandleOf(p)}}
  /\ requests' = requests + 1
  /\ UNCHANGED <<habits, todo, loading, plugins, phase, calls, heard>>

-----------------------------------------------------------------------------
(* Dispatch_Message of handle h, to one plugin or to everyone.  Nothing    *)
(* happens if there is no list for h, or nobody it is for.                 *)
Recipients(h, target) ==
  IF h + 1 \notin DOMAIN listeners THEN {}
  ELSE {i \in DOMAIN listeners[h + 1] :
          target \in {Everyone, listeners[h + 1][i].listener}}

First(places) == CHOOSE i \in places : \A j \in places : i <= j

(* A handler that is called; what it hears during the startup is recorded. *)
Hears(h, i, depth) ==
  heard' = IF phase' \in Startup /\ depth = 1
             THEN [heard EXCEPT ![listeners[h + 1][i].code] = Append(@, phase')]
             ELSE heard

Enter(h, target) ==
  LET i == First(Recipients(h, target))
  IN /\ calls' = Append(calls, [sender |-> h, target |-> target, at |-> i,
                                of |-> Len(listeners[h + 1])])
     /\ Hears(h, i, Len(calls'))

Dispatch(p, target) ==
  /\ p \in Running \cap Loaded /\ requests < MaxRequests[habits]
  /\ "late" \in habits \/ phase \in {"PostPostLoad", "game"}
  /\ Len(calls) < MaxDepth
  /\ requests' = requests + 1
  /\ UNCHANGED <<habits, todo, loading, plugins, listeners, phase, asked>>
  /\ Recipients(HandleOf(p), target) # {}
  /\ Enter(HandleOf(p), target)

(* F4SE tells every listener of an event of the game.                      *)
GameMessage ==
  /\ phase = "game" /\ calls = <<>> /\ requests < MaxRequests[habits]
  /\ requests' = requests + 1
  /\ UNCHANGED <<habits, todo, loading, plugins, listeners, phase, asked>>
  /\ Recipients(0, Everyone) # {}
  /\ Enter(0, Everyone)

Top == calls[Len(calls)]
HandlerLoaded == listeners[Top.sender + 1][Top.at].code \in Loaded
Pop == SubSeq(calls, 1, Len(calls) - 1)

(* The handler returns; a message for everyone goes on to the next entry.  *)
HandlerReturns ==
  /\ calls # <<>> /\ HandlerLoaded
  /\ UNCHANGED <<habits, todo, loading, plugins, listeners, phase, requests, asked>>
  /\ LET list == listeners[Top.sender + 1]
     IN IF Top.target = Everyone /\ Top.at < Len(list)
          THEN /\ calls' = Append(Pop, [sender |-> Top.sender, target |-> Everyone,
                                        at |-> Top.at + 1, of |-> Len(list)])
               /\ Hears(Top.sender, Top.at + 1, Len(calls))
          ELSE calls' = Pop /\ UNCHANGED heard

(* A nested handler lengthened the list the loop iterates over, and the    *)
(* vector moved; or the handler belongs to a library that was freed.  What *)
(* that does in the startup is caught in Init, with all that was to come.  *)
HandlerFaults ==
  /\ calls # <<>>
  /\ \/ ~HandlerLoaded
     \/ Top.target = Everyone /\ Top.of # Len(listeners[Top.sender + 1])
     \/ "throw" \in habits /\ phase \in Startup
  /\ phase' = IF phase \in Startup THEN "game" ELSE "crashed"
  /\ calls' = <<>>
  /\ UNCHANGED <<habits, todo, loading, plugins, listeners, requests, asked, heard>>

-----------------------------------------------------------------------------
(* InstallPlugins: the next file is no plugin, or its code begins to run.  *)
SkipFile(p) ==
  /\ phase = "loading" /\ loading = None /\ p \in todo
  /\ todo' = todo \ {p}
  /\ UNCHANGED <<habits, loading, plugins, listeners, phase, calls, requests, asked, heard>>

BeginPlugin(p) ==
  /\ phase = "loading" /\ loading = None /\ p \in todo
  /\ todo' = todo \ {p} /\ loading' = p
  /\ UNCHANGED <<habits, plugins, listeners, phase, calls, requests, asked, heard>>

PluginLoads ==
  /\ loading # None
  /\ plugins' = Append(plugins, loading) /\ loading' = None
  /\ UNCHANGED <<habits, todo, listeners, phase, calls, requests, asked, heard>>

(* Query or Load returned false or threw: the library is freed, and what it*)
(* registered stays.                                                       *)
PluginFails ==
  /\ loading # None
  /\ "fail" \in habits \/ \A i \in DOMAIN listeners : ~Listens(HandleOf(loading), listeners[i])
  /\ loading' = None
  /\ UNCHANGED <<habits, todo, plugins, listeners, phase, calls, requests, asked, heard>>

(* The messages of the startup, one after the other.                       *)
StartupGoesOn ==
  /\ \/ phase = "loading" /\ todo = {} /\ loading = None /\ phase' = "PostLoad"
     \/ phase = "PostLoad" /\ calls = <<>> /\ phase' = "PostPostLoad"
     \/ phase = "PostPostLoad" /\ calls = <<>> /\ phase' = "game"
  /\ UNCHANGED <<habits, todo, loading, plugins, listeners, requests, asked>>
  /\ IF phase' # "game" /\ Recipients(0, Everyone) # {}
       THEN Enter(0, Everyone)
       ELSE UNCHANGED <<calls, heard>>

PluginStep ==
  \/ \E p \in Plugins : SkipFile(p) \/ BeginPlugin(p)
  \/ PluginLoads \/ PluginFails \/ StartupGoesOn
  \/ HandlerReturns \/ HandlerFaults

PluginNext ==
  \/ PluginStep
  \/ \E p \in Plugins, h \in Handles : RegisterWith(p, h)
  \/ \E p \in Plugins : RegisterWithAll(p) \/ RegisterRefused(p)
  \/ \E p \in Plugins, target \in Handles \cup {Everyone} : Dispatch(p, target)
  \/ GameMessage

PluginSafeSpec == PluginInit /\ [][PluginNext]_pluginVars

(* The thread of F4SE runs, and handlers return.                           *)
PluginSpec == PluginSafeSpec /\ WF_pluginVars(PluginStep)

-----------------------------------------------------------------------------
(* No plugin is twice in one list, so that no message is handled twice,    *)
(* however the plugins register and although idx and the list drift apart. *)
NoDuplicateListener ==
  \A s \in DOMAIN listeners : \A i, j \in DOMAIN listeners[s] :
    listeners[s][i].listener = listeners[s][j].listener => i = j

(* The vector a dispatch iterates over is changed by a handler only from   *)
(* inside a dispatch nested in it: the handler that runs is in the list    *)
(* already.                                                                *)
OwnHandlerKeepsList ==
  [][\A k \in DOMAIN calls :
       listeners'[calls[k].sender + 1] # listeners[calls[k].sender + 1]
         => k < Len(calls)]_pluginVars

(* Handlers that run belong to plugins that are loaded, at the handle the  *)
(* entry has.                                                              *)
HandlersAreLoaded ==
  \A k \in DOMAIN calls :
    LET e == listeners[calls[k].sender + 1][calls[k].at]
    IN e.code \in Loaded /\ HandleOf(e.code) = e.listener

(* While plugins register before PostPostLoad and dispatch after PostLoad, *)
(* no list changes under any dispatch that iterates over it.               *)
IterationIsStable ==
  \A k \in DOMAIN calls : calls[k].of = Len(listeners[calls[k].sender + 1])

(* Dispatch_Message: only a dispatch within a dispatch changes the list the*)
(* outer one goes through; while plugins register in the first phase and   *)
(* dispatch in later ones no list changes under a dispatch, and unless one *)
(* failed to load, whoever is called is a plugin that is loaded, under the *)
(* handle it registered.                                                   *)
DispatchesAreSound ==
  /\ OwnHandlerKeepsList
  /\ [](/\ PluginTypeOK
        /\ "fail" \notin habits => HandlersAreLoaded
        /\ "late" \notin habits => IterationIsStable)

(* A plugin that was told true is in the list of every sender it asked for:*)
(* the messages will be forwarded to its handler.                          *)
RegistrationHolds ==
  \A a \in asked : a[1] \in Loaded \cup {loading} =>
    \E i \in DOMAIN listeners[a[2] + 1] : listeners[a[2] + 1][i].code = a[1]

(* RegisterListener: unless a plugin failed to load or registers with all  *)
(* a second time, each is in the list of every plugin it asked for.        *)
OrderlyRegistrationHolds == habits \cap {"fail", "again"} = {} => RegistrationHolds
=============================================================================
