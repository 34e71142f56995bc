----------------------------- MODULE PluginLoad -----------------------------
(***************************************************************************)
(* How FloatingDamage comes into the game: F4SEPlugin_Query and            *)
(* F4SEPlugin_Load (main.cpp), the resolution of every address it needs    *)
(* (sig_scan_processor in Relocation/RVA.h) and its two hooks              *)
(* (ActorEx::InitHooks, HookUtil).                                         *)
(*                                                                         *)
(* An address is found by a scan of the game's code and kept in the file   *)
(* FloatingDamage.mem, in a section for the version of the game, so that   *)
(* later launches need not scan.  The file outlives crashes and upgrades.  *)
(* Some addresses are read out of a call instruction that the signature    *)
(* finds: when another plugin has patched that call, what is read is the   *)
(* address of the other plugin's trampoline, which lies elsewhere in every *)
(* launch.                                                                 *)
(***************************************************************************)
EXTENDS Naturals, Sequences

CONSTANTS
  Versions,     \* versions of the game
  Globals,      \* what InitData resolves, in order
  FrameHook,    \* the call that ProcessDamageFrame_Hook replaces
  HealthHook,   \* the table entry that DamageHealth_Hook replaces
  Found,        \* version -> the names whose signature is in its code
  Calls,        \* names whose address is read out of a call instruction
  NoAddress,    \* no address
  MaxLaunches   \* bound: launches of the game

ASSUME GlobalsAssumption == Globals \in Seq({Globals[i] : i \in DOMAIN Globals})
ASSUME HooksAssumption == \A i \in DOMAIN Globals : Globals[i] \notin {FrameHook, HealthHook}
ASSUME LaunchesAssumption == MaxLaunches \in Nat \ {0}

Signatures == Globals \o <<FrameHook, HealthHook>>
Names == {Signatures[i] : i \in DOMAIN Signatures}

ASSUME CallsAssumption == Calls \subseteq Names

VARIABLES
  launch,      \* how often the game was started
  version,     \* the version that runs
  patched,     \* calls that plugins loaded earlier have patched
  at,          \* where loading is
  next,        \* the signature that is resolved next, as a place
  resolved,    \* name -> its address in this launch
  hooks,       \* which of the two hooks are written into the game
  library,     \* the plugin's code: "in" or "freed"
  cache,       \* FloatingDamage.mem: version -> name -> address
  everPatched  \* history: <<version, name>> that was patched in some launch

loadVars == <<launch, version, patched, at, next, resolved, hooks, library,
              cache, everPatched>>

Own(v, n) == <<v, n>>             \* the place in the game's own code
Foreign(l, n) == <<l, n>>         \* in a trampoline of launch l

Nothing == [n \in Names |-> NoAddress]

Started(v, p, l) ==
  /\ launch' = l
  /\ version' = v
  /\ patched' = p
  /\ at' = "query"
  /\ next' = 1
  /\ resolved' = Nothing
  /\ hooks' = {}
  /\ library' = "in"
  /\ everPatched' = everPatched \cup {<<v, n>> : n \in p}

LoadInit ==
  /\ launch = 1
  /\ version \in Versions
  /\ patched = {}
  /\ at = "query"
  /\ next = 1
  /\ resolved = Nothing
  /\ hooks = {}
  /\ library = "in"
  /\ cache = [v \in Versions |-> Nothing]
  /\ everPatched = {}

-----------------------------------------------------------------------------
(* F4SEPlugin_Query: the editor and an F4SE without the interfaces are     *)
(* turned down.  InstallPlugins frees the library of a plugin that says no.*)
Query ==
  /\ at = "query"
  /\ \/ at' = "create" /\ UNCHANGED library
     \/ at' = "failed" /\ library' = "freed"
  /\ UNCHANGED <<launch, version, patched, next, resolved, hooks, cache, everPatched>>

(* The trampoline may find no room near the game.                          *)
Create ==
  /\ at = "create"
  /\ \/ at' = "resolve" /\ UNCHANGED library
     \/ at' = "failed" /\ library' = "freed"
  /\ UNCHANGED <<launch, version, patched, next, resolved, hooks, cache, everPatched>>

-----------------------------------------------------------------------------
(* sig_scan_processor.                                                     *)

(* What a scan yields: the first match, and for a call where it leads.     *)
Scanned(n) ==
  IF n \notin Found[version] THEN NoAddress
  ELSE IF n \in Calls \cap patched THEN Foreign(launch, n)
  ELSE Own(version, n)

Lookup(n) == IF cache[version][n] # NoAddress THEN cache[version][n] ELSE Scanned(n)

(* The hook of the frame is written before anything is resolved.         *)
HooksEarly(n) == hooks \cup {FrameHook}

(* The hooks are written as soon as their own address is known, if memory  *)
(* can be made writable; nobody asks whether it could.                     *)
HooksAfter(n) == hooks \cup ({n} \cap {FrameHook, HealthHook})

Resolve ==
  /\ at = "resolve"
  /\ LET n == Signatures[next] IN
       /\ Lookup(n) # NoAddress
       /\ resolved' = [resolved EXCEPT ![n] = Lookup(n)]
       /\ cache' = [cache EXCEPT ![version][n] = Lookup(n)]
       /\ hooks' \in {hooks, HooksAfter(n)}
  /\ next' = next + 1
  /\ at' = IF next = Len(Signatures) THEN "register" ELSE "resolve"
  /\ UNCHANGED <<launch, version, patched, library, everPatched>>

(* no_result_exception: Load returns FALSE, and the library is freed.      *)
GiveUp ==
  /\ at = "resolve"
  /\ Lookup(Signatures[next]) = NoAddress
  /\ at' = "failed"
  /\ library' = "freed"
  /\ UNCHANGED <<launch, version, patched, next, resolved, hooks, cache, everPatched>>

(* The scaleform callback and the listener are registered.                 *)
Registered ==
  /\ at = "register"
  /\ at' = "loaded"
  /\ UNCHANGED <<launch, version, patched, next, resolved, hooks, library, cache,
                 everPatched>>

(* The game ends or crashes, whatever it was at, and is started again,     *)
(* perhaps in another version and with other plugins.                      *)
Restart ==
  /\ launch < MaxLaunches
  /\ \E v \in Versions, p \in SUBSET Calls : Started(v, p, launch + 1)
  /\ UNCHANGED cache

LoadNext == Query \/ Create \/ Resolve \/ GiveUp \/ Registered \/ Restart

LoadSpec == LoadInit /\ [][LoadNext]_loadVars

-----------------------------------------------------------------------------
(* Types of all variables.                                                 *)
Addresses == ((Versions \cup 1..MaxLaunches) \X Names) \cup {NoAddress}

LoadTypeOK ==
  /\ launch \in 1..MaxLaunches
  /\ version \in Versions
  /\ patched \subseteq Calls
  /\ at \in {"query", "create", "resolve", "register", "loaded", "failed"}
  /\ next \in 1..Len(Signatures) + (IF at = "resolve" THEN 0 ELSE 1)
  /\ resolved \in [Names -> Addresses]
  /\ hooks \subseteq {FrameHook, HealthHook}
  /\ library \in {"in", "freed"}
  /\ cache \in [Versions -> [Names -> Addresses]]
  /\ everPatched \subseteq Versions \X Names

(* An address is a place in the version of the game that runs, whatever    *)
(* versions and crashes came before.  Only a call that was patched in some *)
(* launch of this version may be resolved to a trampoline, and then        *)
(* perhaps to that of an earlier launch.                                   *)
AddressesAreCurrent ==
  \A n \in Names :
    resolved[n] \in {NoAddress, Own(version, n)} \/ <<version, n>> \in everPatched

(* The game may call a hook as soon as it is written, and the hooks use    *)
(* whatever InitData resolves: none is written before all of it is.        *)
HooksComeLast ==
  hooks # {} => \A i \in DOMAIN Globals : resolved[Globals[i]] # NoAddress

(* A plugin that loaded has every address, whatever was missing in earlier *)
(* launches and whatever was kept of them.                                 *)
LoadedIsResolved ==
  at = "loaded" => library = "in" /\ \A n \in Names : resolved[n] # NoAddress

(* F4SEPlugin_Load: whichever signatures the game lacks and whatever was   *)
(* kept of earlier launches, an address is one of the version that runs,   *)
(* no hook is written before all addresses it uses are known, and a plugin *)
(* that loads has them all.                                                *)
HooksUseResolved == LoadTypeOK /\ AddressesAreCurrent /\ HooksComeLast /\ LoadedIsResolved
=============================================================================
