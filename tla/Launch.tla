------------------------------ MODULE Launch ------------------------------
(***************************************************************************)
(* Starting the game with F4SE: f4se_loader reads its options, looks at    *)
(* the game's file, creates the game suspended, has a thread of its own    *)
(* load a library in it, and lets the game's first thread go.  For a game  *)
(* from Steam that library is f4se_steam_loader, whose DllMain puts a hook *)
(* in the import table; the game's first thread comes by there and loads   *)
(* F4SE itself.  Four actors take steps: the loader, the thread that was   *)
(* injected, the game's first thread, and whatever else runs on the        *)
(* machine.                                                                *)
(***************************************************************************)
EXTENDS Naturals, Sequences, FiniteSets

CONSTANTS
  CommandLines,   \* the arguments to try
  ExeKinds,       \* what the game's file may be
  Installed       \* which libraries may be on disk: a set of sets

Flags == {"editor", "crconly", "help", "waitforclose", "v", "minfo",
          "noskiplauncher", "launchsteam", "notimeout", "forcesteamloader"}
Values == {"level", "mask", "path"}
Takes == [switch \in {"priority", "affinity", "altexe", "altdll"} |->
            CASE switch = "priority" -> {"level"}
              [] switch = "affinity" -> {"mask"}
              [] OTHER -> Flags \cup Values]

(* "here" is the loader's directory, "there" that of an -altexe.           *)
SteamLoader == "steam loader"
Runtimes == {"f4se here", "f4se there", "alternate"}
VARIABLES
  pc,         \* where the loader is
  code,       \* what it returned
  args,       \* the arguments it has not read yet
  opts,       \* g_options
  exe,        \* the kind of file the game is
  present,    \* the libraries on disk
  steam,      \* Steam: "off", "starting", "running"
  env,        \* variables the loader has set for the game
  game,       \* "none", "suspended", "running", "terminated", "gone"
  given,      \* what the game was created with: variables and affinity
  path,       \* the library's name in the game: "none", "held", "garbled", "freed"
  remote,     \* the injected thread: "none", "starting", "loading", "ended"
  loaded,     \* libraries in the game
  hooked,     \* __crtGetShowWindowMode leads to the hook
  main,       \* the game's first thread: "start", "winmain"
  injected,   \* injectionSucceeded
  warned,     \* the loader noticed that something else started the game
  mishap,     \* history: something failed that is not the loader's doing
  early       \* history: the game's first thread began before ResumeThread

loader == <<pc, code, args, opts, env, injected, warned>>
disk == <<exe, present>>
gameVars == <<game, given, path, remote, loaded, hooked, main, early>>
launchVars == <<loader, disk, steam, gameVars, mishap>>

LaunchInit ==
  /\ pc = "options" /\ code = 0 /\ args \in CommandLines /\ opts = {}
  /\ exe \in ExeKinds /\ present \in Installed
  /\ steam \in {"off", "running"} /\ env = {}
  /\ game = "none" /\ given = {} /\ path = "none" /\ remote = "none"
  /\ loaded = {} /\ hooked = FALSE /\ main = "start"
  /\ injected = FALSE /\ warned = FALSE /\ mishap = FALSE /\ early = FALSE

Alive == game \in {"suspended", "running"}

Exit(c) == pc' = "exit" /\ code' = c

-----------------------------------------------------------------------------
(* Options::Read, one argument at a time.                                  *)
ReadFlag ==
  /\ args # << >> /\ args[1] \in Flags
  /\ opts' = opts \cup {args[1]}
  /\ args' = Tail(args)
  /\ UNCHANGED <<pc, code>>

ReadValue ==
  /\ Len(args) > 1 /\ args[1] \in DOMAIN Takes /\ args[2] \in Takes[args[1]]
  /\ opts' = opts \cup {args[1]}
  /\ args' = SubSeq(args, 3, Len(args))
  /\ UNCHANGED <<pc, code>>

RejectArgument ==
  /\ args # << >> /\ args[1] \notin Flags
  /\ ~ (Len(args) > 1 /\ args[1] \in DOMAIN Takes /\ args[2] \in Takes[args[1]])
  /\ Exit(1)
  /\ UNCHANGED <<args, opts>>

ActOnOptions ==
  /\ args = << >>
  /\ IF "help" \in opts THEN Exit(0)
     ELSE IF "editor" \in opts THEN Exit(1)
     ELSE pc' = "identify" /\ UNCHANGED code
  /\ UNCHANGED <<args, opts>>

Options ==
  /\ pc = "options"
  /\ ReadFlag \/ ReadValue \/ RejectArgument \/ ActOnOptions
  /\ UNCHANGED <<env, injected, warned, disk, steam, gameVars, mishap>>

-----------------------------------------------------------------------------
(* IdentifyEXE accepts a file of the right version that is neither packed  *)
(* nor a part of F4SE nor the game's launcher.                             *)
Identified(kind) == kind \in {"steam", "normal"}

Identify ==
  /\ pc = "identify"
  /\ IF ~ Identified(exe) THEN Exit(1)
     ELSE IF "crconly" \in opts THEN Exit(0)
     ELSE pc' = "dll" /\ UNCHANGED code
  /\ UNCHANGED <<args, opts, env, injected, warned, disk, steam, gameVars, mishap>>

DllPath == IF "altdll" \in opts THEN "alternate" ELSE "f4se here"

FindDll ==
  /\ pc = "dll"
  /\ IF DllPath \notin present THEN Exit(1) ELSE pc' = "steam" /\ UNCHANGED code
  /\ UNCHANGED <<args, opts, env, injected, warned, disk, steam, gameVars, mishap>>

(* Steam is launched on request, and waited for.                           *)
WantsSteam == exe = "steam" /\ "launchsteam" \in opts /\ steam = "off"

CheckSteam ==
  /\ pc = "steam"
  /\ \/ ~ WantsSteam /\ pc' = "environment" /\ UNCHANGED <<steam, mishap>>
     \/ WantsSteam /\ pc' = "environment" /\ mishap' = TRUE /\ UNCHANGED steam
     \/ WantsSteam /\ pc' = "input idle" /\ steam' = "starting" /\ UNCHANGED mishap
  /\ UNCHANGED <<code, args, opts, env, injected, warned, disk, gameVars>>

WaitForSteam ==
  /\ pc = "input idle" /\ steam = "running"
  /\ pc' = "environment"
  /\ UNCHANGED <<code, args, opts, env, injected, warned, disk, steam, gameVars, mishap>>

AppVariables ==
  IF exe # "steam" THEN {}
  ELSE {"SteamGameId"} \cup (IF "noskiplauncher" \in opts THEN {} ELSE {"SteamAppID"})

SetEnvironment ==
  /\ pc = "environment"
  /\ env' = AppVariables
  /\ pc' = "create"
  /\ UNCHANGED <<code, args, opts, injected, warned, disk, steam, gameVars, mishap>>

-----------------------------------------------------------------------------
(* CreateProcess, with the environment of that moment.                     *)
CreateGame ==
  /\ pc = "create"
  /\ \/ Exit(1) /\ mishap' = TRUE /\ UNCHANGED <<game, given>>
     \/ /\ game' = "suspended"
        /\ \E affinity \in SUBSET ({"affinity"} \cap opts) : given' = env \cup affinity
        /\ pc' = "inject"
        /\ UNCHANGED <<code, mishap>>
  /\ UNCHANGED <<args, opts, env, injected, warned, disk, steam, path, remote,
                 loaded, hooked, main, early>>

(* InjectDLLThread.                                                        *)
InjectedDll ==
  IF exe = "steam" \/ "forcesteamloader" \in opts THEN SteamLoader ELSE DllPath

InjectFails ==
  /\ pc = "inject"
  /\ mishap' = (mishap \/ InjectedDll \in present)
  /\ pc' = "decide"
  /\ UNCHANGED <<code, args, opts, env, injected, warned, disk, steam, gameVars>>

StartThreadAsync ==
  /\ pc = "inject" /\ InjectedDll \in present /\ Alive
  /\ remote' = "starting"
  /\ path' \in {"held", "garbled"}
  /\ mishap' = (mishap \/ path' = "garbled")
  /\ injected' = TRUE
  /\ pc' = "free"
  /\ UNCHANGED <<code, args, opts, env, warned, disk, steam, game, given,
                 loaded, hooked, main, early>>

(* Whether the name was written is not looked at.                          *)
StartThread ==
  /\ pc = "inject" /\ InjectedDll \in present /\ Alive
  /\ remote' = "starting"
  /\ path' \in {"held", "garbled"}
  /\ mishap' = (mishap \/ path' = "garbled")
  /\ pc' = "wait"
  /\ UNCHANGED <<code, args, opts, env, injected, warned, disk, steam, game, given,
                 loaded, hooked, main, early>>

(* The wait ends with the thread, also when that loaded nothing.           *)
WaitObject ==
  /\ pc = "wait" /\ remote = "ended"
  /\ injected' = TRUE
  /\ pc' = "free"
  /\ UNCHANGED <<code, args, opts, env, warned, disk, steam, gameVars, mishap>>

WaitTimeout ==
  /\ pc = "wait" /\ "notimeout" \notin opts
  /\ pc' = "free"
  /\ mishap' = TRUE
  /\ UNCHANGED <<code, args, opts, env, injected, warned, disk, steam, gameVars>>

FreePath ==
  /\ pc = "free"
  /\ path' = "freed"
  /\ pc' = "decide"
  /\ UNCHANGED <<code, args, opts, env, injected, warned, disk, steam, game, given,
                 remote, loaded, hooked, main, early, mishap>>

-----------------------------------------------------------------------------
(* The game goes on, or ends.                                              *)
Return == IF "waitforclose" \in opts THEN pc' = "close" /\ UNCHANGED code ELSE Exit(0)

ResumeGame ==
  /\ pc = "decide" /\ injected
  /\ game' = IF game = "suspended" THEN "running" ELSE game
  /\ warned' \in CASE game = "suspended" -> {FALSE}
                   [] game = "running" -> {TRUE}
                   [] OTHER -> BOOLEAN
  /\ Return
  /\ UNCHANGED <<args, opts, env, injected, disk, steam, given, path, remote, loaded,
                 hooked, main, early, mishap>>

(* What a process leaves: its threads have ended.                          *)
Ends(state) ==
  /\ game' = state
  /\ remote' = IF remote = "none" THEN "none" ELSE "ended"

Terminate ==
  /\ pc = "decide" /\ ~ injected
  /\ IF Alive THEN Ends("terminated") ELSE UNCHANGED <<game, remote>>
  /\ Exit(0)
  /\ UNCHANGED <<args, opts, env, injected, warned, disk, steam, given, path, loaded,
                 hooked, main, early, mishap>>

WaitForClose ==
  /\ pc = "close" /\ ~ Alive
  /\ Exit(0)
  /\ UNCHANGED <<args, opts, env, injected, warned, disk, steam, gameVars, mishap>>

LoaderNext ==
  \/ Options \/ Identify \/ FindDll \/ CheckSteam \/ WaitForSteam \/ SetEnvironment
  \/ CreateGame \/ InjectFails \/ StartThread \/ WaitObject \/ WaitTimeout \/ FreePath
  \/ ResumeGame \/ Terminate \/ WaitForClose

-----------------------------------------------------------------------------
(* The injected thread: LoadLibraryA takes the name, then loads.           *)
RemoteStarts ==
  /\ remote = "starting" /\ Alive
  /\ CASE path = "held" -> remote' = "loading" /\ UNCHANGED game
       [] path = "garbled" -> remote' = "ended" /\ UNCHANGED game
       [] path = "freed" -> Ends("gone")
  /\ UNCHANGED <<loader, disk, steam, given, path, loaded, hooked, main, early, mishap>>

(* DllMain of f4se_steam_loader: HookIAT, if the import is found.          *)
OnAttach == IF InjectedDll = SteamLoader THEN hooked' \in BOOLEAN ELSE UNCHANGED hooked

RemoteLoads ==
  /\ remote = "loading" /\ Alive
  /\ remote' = "ended"
  /\ \/ /\ loaded' = loaded \cup {InjectedDll}
        /\ OnAttach
        /\ mishap' = (mishap \/ (InjectedDll = SteamLoader /\ ~ hooked'))
     \/ mishap' = TRUE /\ UNCHANGED <<loaded, hooked>>
  /\ UNCHANGED <<loader, disk, steam, game, given, path, main, early>>

(* The game's first thread.  HookMain takes F4SE from beside the game.     *)
BesideGame == IF "altexe" \in opts THEN "f4se there" ELSE "f4se here"

HookMain ==
  \/ BesideGame \in present /\ loaded' = loaded \cup {BesideGame} /\ UNCHANGED mishap
  \/ mishap' = (mishap \/ BesideGame \in present) /\ UNCHANGED loaded

MainStarts ==
  /\ game = "running" /\ main = "start"
  /\ main' = "winmain"
  /\ early' = (pc \notin {"close", "exit"})
  /\ IF hooked THEN HookMain ELSE UNCHANGED <<loaded, mishap>>
  /\ UNCHANGED <<loader, disk, steam, game, given, path, remote, hooked>>

(* Steam, other programs and the user.                                     *)
SteamStarts ==
  /\ steam = "starting"
  /\ steam' = "running"
  /\ UNCHANGED <<loader, disk, gameVars, mishap>>

SomeoneResumes ==
  /\ game = "suspended"
  /\ game' = "running"
  /\ mishap' = TRUE
  /\ UNCHANGED <<loader, disk, steam, given, path, remote, loaded, hooked, main, early>>

GameEnds ==
  /\ Alive
  /\ Ends("gone")
  /\ mishap' = TRUE
  /\ UNCHANGED <<loader, disk, steam, given, path, loaded, hooked, main, early>>

GameNext == RemoteStarts \/ RemoteLoads \/ MainStarts \/ GameEnds
OtherNext == SteamStarts \/ SomeoneResumes

LaunchNext == LoaderNext \/ GameNext \/ OtherNext

LaunchSpec == LaunchInit /\ [][LaunchNext]_launchVars

-----------------------------------------------------------------------------
(* When nothing else went wrong and the library the game looks for beside  *)
(* itself is there, a game that runs has F4SE in it: its first thread did  *)
(* not come by the place of the hook before the hook was there.            *)
CleanLaunchHasF4SE ==
  main = "winmain" /\ game = "running" /\ ~ mishap
    /\ (InjectedDll = SteamLoader => BesideGame \in present)
    => loaded \cap Runtimes # {}
=============================================================================
