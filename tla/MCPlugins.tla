------------------------------ MODULE MCPlugins ------------------------------
(***************************************************************************)
(* From the start of the game to a plugin that works, each part on an      *)
(* instance of its own: the loader and the game it starts, the plugins     *)
(* that F4SE loads and the messages between them, with and without habits  *)
(* that spoil the lists, and how the damage plugin finds its addresses.  A *)
(* behaviour is about one part, and the others stay as they start.         *)
(***************************************************************************)
EXTENDS PluginManager, PluginLoad, Launch, TLC

CONSTANTS whole, noHealth, noFirst  \* versions of the game

VARIABLE part

(* Plugins with no habit, with all habits, and with all but one or two.    *)
AllHabits == {"fail", "again", "late", "throw"}
MCHabitSets == {{}, {"late", "throw"}, AllHabits \ {"fail"}, AllHabits \ {"late"}, AllHabits}
MCMaxRequests == [h \in MCHabitSets |-> IF h = {} THEN 5 ELSE 4]

(* Two addresses and the two hooks, in versions of the game that have all  *)
(* signatures, all but that of the second hook, and all but the first.     *)
MCVersions == {whole, noHealth, noFirst}
MCGlobals == <<"a", "b">>
MCFound == [v \in MCVersions |->
              {"a", "b", "frame", "health"} \ CASE v = whole -> {}
                                                [] v = noHealth -> {"health"}
                                                [] v = noFirst -> {"a"}]

(* Every switch alone, valued switches with and without a value, and the   *)
(* pairs that interact.                                                    *)
Switches == {"editor", "crconly", "help", "waitforclose", "v", "minfo", "noskiplauncher",
             "launchsteam", "notimeout", "forcesteamloader",
             "priority", "affinity", "altexe", "altdll"}
MCCommandLines ==
  {<<>>} \cup {<<switch>> : switch \in Switches \cup {"path"}}
    \cup {<<"priority", "level">>, <<"priority", "mask">>, <<"affinity", "mask">>,
          <<"affinity", "level">>, <<"altexe", "path">>, <<"altdll", "path">>,
          <<"altexe", "help">>}
    \cup {<<"forcesteamloader", "altexe", "path">>, <<"altexe", "path", "altdll", "path">>,
          <<"launchsteam", "noskiplauncher">>, <<"notimeout", "waitforclose">>,
          <<"forcesteamloader", "altdll", "path">>}
MCInstalled == SUBSET {"f4se here", "f4se there", "alternate", "steam loader"}

vars == <<part, pluginVars, loadVars, launchVars>>

MCInit ==
  /\ part \in {"plugins", "damage", "start"}
  /\ PluginInit /\ LoadInit /\ LaunchInit
  /\ part # "plugins" => habits = {}
  /\ part # "damage" => version = whole
  /\ part # "start" => args = <<>> /\ exe = "normal" /\ present = {} /\ steam = "off"

MCNext ==
  \/ part = "plugins" /\ PluginNext /\ UNCHANGED <<part, loadVars, launchVars>>
  \/ part = "damage" /\ LoadNext /\ UNCHANGED <<part, pluginVars, launchVars>>
  \/ part = "start" /\ LaunchNext /\ UNCHANGED <<part, pluginVars, loadVars>>

MCSpec == MCInit /\ [][MCNext]_vars

Symmetry == Permutations(Plugins)
=============================================================================
