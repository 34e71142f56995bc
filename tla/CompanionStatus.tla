-------------------------- MODULE CompanionStatus --------------------------
(***************************************************************************)
(* The status widgets of the companions (CompanionStatus AS3/              *)
(* CompanionStatus.as and HUDFadingListItem.as).  Messages add, update,    *)
(* show and hide a companion's widget; every frame the shown ones move     *)
(* towards their places in the list, and the ones that fade out leave it.  *)
(*                                                                         *)
(* Lengths are in half pixels: a widget moves down by one pixel in a frame *)
(* and up by one and a half.  The list of shown widgets holds companions   *)
(* where the code has their indices, which never change.                   *)
(***************************************************************************)
EXTENDS Integers, FiniteSets, Sequences, SequencesExt

CONSTANTS
  Followers,    \* companions
  Names,        \* names they are given
  NameLines,    \* lines of name_map.ini, pairs of names
  Height,       \* height of a widget with the space below it
  SpawnOffset,  \* Y_SPAWN_OFFSET
  Stats,        \* values of health that scripts report; Full is the most
  Full,
  MaxMessages   \* bound on the messages

NoName == ""

(* A line of the file does not map a name that an earlier one has, which   *)
(* would rename twice what was named before the file came, nor does it map *)
(* to the empty name, which only the companions named before would get.    *)
ASSUME NameLinesAssumption ==
  /\ NameLines \in Seq(STRING \X STRING)
  /\ \A i, j \in DOMAIN NameLines : i < j => NameLines[j][1] \notin {NameLines[i][1], NameLines[i][2]}
  /\ \A i \in DOMAIN NameLines : NameLines[i][2] # NoName

ASSUME StatusAssumption == Full \in Nat /\ Stats \subseteq Int

VARIABLES
  nameMap,   \* FollowerNameMap; <<>> while the file is not loaded
  loaded,    \* whether it is
  widgets,   \* the companions' widgets, by companion
  given,     \* the name each companion was given last
  listed,    \* ShownStatusWidgets
  justHidden, \* history: the shown companions that were hidden since the last frame
  reshown,   \* history: the ones shown again before that frame came, while they are in the list
  messageCount

statusVars == <<nameMap, loaded, widgets, given, listed, justHidden, reshown, messageCount>>

IsKnown(f) == f \in DOMAIN widgets

-----------------------------------------------------------------------------
(* HUDFadingListItem.                                                      *)
NewFader(name) ==
  [name |-> name, hp |-> 0, y |-> 0, visible |-> TRUE, clip |-> "still",
   fadeInStarted |-> FALSE, fadeOutStarted |-> FALSE]

FadeIn(w) ==
  IF w.fadeInStarted THEN w
  ELSE [w EXCEPT !.visible = TRUE, !.fadeInStarted = TRUE, !.clip = "FadeIn"]

FastFadeOut(w) == [w EXCEPT !.fadeOutStarted = TRUE, !.clip = "FastFadeOut"]

(* A reset that forgets that the widget was fading out.                    *)
ResetHalf(w) == [w EXCEPT !.visible = FALSE, !.fadeInStarted = FALSE, !.clip = "still"]

ResetFadeState(w) ==
  [w EXCEPT !.visible = FALSE, !.clip = "still",
            !.fadeInStarted = FALSE, !.fadeOutStarted = FALSE]

(* The end of a clip's animation: OnFadeInComplete, OnFadeOutComplete.     *)
Completed(w) == [w EXCEPT !.visible = w.clip = "FadeIn", !.clip = "still"]

-----------------------------------------------------------------------------
StatusInit ==
  /\ nameMap = [n \in {} |-> n] /\ loaded = FALSE
  /\ widgets = [f \in {} |-> 0] /\ given = [f \in {} |-> 0]
  /\ listed = <<>> /\ justHidden = {} /\ reshown = {} /\ messageCount = 0

Told ==
  /\ messageCount < MaxMessages
  /\ messageCount' = messageCount + 1

Put(f, k, val) == [x \in DOMAIN f \cup {k} |-> IF x = k THEN val ELSE f[x]]

(* An empty name in the map counts as none.                                *)
Mapped(name) ==
  IF name \in DOMAIN nameMap /\ nameMap[name] # NoName THEN nameMap[name] ELSE name

AddFollower(f, name) ==
  /\ Told
  /\ widgets' = IF IsKnown(f) THEN [widgets EXCEPT ![f].name = Mapped(name)]
                ELSE Put(widgets, f, NewFader(Mapped(name)))
  /\ given' = Put(given, f, name)
  /\ UNCHANGED <<nameMap, loaded, listed, justHidden, reshown>>

Clamped(hp) == IF hp < 0 THEN 0 ELSE IF hp > Full THEN Full ELSE hp

(* A companion that is not known: the code throws before it changes        *)
(* anything.                                                               *)
UpdateStats(f, hp) ==
  /\ Told
  /\ widgets' = IF IsKnown(f) THEN [widgets EXCEPT ![f].hp = Clamped(hp)] ELSE widgets
  /\ UNCHANGED <<nameMap, loaded, given, listed, justHidden, reshown>>

GetTargetYForShownIndex(i) == (i - 1) * Height

IsShown(f) == IsKnown(f) /\ widgets[f].fadeInStarted /\ ~widgets[f].fadeOutStarted

ShowFollower(f) ==
  /\ Told
  /\ IF IsKnown(f) /\ ~IsShown(f)
     THEN /\ widgets' = [widgets EXCEPT ![f] =
               [FadeIn(ResetFadeState(@)) EXCEPT !.y =
                  IF listed = <<>> THEN @
                  ELSE GetTargetYForShownIndex(Len(listed) + 1) - SpawnOffset]]
          /\ listed' = Append(listed, f)
          /\ reshown' = reshown \cup ({f} \cap justHidden)
     ELSE UNCHANGED <<widgets, listed, reshown>>
  /\ UNCHANGED <<nameMap, loaded, given, justHidden>>

HideFollower(f) ==
  /\ Told
  /\ widgets' = IF IsKnown(f) THEN [widgets EXCEPT ![f] = FastFadeOut(@)] ELSE widgets
  /\ justHidden' = IF IsShown(f) THEN justHidden \cup {f} ELSE justHidden
  /\ UNCHANGED <<nameMap, loaded, given, listed, reshown>>

(* processNameMap: a later line of a name replaces an earlier one in the   *)
(* map, and each line renames the widgets that have its name by now.       *)
FileMap ==
  [name \in {NameLines[i][1] : i \in DOMAIN NameLines} |->
     LET last == CHOOSE i \in DOMAIN NameLines :
                   NameLines[i][1] = name /\ \A j \in DOMAIN NameLines : NameLines[j][1] = name => j <= i
     IN NameLines[last][2]]

Renamed(name) ==
  LET after[i \in 0..Len(NameLines)] ==
        IF i = 0 THEN name
        ELSE IF after[i - 1] = NameLines[i][1] THEN NameLines[i][2] ELSE after[i - 1]
  IN after[Len(NameLines)]

NameMapLoaded ==
  /\ ~loaded /\ loaded' = TRUE
  /\ nameMap' = FileMap
  /\ widgets' = [f \in DOMAIN widgets |-> [widgets[f] EXCEPT !.name = Renamed(@)]]
  /\ UNCHANGED <<given, listed, justHidden, reshown, messageCount>>

-----------------------------------------------------------------------------
(* One widget in a frame.  Whole pixels are compared: less than one from   *)
(* its place it rests.  The first moves by two pixels either way.          *)
ApproachedFast(y, target) ==
  IF target - y >= 2 THEN y + 4 ELSE IF y - target >= 2 THEN y - 4 ELSE y

Approached(y, target) ==
  IF target - y >= 2 THEN y + 2 ELSE IF y - target >= 2 THEN y - 3 ELSE y

(* Update, from the last widget of the list to the first: each moves       *)
(* towards its place, and the ones that fade out leave the list.           *)
Moved(f, y) ==
  FoldLeft(LAMBDA z, i : IF listed[i] = f THEN Approached(z, GetTargetYForShownIndex(i)) ELSE z,
           y, Reverse([i \in 1..Len(listed) |-> i]))

Staying == {i \in 1..Len(listed) : ~widgets[listed[i]].fadeOutStarted}
Nth(S, k) == CHOOSE i \in S : Cardinality({j \in S : j <= i}) = k

Frame ==
  /\ widgets' = [f \in DOMAIN widgets |-> [widgets[f] EXCEPT !.y = Moved(f, @)]]
  /\ listed' = [k \in 1..Cardinality(Staying) |-> listed[Nth(Staying, k)]]
  /\ justHidden' = {}
  /\ reshown' = {f \in reshown : ~widgets[f].fadeOutStarted}
  /\ UNCHANGED <<nameMap, loaded, given, messageCount>>

ClipEnds(f) ==
  /\ IsKnown(f) /\ widgets[f].clip # "still"
  /\ widgets' = [widgets EXCEPT ![f] = Completed(@)]
  /\ UNCHANGED <<nameMap, loaded, given, listed, justHidden, reshown, messageCount>>

StatusNext ==
  \/ \E f \in Followers :
       \/ \E name \in Names : AddFollower(f, name)
       \/ \E hp \in Stats : UpdateStats(f, hp)
       \/ ShowFollower(f) \/ HideFollower(f) \/ ClipEnds(f)
  \/ NameMapLoaded \/ Frame

(* The movie goes on and its animations come to their ends.                *)
StatusFairness ==
  WF_statusVars(Frame) /\ \A f \in Followers : WF_statusVars(ClipEnds(f))

StatusSpec == StatusInit /\ [][StatusNext]_statusVars /\ StatusFairness

-----------------------------------------------------------------------------
(* Types of all variables.  A bar shows no more than full and no less than *)
(* nothing.                                                                *)
StatusTypeOK ==
  /\ DOMAIN widgets \subseteq Followers /\ DOMAIN given = DOMAIN widgets
  /\ \A f \in DOMAIN widgets :
       widgets[f].hp \in 0..Full /\ widgets[f].clip \in {"still", "FadeIn", "FastFadeOut"}
  /\ listed \in Seq(Followers) /\ loaded \in BOOLEAN
  /\ justHidden \subseteq DOMAIN widgets /\ reshown \subseteq DOMAIN widgets

(* A widget that was shown and not hidden since is in the list and is      *)
(* visible, whatever animation was going on; one that was hidden and has   *)
(* faded out is not visible.                                               *)
ListedAreVisible ==
  \A f \in DOMAIN widgets :
    LET w == widgets[f]
    IN /\ w.fadeInStarted /\ ~w.fadeOutStarted
            => w.visible /\ f \in ToSet(listed)
       /\ w.fadeOutStarted /\ w.clip = "still" => ~w.visible

(* A widget has one place in the list, unless it was hidden and shown      *)
(* again before a frame took it out: ShowFollower (CompanionStatus.as:235) *)
(* appends it though its old entry is still there, and it has two until it *)
(* is hidden and a frame comes.                                            *)
OnePlaceEach ==
  \A i, j \in DOMAIN listed : listed[i] = listed[j] => i = j \/ listed[i] \in reshown

(* The names of the file are shown for the companions that were named      *)
(* before it was loaded as for the ones that are named afterwards.         *)
NamesAreMapped ==
  loaded => \A f \in DOMAIN widgets : widgets[f].name = Mapped(given[f])

(* Every companion that was not hidden and shown again between two frames  *)
(* has at most one place in the list; one that was shown is in the list    *)
(* and visible and one that was hidden and has faded out is not visible,   *)
(* whatever animation was going on; and names are mapped whether they came *)
(* before the file or after it.                                            *)
CompanionsAreListed == StatusTypeOK /\ OnePlaceEach /\ ListedAreVisible /\ NamesAreMapped

(* When the messages have ended, every shown widget comes to rest within a *)
(* pixel of its place and stays there, but for one that was hidden and     *)
(* shown again between two frames: Update pulls it towards each of its two *)
(* places in every frame (CompanionStatus.as:263-272), and it rests at     *)
(* neither.  The others rest all the same, whatever places it takes up.    *)
AtRest ==
  \A i \in 1..Len(listed) :
    LET away == widgets[listed[i]].y - GetTargetYForShownIndex(i)
    IN listed[i] \notin reshown => away < 2 /\ away > -2

WidgetsSettle == <>[]AtRest
=============================================================================
