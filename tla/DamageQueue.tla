----------------------------- MODULE DamageQueue -----------------------------
(***************************************************************************)
(* The queue between the damage hooks and the menu (FloatingDamage/        *)
(* main.cpp): s_uiQueue under s_uiQueueLock, filled by                     *)
(* FloatingDamageDelegate::Register on the threads of the game, emptied by *)
(* FloatingDamageMenu on the thread of the user interface, which hands the *)
(* numbers to the movie (FloatingDamageMenu.as).                           *)
(*                                                                         *)
(* Register and the flush of ProcessMessage are one step each: they keep   *)
(* s_uiQueueLock from their first access to the queue to their last.  A    *)
(* frame is a step per number, because it calls the movie in between, and  *)
(* holds the lock throughout.                                              *)
(***************************************************************************)
EXTENDS Naturals, Sequences, Functions

CONSTANTS
  Limit,       \* the size up to which Register still adds a number (0x64)
  MaxNumbers   \* bound on the Register calls of a behaviour

ASSUME LimitAssumption == Limit \in Nat
ASSUME MaxNumbersAssumption == MaxNumbers \in Nat

VARIABLES
  registered,  \* Register calls so far; a number is its place among them
  uiQueue,     \* s_uiQueue
  queueLock,   \* s_uiQueueLock between two steps: free, or in a frame
  menu,        \* the menu instance and its movie, see Menus
  shown,       \* the numbers the movie made a fader for
  openedAt     \* registered when the menu last handled kMessage_Open

queueVars == <<registered, uiQueue, queueLock, menu, shown, openedAt>>

(* No instance; an instance whose LoadMovie failed, so that its stage is   *)
(* no display object; one with a movie that is not initialised; one whose  *)
(* movie accepts numbers (isInit).                                         *)
Menus == {"closed", "blank", "loaded", "ready"}

QueueTypeOK ==
  /\ registered \in 0..MaxNumbers
  /\ uiQueue \in Seq(1..MaxNumbers)
  /\ queueLock \in {"free", "frame"}
  /\ menu \in Menus
  /\ shown \in Seq(1..MaxNumbers)
  /\ openedAt \in 0..MaxNumbers

QueueInit ==
  /\ registered = 0
  /\ uiQueue = <<>>
  /\ queueLock = "free"
  /\ menu = "closed"
  /\ shown = <<>>
  /\ openedAt = 0

-----------------------------------------------------------------------------
(* A Register that does not enter the lock.                                *)
RegisterUnlocked ==
  /\ registered < MaxNumbers
  /\ registered' = registered + 1
  /\ uiQueue' = IF Len(uiQueue) <= Limit
                  THEN Append(uiQueue, registered') ELSE uiQueue
  /\ UNCHANGED <<queueLock, menu, shown, openedAt>>

(* FloatingDamageDelegate::Register: a number that finds the queue over    *)
(* its limit is dropped, and nobody is told.                               *)
Register ==
  /\ registered < MaxNumbers
  /\ queueLock = "free"
  /\ registered' = registered + 1
  /\ uiQueue' = IF Len(uiQueue) <= Limit
                  THEN Append(uiQueue, registered') ELSE uiQueue
  /\ UNCHANGED <<queueLock, menu, shown, openedAt>>

-----------------------------------------------------------------------------
(* kMessage_Open: the game creates an instance if there is none, whose     *)
(* constructor loads the movie or fails to, and ProcessMessage empties the *)
(* queue.                                                                  *)
HandleOpen ==
  /\ queueLock = "free"
  /\ IF menu = "closed" THEN menu' \in {"blank", "loaded"} ELSE UNCHANGED menu
  /\ uiQueue' = <<>>
  /\ openedAt' = registered
  /\ UNCHANGED <<registered, queueLock, shown>>

(* kMessage_Close: ProcessMessage empties the queue and the game releases  *)
(* the instance with its movie.                                            *)
HandleClose ==
  /\ queueLock = "free"
  /\ menu # "closed"
  /\ uiQueue' = <<>>
  /\ menu' = "closed"
  /\ UNCHANGED <<registered, queueLock, shown, openedAt>>

(* onCodeObjCreate: the movie has its settings and accepts numbers.        *)
OnCodeObjCreate ==
  /\ queueLock = "free"
  /\ menu = "loaded"
  /\ menu' = "ready"
  /\ UNCHANGED <<registered, uiQueue, queueLock, shown, openedAt>>

-----------------------------------------------------------------------------
(* DrawNextFrame enters the lock, if the stage is a display object ...     *)
DrawEnter ==
  /\ queueLock = "free"
  /\ menu \in {"loaded", "ready"}
  /\ queueLock' = "frame"
  /\ UNCHANGED <<registered, uiQueue, menu, shown, openedAt>>

(* The movie makes a fader for a number, or ignores it until it is         *)
(* initialised.                                                            *)
OnDamageReceived(n) == shown' = IF menu = "ready" THEN Append(shown, n) ELSE shown

(* A frame that deletes a number without running it.                       *)
DrawPopSilently ==
  /\ queueLock = "frame"
  /\ uiQueue # <<>>
  /\ uiQueue' = Tail(uiQueue)
  /\ UNCHANGED <<registered, queueLock, menu, shown, openedAt>>

(* ... pops and runs one delegate ...                                      *)
DrawPop ==
  /\ queueLock = "frame"
  /\ uiQueue # <<>>
  /\ uiQueue' = Tail(uiQueue)
  /\ OnDamageReceived(Head(uiQueue))
  /\ UNCHANGED <<registered, queueLock, menu, openedAt>>

(* A frame that returns from an empty queue inside the lock.               *)
DrawLeaveLocked ==
  /\ queueLock = "frame"
  /\ uiQueue = <<>>
  /\ UNCHANGED queueVars

(* ... and leaves the lock when the queue is empty.                        *)
DrawLeave ==
  /\ queueLock = "frame"
  /\ uiQueue = <<>>
  /\ queueLock' = "free"
  /\ UNCHANGED <<registered, uiQueue, menu, shown, openedAt>>

UIStep ==
  HandleOpen \/ HandleClose \/ OnCodeObjCreate \/ DrawEnter \/ DrawPop \/ DrawLeave

QueueNext == Register \/ UIStep

QueueSpec == QueueInit /\ [][QueueNext]_queueVars

(* While a menu is up the game calls its DrawNextFrame every frame, and a  *)
(* frame that has begun goes on.                                           *)
DrawFairness ==
  WF_queueVars(DrawEnter) /\ WF_queueVars(DrawPop) /\ WF_queueVars(DrawLeave)

FairQueueSpec == QueueSpec /\ DrawFairness

-----------------------------------------------------------------------------
Increasing(s) == \A i, j \in DOMAIN s : i < j => s[i] < s[j]

(* The queue takes a number at the limit and none above it, so that a menu *)
(* that is not drawn never keeps more than Limit + 1 numbers.              *)
QueueBounded == Len(uiQueue) <= Limit + 1

(* A number is shown at most once, and numbers are shown in the order in   *)
(* which their hits were registered, across frames, closings and openings  *)
(* of the menu.                                                            *)
InOrder == Increasing(shown) /\ Increasing(uiQueue)
             /\ \A i \in DOMAIN shown, j \in DOMAIN uiQueue : shown[i] < uiQueue[j]

(* A number that was registered before the menu last opened is never shown *)
(* afterwards: what piled up behind a closed menu is not shown late.       *)
ShowsFreshNumbers ==
  [][shown' # shown => shown'[Len(shown')] > openedAt]_queueVars

(* A number that waits for a menu that accepts numbers is shown, unless    *)
(* the menu is closed or opened again before.                              *)
WaitingIsShown ==
  \A n \in 1..MaxNumbers :
    menu = "ready" /\ n \in Range(uiQueue)
      ~> n \in Range(shown) \/ menu # "ready" \/ openedAt >= n

-----------------------------------------------------------------------------
(* A frame as the producers see it: because it holds the lock, it shows    *)
(* what waits in one step, the one in which it enters.                     *)
waiting == IF queueLock = "frame" THEN <<>> ELSE uiQueue
onScreen == IF queueLock = "frame" /\ menu = "ready" THEN shown \o uiQueue ELSE shown

Feed == INSTANCE DamageFeed WITH
          count <- registered, waiting <- waiting, onScreen <- onScreen

(* The number-by-number drain of the queue is atomic for the game threads. *)
ImplementsFeed == Feed!Spec

(* The queue takes as many numbers as its limit allows and the frames show *)
(* them, fresh, in order and each once, as a feed does.                    *)
QueueIsFeed ==
  [](QueueTypeOK /\ QueueBounded /\ InOrder) /\ ShowsFreshNumbers /\ ImplementsFeed
=============================================================================
