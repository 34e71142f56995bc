---------------------------- MODULE DelayFunctors ----------------------------
(***************************************************************************)
(* Latent native functions of Papyrus (f4se/PapyrusDelayFunctors.cpp and   *)
(* the hook of f4se/Hooks_Papyrus.cpp that drives it) and how they are kept*)
(* in the co-save (with WriteF4SEObject and ReadF4SEObject of              *)
(* f4se/PapyrusObjects.cpp).  A functor is enqueued with a delay by        *)
(* whatever thread; the update of the Papyrus VM moves functors whose delay*)
(* is over to the queue, runs as many as its time budget allows, and       *)
(* resumes the stack of a functor that is done.                            *)
(*                                                                         *)
(* The steps are those a critical section or a functor makes atomic.  Time *)
(* is counted in units since the last tick, so that the clock need not be  *)
(* bounded; a frame is at most MaxFrame units.                             *)
(***************************************************************************)
EXTENDS Integers, Sequences, FiniteSets, SequencesExt

CONSTANTS
  Functors,  \* functors there may be at a time
  Restless,  \* functors that ask to be rescheduled for as long as they like
  Delays,    \* delays given to Enqueue; a negative one means at once
  Again,     \* delays a functor asks for when it is rescheduled
  MaxFrame,  \* longest frame
  MaxSaves,  \* bound on saves
  Junk       \* lengths a misplaced read may give

ASSUME FunctorAssumption ==
  /\ IsFiniteSet(Functors)
  /\ Delays \subseteq Int /\ Again \subseteq Int
  /\ MaxFrame \in Nat /\ MaxSaves \in Nat /\ Junk \subseteq Nat

VARIABLES
  queue,     \* F4SEDelayFunctorQueue
  inData,    \* entries added since the last update
  waitData,  \* entries that wait, in no order
  readyData, \* functors whose delay is over, in no order
  popped,    \* the functor that runs, if any
  hook,      \* where the hook is
  elapsed,   \* time since lastTickTime_
  held,      \* functors that are to be run
  age,       \* time from the tick before it was added to the last tick
  asked,     \* the delay it was given
  records,   \* F4SE's records of them in the co-save
  saved,     \* what there was when it was written, and the last entry of each list of delays
  saves,
  astray,    \* whether the lists come from a load that lost its place
  lost       \* functors the last load should have brought back and did not

functorVars == <<queue, inData, waitData, readyData, popped, hook, elapsed, held, age, asked,
                 records, saved, saves, astray, lost>>
coSave == <<records, saved, saves>>
lists == <<queue, inData, waitData, readyData>>

Entry == [f : Functors, left : Int]
NothingSaved == [asked |-> [f \in Functors |-> 0], age |-> [f \in Functors |-> 0], held |-> {},
                 lasts |-> {}, astray |-> FALSE]

Incoming == {inData[i].f : i \in DOMAIN inData}
Waiting == {e.f : e \in waitData}

FunctorTypeOK ==
  /\ queue \in Seq(Functors) /\ inData \in Seq(Entry)
  /\ waitData \subseteq Entry /\ readyData \subseteq Functors
  /\ popped = {} \/ \E f \in Functors : popped = {f}
  /\ hook \in {"idle", "moved", "pop", "run", "running"}
  /\ popped # {} <=> hook = "running"
  /\ hook # "pop" /\ ~astray => readyData = {}
  /\ elapsed \in 0..MaxFrame /\ held \subseteq Functors
  /\ astray \in BOOLEAN

FunctorInit ==
  /\ queue = <<>> /\ inData = <<>> /\ waitData = {} /\ readyData = {} /\ popped = {}
  /\ hook = "idle" /\ elapsed = 0 /\ held = {} /\ astray = FALSE /\ lost = {}
  /\ age = [f \in Functors |-> 0] /\ asked = [f \in Functors |-> 0]
  /\ records = <<>> /\ saved = NothingSaved /\ saves = 0

-----------------------------------------------------------------------------
(* F4SEDelayFunctorWaitList::Add, whenever in the frame.                   *)
AddToWaitList(f, delay) ==
  /\ inData' = Append(inData, [f |-> f, left |-> delay])
  /\ asked' = [asked EXCEPT ![f] = delay]
  /\ age' = [age EXCEPT ![f] = 0]
  /\ UNCHANGED queue

(* A queue that puts a functor in front.                                   *)
PushToFront(f) == queue' = <<f>> \o queue /\ UNCHANGED <<inData, age, asked>>

PushToQueue(f) == queue' = Append(queue, f) /\ UNCHANGED <<inData, age, asked>>

Enqueue(f, delay) ==
  /\ f \notin held /\ held' = held \cup {f}
  /\ IF delay < 0 THEN PushToQueue(f) ELSE AddToWaitList(f, delay)
  /\ lost' = {}
  /\ UNCHANGED <<waitData, readyData, popped, hook, elapsed, coSave, astray>>

Clock ==
  /\ elapsed < MaxFrame /\ elapsed' = elapsed + 1
  /\ UNCHANGED <<lists, popped, hook, held, age, asked, coSave, astray, lost>>

-----------------------------------------------------------------------------
(* F4SEDelayFunctorWaitList::Update: the entries that came in, under the   *)
(* lock, and then without it the time that has passed.                     *)
MoveIncoming ==
  /\ hook = "idle" /\ hook' = "moved"
  /\ waitData' = waitData \cup ToSet(inData) /\ inData' = <<>>
  /\ lost' = {}
  /\ UNCHANGED <<queue, readyData, popped, elapsed, held, age, asked, coSave, astray>>

Decremented(e) == [e EXCEPT !.left = IF @ > 0 THEN @ - elapsed ELSE @]

PassTime ==
  /\ hook = "moved" /\ hook' = "pop" /\ elapsed' = 0
  /\ age' = [f \in Functors |-> IF asked[f] > age[f] THEN age[f] + elapsed ELSE age[f]]
  /\ IF elapsed = 0 THEN UNCHANGED <<waitData, readyData>>
     ELSE LET now == {Decremented(e) : e \in waitData}
          IN /\ waitData' = {e \in now : e.left > 0}
             /\ readyData' = readyData \cup {e.f : e \in {d \in now : d.left <= 0}}
  /\ UNCHANGED <<queue, inData, popped, held, asked, coSave, astray, lost>>

PopReady(f) ==
  /\ hook = "pop" /\ f \in readyData
  /\ readyData' = readyData \ {f} /\ queue' = Append(queue, f)
  /\ age' = [age EXCEPT ![f] = 0] /\ asked' = [asked EXCEPT ![f] = 0]
  /\ UNCHANGED <<inData, waitData, popped, hook, elapsed, held, coSave, astray, lost>>

NothingReady ==
  /\ hook = "pop" /\ readyData = {} /\ hook' = "run" /\ astray' = FALSE
  /\ UNCHANGED <<lists, popped, elapsed, held, age, asked, coSave, lost>>

(* F4SEDelayFunctorManager::OnTick.                                        *)
PopFunctor ==
  /\ hook = "run" /\ queue # <<>> /\ hook' = "running"
  /\ popped' = {Head(queue)} /\ queue' = Tail(queue)
  /\ UNCHANGED <<inData, waitData, readyData, elapsed, held, age, asked, coSave, astray, lost>>

QueueEmpty ==
  /\ hook = "run" /\ queue = <<>> /\ hook' = "idle"
  /\ UNCHANGED <<lists, popped, elapsed, held, age, asked, coSave, astray, lost>>

(* After a functor has run, the budget, less than a frame, may be used up. *)
Ran(f) ==
  /\ hook = "running" /\ popped = {f} /\ popped' = {}
  /\ hook' \in IF elapsed < MaxFrame THEN {"run", "idle"} ELSE {"idle"}
  /\ UNCHANGED <<waitData, readyData, elapsed, coSave, astray, lost>>

Reschedule(f, delay) ==
  /\ Ran(f) /\ f \in Restless
  /\ IF delay > 0 THEN AddToWaitList(f, delay) ELSE PushToQueue(f)
  /\ UNCHANGED held

ResumeStack(f) ==
  /\ Ran(f) /\ held' = held \ {f}
  /\ UNCHANGED <<queue, inData, age, asked>>

-----------------------------------------------------------------------------
(* The co-save of the functors.  A record has a type and words of data.  A *)
(* list is its length followed by its objects, and every object opens a    *)
(* record of its own: whatever follows an object, the length of the next   *)
(* list included, is data of that object's record.                         *)
Size(n) == [kind |-> "size", val |-> n]
Delay(n) == <<[kind |-> "delay", val |-> n], [kind |-> "delay high", val |-> 0]>>

WriteF4SEObject(f, more) ==
  [type |-> "OBJE", data |-> <<[kind |-> "name", val |-> f], [kind |-> "stack", val |-> 0]>> \o more]

WriteQueue(fs) == [k \in 1..Len(fs) |-> WriteF4SEObject(fs[k], <<>>)]

(* The lengths that come when k objects of the lists of delays, which have *)
(* n and m, are written.                                                   *)
Sizes(k, n, m, ready) ==
  (IF k = 0 THEN <<Size(n)>> ELSE <<>>) \o (IF k = n THEN <<Size(m)>> ELSE <<>>)
    \o (IF k = n + m THEN <<Size(ready)>> ELSE <<>>)

WriteWaitList(incoming, waiting, ready) ==
  LET entries == incoming \o waiting
      After(k) == Sizes(k, Len(incoming), Len(waiting), Len(ready))
  IN <<[type |-> "WLST", data |-> After(0)]>>
       \o [k \in 1..Len(entries) |-> WriteF4SEObject(entries[k].f, Delay(entries[k].left) \o After(k))]
       \o WriteQueue(ready)

SaveFunctors(queued, incoming, waiting, ready) ==
  <<[type |-> "FUNQ", data |-> <<Size(Len(queued))>>]>> \o WriteQueue(queued)
    \o WriteWaitList(incoming, waiting, ready) \o <<[type |-> "____", data |-> <<>>]>>

-----------------------------------------------------------------------------
(* A reader has a record and a place in it.  A read that fails ends the    *)
(* whole Load, as there being no record does.  A length is read back as it *)
(* was written, whatever came before it; where none was written, it is     *)
(* junk.                                                                   *)
EndOf(recs) == [rec |-> Len(recs) + 1, at |-> 1]

ReadSize(recs, r, junk) ==
  IF r.rec > Len(recs) \/ r.at > Len(recs[r.rec].data) THEN [n |-> 0, r |-> EndOf(recs)]
  ELSE [n |-> IF recs[r.rec].data[r.at].kind = "size" THEN recs[r.rec].data[r.at].val ELSE junk,
        r |-> [rec |-> r.rec, at |-> r.at + 1]]

(* Each turn of a loop over a list opens the next record.                  *)
Turns(recs, size) == {i \in DOMAIN recs : size.r.rec < i /\ i <= size.r.rec + size.n}

(* ReadF4SEObject finds an object of a class there is a factory for.  One  *)
(* that is unknown leaves the reader behind its name.                      *)
Name(recs, i) == recs[i].data[1].val
Found(recs, i, unknown) == recs[i].type = "OBJE" /\ Name(recs, i) \notin unknown

Nth(S, k) == CHOOSE i \in S : Cardinality({j \in S : j <= i}) = k

ReadQueue(recs, unknown, size) ==
  LET read == {i \in Turns(recs, size) : Found(recs, i, unknown)}
  IN [k \in 1..Cardinality(read) |-> Name(recs, Nth(read, k))]

(* A loop that ends with the first object that is not found.               *)
EndsAtUnknown(recs, i, unknown) == ~Found(recs, i, unknown) \/ Len(recs[i].data) < 4

(* What ends a loop over a list of delays, and the Load: an object without *)
(* a delay.                                                                *)
EndsLoad(recs, i, unknown) == Found(recs, i, unknown) /\ Len(recs[i].data) < 4

EntriesRead(recs, unknown, size) ==
  {i \in Turns(recs, size) :
     /\ Found(recs, i, unknown)
     /\ \A j \in Turns(recs, size) : EndsLoad(recs, j, unknown) => i < j}

ReadEntries(recs, unknown, size) ==
  LET read == EntriesRead(recs, unknown, size)
  IN [k \in 1..Cardinality(read) |-> [f |-> Name(recs, Nth(read, k)), left |-> recs[Nth(read, k)].data[3].val]]

(* Where the loop leaves the reader.                                       *)
BehindEntries(recs, unknown, size) ==
  LET last == size.r.rec + size.n
  IN IF size.n = 0 THEN size.r
     ELSE IF last > Len(recs) \/ \E j \in Turns(recs, size) : EndsLoad(recs, j, unknown)
       THEN EndOf(recs)
     ELSE [rec |-> last, at |-> IF Found(recs, last, unknown) THEN 5
                                ELSE IF recs[last].type = "OBJE" THEN 2 ELSE 1]

(* F4SEDelayFunctorManager::Load: the loop over the records finds FUNQ,    *)
(* and then WLST behind the queue.                                         *)
LoadFunctors(recs, unknown, waitJunk, readyJunk) ==
  LET SizeAt(r) == ReadSize(recs, r, waitJunk)
      wlst == CHOOSE i \in DOMAIN recs : recs[i].type = "WLST"
      inSize == SizeAt([rec |-> wlst, at |-> 1])
      waitSize == SizeAt(BehindEntries(recs, unknown, inSize))
      readySize == ReadSize(recs, BehindEntries(recs, unknown, waitSize), readyJunk)
  IN [queue |-> ReadQueue(recs, unknown, SizeAt([rec |-> 1, at |-> 1])),
      inData |-> ReadEntries(recs, unknown, inSize),
      waitData |-> ReadEntries(recs, unknown, waitSize),
      readyData |-> ReadQueue(recs, unknown, readySize)]

-----------------------------------------------------------------------------
(* F4SE saves, reverts and loads between two updates of the VM.            *)
Save ==
  /\ hook = "idle" /\ saves < MaxSaves /\ saves' = saves + 1
  /\ \E waiting \in SetToSeqs(waitData), ready \in SetToSeqs(readyData) :
       /\ records' = SaveFunctors(queue, inData, waiting, ready)
       /\ saved' = [asked |-> asked, age |-> age, held |-> held, astray |-> astray,
                    lasts |-> {Last(l).f : l \in {inData, waiting} \ {<<>>}}]
  /\ lost' = {}
  /\ UNCHANGED <<lists, popped, hook, elapsed, held, age, asked, astray>>

(* OnRevert and Load, which resumes the delays where they were.  The       *)
(* reader loses its place behind a list of delays whose last object is of  *)
(* an unknown class; otherwise it should find all that are known.          *)
RevertAndLoad(unknown, waitJunk, readyJunk) ==
  /\ hook = "idle" /\ records # <<>>
  /\ LET now == LoadFunctors(records, unknown, waitJunk, readyJunk)
         misplaced == saved.lasts \cap unknown # {}
     IN /\ queue' = now.queue /\ inData' = now.inData
        /\ waitData' = ToSet(now.waitData) /\ readyData' = ToSet(now.readyData)
        /\ held' = ToSet(queue') \cup Incoming' \cup Waiting' \cup readyData'
        /\ lost' = IF misplaced THEN {} ELSE saved.held \ (held' \cup unknown)
        /\ astray' = (saved.astray \/ misplaced)
  /\ elapsed' = 0 /\ asked' = saved.asked /\ age' = saved.age
  /\ UNCHANGED <<popped, hook, coSave>>

FunctorNext ==
  \/ \E f \in Functors, d \in Delays : Enqueue(f, d)
  \/ Clock \/ MoveIncoming \/ PassTime \/ NothingReady \/ PopFunctor \/ QueueEmpty
  \/ \E f \in Functors : PopReady(f) \/ ResumeStack(f) \/ \E d \in Again : Reschedule(f, d)
  \/ Save
  \/ \E unknown \in SUBSET Functors, waitJunk, readyJunk \in Junk :
       RevertAndLoad(unknown, waitJunk, readyJunk)

FunctorSpec == FunctorInit /\ [][FunctorNext]_functorVars

(* Time passes, the VM goes on being updated, a functor returns, and one   *)
(* that is not restless is done when it has run.                           *)
Update == MoveIncoming \/ PassTime \/ NothingReady \/ PopFunctor \/ QueueEmpty
            \/ \E f \in Functors : PopReady(f) \/ ResumeStack(f) \/ \E d \in Again : Reschedule(f, d)
FunctorFairness == WF_functorVars(Clock) /\ WF_functorVars(Update)
-----------------------------------------------------------------------------
(* A functor that was enqueued is in exactly one of the places until its   *)
(* stack is resumed, and in none afterwards: its stack is neither resumed  *)
(* twice nor left suspended, whatever is added, moved and run in between.  *)
OnePlaceEach ==
  /\ \A i, j \in DOMAIN queue : queue[i] = queue[j] => i = j
  /\ \A i, j \in DOMAIN inData : inData[i].f = inData[j].f => i = j
  /\ \A d, e \in waitData : d.f = e.f => d = e
  /\ ToSet(queue) \cap (Incoming \cup Waiting \cup readyData \cup popped) = {}
  /\ Incoming \cap (Waiting \cup readyData \cup popped) = {}
  /\ Waiting \cap (readyData \cup popped) = {}
  /\ readyData \cap popped = {}
  /\ held = ToSet(queue) \cup Incoming \cup Waiting \cup readyData \cup popped

(* A delay is over only when that much time has passed since the tick that *)
(* came before the functor was added: a functor is at most one frame early,*)
(* also when the game was saved and loaded while it waited.  A load that   *)
(* lost its place may take one that waits for one that is ready.           *)
AtMostAFrameEarly == ~astray => \A f \in readyData : age[f] >= asked[f]

(* A load brings back every functor whose class is known, provided the     *)
(* last entry of either list of delays is one of them.                     *)
LoadKeepsFunctors == lost = {}

(* PapyrusDelayFunctors.cpp: a functor is in one queue at a time, never    *)
(* runs more than a frame early, and is kept by a save and a load if its   *)
(* class is known.                                                         *)
FunctorsAreKept == FunctorTypeOK /\ OnePlaceEach /\ AtMostAFrameEarly /\ LoadKeepsFunctors

(* Every functor that does not ask for more is run in the end, whatever    *)
(* restless ones there are beside it.                                      *)
OthersAreRun == \A f \in Functors \ Restless : f \in held ~> f \notin held
=============================================================================
