# FloatingDamage in TLA+

FloatingDamage is an F4SE plugin for Fallout 4: two hooks in the game's damage
code measure what a hit or an effect costs its victim, a queue carries the
numbers to the thread of the user interface, and a Scaleform menu lets them
float over the victim. The repository holds the plugin (`f4se/FloatingDamage`),
the script extender it is built with (`f4se/f4se`, `f4se_common`, the loaders),
a signature scanner (`f4se/Relocation`) and a utility library (`common`).

This directory models the plugin and every part of the extender that keeps a state
of its own: TLA+ modules, configurations that model-check them with TLC, and proofs
checked by TLAPS. `PROJECT.json` maps each definition to the lines it models
and lists components, runs, mutants, theorems, findings and hazards.

Contents: 1 inventory, 2 modules, 3 runs, 4 properties and findings, 5 fairness,
6 proofs, 7 other disagreements seen, 8 not modelled.

## 1. Inventory

| Component | State | Operations | Talks to | What is hard | Correct when |
|---|---|---|---|---|---|
| SimpleLock (`GameTypes.cpp`) | `threadID`, `lockCount` | `Lock`, `Release` | every `SimpleLocker` | two words, written and tested without a common atomic step | one owner; the count is its nesting; every `Lock` returns |
| Damage hooks (`main.cpp`, `ActorEx`) | `globalDamageLock`, `bShowEffectDamage`, activations on the stacks | `ProcessDamageFrame_Hook`, `DamageHealth_Hook` | SimpleLock, queue, game | nesting inferred from a shared count; health read twice around foreign code | no damage shown twice, no thread stuck |
| Number queue (`FloatingDamageDelegate`) | `s_uiQueue` and its lock | `Register`, flush, drain in `DrawNextFrame` | hooks, menu, movie | the limit, calls out under the lock, a closed menu | bounded, ordered, each at most once, never stale |
| Menu and handlers (`FloatingDamageMenu`, `MenuOpenCloseHandler`, configuration handlers) | instance, menu table, `Settings` | constructor, `ProcessMessage`, `ReceiveEvent`, `On*SettingChanged` | game's message queue, movie, ini file | all asynchronous; the HUD may be there first | menu follows HUD; every edit arrives |
| Movie (`FloatingDamageMenu.as`, `FloatingDamageFader.as`) | `isInit`, settings, a clip per number | `onCodeObjCreate`, `onDamageReceived`, `onModSettingChanged`, `UpdateSelf` | menu | settings change under way; paths that lead nowhere | every number leaves, in time, on its own path |
| Companion widgets (`CompanionStatus.as`, `HUDFadingListItem.as`) | name map, widgets, list of the shown | add, update, show, hide, frame, file loaded | movies that send messages | hide and show within an animation; names before the file | one place each and at rest, unless shown again before a frame |
| Plugin load (`F4SEPlugin_Query/Load`, `InitHooks`, `RVA.h`) | addresses, cache file, patched code | query, resolve, hook | plugin manager, scanner | the second of two hooks may fail; the cache outlives everything | no hook uses an unresolved address |
| Plugin manager (`PluginManager.cpp`) | plugins, listeners per sender | `InstallPlugins`, `RegisterListener`, `Dispatch_Message` | plugins | nested dispatches, plugins that fail | a message reaches each listener once, and no freed one |
| Loaders (`f4se_loader`, `f4se_steam_loader`, `Inject.cpp`) | options, suspended process, import table | the launch | game, Steam | timeout against a late thread | F4SE is in before the game's code runs |
| Co-save (`Serialization.cpp`) | file, open headers, callbacks | save, load, `OpenRecord`, `WriteRecordData`, `GetNextRecordInfo`, `ReadRecordData` | plugins | headers patched afterwards; plugins that stop, throw, vanish; a crash | a plugin reads what it wrote |
| Form identifiers (`InternalSerialization.cpp`, `ResolveFormId`) | maps of load orders | write, read, resolve | co-save | widths of places; maps of an earlier save | an identifier finds its plugin |
| Event registrations (`PapyrusEvents.h`) | holders, filters | register, unregister, revert, save, load | scripts, co-save | handles change over a load | registrations and references survive |
| Delay functors (`PapyrusDelayFunctors.cpp`) | four lists | `Enqueue`, `OnUpdate`, `OnTick`, save, load | script machine | other threads enqueue; budget of a tick | each runs, once, not early |
| Persistent objects (`PapyrusObjects.cpp`) | objects, stack of free indices | `Store`, `Take`, clean, save, load | scripts | an index in both places | handles stay good |
| VMIdentifier (`PapyrusValue.cpp`) | count and lock bit in a word, handle policy | `IncrementLock`, `DecrementLock`, `GetHandle`, `Destroy` | arguments of native functions | stale compare-exchange | the policy keeps the object while it is shared |
| Script values (`PapyrusSerialization.cpp`, `PapyrusScaleformAdapter.cpp`, `PapyrusArgs.h`) | values on three ways out of scripts | write, read, convert, pack, unpack | co-save, movies, native functions | types that are gone; a movie that changes members | those of the kinds that the code can read (section 7) come back as they went |
| Item data (`GameExtraData.cpp`, `PapyrusInstanceData`) | chains of extra data, instance data | `Add`, `Remove`, `GetByType`, getters, setters | scripts, game | two uses of a lock in one call | data found again, base form untouched |
| Task interface (`Hooks_Threads.cpp`) | two queues | `AddTask`, `AddUITask`, drains | plugins, game | tasks that add tasks under a re-entrant lock | each once, in order, and the drain ends |
| Trampolines (`BranchTrampoline.cpp`) | a block of memory | `Create`, `Allocate`, `Write5/6*` | hooks | 32-bit displacements | every branch reaches |
| Code generator (xbyak labels) | buffer, labels, references | define, refer, copy, assign | hooks | references before definitions, shared labels | every reference leads to its label |
| Scanner (`Pattern.cpp`) | hints | transform, scan, match | plugin load | bounds, wildcards, stale hints | answers are matches |
| Containers (`GameTypes.h`) | arrays, chained hash sets | growth, insert, remove | all | off-by-one, guests in chains | sequence and set |
| VMStruct, custom menus, game interfaces, console, `common`, third-party code | | | | | not modelled, section 8 |

## 2. Modules

    ReentrantLock    <-- SimpleLock ------+
                                          +--> DamageHooks
    DamageFeed       <-- DamageQueue -----+
                                |
                                +------------> MenuLifecycle
    TaskFifo         <-- TaskInterface
    PersistentHandle <-- IdentifierLock
    ItemSequence     <-- GameArray
                         ExtraDataList ------> InstanceData

`<--` is a refinement (the left module is the abstract specification, a property of
the right one), `-->` a composition by EXTENDS. `X_proofs` holds the theorems about
`X` and what it is put together from: `DamageHooks_proofs` those about SimpleLock,
`Threads_proofs` those about IdentifierLock, TaskInterface and DelayFunctors, `Plugins_proofs` those about
PluginManager, PluginLoad and Launch, `Saves_proofs` those about FormIds, CoSave and EventRegistrations,
`MenuLifecycle_proofs` also those about CompanionStatus, `Scripts_proofs` those about PersistentObjects, NativeCalls,
ExtraDataList and InstanceData, `Code_proofs` those about BranchTrampoline, Assembler, SignatureScan, HashSet and GameArray. Comments that speak of "A ... that ..." beside an operator no specification uses
mark plausible mistakes in that operator; `PROJECT.json` names the property each breaks.

Each `MC` module puts several components next to each other, each on an instance of
its own (`INSTANCE ... WITH`, or EXTENDS for one that is proved about). A variable
`part` is chosen at the start and never changes: a behaviour is about one part, and the
others keep the state they start in, so the state spaces add up and do not multiply.
A property is about its own part; in the behaviours of other parts it speaks of initial
states. Where components interact in the code, they are composed by EXTENDS instead.

### The damage plugin

**SimpleLock.** `threadID` and `lockCount` are the two words; `lpc[t]` is where thread t
is in `Lock` or `Release`, `held[t]` its calls to release. One step is one access:

| Code | Action |
|---|---|
| `if (threadID == myThreadID)` | `LockTest` (to `inc` or `cas`) |
| `InterlockedIncrement(&lockCount)` | `LockInc` |
| a successful `InterlockedCompareExchange(&lockCount, 1, 0)` | `LockCas` |
| `threadID = myThreadID` | `LockOwn` |
| `InterlockedDecrement(&lockCount) == 0` | `ReleaseDec` |
| `threadID = 0` | `ReleaseClear` |

A failed compare-exchange changes only the local `spinCount`. The stores of `threadID` are
plain stores to a `volatile`, modelled as taking effect at once. On x86-64 a store may wait in
the store buffer while others read the old value: the thread sees its own stores and the next
interlocked instruction empties the buffer, so a delayed `ReleaseClear` is a behaviour in
which the step comes later; the delay adds only later erasures of another owner's name, the
fault the model already shows. `ReentrantLock` is what users count on: an owner and a depth.

**DamageQueue.** A number is its place among the `Register` calls. `Register` and the flush in
`ProcessMessage` hold the lock from first access to last and are one step each. The drain in
`DrawNextFrame` calls the movie for each number: `DrawEnter`, one `DrawPop` per number,
`DrawLeave`. `menu` is instance and movie together: `closed`, `blank` (`LoadMovie` failed),
`loaded` (before `onCodeObjCreate`), `ready` (`isInit`). `DamageFeed` is what producers and
player see: a number is accepted or refused, a frame shows all that waits in one step.

**DamageHooks** extends both. `frame[t]` and `effect[t]` are t's activations of the hooks;
`effect` may be active inside the body of a frame, where the game's code calls `DamageHealth`
through the patched table. Frames do not nest: nothing in the repository shows it. Health is
in units of 1/`Unit` point, so rounding is real arithmetic; `EffectPoints` is the random draw
that turns a fraction into 1 or its rounding. `FrameLock`/`EffectLock` conjoin `LockTest`,
`FrameRelease`/`EffectRelease` conjoin `ReleaseDec`; a hook goes on when its thread is outside
`Lock` and `Release`. "In sight and not the player" is a free choice of each call.
`framed`, `effected` and `announced` are histories: what the two kinds of numbers add up to, and what effects have announced
and not yet done.

**MenuLifecycle** extends DamageQueue with what opens and closes the menu. `messages` is the
queue behind `SendUIMessage`; the game's part (handling messages in order, dispatching
`MenuOpenCloseEvent`, creating an instance) is external. A setting is a version number; `ini`,
`settings`, `movie`, `shader` are the places a version lives, `due` holds edits whose handler is
yet to be called.

**Faders.** The clips of `FloatingDamageMenu.as`. A path setting is an object of `heap`, and a clip
keeps the reference it was born with, as in ActionScript. `Frame` is `onEnterFrame`: `UpdateSelf`
of every clip, then the clip's own animation. Of the place only the vertical offset is kept.

**CompanionStatus.** Messages (`AddFollower`, `UpdateStats`, `ShowFollower`,
`HideFollower`), the file of names (`NameMapLoaded`), `Frame` (every `UpdateItem`) and the end of a
clip. Lengths are in half pixels, since the steps are 1 down and 1.5 up. The names a message carries are mapped line by line of the
file (`Renamed`, a recursive function over the lines); `NameLinesAssumption` says of the file that no line maps a name that an
earlier line has, and none maps to the empty name. `listed` keeps who was told to be shown, apart from the widgets. Any number of messages may come between
two frames; `justHidden` and `reshown` are histories of who was hidden, and shown again, in between.

**PluginLoad.** `Query`, `Create` (the trampoline), one `Resolve` or `GiveUp` per address in order,
the hooks as soon as their address is known, `Registered`; `Restart` with another version of the game, after
a crash or not. `cache` is `FloatingDamage.mem`, which survives.

### The extender

**PluginManager.** A plugin's handle is its place in `plugins`; `listeners[h + 1]` is the list for
messages of handle h; `calls` is the stack of `Dispatch_Message` activations, each with its place in
the list. What plugins do besides the orderly is chosen at the start, `habits`, one of `HabitSets` (fail after
registering, register with all again, register late, throw).

**Launch.** Four actors: the loader (options, identification, library, Steam, creation, injection, wait,
resume or terminate), the injected thread, the game's first thread, and the rest of the machine. `path` is
the remote string, which may be freed or garbled while the thread has yet to read it; `mishap` records that
something the loader has no part in went wrong.

**CoSave.** The file is `cells`, a header or a datum each; `offset` is the position. Saving
skips headers and patches them (`FlushedHeader`), the file's own last; callbacks run for several steps
and may stop or throw between any two (`SaveReturn`, `LoadReturn`); `Restart` is the death of the game or
another set of plugins. `wrote`, `got`, `places` and `readAll` are histories: what each plugin wrote and where its headers
lie, what it was given, and whether it read to the end. **FormIds** has the lists of mods of a save and the maps of a load; a place is a
number below `Byte`, a light place below `Lights`. **EventRegistrations** has the holders, the filters of
the furniture event, and reference counts of the handle policy; a load resolves handles to others or to none.

**DelayFunctors.** `queue`, `inData`, `waitData`, `readyData` are the lists of the code; `Enqueue` comes from any
thread between the steps of `OnUpdate` and `OnTick`. `SaveFunctors` is the records a save writes, where the length of a list is
data of the object before it; `LoadFunctors` says what the loops over them take and where they leave the reader
(`BehindEntries`), which behind a functor of an unknown class is where the code leaves it, and what it reads there is `Junk`.
Two of what `LoadFunctors` finds by name, the records FUNQ and WLST, stand for the loop over all records, since a save writes one of each.
`age` and `asked` are histories: the time since a functor's delay began and the delay; `lost` what the last load should have brought back.
**PersistentObjects.** `data` and `free` are the storage; `Store`, `Take` are steps of scripts, the loops of
cleaning, saving and loading are a step per turn. **IdentifierLock** is VMIdentifier: `Read`, compare-exchange
(`CasLocks`, `CasCounts`, `CasFails`), `Tell` the policy, `Store`, `Destroy`; `PersistentHandle` makes each call one step.
**TaskInterface.** `AddEnter`/`AddPush`/`AddLeave` and `Come`/`DrainEnter`/`RunNext`/`RunEnds`/`DrainLeave`, with
re-entrant critical sections (`entered`, `nesting`); a task that runs may add tasks. `TaskFifo` is a queue of tasks run one
at a time.

**VMData, MovieValues, NativeCalls** follow a value out of a script and back: `WriteVMData`/`ReadVMData` over a record of typed
items, with another game reading; `ConvertPapyrusValue`/`ConvertScaleformValue` with a movie changing members between;
and `VMArray`, a copy whose every change goes to the script's array too (`Through`), with calls that are put off (`Enqueue` packs
the arguments, `RunLater` unpacks them); `stage` is where the call is. What an operation does to the array is `tArray`'s doing
(`PushTo`, `SetIn`, `RemoveFrom`, `ResizeOf`): its `Resize` lets an array with a block have no more entries than before, so
that the copy alone gets longer. The history `grown` says that this has happened since the function last assigned the array anew.
An array's capacity is left out; it decides when a block is moved and never how many entries there are.
**ExtraDataList** and **InstanceData**: one step per use of a list's lock, so `Add` is `AddTest` and `AddInsert`;
`GetInstanceData` copies the base form's data for an item that has none. Who adds, who owns and who uses is chosen at the start, so
one instance covers lists on their own and items, and so is which parts the form's data come without (`missing`): a value in
such a part is silently not set (`HasPlace`). The game's `CloneInstanceData` is taken to copy the parts as well.

**BranchTrampoline.** `Search` is one turn of the loop of `Create` with the answer of `VirtualQuery` left open; `StartAlloc`,
`EndAlloc`, `WriteBranch` hand out memory. **Assembler.** The label manager of xbyak: definitions, waiting references,
label objects that share one definition. Instructions are byte counts. **SignatureScan.** Texts to bytes with
wildcards, both comparisons, the range, hints. A signature is its text with the bytes it was written for; that the text is
one of these bytes (`IsTextOf`) is an assumption TLC evaluates for those of `code`, and that `Transform` reads them from it is proved.
**HashSet, GameArray.** The templates of `GameTypes.h` with the dispatcher on
top: `ops` is fixed at the start and says whether the array's own operations are used or the dispatcher's. `ItemSequence` is
the sequence the array should be.

## 3. Runs

| Run | Instance | Shows |
|---|---|---|
| `threads` | SimpleLock: 3 threads, depth 3, and again without nesting. Identifier: 2 threads, 3 references. Numbers: limit 1, 5 registered. Tasks: both queues, 2 tasks, 3 threads | two words are a re-entrant lock; a word counts references and tells the policy once; numbers and tasks come out in order, once; who waits is served |
| `hooks_two_threads` | 2 threads, effects shown, damage of 1/2 and 2 1/4 points, 3 calls | `lockCount` tells a hit's own damage from any other; frames do not share a loss |
| `hooks_one_thread` | 1 thread, 2 actors, the setting changing, 3 calls | nothing is shown twice, every tracked hit ends |
| `hooks_wedge` (violation) | 2 threads, effects shown | finding 1 |
| `menus` | menu: 3 messages of the game and an edit of either group, or 4 without edits; 2 numbers, frame cap 4, fade-out of 2; 2 companions, 5 messages in any rhythm | the menu follows the HUD, edits arrive, numbers leave, widgets that were not hidden and shown again between two frames settle |
| `plugins` | 3 plugins, 5 requests, dispatches nested 3 deep (4 requests with every bad habit); 3 versions of the game and 4 launches; every switch and the pairs that interact, every kind of game file and set of libraries | lists stay sound, registrations hold, hooks use resolved addresses, a clean launch has F4SE |
| `saves` | 3 regular and 2 light plugins in all load orders; 2 plugins with records, 3 starts, saves or loads; 2 objects, 3 calls, 2 saves | what was saved is found again, by its owner only |
| `objects` | 2 objects, 2 stacks, 3 loads; 2 functors with a save of delays of a frame, any of their classes unknown to a load and a misplaced length of 0 or 1, and without saves 4 delays | handles hold, storage is bounded, functors are kept and run |
| `values` | arguments of every kind, with those that lead the reader astray, and four games to load them; values with one level of nesting, objects whose handles survive a movie and objects whose do not; arrays up to 2, 3 changes; 3 extra data of 2 types; weapons and items, with and without each part | the values that the code keeps come back, calls keep their arrays, items their data |
| `code` | module at 10, reach 11; labels in 4 bytes; images of 6 bytes; all hashes of 3 keys; arrays up to 4 | branches reach, references are resolved, answers are matches, containers are sequence and set |
| `furniture_filter` (violation) | 1 script, 2 objects | finding 2 |
| `missing_light` (violation) | load orders of 1 regular, 2 light plugins | finding 3 |

Why the bounds are enough. Two threads suffice to erase the name in the lock, three let another one profit
from it; depth 3 is one more than the hooks nest; the theorems hold for every number. Limit 0x64 becomes 0, 1 or 2, since the
queue only compares its length with it; five numbers overflow limit 1 and leave some for later. Three calls of the hooks are a frame,
an effect in it and a competitor; the amounts are one that rounds up from below a point and one that loses a
quarter. Four messages of the game open a HUD, cover it with a loading screen, and close or reopen it. A frame cap of
4 stands for 300: a number either comes far enough before it, or does not, and both happen. Three plugins are one that listens, one that
sends and one that is freed or comes between. Saves: two loads in a row show stale maps, a byte of 5 places
makes both special places collide with lists of two. A co-save of two plugins with two records of two data has
every position a header can be in relative to a plugin that stops. The VM's values are enumerated by shape: each kind at top level, and as far as
they differ in a structure and in a variable; arrays empty, with entries that read back, and with entries that do not.
Handles have halves of two bits, so that a low half with its top bit set, a known handle that has one and an unknown one are among them. Tables that grow from one entry, with every assignment of 3 keys to 4 hashes contain every collision
of a guest with an owner. Trampolines: every layout of free memory below the module, before, across and after the lowest address.

`MovieLoads = {TRUE}` in `menus`: after a failed `LoadMovie` the settings messages dereference a
null pointer, which ends the program; the queue of `threads` covers an instance without a movie.

`CHECK_DEADLOCK FALSE` stands where the system may stop, with the reason in the cfg: bounds on calls, saves or messages are used up, a
thread spins on its own lock, an identifier is destroyed, a launch has ended. The hook runs and `objects` check deadlock.

## 4. Properties and findings

Each property has a comment in its module. A run's property may be the conjunction of several that ask one
question of one part; `MC*` modules name these. Some that are not obvious from the code:

- `EffectsKnowTheirFrame`: `DamageHealth_Hook` reads the count of a lock all threads share and concludes something
  about its own stack. It holds because the reader owns the lock, whatever happened to `threadID`.
- `FrameNumbersAreLosses`, `NoDoubleCount`: arithmetic over what was registered and lost, with the rounding each number
  may have gained. `NoDoubleCount` is not true of two threads with effects shown (an effect registers inside
  the lock and applies its damage outside); nothing in the repository promises otherwise.
- `MenuFollowsHUD`: compares the HUD with what the menu will be after all messages under way.
- `DispatchesAreSound`: while a handler runs, only a dispatch nested in it changes the list it was called from.
- `CleanLaunchHasF4SE`: a game whose first thread reached its own code has F4SE in it, if nothing outside the loader goes wrong
  (`mishap`: a wait that ran out, another program that lets the game go, a library that is there and does not load, ...) and, where the
  hook for Steam is injected, the library it looks for beside the game is there. Nothing is claimed of other launches.
- `CopyMirrorsArray`: what a function did is what the script finds, until `Resize` was asked for more than there is.
- `ArgumentsAreLoaded`: every kind of value is saved and loaded; the property says from which kinds on a reader keeps its step
  (`KeepsStep`) and which it also returns (`IsReturned`). For these it compares all that comes after them, in every game that loads.
- `RecordsAreReadBack`: the reader stands on a header whenever it believes so, whatever callbacks did.
- `FormsResolve`: computed against the load order of the save, not against the maps.
- `StorageIsKept`: the number of indices is bounded by what was once in use at a time.
- `ItemsKeepTheirData`: the base form is untouched by whatever is done to an item, also when its `Add` was refused.

### Finding 1: SimpleLock can lose the name of its owner (`hooks_wedge`)

`Release` frees the lock by its decrement and stores `threadID = 0` afterwards (`GameTypes.cpp:55-56`). Between the two another
thread may take the lock and write its identifier, which the late store erases. The owner still owns (mutual
exclusion and the count are proved), but its next nested `Lock` finds 0, goes to the compare-exchange, and spins on a lock
that only itself can release. `DamageHealth_Hook` inside `ProcessDamageFrame_Hook` is such a call: the hit is never
numbered and the game thread never returns. It takes two threads and shown effects.

### Finding 2: a furniture filter is never kept (`furniture_filter`)

`RegisterForFurnitureEvent` collects filters if `var.IsNone()` (`PapyrusScriptObject.cpp:94`), where there is nothing to collect; its
counterpart tests `!var.IsNone()` (line 172). A script that names one object is told of every object's events.

### Finding 3: a missing light plugin is not refused (`missing_light`)

`s_savefileLightIndexMap` holds bytes, so 0xFFFF for "missing" becomes 0xFF and the test for 0xFFFF (`Serialization.cpp:290`) never
meets it: the identifier resolves to a form of the light plugin in place 0xFF. So do those of all missing light plugins, which is the exception
`HandlesStayApart` names: handles are mistaken for each other only if both are of light plugins and one of these is missing or in a place beyond a byte.

## 5. Fairness

- Lock: `WF` on the steps nothing blocks, since the operating system runs every thread, and on release by a user. `SF` on
  the compare-exchange: a spinning thread calls `Sleep`, and nothing but chance makes it miss each free moment for ever.
  Hooks: `SF` for a step of a hook, which waits for the queue's critical section. Nothing makes the game call a hook.
- Queue: a frame that has begun is finished, and the game draws open menus every frame (`WF`).
- Menu: the game handles its messages and initialises a movie it has loaded; `SF` because a frame being drawn disables both
  for a moment. Registration, messages, edits and drawing are not assumed.
- Faders, widgets: `WF` on the frame, which Scaleform plays while the movie is there, and on the end of a clip.
- Tasks: `WF` on the steps of a drain and on the game coming by; `SF` where a critical section must be entered, which Windows
  hands to waiting threads in turn. Tasks are finite: a task may add others, but each of them once.
- Functors: `WF` on the clock and on the machine's update. The functor that restarts for ever is fair game: `FunctorsAreRun` is about those
  that do not.

## 6. Proofs

Eight modules, checked by TLAPS from the named ASSUMEs of the modules only:

| Theorem | Property | Inductive invariant, and why it is needed |
|---|---|---|
| `LockAlwaysReentrant`, `LockMutualExclusion`, `LockRefinement` | `LockIsReentrant` | `LockInv`. A thread in `inc` enters without a compare-exchange, so exclusion alone is not inductive. `NameOfOwner`: the test may miss the owner but never mistakes somebody for it; `CountOfOwner`, `FreeWhenReleased`, `PcOfOwner` tie count and places to owning |
| `QueueAlwaysFeed`, `QueueRefinement` | `QueueIsFeed` | `OrderInv`, `FreshInv`: all numbers are at most `registered`, the shown lie below the waiting, everything queued is above `openedAt` |
| `HooksUseLockAndQueue`, `HookEffectsKnowTheirFrame` | `EffectsKnowTheirFrame` | each step of the hooks is one of the lock and of the queue, so their theorems carry over; `PlaceInv` then says how often a thread holds the lock by its place in the hooks |
| `HookFrameNumbersAreLosses` | `FrameNumbersAreLosses` | `LossInv`: the frame that measures (there is one, by `PlaceInv`) has read a health that was the actor's since its numbers were last counted, so the difference is a loss that no number stands for yet |
| `LossesAreCountedOnce` | `NoDoubleCount` | holds if one thread does the damage or effects are hidden (the theorem's ASSUME; otherwise it is false, section 4). One thread: `DoubleInv`, the numbers stay below the loss and what is announced, which is what the thread's effect has yet to do (`AnnouncedByOne`), and an effect counts only outside tracked hits (`CountedInv`). Hidden effects: `QuietInv`, there is nothing but hits |
| `MenuIsFed` | `QueueIsFeed` | each step of the menu is one of the queue or none, so the theorem about the queue holds with its real openings |
| `MenuAlwaysFollowsHUD` | `MenuFollowsHUD` | `FollowInv`: once the handler was told, the messages under way lead from where the menu is to where the HUD is; before, nobody opens the menu |
| `SettingsAlwaysReachMenu` | `SettingsReachMenu` | `SettingsInv`: the settings are the ini file's up to edits whose handler is due, and a menu that is ready has them unless an edit is due or its message under way |
| `NeverListedTwice` | `NoDuplicateListener` | `ListsInv`: each list alone has distinct listeners and promised handles stay numbers, whatever the drift of `idx` puts where |
| `DispatchesAlwaysSound` | `DispatchesAreSound` | `DispatchInv`: what is in a list stays there under its plugin's handle unless that plugin failed (`EntriesAreTrue`), and the place of every dispatch is inside its list (`CallsAreTrue`) |
| `OrderlyRegistrationAlwaysHolds` | `OrderlyRegistrationHolds` | `DispatchInv` with `IndexFollows`: `idx`, a recursive function over the lists, equals the place in the list as long as nobody is skipped; proved by the least place at which it would not |
| `HooksAlwaysUseResolved` | `HooksUseResolved` | `LoadInv`: addresses are resolved in order and the hooks come last (`ResolvedInOrder`), and the cache has a version's own addresses unless patched code was scanned (`CacheIsOwn`), so a plugin that reports success has passed every one of them in this launch |
| `CleanLaunchAlwaysHasF4SE` | `CleanLaunchHasF4SE` | `LaunchInv`: the remote string is kept as long as the thread may read it, and a game that was released had its library loaded, or there was a mishap or a report. Launches with a mishap, or with the hook for Steam and no library beside the game, are outside the theorem |
| `FormsAlwaysResolve` | `FormsResolve` | `IdsInv`: the file lists what the save's order listed, and the maps follow the file place by place; the rest is arithmetic of bytes |
| `HandlesAlwaysStayApart` | `HandlesStayApart` | `IdsInv`; two places that resolve to one place hold one plugin, because neither the file's lists nor the session's name one twice, unless both are of light plugins and the new place of one, 0xFFFF if it is missing, does not fit the byte it is kept in (`HasByteForPlace`): then the code does confuse them, and the property says so |
| `RecordsAlwaysReadBack` | `RecordsAreReadBack` | `CoSaveInv`: the cells are where `places` says, the parts of the plugins one behind the other with their records one behind the other (`PartsInOrder`); while a save is written only the headers it has skipped are missing (`DiskInv`); a loader stands at the end of a part, or inside one behind its header or a record (`LoadingInv`); what a plugin was given is the beginning of what it wrote (`GotInv`) |
| `RegistrationsAlwaysSurvive` | `RegistrationsSurvive` | `RegInv`: the records are those of `saved`, in order; before record n of a load each key has what the save had if its record is below n, and nothing otherwise (`RegLoadingInv`). References are counted by cardinalities: a step adds no more entries of an object than references |
| `HandlesAlwaysHold` | `HandlesHold` | `FreeInv` (the stack has each free index once, in every phase of cleaning and loading) and `HandleInv` (a save is a copy of the handles at its time, so a load gives nobody another) |
| `StorageIsAlwaysKept` | `StorageIsKept` | `SaveInv` (what the loop of a save has written is what it passed) and `StorageInv` (an index is appended only when none is free, so the length is a number that was once in use; a load takes over the length of the save) |
| `TrampolineAlwaysHolds` | `TrampolineHolds` | `PlaceInv`: how far below the lowest address rounding can put the block; `BlocksInv`: pieces end below the next free byte |
| `CallsAlwaysKeepTheirArrays` | `CallsKeepTheirArrays` | `CallInv`: the array behind a copy is never none, a call that waits has an array of its own with what was passed, and one that was put off never stands before the script's. What each operation of `tArray` leaves is no longer than the copy, and the same if the copy was (`Behind`, with a lemma for each) |
| `ArraysAlwaysImplementSequence` | `ImplementsSequence` | `ArrayInv`: the entries are items, in a dispatcher sinks that differ. What `memmove` leaves is compared with the sequence cell by cell (`InsertedBlock`, `RemovedBlock`): the cell it fetches from behind the entries, or from behind the block, is never among them |
| `IdentifierAlwaysCounted`, `CallsAreAtomic` | `IdentifierIsCounted`, `ImplementsHandle` | `IdInv`: under the lock bit what a thread saw stays true; the policy is one step behind the word exactly between `Tell` and `Store`; a thread at work holds a reference that keeps the identifier alive |
| `CompanionsAreAlwaysListed` | `CompanionsAreListed` | `StatusInv`: a widget's two marks agree with the clip it plays (`WidgetInv`); whoever fades in or is shown is in the list, whoever fades out there was hidden since the last frame, and whoever is there twice was shown again then (`ListInv`); a widget's name is what the lines make of the name it was given (`NamedInv`). `RenamedAsMapped`: the lines, applied one after the other, do what the map does, because no line maps what an earlier one wrote |
| `ListsAreAlwaysSound`, `ItemsAlwaysKeepTheirData` | `ItemsKeepTheirData` | `ItemInv`: an entry that is being added is in no chain and nobody else's, and the bits say the types of the chain if each type has one adder (`ListInv`); the function's place says what its thread does to the list and whose data it may have, never a form's for an item (`PlaceInv`); with one user, an owner's data has what was set for it (`UserInv`); `ProgramInv`, `ValueInv` bound the rest |
| `ReferencesAreAlwaysResolved` | `ReferencesAreResolved` | `AsmInv`: a reference leads to the place of what it means, or waits with what it was written with (`RefInv`); what waits does so under the key its label will be defined with (`WaitsFor`), which for anonymous labels is the next of their kind (`NameInv`); label objects that share an identifier are copies of a defined one (`ObjectInv`) |
| `TablesAreAlwaysSound` | `TableIsSound` | `HashInv`: links stay among the entries of one home and no two lead to one entry (`Sound`); the table holds what was added, and while it grows what was moved of the old one, with room for the rest (`GrowInv`) |
| `AnswersAreAlwaysMatches` | `AnswersAreMatches` | `ScanInv`: while nothing was patched the first hint of a text is its first match (`HintInv`), and an answer is a match of the signature that was asked for (`AnswerInv`). `TextIsRead`: the recursive function `Transform` over a text yields the bytes it was written for |
| `TasksAlwaysQueued` | `TasksAreQueued` | `GuardInv` (who touches a queue has entered its critical section, and `nesting` counts the entries of the one that has) and `OrderInv` (what has run is the head of what was added, what waits is the tail) |
| `FunctorsAreAlwaysKept` | `FunctorsAreKept` | `FunctorInv`: a functor is in one list and each list names it once (`PlacesApart`); what is left of a delay and the time that passed make up at least what was asked (`Times`); the co-save has what `SaveFunctors` writes of lists like these (`SavedFunctors`). The load is three lemmas: `SavedLayout` (where each object and each length lies in the records), `WhatLoadTakes` (from such records each list gets the known objects of its own, in order, unless the reader lost its place, and then none that another list takes) and `LoadBrings` (so each is in one place again, with its delay) |

Two devices recur. A component composed of others is shown to take only their steps, and their theorems carry over. And what a
recursive *function* computes is proved by the least argument at which a claimed closed form would fail (`LeastNumber` in
`Plugins_proofs`, from the well-founded order of the numbers), since the library's induction theorems are out of the provers' reach.

Only model-checked: liveness (`EveryoneGetsLock`, `WaitingIsShown`, `TasksAreRun`, `HitIsNumbered`, `HUDBringsMenu`, `NumbersFade`,
`WidgetsSettle`, `FunctorsAreRun`; no backend for ENABLED) and the two invariants about values that nest (`ArgumentsAreLoaded`,
`MovieValuesComeBack`: recursive operators over the structure of a value, which need an induction over data).

## 7. Other disagreements seen

Places where the code does something its authors hardly meant, that no run of kind "violation" shows because no sentence of the repository
says otherwise, or because the models state the weaker thing that holds. The models follow the code in each of them.

- `RegisterListener` for all senders skips the increment of `idx` with a list it skips, so a plugin that was registered
  with one sender may be left out of another's list and get into its own (`PluginManager.cpp:497`; habit "again").
- Listeners of a plugin whose load failed stay in the lists after its library was freed (`PluginManager.cpp:306`; habit "fail").
- A plugin without data is called with the record count and position of the last plugin with data (`Serialization.cpp:508`).
- When the scan for the second hook throws, the first stays written and its library is freed (`main.cpp:651`).
- A settings message to an instance whose movie did not load dereferences null (`main.cpp:331`).
- With more light plugins than a byte counts, their lists are cut; `FormsResolve` is about lists that fit.
- `GetInstanceData` drops the copy of a form's data when `Add` refuses it, and the value that is then set is lost (`KeepsWhatIsSet` in
  `InstanceData` is checked with one user only).
- A functor of an unknown class at the end of a list makes the reader take its data for the length of the next.
- `WriteVMData` and `ReadVMData`: floats, bools and variables are written again while reading, arrays lose the bit that
  says array, a structure that is None is dereferenced, the result of writing a member is dropped. `values` tries all of them; `ArgumentsAreLoaded` holds of the arguments before the first
  that makes the reader lose its step.
- Handles returned by a movie are put together from halves that are sign-extended; a handle with the upper bit of its lower half set
  does not come back, and a call the movie makes does not reach its object (`PapyrusScaleformAdapter.cpp:200`): that half is the number of a
  form, so it concerns every plugin from place 80 (hexadecimal) on. `Crosses` in `MovieValues` says which handles are kept, and
  `OnesAreNobodys` that what the others are turned into, a high half of ones, is nobody's handle.
- `VMArray`: the mark of None outlives filling the array, and an empty array comes back as None. `Resize` to more than the
  script's array has makes the copy longer and not the array (`PapyrusArgs.h:98`, `GameTypes.h:246`); a `Set` of one of the new
  entries then writes behind the last entry of the array, or behind its block, and a `Remove` of one does nothing to it. No function
  of the repository calls it.
- `tArray::Resize` deletes the entries that a shortened array loses one by one, which frees addresses inside the block
  (`GameTypes.h:231-235`), and constructs the entries of a longer one behind the old block (239-242); a shift after a removal moves one
  entry more than there are. `GameArray` and `NativeCalls` count all of these as clean: the heap and what lies behind a block stay sound.
- A setter of instance data for a value of the firing data or the keywords does nothing, and says nothing, if the form's data come
  without that part (`PapyrusInstanceData.cpp:443`, 457, 471, 637).
- `Create` of the trampoline reports success when the search went below the lowest address; the scratch space of 128 MB makes up for it
  (`ScratchAssumption`, from which `TrampolineAlwaysHolds` is proved).
- The scan ends too early by the size of the headers, and the test for SSE4.2 is never true, so that the vectorised comparison never runs.
- xbyak's `assignL` leaves addresses that were stored before, not jumps, with the old label's place; `AssemblerAssumption` lets a
  program pass it labels that were jumped to (`AssignTo`).
- The companion name file maps a name twice when its target is also a source, and whoever was named before the file came is renamed
  where whoever comes later is not; `NameLinesAssumption` excludes it. A companion that is hidden and shown again
  between two frames is in the list twice (`CompanionStatus.as:235`), and `Update` pulls its widget to both places until it is hidden
  again. `reshown` records such companions: `CompanionsAreListed` says that nobody else is listed twice, `WidgetsSettle` that
  every other widget comes to rest.
- The loader's option `-priority` has no effect; with `-altdll` and Steam the hook loads the library beside the game instead.

## 8. Not modelled

- Declarations of the game: `GameForms.h`, `GameRTTI.*`, `GameTypes.h` where it declares, `GameReferences.h`, the `Ni*`,
  `Scaleform*` and `BS*` headers, tables of addresses and of console and script commands. They state where the game keeps what; they
  have no behaviour of the repository's own. Together with vendored code (the instruction encoding of xbyak with its mnemonics, CLIK, the
  game's ActionScript classes, the `common` library's streams, pipes, timers and range maps) they are most of the lines of
  the repository, which is why the map covers about 7,500 lines of 52,000: nearly all of the rest
  has no state to step through. What keeps a state and decides is in section 2.
- Sequential look-ups on behalf of one call: `PapyrusGame`, `PapyrusActor`, `PapyrusForm` and similar, `Hooks_ObScript`, `Hooks_Debug`.
  They read the game's data, and nothing is kept between two calls.
- `tList` (one thread at a time, no shared state; its `AddAt` allocates 8 bytes for a node of 16), `BSFixedString` and
  `StringCache` (handles of the game's own table), `VMStruct` (mirrors of what NativeCalls has for arrays), custom menus of scripts.
- Screen positions, colors as values, texts, logging: no property depends on them. The static random generator that
  `DamageHealth_Hook` uses without a lock is a data race; its outcome is open in the model, what the race does
  to the generator itself is not followed.
- Growing buffers and `reset` of xbyak, `SafeWrite`, `Destroy` of a trampoline, the list of modules the loader logs.
