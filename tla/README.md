# FPS-OPTO-PRO in TLA+

FPS-OPTO-PRO is a mod for a game on Android. It hooks 22 OpenGL ES state calls
and drops those that would change nothing, measures frames at the buffer swap,
lifts the priority of render threads when the CPU is the limit, and switches
itself off after a launch that did not get far. Its promise is that nobody can
see it: "without changing a single pixel", "fully reversible", "run with every
hook off". This directory states these promises as properties of a model of the
code, checks them with TLC on small instances, and proves the ones that matter
most with TLAPS for all instances. Where the code does not keep a promise, a run
shows how.

Paths below are those of the repository: `src/GlInterceptor.cpp`, `tests/...`.

## The system

| Part | State | Operations | Talks to |
| --- | --- | --- | --- |
| Shadow state, `GlStateModel.h` | one record of driver state per context, with sentinels for what is unknown | `canDropBinding`, the `same...` comparisons, `textureTargetSlot` | used by the detours |
| Detours, `GlInterceptor.cpp` | `mHookEnabled` | 22 `fpsopto_gl*` | the game calls them, they call the driver; counters |
| Hook installation, `GlInterceptor.cpp`, `EglSensor.cpp` | the patched symbols, the trampolines, what counts as installed | `install`, `uninstall` | the preloader's `hook()`; the lifecycle |
| Context table, `GlInterceptor.cpp` | 64 slots, a generation, a cache per thread, a mutex | `shadow`, `noteContextCreated`, `noteContextDestroyed` | every detour; the EGL detours |
| EGL sensor, `EglSensor.cpp` | last swap, frame callback, accumulator | detours of swap, context calls, swap interval | calls back the mod once per frame |
| Telemetry, `FrameTelemetry.h` | averages, window, GPU votes | `push`, `stats`, `gpuBound`, `vsyncLocked` | fed by the sensor, read by the policies |
| Governor, `FrameGovernor.h` | none | `decide` | called by the scheduler |
| Thread scheduler, `ThreadScheduler.cpp` | running, frame counter, applied boost, recorded priorities | `start`, `stop`, `onFrame`, `apply`, `setMaxBoost` | the threads of the process through `/proc` and `setpriority` |
| Auto mode, `AutoPolicy.h`, `FpsOptoPro.cpp` | verdict and hold, copy of the switches | `update`, `evaluate`, `updateAutoMode`, `reviewHooks`, `applyAutoMode` | telemetry, counters, detours; the menu's thread |
| Boot guard, `BootGuard.h`, `BootMarker.cpp` | a file; began, safe, retired, failures | `begin`, `noteFrame` | the lifecycle; the next launch |
| Lifecycle, `FpsOptoPro.cpp` | configuration, which parts are on | `load`, `enable`, `disable`, `unload`, menu, frame callback | everything |
| Counters, `GlCounters.h` | a batch per thread, shared totals | `note`, `flush`, `publish`, `snapshot` | detours, auto mode, overlay, log |
| ADPF session, `AdpfSession.cpp` | library, session, target | `start`, `stop`, `reportFrame`, `updateTarget` | the platform |
| Overlay, `FpsOptoPro.cpp`, `Diagnostics.cpp` | a flag, a frame counter and a snapshot under `mOverlayMutex` | `updateOverlay`, `publishOverlay` | the menu, the frame callback |
| Configuration, `FpsConfig.hpp`, `FpsOptoPro.cpp` | the options and their file under `mConfigMutex` | `load`, `snapshot`, `handleConfigChanged` | the menu, `enable`, the log line |

Three threads meet in it. The render thread runs the detours and, in the swap,
the frame callback with telemetry, scheduler, auto mode, boot marker and overlay.
Loader threads of the game use contexts of their own. The launcher's thread loads,
enables and disables the mod and delivers changes from the menu.

What is hard here, and what would be right:

- **The filter.** Object names are reused, contexts share objects, hooks are
  switched on and off at any time. Right is: no game can tell that a call was
  dropped.
- **The context table.** It is searched without the lock when the cache is fresh
  and its slots are used without the lock always, while other threads create and
  destroy contexts, current ones too, and the driver gives handles out again. Right
  is: a thread works on the slot of its own context, and what the slot says is so.
- **The boot guard.** The process may die anywhere, also while the file is
  written. Right is: a launch knows how the last ones ended, and one that runs
  well is proven in the end.
- **The scheduler.** Threads come and go during a walk, decisions change, the
  mod is stopped. Right is: every thread ends with the priority the game gave it
  and nobody else is touched.
- **The auto mode.** Verdicts flicker, the menu interferes. Right is: it acts
  after a full hold, neither sooner nor later, and knows what it switched.
- **The telemetry.** A cadence that only followed the fastest frame would be stuck
  on a device that got slower, one that drifts loses a game that is exactly on it.
  Right is: a steady game is found paced, and stays so.
- **The counters.** They are batched per thread and read while others write. Right
  is: a reading is never ahead of what happened, and not far behind.
- **The threads.** `disable()` takes away the session, the callback and the
  trampolines while the render thread may be using them; two mutexes are taken
  inside the swap. Right is: nothing is used after it is gone, no call is lost and
  nobody waits for ever.

`PROJECT.json` lists every hazard at its line, with the properties that cover it.

## Modules

| Module | What it is |
| --- | --- |
| `GlStateModel` | the shadow's fields, defaults and rules (`GlStateModel.h`) |
| `GlDriver` | the abstract specification of the filter: an OpenGL ES driver that gets every call |
| `GlDetours` | the detours over that driver; implements `GlDriver` |
| `ShadowMap` | the abstract specification of the context table: a map from contexts to shadows |
| `ShadowTable` | the context table, taken apart into accesses of several threads; implements `ShadowMap` |
| `BootGuard` | the pure decisions of the guard and its file |
| `ModLifecycle` | launches, the stages of `enable()`, frames, menu, death, a failing disk |
| `FrameGovernor` | `decide`, a pure function |
| `BoostScheduler` | the scheduler and its walks over the threads |
| `HookPolicy` | telemetry votes, auto mode, review, menu |
| `FrameTelemetry` | frame times, their average and window, the cadence, the pacing verdict |
| `Tally` | the abstract specification of the counters: totals that follow what was noted |
| `GlCounters` | the batches, their folds and the readings, counter by counter; implements `Tally` |
| `AdpfSession` | the hint session: library, session, report |
| `EntryPoints` | the hooks on the entry points and their trampolines |
| `Overlay` | the readout, its counter and its mutex |
| `ModThreads` | loader, render thread and menu over the last three: enable, disable, swap, callback, menu |
| `MC...` | instances for TLC |
| `...Proofs` | theorems and proofs about the module of that name |

`GlDetours` EXTENDS `GlDriver`, which EXTENDS `GlStateModel`; `BoostScheduler`
EXTENDS `FrameGovernor`; `ModLifecycle` EXTENDS `BootGuard`; `ModThreads` EXTENDS
`AdpfSession`, `EntryPoints` and `Overlay`, which declare the state and the
operations of their components and have no specification of their own: it is
`ModThreads` that lets three threads call them. `ShadowTable` and `GlCounters`
INSTANCE the specification they implement, with a refinement mapping.

The lifecycle is modelled twice. `ModLifecycle` has many launches of one thread
each and is about the guard; it leaves open what the two policies choose per
frame, and `BoostScheduler` and `HookPolicy` have that. `ModThreads` has one launch
of three threads, with every access to what they share a step, and is about
`disable()` and the menu in the middle of a frame; it leaves out the parts
that the others have. `GlDetours` treats a detour as one step and has all fields;
`ShadowTable` treats one field and has all steps. The link between the two is
`OwnSlot` of `ShadowTable`: a thread in a detour works on its own context's slot
alone, which is what makes a detour one step in `GlDetours`, as long as no context is
destroyed in the middle of one.

A definition preceded by a comment "Slip" is a version of the one after it with
a plausible mistake. No specification uses it; it is there to see that a property
notices. The pairs are listed under "mutants" in `PROJECT.json`.

### How the models follow the code

**GlDetours.** `gl` is the driver's state per context, `shadow` the slots' `state`
and `textures` (and the default shadow, as that of `NoContext`), `tracked` the
handles with a used slot, `hookEnabled` the array `mHookEnabled`. Each operator
`gl...` is the detour of that name with all its arguments: it looks for the
shadow, drops, or learns and forwards, also when the hook may not drop. A detour
whose hook was not placed (`Installed`) only forwards. Deletions are not hooked
by the mod and change the driver alone. Enumerations are strings, floats and
rectangles a few values; the sentinels are `Unknown`, which a game can pass where
the bit pattern can be passed. `call` records what the game called, for the
refinement.

**GlDriver** gives each call its effect in a driver that ignores nothing: texture
and buffer objects are shared among contexts, a deletion unbinds in the current
context, the element buffer belongs to the vertex array, an argument the driver
refuses changes nothing. It has no errors, and no draw calls: state is what the
mod touches.

**ShadowTable.** `StartCall` is `shadow()` to the end of the cache test, `Scan`
its critical section, `Compare`, `Learn` and `ForwardCall` the detour's three
accesses (with one value field instead of all). `noteContextCreated` and
`noteContextDestroyed` are one critical section each, after the driver's own
step. Loads and stores of the generation are in order (acquire and release), the
fields of a slot are not atomic in the code: two threads on one slot would be a
data race, which `OwnSlot` excludes. The game may destroy a context that is current
in another thread, make one current whose creation has not been noted yet, and the
driver may give a handle out again before the table was told that it is free.
`strayed` is history: a slot was freed while a detour was at work on it. `Map` reads the
table as `ShadowMap` does: a context has a shadow if a scan would find it, and it is
that slot's state.

**ModLifecycle.** `phase` is how far `enable()` is; each stage is an action in
the order of the code. `beginBootGuard` truncates the file, `writeMarker` fills
it, so that the process can die between the two (`TornWrites`); either can fail
(`DiskFails`). `Swap` is a presented frame with everything the callback does to
the guard and the hooks. `disable` leaves the detours in place and the switches as
they are, like the code. `streak` and `presented` are history: what really
happened, against which the guard's beliefs are judged. `faulty` is history too: a
write of the marker was lost, and no launch has been retired with its marker
written since.

**BoostScheduler.** A walk lists the thread ids, then per id reads the name and
changes the priority in two steps; `"frame"` and `"loader"` are the threads that
can walk, and both may at once. `given` is history: the priority from the game.
`setpriority` may be refused where the system refuses a raise. `mFrameCounter` is
kept modulo the sample period. `disturbed` and `recycled` are history and name
what spoils a return: a walk back that missed a thread, a start or stop in the
middle of a callback, an id that came back while its old thread had a record.

**HookPolicy.** Per frame: `push`, then `update` access by access (the comparison, the
load and the store of the hold, its clearing, the verdict, the answer, which is read
from the member), then the loop over the hooks, then the loop over the copy, then the
review or none. `handleConfigChanged`, `reset` (two plain stores, in either order as
another thread may see them) and `applyAutoMode` are the menu's side, and may come
between any two of these. Calls of the render thread are counted when the policy reads
the totals; those of workers wait in `batchCalls` and `batchDrops`, and `fold` may move
any part of them into the totals at any time, since the cells are folded and read one
by one. Loads are integers in percent. `recent` is history: the verdicts of the last
frames the hold counted since the mode was last stated; `overlapped` too: the menu and
a frame were at it together, and no change of the menu has begun between two frames
since; and `owed`: the drops that were in batches when a review shed the hook.

**FrameTelemetry.** `endFrame` is the swap as the sensor sees it: the first one, and
one at the same clock reading, give no frame time. `push` keeps the frame, moves the
average a tenth of the way (in whole units, rounded towards the frame, so that a
steady game's average arrives, as the code's does within any tolerance) and
updates the cadence, which is the fastest frame, stretched by a twentieth when
none has reached it for `BestDecayFrames`. `settled` is history: the game was found
paced, its average and its cadence within the tolerance of the frame, and every frame
since was the same.

**GlCounters.** A cell is one hook's calls or its dropped calls. `note` adds to the
caller's batch; a full batch starts a fold, which `fold` carries through cell by
cell, so that a reading (`snapshot`, cell by cell as well) falls in between. The
frame callback publishes the render thread's batch and then reads, any number of
times: the review, the overlay, the log line. `threadExit` is a thread that ends
with its batch, and one that takes its place. `noted`, `lost`, `exits` are history,
for `Tally`.

**ModThreads.** `pcL`, `pcR`, `pcM` are where the three threads are. The loader goes
through `enable()` (hook and trampoline of each library in two steps, the callback,
the session, the flags, the menu) and through `disable()` (the session in three
stores, the callback, the filter, the menu, the log), again and again, with or
without dropping the configuration. The render thread calls GL, swaps, and in the
callback tests and calls the pointer, checks and uses the session, updates the
overlay, writes a log line; each of these reads what the loader may have taken
away since. The menu waits for `mConfigMutex`, holds it over the save, then
publishes. In `EntryPoints`, `symbol` is what the preloader patched, `original` the
stored trampoline, `got` what `hook()` has handed back and not been stored; in
`AdpfSession`, `open` are the sessions the platform has. For a symbol that is patched
already, `hook()` may refuse, hand back the driver's entry, or hand back what the symbol
led to, which is the detour; `original` may then lead back to the detour. `showOverlay`
is the option in memory and `stored` the one in the file: a save that fails leaves the
two different, and nobody notices. `failures` is what went wrong in the last call that
could: a call of a null function, a detour that calls itself, a swap without
trampoline, a report to a session that is closed. The first two end the process.
`overlapped`, `late` and `shown` are history: `disable()` took something from a callback
that was under way; the menu was unregistered while the change was under way; a change
of the overlay, not a late one, was made since `enable()`.

## Runs

TLC checks deadlock in every run but those of `ModThreads`, where the system may
really stop: after a crash, and when the render thread waits for itself with the
loader done.

| Run | Checks | Shows |
| --- | --- | --- |
| `gl_games` | `TypeOK`, `ShadowSound`, `TrackedLive`, `Transparent` | the shadow never says what is not so, and the game cannot tell (the read framebuffer apart): `GlDetours` implements `GlDriver` |
| `table` | `TypeOK`, `OneSlotPerHandle`, `CacheSound`, `OwnSlot`, `ShadowSound`, `ImplementsMap` | the table under two threads, with contexts destroyed while current and handles given out again at any moment, implements `ShadowMap` until a slot is freed in the middle of a detour |
| `launch` | `TypeOK`, `SafeModeAfterCrash`, `WatchedLoopRetires`, `OnlyLostWriteRecovers`, `LaunchProves` | launches of every configuration that die anywhere, with writes that fail or are cut short |
| `boost` | `TypeOK`, `LiftReturned`, `OnlyRenderThreadsLifted`, `ExactReturn` | lifts are handed back, and nobody else is touched, but for the faults the properties name |
| `hooks` | `TypeOK`, `MirrorHolds`, `ActsInTime`, `HoldRespected`, `NoChatter` | the auto mode, with a menu that interferes between any two accesses and workers whose calls are counted late |
| `counters` | `TypeOK`, `ReadsOwnCalls`, `ImplementsTally`, `RenderCounted` | batches, folds and readings of three threads implement `Tally` |
| `telemetry` | `TypeOK`, `CadenceRecent`, `SteadyEndsPaced`, `LockLostOnce` | the cadence and the pacing verdict for any sequence of frames |
| `threads` | `TypeOK`, `CallsReachDriver`, `SessionAccounted`, `ChangeShown`, `OnlyOverlapStrays`, `WaitsEnd`, `HandlersReturn` | loader, render thread and menu through two enables, with a preloader that hands back anything for a patched symbol and saves that fail |
| `gl_read_framebuffer` | `ReadBindingFollows` | violated: bind 1 to `GL_FRAMEBUFFER`, 0 to `GL_DRAW_FRAMEBUFFER`, 0 to `GL_FRAMEBUFFER`; the last is dropped and the game goes on reading from 1 |
| `launch_safe_mode` | `SafeModeInert` | violated: `enable()` installs, starts and switches on after the guard switched off |
| `launch_forever` | `StableLoopRetires` | violated: no launch whose sensor was not installed (TLC's shortest trace) and none in safe mode is ever proven, so the next is safe, and every one after it |
| `overlay_blocks` | `CallbackNeverWaitsForItself` | violated: the first update of an overlay that is on locks `mOverlayMutex` twice |

### Bounds

- `gl_games`: two names (0 and one that is deleted and used again), two contexts
  for one slot (the table is full), three units of which two are tracked, and of
  each field the default, one other value and one the driver refuses. Thirteen
  *games* bound what happens together: fields do not influence each other except
  where two detours share one (`glBlendFunc` and its separate form, the active
  unit and the textures, the vertex array and the element buffer), and those are
  in one game. A game also says which hooks are switched one by one; all together
  are switched in every game. The theorems have no such bound.
- `table`: two threads, two handles, two slots, three generations: enough for a slot to
  change hands while a cache entry, a scan or a detour is under way, and for a handle to
  come back before and after the table was told. Threads and handles are symmetric.
- `launch`, `launch_...`: a stable launch takes 2 ticks and 2 frames, at most two
  launches fail in a row; the counts only matter compared with these.
- `boost`: two threads of which each may be a render thread or not, priorities
  0 and -1, lowest -2, so that lifts reach the floor and a thread is lifted twice;
  boosts 0 to 2; loads at the edges of every threshold of `decide`; every second
  frame is sampled. Threads are symmetric.
- `hooks`: one hook, since hooks only meet in the loops over all of them, which are one
  step each (the theorems are for any number); up to three calls, judged after two, of
  which any may be a worker's: enough to be shed below 40 percent and brought back past
  60 by late drops; the hold is two frames, two votes make a verdict; loads at and
  above the threshold.
- `counters`: three threads, one hook (two cells), batches of three, up to eight
  calls, one thread that ends: every batch fills while another is being folded
  and read.
- `telemetry`: frames of 8.0, 8.4, 8.8 and 16.6 in tenths of a millisecond, the
  tolerance of 0.6: three rates so close that the cadence of one passes for that of the
  next, by a stretch or within the tolerance, and one that is far. A window of five and
  a decay after six instead of 120 and 3600: longer than the window, as in the code.
- `threads`: two enables, so that what the first left behind meets the second; two
  sessions; devices with the hint API and with a library that lacks it
  (`"absent"`, where nothing happens, is in the theorems); every second frame
  updates the readout.

### Fairness

- `ModLifecycle`: `WF_vars(Tick)` and `WF_vars(Frame)`: time passes, and a game that
  renders presents frames. That is what "the frame loop is stable" means; the
  process may still die, which `LaunchProves` allows for by its second disjunct.
- `GlCounters`: the game presents frames (`publish`), and a callback that has begun
  goes on (`fold(Render)`, a reading that has begun, `endFrame`). Nothing is
  assumed of the other threads: they may stop anywhere.
- `FrameTelemetry`: the game presents frames that take time.
- `ModThreads`: `WF_vars(Disable)` and `WF_vars(Change)`: a thread inside `disable()` or
  the menu's handler goes on when it can. `SF_vars(Callback)`: the render thread in
  the callback goes on too, and gets a mutex that is free again and again; the
  menu can only hold `mConfigMutex` for one save at a time, and a `std::mutex` that a
  waiting thread never gets is not what the platform's scheduler does. Nothing makes
  the loader call `enable()` or `disable()`, the game swap or the menu change.

No other specification states fairness and no other property needs it.

## Proofs

All theorems are for arbitrary constants that satisfy the modules' assumptions.
What else a theorem assumes stands in front of it; only two theorems of
`GlDetoursProofs` do. Where a fault or an overlap spoils a promise, a
history variable says that it has happened, the property excepts just that, and
the proof covers every behaviour, the spoiled ones included. `CountersAssumption` asks
for finitely many threads, which only the totals need.

**GlDetoursProofs.** `BlendSteps`, `RasterSteps` and `BindSteps` reduce the calls
to seven kinds (a value call, a binding call, a forwarded call, ...), so that
every later proof has a step per kind. `TypeCorrect` is the type invariant;
`TrackedCorrect` needs no more than that calls leave the tracked contexts alone
(`OthersKeepTracking`). `ShadowCorrect` is inductive as stated once the types are
added (`IInv`): a learned value is what the driver was told in the same step, a
fresh shadow knows only what a fresh context has, and a deletion can turn a binding
into 0 but never 0 into something else (`UnbindKeepsZero`), which is why trusting 0
alone is enough. `FilterTransparent` shows that a dropped call is a step of
`GlDriver` that changes nothing, and a forwarded one the driver's own step.

*Assumptions.* `AcceptedCalls`: the game selects units and texture targets the
driver accepts. The detours learn what they forward even if the driver refuses
it: after `glActiveTexture` of a unit the driver lacks, or a bind to a face of a
cube map, the shadow is wrong. `CoInstalled`: the hooks that keep a field are
placed together. A partial installation, which the code reports as a success, can
keep `glEnable` and lose `glDisable`, and then drops calls it must not.

**ShadowTableProofs.** `TInv` (types, `OneSlotPerHandle`, `Stamped`, `CacheSound`):
no entry is stamped later than the present generation, and every change of the table
makes a new one, so an entry of the present generation was made after the last change.
`OInv` adds `Own`, what `OwnSlot` says: a slot can only be taken from a thread at work on
it by a step that sets `strayed`. Hence `TableIsMap`: a detour that learns writes the
shadow of its own context, a scan and a cache hit change nothing, a registration adds a
fresh shadow and a removal takes one away, so every step of the table is a step of
`ShadowMap` or a stutter. `SInv` adds the life of a handle from creation over
registration to destruction (`CurrentOne`, `KnownLive`, `SlotLive`, `LateCreate`) and
whom a forwarded call belongs to (`ForwardOwn`), and gives `ShadowSound`: a handle that
came back early is used with its old slot while the table has yet to be told, and once
it was, the slot is gone, or a registration has made it fresh.

*What is excepted.* EGL lets a game destroy a context that is current, and only marks
it; the mod frees the slot at once, so a detour at work on it may write into the slot of
the next context. `OwnSlot`, `ShadowSound` and `ImplementsMap` say nothing once that has
happened (`strayed`); a destroyed context that is merely current costs nothing. And
between `eglDestroyContext` and `noteContextDestroyed` a context that was given the same
handle is judged by the state of the one before: `ShadowSound` excepts this time and no
more. Without either exception TLC finds the property violated.

**ModLifecycleProofs.** `GuardCorrect` rests on `MarkerHeld`: what the file holds,
stage by stage, in terms of the real number of failures, unless a write was lost
(`BeganFirst` says when the guard has run at all). `WatchedRetires` rests on
`FramesSeen`: the sensor's frame count is never behind the number of frames
presented since the uptime was reached; it needs nothing about the disk, since a
launch takes itself for proven before it writes. `SafeModeStays` makes the finding of
`launch_forever` a theorem: `SafeUnretired` says that a guard in safe mode has retired
nothing, and with `MarkerHeld` a row of unproven launches has the next one in safe mode,
so that only a write that was lost ends the row. That is what the code does, against what
`BootGuard.h` promises.

**BoostSchedulerProofs.** `DecisionBounds` shows that the governor's decision is between 0
and the bound it is given, so the only thing assumed of the inputs is their type. `LiftedOnly` has the invariant `LInv`: no thread is below
favour, records hold what the game gave, and a name that matched belongs to a
render thread. `ReturnCorrect` has `SInv`: a thread that differs from what it was
given has a record and, once the walk is over, a lift is in force; `Turns` says
whose walk it is. `ExactCorrect` follows from the same.

**HookPolicyProofs.** `MirrorCorrect` has `HInv`: while one side is between its two
loops, hooks and copy differ in the known way (`HalfWay`), and a verdict of
GPU-bound means everything is off (`Settled`). It is lost by an overlap, and a change of
the menu that begins between two frames establishes it anew whatever came before
(`OverlapEnds`, `FreshTurn`). `NoChatterCorrect` has `JInv`: of a hook that is off, all
that can still raise its rate is what was in the batches when it was shed, so that
without it the rate is below the threshold that had it shed (`StillLow`); `Budget` keeps
totals and batches together in bounds. `HoldCorrect` and `ActsCorrect` have `HoldInv`,
which ties the hold's counter to the last verdicts access by access: so many of them,
from the end backwards, disagreed (`HoldKept`), and none once the menu's reset is
through (`CInv`).

**FrameTelemetryProofs.** `CadenceStaysRecent` is not inductive: a stretch may take
the cadence past a frame of the window once. The invariant `Above` says that it has
been stretched past a frame at most once since that frame, and then so recently
that the frame has left the window before the next stretch, because the window is
no longer than the decay. `LockRarelyLost` rests on `Locked`: of a settled game the
average is within the tolerance of the frame and goes no further (`TowardsIsNat` and the
lemmas after it bound the rounded step), the cadence is within the tolerance or a single
stretch of at most a twentieth above the frame, and the next frame, being faster, is then
the new cadence. `MaxMin` and `SpreadIsClose` say when a window of equal frames is steady.
The proof found the property too strong as it was first stated: `settled` did not ask for
a cadence close to the frame.

**GlCountersProofs.** `Progress` says what a fold has emptied so far, and that a
thread outside a fold has less than a batch; `RenderAt` that the callback's readers
come after the fold. `CountersTally` is the
refinement of `Tally`. What is pending is a sum over the threads, which would need an
induction over them; it is the number of elements of a set instead, one token per
pending unit of each thread, and the theorems about finite sets say how it changes
when one thread's batch does. A note adds a token and counts, the fold of a cell moves a
thread's tokens to the total, a thread that ends loses its own, and nothing else touches
either.

**ModThreadsProofs.** One invariant per question, each a strengthening of what it is
about: `SessionHeld` (while `stop()` is between its stores the session is closed but
still there), `CallsKept` (where the loader is in `install` decides which library may
lack its trampoline; the swap's is never replaced, `SwapKept`, and the GL one leads back
to the detour only after a second `enable()`), `CallbackWhole` (a callback that nothing was
taken from has its pointer and the session it saw), `ReadoutKept` (after
a change that was not late, option, flag and screen differ only by a change that is on
its way), `LocksHeld` (each
mutex is held by the thread whose place in the code says so). From the last,
`WaitsAreShort`: whoever is waited for does not wait, the render thread at the second lock
of its own mutex apart. It is the safety half of `HandlersReturn`, which needs
fairness besides.

**Only model-checked.** Liveness, which is beyond the prover: `LaunchProves`,
`RenderCounted`, `SteadyEndsPaced`, `HandlersReturn`. The properties
that a run finds violated have no theorem, of course. Every other property of every run is
proved.

## Seen while modelling

Besides the four runs that end in a violation, the assumptions above and the
exceptions in the properties name where a promise does not hold. Also:

- *Scheduler.* A boost is subtracted from what the last one left: 1 and then 2 lift
  a thread by 3, beyond the option ("upper bound on the nice-value reduction").
  `stop()` or `start()` in the middle of a callback, a `/proc` that cannot be listed,
  or an id that is used again leave a lift behind, or give a thread the priority of
  a dead one.
- *Auto mode.* Switched off after it shed the hooks, it leaves them off, though
  `FpsOptoPro.cpp:403-405` says it restores every hook. A menu change in the middle of
  a frame can leave the policy's copy out of step with the hooks, until the menu's next
  change that does not fall into a frame; and `reset()` between two accesses of
  `update()` leaves the old hold behind a cleared verdict, so that one frame is enough
  to shed.
- *Votes.* GPU votes only grow: once there are six, the verdict of GPU-bound stands for the
  launch and the levers that were shed are restored by the menu only. `AutoPolicy.h:11`
  says they are off "until the balance changes back", the log lines at
  `FpsOptoPro.cpp:443` and `449` say the same, and
  `tests/test_policy.cpp:44` (`losingGpuBoundRestoresCpuFeatures`) checks it for an
  `AutoMode` whose input is set by hand.
- *Review.* A hook that was shed counts calls and never drops, so its rate falls. What
  brings it back all the same are drops it made before, which a worker's batch held
  until after the review: 19 of 400 calls are too few, 63 more from a batch make it 82
  of 463 and the hook is switched on. `FpsOptoPro.cpp:459-461` says "and back on any that
  has since earned its place", and `tests/test_policy.cpp:99-101` that it needs more
  evidence to come back; no hook can earn it while it is off. `NoChatter` states what the
  code does.
- *Session.* The first `start()` on a device whose library lacks the hint API
  reports that there is no session; the second finds the library loaded and calls the
  null `gGetManager` (`AdpfSession.cpp:36`, `72-76`). `AdpfSession.h:23-25` calls a
  platform without the manager "a normal outcome, not an error", and
  `AdpfSession.cpp:9-13` says it degrades to "no session". The session is created over the thread that runs `enable()` and is
  never widened to the render threads, although `AdpfSession.cpp:85-87` says so.
- *Installation.* `uninstall` says "no further call is filtered"; the detours look at
  `mHookEnabled` only, so after `disable()` calls are still dropped. Where a hook was
  refused by the first `enable()` and is placed by the second, the game is already
  rendering, and a call between the patch and the trampoline calls itself. A second
  `enable()` hooks the patched symbols again, by name; if the preloader hands back what
  they lead to, the trampoline is the detour, and every GL call that is forwarded
  recurses. `GlInterceptor.cpp:116-120` says "there is nothing to recurse into";
  `EglSensor.cpp:47-49` and `155-157` explain the same hazard for EGL.
- *Overlay.* `disable()` switches the flag off but does not take the readout down; it
  stays until the preloader drops the module. A change under way at that moment
  switches the flag on again, and publishes for a module that is unregistered; one that
  is under way during `enable()` is overwritten with the snapshot `enable()` took before
  it. `save()` may fail (`FpsOptoPro.cpp:689`) and nobody looks: the next `load()` takes
  the old option, and a readout of the other one stays. `ChangeShown` says that the menu's
  next change of the overlay ends all of these. A readout that is switched on shows the numbers of the last time it was on, until
  the next update, although `FpsOptoPro.cpp:486-487` says no number is older than the
  update interval. `filterActive` is judged by `hooksDisabled` of
  `GlCounters::snapshot()`, which never fills it; `GlInterceptor::traffic()`, which
  does (`GlInterceptor.h:59-66`), is not what `updateOverlayLocked` reads.
- *Telemetry.* A game exactly on its cadence, whose frames are never faster, loses
  the verdict of pacing for one frame every 3600, when the cadence is stretched. A game
  that settles a little above an earlier, faster rate, so that its average is out of
  the tolerance of that cadence, waits for it: 3600 frames for every twentieth.
- *Context table.* A context that is given the handle of one just destroyed, before the
  table is told, has its calls dropped by the other one's state until it is. A context
  destroyed by another thread in the middle of a detour lets that detour write into a slot
  that may already be another context's.
- *Counters.* `FpsOptoPro.cpp:359-361` says every thread's batch is folded once per
  frame; only the render thread's is. A worker that goes quiet keeps up to 63 calls,
  and one that ends takes them with it.
- *Guard.* The failure count says "including this one" in `BootGuard.h`; it counts the
  failed launches before this one. A launch that dies between the truncation and the
  write leaves a marker that reads clean. A launch whose clean marker was not written takes
  itself for proven and does not try again; the next one is safe.
- *Governor.* `onFrame` passes `gpuOverran` as false, so the governor's first rule
  for it never applies.

## Not modelled

The wording of log lines, of the menu's entries and of the readout
(`Diagnostics.cpp`), and `GenerateConfig.cpp`: output only. The clamping and parsing
of options: pure, one call deep. The median of the frames, which no code reads, and
the averages of CPU and GPU time, which are inputs of the policy here. `decideTargetFps`
and `updateTarget`: no code acts on the one or calls the other. The fence probe and the
swap interval of the sensor: they read. GL errors and draw calls. What the preloader
does to the readout of a module that is unregistered. Data races as such (the map of priorities under two walks,
the plain fields of the sensor and the session) are modelled as the interleavings of
their accesses, not as torn values. A game that changes priorities itself, renames
threads, or starts a thread from a lifted one (which inherits the lift).

## Plan

The filter, which carries the mod's promise, came first; then the table under it,
the guard, the two policies; then the counters, the telemetry and the threads.
What is left, in order:

1. The auto mode against the frame callback in one composition with `ModThreads`: what
   the hooks do during an overlap, in place of the exception `overlapped`.
2. A partial installation against the games: which sets of hooks `CoInstalled` leaves
   out, and what the game sees.
3. The probe of the GPU (`probeGpuCompletion`): its countdown, and a fence that is waited
   for inside the swap.
