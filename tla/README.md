# A verification of the JavaScript plugin's consoles

The repository is the OpenCPN JavaScript plugin: C++ on wxWidgets, with the
Duktape engine embedded. A user writes scripts in *consoles*; a script is run to
its end and is then called back for timers, NMEA sentences, plugin messages,
dialogues, alerts and so on, for as long as it waits for any of them.

This directory holds TLA+ modules that model the part of the plugin where its
own logic is hardest, the TLC configurations that check them, and theorems about
them that TLAPS checks.

All of the plugin runs on one thread, the GUI thread of the chart plotter. What
makes it hard is not threads but the **nested event loop** of modal dialogues:
while `messageBox()`, `modalDialogue()` or a prompt for a file is open, the
JavaScript that opened it is suspended on the C++ stack and the event loop below it
goes on serving timers, messages and `CallAfter()` requests, for the same console
too.

## 1. Inventory

| Component | State it keeps | Operations | What is hard | What makes it correct |
|---|---|---|---|---|
| **Console life cycle** (`JavaScriptgui_impl.h`, parts of `JSExtensions.cpp`, `optional.cpp`) | `mpCtx`, `mRunningMain`, `mWaiting`/`mWaitingCached`, `mStatus`, `mModalCount`, `m_exitHandler`, label of the Run/Stop button, the alert and message box pointers | `doRunCommand`, `run`, `executeCallableNargs`, `afterwards`, `wrapUp`, `clearCallbacks`, `consoleReset`, `deleteMe`, `stopScript`, `consoleChain` | re-entry through nested event loops; queued runs against stops; a wrap up in the middle of a call; a cache that a dozen places must drop | no heap is destroyed in use; a script ends once, its exit handler last; button, heap and what is awaited agree |
| **Callback entries** (`mCallbacks`) | a list of entries with an id, a type, a handler in the heap, persistant or not | `newCallbackEntry`, `getCallbackEntry`, `cancelCallbackPerCtx`, custom deleters for dialogues and context menus | entries outliving the heap; removal while one is being served; the limit of 500 | entries never outlive the heap; each one-shot entry is served once |
| **Script timeout** (`functions.cpp`) | `pConsoleBeingTimed` (global), `m_pcall_endtime` | `startTimeout`, `clearTimeout`, `JSduk_timeout_check`, `timeAlloc` | one time for a stack of calls; only `messageBox()` gives it back | JavaScript is timed; control comes back; no other console is timed than the one that runs |
| **Dialogues and alerts** (`JSdialog.cpp`, `JSExtensions.cpp`, `functions.cpp`) | the windows, `mpMessageDialog`, `mAlert` | `createDialogue`, `onButton`, `duk_message`, `duk_alert`, `resolveFileName` | closed by their button, by `stopScript`, by another console | a modal call always returns, to a console that exists |
| **Inter-console calls** (`optional.cpp`) | `mBrief` (brief, `callbackId`, the caller's name) | `consoleRun`, `onConsoleResult`, `replyToConsole`, `consoleClose`, `consoleAdd`, `consoleLoad`, `getBrief`, `chainScript` | a caller renamed, stopped or closed before the reply; a callee closed | each request gets one reply, to the call that made it |
| **Dispatch of plotter events** (`JavaScript_pi.cpp`, handlers in `JavaScriptgui_impl.cpp`) | `m_SetActive`, `m_consoles`, the order of `mCallbacks`, events posted by listeners | `SetNMEASentence`, `SetAISSentence`, `MouseEventHook`, context menus, `HandleNMEA0183`, `HandleNMEA2k`, `HandleNavdata`, `HandleMessage`, `OnClose` | lists changed by the handlers called while they are walked; a filter that is recomputed on each event; events that come after their entry has gone | a subscriber misses nothing and is served once; the walk ends |
| **Plugin life cycle** (`JavaScript_pi.cpp`) | `m_consoles`, the configuration | `Init`, `DeInit`, `LoadConfig`, `SaveConfig`, `ShowTools` | auto-run scripts changing the list being walked | what was saved is loaded |
| **Positions and parking** (`JavaScriptgui_impl.h`, `functions.cpp`, `toolsDialogImp.cpp`) | `m_parked`, `m_parkedLocation`, `m_notParkedLocation`, the windows themselves, the configuration | `park`, `unPark`, `isParked`, `reviewParking`, renaming, closing, *Tidy*, *Find all consoles*, `SaveConfig`, `LoadConfig` | the user moves windows behind the plugin's back; a flag that is put right only when it is asked for | the spaces form one row without gaps or overlaps, in a lasting order; what is saved is true |
| **Files and recents** | list of recent files | `OnLoad`, `OnSave`, `updateRecentFiles`, `fileOrganiser` | the length limit, duplicates | most recent first, each once |
| **NMEA checksums, names, ids** | none | `NMEAchecksum`, `checkNMEAsum`, `addNMEA0183CheckSum`, `checkConsoleName` | edges of short sentences | what is added checks |
| **API bindings, editor, tools dialogue** | none of their own that matters here | conversions and display | - | - |
| **Sockets, IPC** | - | compiled out (`buildConfig.h`) | - | - |
| **Vendored and generated** | Duktape, form builder output, bitmaps | - | - | - |

How they interact. The plotter, wxWidgets timers and windows call a console's
handlers. Each handler takes its callback entry, calls `executeCallableNargs()`,
which runs JavaScript, and, if the console is then not busy, calls `wrapUp()`.
JavaScript calls back into the plugin: it registers and cancels entries, opens
windows, stops or chains itself, runs, closes or adds other consoles. A request
to run another console, or to chain, is queued with `CallAfter()`. A console that
was run by another replies from its `wrapUp()`, by a direct call of the other
console's handler.

PROJECT.json lists the hazards that follow, each at its line.

## 2. The modules

| Module | What it is |
|---|---|
| `ConsoleState` | the state of `class Console` and its methods that run no JavaScript, each an operator from a console to a console |
| `Console` | one console over its whole life: the stack of JavaScript calls, the event loop, `wrapUp()`, what scripts do, what users and other consoles do |
| `ScriptLifecycle` | the abstract specification: what a console promises about the script that it runs |
| `ConsoleInv` | the inductive invariant of `Console`, in two parts |
| `MCConsole` | the instance of `Console` for TLC |
| `Consoles` | several consoles, with the operators of `ConsoleState`, that run each other, await results, reply, chain, add and close each other |
| `ConsolesInv` | the inductive invariant of `Consoles` |
| `MCConsoles` | the instance of `Consoles` for TLC |
| `Dispatch` | the consoles and their callback entries as lists, walked for each sentence and mouse event by loops that handlers can change; the events of listeners and timers |
| `MCDispatch` | the instance of `Dispatch` for TLC |
| `Parking` | the windows of the consoles, the row of parking spaces, saving and loading of both |
| `ParkingInv` | the inductive invariant of `Parking` |
| `MCParking` | the instance of `Parking` for TLC |
| `ConsoleProofs` | the types of `Console` proved, and lemmas on the types that every operator gives back |
| `ConsoleSafety` | the inductive invariant of `Console` proved, and the safety theorems that follow |
| `ConsoleLife` | the second part of that invariant proved, the action properties of `Console`, and that it implements `ScriptLifecycle` |
| `ConsolesProofs` | the types of `Consoles` proved, and what its steps do to the requests between consoles |
| `ConsolesSafety` | the inductive invariant of `Consoles` proved, and its safety theorems |
| `DispatchProofs` | types, the status bits and the absence of undefined behaviour of `Dispatch` proved |
| `DispatchWalks` | what a walk misses and repeats, proved |
| `ParkingProofs` | sums over the row of spaces; types, the spaces, the row and the restart of `Parking` proved |

### State

`con` is the record of one console; its fields are the members of the C++ class:

| Field | In the code |
|---|---|
| `ctx` | `mpCtx`, the Duktape heap, `NoHeap` for null |
| `runningMain` | `mRunningMain` |
| `waiting`, `waitingCached` | `mWaiting`, `mWaitingCached` |
| `status` | `mStatus`, the bitset, as the set of its bits |
| `callbacks` | `mCallbacks`; an entry keeps the heap that its handler is from |
| `modalCount` | `mModalCount` |
| `alert` | `mAlert` is not null |
| `dialog` | `mpMessageDialog`: which call of the stack opened it, 0 for null |
| `exitHandler` | `m_exitHandler`: which heap it is from |
| `label` | what the button reads; the code decides from it whether a script is running |
| `timed` | `pConsoleBeingTimed` is this console, so `m_pcall_endtime` is in force |
| `pending` | `doRunCommand()` calls queued by `CallAfter()` |

`open` says whether the console exists, `stack` is the C++ stack seen as the
JavaScript calls on it, and `fault` records undefined behaviour, after which
nothing happens. A frame of the stack is a call of `run()` ("main"), of a
handler ("callback", "dialogue") or of the exit handler ("exit"), and says on
which heap it runs and which modal call it is suspended in, if any, with the answer
once there is one. JavaScript runs when the innermost frame is not modal;
otherwise, and with no frame, the event loop does.

There are three modal calls: `messageBox()` (`MessageBox`), `modalDialogue()`
(`ModalDialogue`) and the prompt for a file of `resolveFileName()` (`FilePrompt`), which
any API call that takes the name of a file may open. They differ in control: a
message box is recorded in `mpMessageDialog`, which lets another script close it, and
gives the script more time when it returns; a modal dialogue has a callback entry; a
prompt has neither, is not counted in `mModalCount`, and throws when it is
cancelled. Neither of the last two gives the script its time again (`ModalReturns`).

### Actions

One step is everything the code does without an event loop running: from an
event to the entry into JavaScript, from one API call to the return of that
call, or from the end of a JavaScript call through `afterwards()`, the caller's
`if (!isBusy()) wrapUp(outcome)` and all of `wrapUpWorks()` up to the exit
handler, if there is one to run. The operators `WrapUp`, `RunExitHandler`,
`ExitEnds` and `Finish` are the parts of `wrapUpWorks()` in the order they
happen; they take the console and the stack arrived at so far.

The three ways that a call can end (return, an error, the timeout) are `Return`,
`ScriptError`, `Timeout`; API calls that throw are ends as well, unless the
script catches. Types of callback are reduced to four that differ in control: a
timer; an NMEA sentence, whose handler asks `isWaiting()` first; a message, which
does neither that nor drop the cached answer when it is made; a dialogue, which
has a window, and whose handler calls `wrapUp()` without asking `isBusy()`.

Facts of wxWidgets the model relies on, all marked external: `Destroy()` of a
box that is modal ends its modality as Cancel does; a modal dialogue's call
returns only when it is the innermost; no other window gets user events while one
is modal; nothing orders queued calls against timers and messages.

### The envelope: `Practices`

The code is not safe against everything that a script may do, and its authors
know (the comments in `stopScript()` and `consoleClose()` say so). The constant
`Practices` names the hazardous things that a script, or the user, may do in an
instance: opening modal dialogues from callbacks (`modalOutsideMain`), throwing
from a callback served under a modal dialogue (`failUnderModal`), cancelling a
modal dialogue's entry under it (`cancelUnderModal`), catching the errors of API
calls (`catch`), queueing a second run before the first is taken
(`overlappingRuns`), closing a console that is in `modalDialogue()` or prompts for a
file (`closedInDialogue`), stopping the script from a callback while main prompts for a
file (`stopUnderPrompt`), giving as a handler what is not a function, or is none any
more (`notCallable`), running an empty script (`emptyScript`). With
`Practices = {}` the code is sound, and that is what the passing runs check and
the theorems prove. Everything else is inside the envelope: callbacks served
under a modal dialogue that register, cancel, alert, stop or time out; stops,
chains, closes and exit handlers that fail, at any moment.

Two violation runs of `Console` (`overlap`, `zombie`) enable one practice each and
show what it leads to; `untimed` needs none. Of those no run enables, `emptyScript`
makes `run()` return before it has a heap, and `formErrorMessage()` read the null
context; `stopUnderPrompt` is not refused as it is under the modal calls that are
counted, and destroys the heap that main is suspended on (`HeapOutlivesCalls` and
`NoUndefinedBehaviour` fail); `cancelUnderModal` takes the entry that the button of the
dialogue will look for; after `notCallable` the console keeps a cached answer that it
still waits. (`failUnderModal` covers `TooManyCallbacks` and every other
API error, but not the timeout, which no script can rule out.)

### The abstract specification

`ScriptLifecycle` has three variables: the phase of a run (idle, main, waiting,
handling, exiting, closed), whether the script has an exit handler still to run,
and how the last run ended. `Console` maps onto it: `phase` is read off the heap
and the outermost frame, `guarded` off `exitHandler`, `ended` off `status`. So what
happens in nested event loops must be a stutter of the outer call. What it adds
to the invariants is order: no run starts before the last one is over; no
callback runs but while waiting; no orderly end skips the exit handler; nothing
runs after it.

### Several consoles

`Consoles` composes as many `ConsoleState` consoles as it is given names. `exists`
is `m_consoles`, `con` the consoles, `brief` their `mBrief`, `queue` the
`doRunCommand()` calls that `CallAfter()` holds for each, each with its brief, and
`stack` is the one C++ stack that all of them share. Two fields of a brief are
history, for the properties only: whether the request that put it there gave one
(`given`), and the entry which awaits its result (`request`). A step is the same as
in `Console`; what is new is that the end of a call can go on into another
console: `ReplyToConsole` enters the handler of the caller before `wrapUp()` of the
replying console is over, and that handler's end (`CallEnds`, with `Replied`) can
wrap up the caller and reply once more. The timeout is one pointer for all consoles
(`Timed`).

A frame has two fields for its modal call: `box` says that it is in one, `modal` which
one. After a message box `modal` is "no" again; after a modal dialogue or a prompt for a
file it is kept, as history: the main that came back from one may have lost its time to
a callback served meanwhile, because only `messageBox()` calls `startTimeout()` again
(`BoxReturns`). `ModalDialogue` makes an entry that `DialogueButton` looks up and removes;
`FilePrompt` is not counted.

`consoleRun()` throws its errors on the heap of `pConsoleBeingTimed`, not on that of
the caller. `TimedIsRunning` says how far that is right: the timed console is never
another than the one whose JavaScript runs, but after a modal dialogue or a prompt there
may be none. `consoleRun()` of a console with a heap then dereferences the null pointer
(`optional.cpp:271`), which is the practice `runsUntimed`.

To keep the instances small, exit handlers, modal calls in callbacks and replies, the
limit on callbacks, and errors under a modal main are left to `Console`. `Practices` has
names of its own here:

* `overlappingRuns`, `notCallable` and `closedInDialogue` as before; a handler of
  `onConsoleResult()` that is not a function takes its entry with it and leaves a script
  that waits for nothing and is not wrapped up (`IInv` fails);
* `closedOwing`, a console is closed that owes a reply (its caller then waits for ever);
* `interruptUnderBox`, a callback times out, chains or is refused a stop while its main is
  modal (until the cache is dropped the console denies that it waits, and a result owed
  to it is dropped);
* `asksUnheard`, `onConsoleResult()` in a main whose callbacks found, while it was modal,
  that nothing was awaited: the cached answer is not dropped, so that the reply may be
  refused (`AwaitedReplyIsOwed` fails);
* `unreadBrief`, `consoleRun()` without a brief of a console that has one left;
* `asksItself`, `consoleBusy()` of one's own console, which caches an answer in the middle
  of a call;
* `runsUnknown`, `consoleRun()` of a console that does not exist, which the code
  dereferences;
* `runsUntimed`, `consoleRun()` of a console that has a heap, by a script that nobody times
  any more.

### Dispatch

`Dispatch` reduces a console to its `mCallbacks`, here a sequence, and adds the
sequence `m_consoles` and the status bits `m_SetActive`. There is one C++ stack of
JavaScript calls and of *walks*; a walk frame holds the two loop variables of
`SetNMEASentence()`, `SetAISSentence()` or `MouseEventHook()`: the console (`at`) and
the entry (`from`) it goes on with. `StartWalk` is the event, with the bit cleared;
`CallNext` is the part of the loops up to the next matching entry, its erasure with
the decremented index, and the entry into JavaScript; `EndWalk` is the rest of the
loops when nobody else matches. A mouse subscription whose mask does not fit the
event sets the bit but is not called: `wanted` of an entry. `due` and `done` of a
walk are history. `Post` and `Observed` are the two halves of an event with a
listener: OpenCPN posts it for an entry, and the console looks the entry up by its
id when the event comes round; two of the four handlers read what they find
without asking whether they found anything (`Unguarded`).

While a walk is below it on the stack, a handler may do things that the loops were
not written for, the `Practices` of this module: `resubscribe` to the kind that is
being walked; `cancelEarlier`, cancel an entry that the walk has passed; `modal`,
open a message box, in which other walks happen; `manageConsoles`, add or close a
console, which changes the vector under a range-for. The passing run enables none;
`endless` enables `resubscribe`, and `FilterCorrect` is proved for all of them.
`modal` with a nested walk lets a sentence overtake the one whose handler is
waiting in the box, and `manageConsoles` reaches the fault `consolesChanged` at once.

### Parking

`Parking` has a window per console (`win`: how far from the left, how far down,
how wide), the two locations (`lot`, `free`, with `hasLot` and `hasFree` for their
`set`), the set `parked` of consoles whose `m_parked` is set, and `stub`, the width
of a parked window, which depends on the name. Of the vertical position only what
`isParked()` tells apart is kept: at the parking level, off it, or within its margin
of the top of the screen, where a location that is not set is. `Move` is the user;
it changes the window and nothing else. `isParked()` resets `m_parked` as it finds
out that a window was moved: `Asked` is what is left of `m_parked` once it was asked,
and `FindMoved` the case that nothing else happens. `ReviewParking` sorts by position,
with `std::sort`, which is not stable: any order of equals (`Orders`) may come out.

The constructor does not initialise `m_parked`: `Init` and `Add` leave it open. While
the plugin is loaded, `SaveConfig()` writes the state itself, so there is no second
copy of it: `Quit` saves and unloads, and while `up` is false the variables *are* the
configuration, from which `Start` (`LoadConfig()`, then `reviewParking()`) takes up
again. `untidy` is history: the user has moved a parked window along the row, and
nothing has reviewed the parking since.

`Levels` says where the user, and chance, put windows. If `"top"` is in it, a new
console at the very top of the screen whose `m_parked` happens to be true believes
that it is parked in a space that it does not have, and parking it reaches the
"program error" of `setLocation()` (`JavaScriptgui_impl.h:1020`); the run and the
theorem exclude it, which is what `NoTop` of `ParkingProofs` says.

## 3. The runs

| Run | Kind | Bounds | Shows |
|---|---|---|---|
| `core` | pass, 96 952 states | 2 heaps, 2 ids, 2 callbacks, depth 2, 1 pending; all three modal calls, all four types; `Practices = {}` | the type invariant, six safety invariants, both parts of the inductive invariant, `ExitHandlerIsFinal`, `QueuedRunStarts`, refinement of `ScriptLifecycle` |
| `live` | pass, 3 994 states | 1 id, timers and message boxes, depth 2, 1 pending | under fairness control returns, queued runs are taken, answered boxes end; `ScriptsAreTimed` |
| `overlap` | violation | `overlappingRuns`, 2 pending | a queued run stops the script that a click, or another queued run, started before it was taken |
| `zombie` | violation | `failUnderModal` | an error under a message box leaves a script that waits for nothing, for ever |
| `untimed` | violation | none enabled; `modalDialogue()` | a script goes on without a timeout after a callback under its dialogue |
| `replies` | pass, 86 521 states | 2 consoles, 2 ids, depth 3, all three modal calls, with and without briefs; `Practices = {}` | no heap destroyed in use, awaited results owed by exactly one run, replies given to the handler of their request, no circular waiting, briefs read only by the run they were given to, no console timed but the one that runs, and none only after a modal dialogue or a prompt, the inductive invariant |
| `leftover` | violation | `unreadBrief` | a run without a brief reads that of the run before |
| `dispatch` | pass, 93 824 states | 2 consoles, 2 ids, 2 entries each, 2 posted events, depth 5; mouse, navigation, timers; `Practices = {}` | no subscriber missed or called twice, the status bit never off while somebody subscribes, no entry looked up in vain and read, every walk ends |
| `endless` | violation | `resubscribe`; sentences | a one-shot handler that subscribes again is called for the same sentence for ever |
| `late` | violation | none enabled; NMEA 2000 and timers | an event that outlives its entry makes the handler read an entry that is gone |
| `parking` | pass, 774 903 states | 2 consoles, stubs 1 and 2 wide, windows 4 wide, at 1 place along the screen and 2 levels | the row of spaces is packed and keeps its order, what is saved is true, a restart moves nothing, no location is used that is not set, the inductive invariant |
| `snap` | violation | the same | a parked window that the user moved away is put back when another console is closed |

Why the bounds are enough. Two heaps let a new heap differ from a stale one; two
entries let one be removed while another keeps the script waiting, and reach the
limit (`MaxCallbacks`, 500 in the code, is a constant of the model). Depth 2 is
main in a modal call with a callback above it: within the envelope nothing gets
deeper, which the invariant `Shape` proves rather than assumes. One pending run
is what the envelope allows. Heap addresses are not reused while a frame still
refers to one, so that a use after free is never hidden by a lucky address. Heaps
and ids are symmetric in `core`; `live` uses no symmetry.

In `replies` two consoles suffice for a request, a counter-request, a chain and a
close to cross, two ids for a request beside a timer or a second request, and depth
3 for a box, a callback and a run in between. Consoles and ids are symmetric. Its view
(`MCConsoles!View`) tells states apart only by what some guard, operator or property still
reads: not by statuses that `afterwards()` does not look at, by a brief that awaits no
answer, or by a cache that nobody will ask before `run()` resets it. With one id and no
symmetry, 583 625 states have 27 168 views, and TLC finds those same views when it tells
states apart by them. The code numbers entries by
`wxWindow::NewControlId()`, which gives no id twice; `FreeIds` gives none that
anything still refers to, which is as good and keeps the ids finite.

In `dispatch` the mouse stands for the three kinds that are walked: it is the one with
subscriptions that see an event and are not called. Two entries, of one console or of
two, are one before and one after the point the walk is at, and one that moves into the
place of the other; an id is free again once its entry is gone and called, so that
handlers add entries too. Two posted events can outlive their entry and each other's;
depth 5 leaves room for boxes of both consoles below a walk and its handler (with three
ids and depth 3 the same properties hold, in a run of a million states). What a
handler of a walk adds or cancels needs no second walk to go wrong, and the theorems
of section 4 are about every number. A run with NMEA 2000 in place of navigation fails
`NoUndefinedBehaviour` (`late`). In `parking` the widths of the two stubs differ so that
a space that is not resized shows, and the user's place along the screen is neither
that of the first space nor that of the second; two consoles make every order of
parking, vacating and closing happen. It uses the symmetry of the consoles, `dispatch`
none, because of `WalksEnd`.

The bounds that are in guards: `MaxDepth` (calls on the stack) in `CallbackFires`,
`TimerFires` and `RunQueued`, `MaxPending` in `RunRequested`, `Giving` (whether
requests come with a brief) in `Next` of `Consoles`; in `Dispatch` `MaxEntries` and the
number of `Ids` in `NewEntry`, `MaxQueue` in `Post`, `MaxDepth` in `StartWalk`, `TimerFires`,
`Observed` and `StartMain`; in `Parking` `Xs` and `Levels` in `Move` and `Add`, and that
numbers of pixels do not grow follows from the guards. `MaxCallbacks` is not a bound of
the model but a limit of the code, with its error path.

Fairness (`FairSpec`): weak fairness of `Timeout`, because Duktape calls
`JSduk_timeout_check()` at intervals and the call fails once the time is over,
whatever the script does; strong fairness of `RunQueued`, because an event loop
drains its queue of pending calls each turn, though the queue is not looked at
while JavaScript runs; strong fairness of `ModalReturns`, because an ended nested
loop returns as soon as it is innermost. Nothing is assumed of users or scripts:
a box may stay open for ever, a script may register for ever.
`AnsweredModalEnds` is about the outermost call and message boxes; a
`modalDialogue()` or a prompt for a file can leave scripts untimed (run `untimed`), and a
script without a time may never end, so `live` has neither.

`FairSpec` of `Dispatch`: weak fairness of `CallNext` and `EndWalk`, because a walk is a
loop in C++ that nothing but the handlers it calls holds up, and of `Return`, because a
handler ends or the limit on its time ends it. Whether a message box is ever answered
is not assumed; within the envelope none is open under a walk.

`CHECK_DEADLOCK FALSE` is in the configurations where a fault stops the system.

Every property of the passing runs has a mutant: a definition of the model changed
as a bug in that code would change it, kept beside the definition and named
"Mutant" in its comment.

## 4. What is proved

Every invariant, every action property and the refinement that a passing run checks
is also a theorem, for all values of the constants. What is assumed is named: the
assumptions on constants in the modules that declare them (`NoHeapAssumption`,
`ConsolesAssumption`, `KindsAssumption`, `GeometryAssumption`, ...), which TLC evaluates,
and the hypotheses of the theorems below, which say that scripts, users and
the screen stay inside the envelope. The bounds of section 3 are constants too: the
theorems hold for each of their values.

### One console

| Theorem | Property | If |
|---|---|---|
| `ConsoleProofs!TypeCorrect` | `TypeOK` | always, whatever the practices |
| `ConsoleSafety!Invariance` | `IInv` | `Practices = {}` |
| `ConsoleSafety!HeapsOutliveCalls`, `BehaviourIsDefined`, `CallbacksAreLive`, `Quiescence`, `CacheIsRight`, `ModalsAreCounted` | the six safety invariants of `core` | `Practices = {}` |
| `ConsoleLife!LifeInvariance` | `LifeInv` | `Practices = {}` |
| `ConsoleLife!ScriptsRunTimed` | `ScriptsAreTimed` | `Practices = {}`, no modal call but `messageBox()` |
| `ConsoleLife!QueuedRunsStart`, `ExitHandlersAreFinal` | `QueuedRunStarts`, `ExitHandlerIsFinal` | `Practices = {}` |
| `ConsoleLife!LivesAsPromised` | `ImplementsLifecycle` | `Practices = {}` |

None of the safety invariants is inductive alone. That no heap is destroyed in use
(`HeapOutlivesCalls`) depends on `wrapUp()` being reached only when no call is
suspended; that follows from `isBusy()` being true while main is suspended
(`MainIsRunning`), which needs that only main is ever suspended (`Shape`) and that
`clearCallbacks()`, which resets `mRunningMain`, is never reached under a modal
call (`ModalsCounted`, because `stopScript()` asks the count, but for the prompt for a
file, which is not counted: there it takes the absence of `stopUnderPrompt`). That a script is
started only where none is active depends on the label of the button
(`LiveShowsStop`, with its exception: in the exit handler of a script that stopped
itself the button already reads Run), on a request being queued only while there is
no heap (`RequestsWait`), and on a dead console being clear (`DeadIsClear`). The
cached answer is right between events (`IdleWaits`), not always: during a call it
may be stale. `ConsoleInv` is the conjunction of these.

The proof that a step keeps it is by one lemma per action (`RegisterGood`,
`StopScriptGood`, `ModalReturnsGood`, ...), which rest on one lemma per part of
`wrapUp()` (`ClearDownGood`, `FinishGood`, `ExitEndsGood`, `CallGood`,
`WrapUpGood`, `FrameEndsGood`) and on lemmas that say which fields a method
changes (`AfterwardsFields`, `ClearCallbacksFields`, ...). The stack is handled by
two facts about removing and appending its last frame (`BelowFacts`, `StackTypes`).

The life of a script is proved on top of that. In `ConsoleLife` the outcome of a step is one
of a few (`Waits`, `EndsWell`, `EndsBadly`, `Calls`, `GoesOn`, `StaysIdle`): for each action a
lemma says which of them it comes to, and with that the two action properties and
the refinement are case splits. The refinement needs what `IInv` does not say, `LifeInv`:
how a run ended is read off the status, so a script that waits must not have kept a
status that ends scripts abruptly (`TIMEOUT` is reset only when JavaScript is next
entered), no script that lives is `CLOSING`, and JavaScript runs untimed only in instances
with other modal calls than `messageBox()`. `PhaseTable` writes the refinement
mapping as a table by heap and outermost frame; each outcome is then one action of
`ScriptLifecycle`, or a stutter (`GoesOnLives`, `OverLives`, ...). `ScriptsRunTimed` excludes
`modalDialogue()` and the prompt for a file, with which the statement is false (run
`untimed`).

### Several consoles

In `ConsolesSafety`, for any number of consoles, ids, callbacks and nested calls, with
`Practices = {}`: `Invariance` (`IInv`), and from it `TypeCorrect` (`TypeOK`), `NothingUndefined`
(`NoUndefinedBehaviour`), `RepliesAreOwed` (`AwaitedReplyIsOwed`), `RepliesAnswerRequests`
(`ReplyIsForRequest`), `NobodyWaitsInACircle` (`NoCircularWait`), `BriefsAreForThisRun`
(`BriefIsForThisRun`) and `TheTimedRuns` (`TimedIsRunning`). They hold whichever of the three
modal calls mains use. `TheTimedRuns` does not say that the running console is timed, which
is false of the code; it says that no other is, and where none is.

`ConsolesInv` has two halves. `ConsolesSound` is about each console and the one stack:
only main is suspended, and only the innermost call runs (`BoxesBelow`), a console has one main
(`MainIsOne`), knows where its box is (`BoxIsRecorded`) and still has the entry of its modal
dialogue (`DialogueHasEntry`), at most the innermost call is timed, and is unless it came
back from a modal dialogue or a prompt (`OnlyTimed`), and a console is found busy by whoever
asks unless it is really idle (`LiveIsBusy`): on that last point, an answer that is
often cached, rest all the refusals of `onConsoleResult()`. The cache may be wrong in one
place only: a callback under a modal main finds nothing awaited and says so (`Unheard`);
then main is still running, which is enough to be busy, and awaits no reply
(`Unasking`). `Requests` is about what
consoles await of each other, and looks only at entries, briefs and which consoles
have a heap: an id is that of one entry (`IdsAreUnique`), one console is asked with it
(`OneIsAsked`), every brief that is still about with the id of an entry will be
answered (`BriefsAreOwed`), every entry is owed by somebody (`SomebodyOwes`), and there
is no circle (`NoCircle`). That is why it can be kept step by step by lemmas about what
a step does to entries and briefs alone (`ConsolesProofs`): a request is added to
somebody who has no heap and so awaits nothing; an entry and its brief go; a console
ends, chains or is closed. `RepliesMatch` covers the moment in between, when the entry has gone and its
handler runs while the replying console is in the middle of its `wrapUp()`.

### Dispatch

For any number of consoles, entries and nested calls:

* `DispatchProofs!DispatchTypeCorrect`: `Spec => []TypeOK`.
* `DispatchProofs!FilterCorrect`: `Spec => []FilterCoversSubscribers`, whatever the
  practices. Alone it is not inductive: that a closed console leaves no subscriber
  behind needs that only consoles in `m_consoles` have entries or are on the stack
  (`OpenConsoles`), and `EndWalk` may turn the bit off only because entries behind the
  walk had it turned on (`FilterCovers`).
* `DispatchProofs!DispatchIsDefined`: `Spec => []NoUndefinedBehaviour`, if the kinds of
  the instance are those whose handlers look whether they found their entry and
  handlers do not add or close consoles (`Guarded`); without the first, run `late` is a
  counterexample.
* `DispatchWalks!NoneIsMissedCorrect` and `NoneIsCalledTwiceCorrect`, if handlers leave
  alone what a walk has passed (`Undisturbed`; `resubscribe` is allowed). The invariant
  `WalkInv` adds that no console is in the vector twice (`SameOnce`), that an id is
  that of one entry (`UniqueIds`), that there is one walk at most, under one script
  (`OneWalk`), and where the entries of `due` and `done` are. The work is in the lemma
  `WalkCalls`: erasing an entry moves those after it, and the index with them.

### Parking

For any number of consoles and any sizes, in `ParkingProofs`: `ParkingTypeCorrect` (`TypeOK`)
always, and, if no window is at the top of the screen (`NoTop`), `ParkingInvariance`
(`IInv`), `LocationsAreSet` (`NoProgramError`, whatever `m_parked` starts as), `ConfigTruthful`
(`ConfigIsTruthful`), `RowPacked` (`RowIsPacked`), `OrderKept` (`OrderIsKept`) and `RestartMoves`
(`RestartMovesNothing`).

`ParkingInv` has two halves again. `SpaceInv`: spaces are at the level
(`SpacesAtLevel`), no window is at the top, and none goes back there
(`WindowsBelowTop`), so a console that is found to be parked has a space
(`ParkedHasLot`). `RowInv`: a space is as wide as the stub of its console, and so is
the window of a console whose `m_parked` is set even while it is elsewhere
(`StubsFit`), and unless the user has moved one along the row the window of a
parked console is exactly where its space is (`WindowsInSpaces`). The second is what makes it
harmless that `unPark()` overwrites the space with the position of the window, and
that `park()` looks for the right-hand edge of windows in place of spaces.

The position of a space is the sum of the widths before it, `RowLength`, which the
community modules define by recursion over sets. Induction over sets is not needed for it as
a schema: a finite set of sets has a minimal element (`MinimalSubset`, from the library's
theorem that strict inclusion is well founded), so that a minimal counterexample
shows that the recursive function exists (`LengthsExist`), that it does not matter which space is
taken off first (`RowLengthTakeOff`), and that a longer row is longer by each space in it
(`RowLengthGrows`). On that rest `ReviewPacks` (what `reviewParking()` leaves is packed,
in the order it was), `ReviewLeaves` (a packed row stays where it is) and `FreeXIs`
(`park()` finds the end of the row).

### What is only model-checked

Liveness (`EventLoopResumes`, `QueuedRunsAreTaken`, `AnsweredModalEnds`, `WalksEnd`): fairness is
about ENABLED, which the prover does not support. And, of course, the
violations: that a practice does lead where section 3 says is shown by a run.

## 5. What the model leaves out

* `timeAlloc()` with zero or negative time, `readDialogue()`, the clock.
* In `Consoles`: exit handlers, modal calls in callbacks and replies, alerts, the limit of
  `newCallbackEntry()`, errors that scripts catch, errors of callbacks under their own main. All
  of these are in `Console`.
* The deletion of a console is one step; the code hides it, and deletes it from the
  application's queue.
* In `Console` there is always a second console, so `deleteMe()`'s refusal to delete the last one
  is not reached, and the parked, script-not-empty and `_remember` questions of the
  close box are taken as answered with yes.
* The auto-run at start is the same as a queued run.
* The results, messages and briefs themselves. `Console` leaves out the reply in
  `wrapUp()`, which is in `Consoles`; `Consoles` leaves out `consoleName()` (a caller that
  is renamed before the reply; `Parking` has what it does to the window) and
  `consoleLoad()`.
* A console closed while it waits keeps its heap in the model (`DeleteMe`), as it does
  in the code, where nobody destroys it.
* In `Dispatch`: context menus, whose submenu entries are removed by the deleter of the
  menu's entry; notification actions, which are handled as `HandleNavdata()` is; the
  handlers of the close button in `OnClose()`, which change the vector under an
  iterator; sockets, compiled out. `OCPNonActiveLeg()` makes entries, and sets a status
  bit, that no code looks at. What a sentence holds and its checksum is data. A mouse
  subscription fits all events of an instance or none.
* In `Parking`: heights, and so the margin of four pixels at the level, in which a
  parked window can creep; DIP; windows that the user resizes; the shift key while all
  consoles are found; changing the parking settings; a crash between two saves (the
  configuration is then that of the last one).
* Of the plugin's life: the loops of `Init()` and `DeInit()` that run and wrap up the
  scripts, showing and hiding of all consoles, the recent files.
* The bindings to OpenCPN, the editor and the vendored code are not modelled:
  conversions and display, without a state of their own that the rest depends on. Of the
  files only the prompt for a name is, which any of the calls that take one may open and
  which is a nested event loop; what is read and written is data. Sockets and IPC are
  compiled out.

## 6. What could come next

1. `Consoles`: `consoleName()` with callers found by name, `consoleLoad()`.
2. `Dispatch`: context menus and the close button's handlers.
3. The loops of `Init()` and `DeInit()` over `m_consoles`, with scripts that add and
   close consoles.
4. The safety half of `WalksEnd`: a measure of a walk that every call lowers.
