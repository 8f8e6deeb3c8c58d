# VirtualDesktop-OpenXR in TLA+

VirtualDesktop-OpenXR (VDXR) is an OpenXR runtime: a DLL that an application loads, and that turns the calls of the
OpenXR API into calls to LibOVR, the API of the headset's streamer.  Almost all of it is one class, `OpenXrRuntime`
(`src/virtualdesktop-openxr/runtime.h`), whose members are shared by every thread the application calls from and by
the threads the runtime starts.  This directory specifies the parts of it whose correctness depends on the order of
events or on a long sequence of them, checks them with TLC on small instances, and proves the main results with TLAPS
for every instance.

## 1. The system

### Components

Paths are relative to `src/virtualdesktop-openxr/`.

| component | state it keeps | operations | what makes it correct |
|---|---|---|---|
| **Frame loop** (`frame.cpp`) | `m_frameWaited/Begun/Completed`, `m_frameMutex`, `m_layersForAsyncSubmission`, `m_asyncSubmissionMutex`, two condition variables, the submission thread | `xrWaitFrame`, `xrBeginFrame`, `xrEndFrame`, `asyncSubmissionThread`, `waitForAsyncSubmissionIdle` | frames and OVR indices in order; one frame in flight; each shown once; one user of the submission context; no lost notification |
| **Session lifecycle** (`session.cpp`) | `m_sessionState`, created/begun/stopping/exiting/loss flags, `m_sessionEventQueue` | create, begin, end, request exit, destroy, `updateSessionState` | the application hears a walk of the OpenXR lifecycle; an exit request is followed through |
| **Events** (`instance.cpp:386-497`) | countdowns and dirty flags for recenter, mask, profile, refresh rate | `xrPollEvent` | within a session no change is lost, and none is told twice (a change of the refresh rate between two sessions may be lost, §6) |
| **Swapchains** (`swapchain.cpp`) | per swapchain: `acquiredIndices`, `lastWaitedIndex`, `lastReleasedIndex`, `nextIndex`, `frozen`, `dirty`, `resolvedSlices` | create, enumerate, acquire, wait, release, destroy | no image given twice; ring order; the chains of a swapchain that was used, and of its slices, destroyed once |
| **Layer submission** (`d3d11_native.cpp`, `frame.cpp`, `precompositor.cpp`) | LibOVR's chains per slice, `resolvedSwapchainImages` | `resolveSwapchainImage`, `preprocessSwapchainImage`, `handle*Layer`, upscaling | a layer shows the image released last, corrected once, and nothing draws to it meanwhile |
| **Instance and system** (`instance.cpp`, `system.cpp`) | `m_ovrSession`, instance/system flags, cached headset description, the mapped view of the body state | `xrCreateInstance`, `xrGetSystem`, `ensureOVRSession`, `initializeSystem`, `enterVisibleMode`, the destructor | LibOVR has one session when there is one and none otherwise, through calls that fail half-way; what was promised of a system stays true |
| **Actions and bindings** (`action.cpp`) | action sets (created, attached, active), actions with their sources, suggested bindings, cached controller types, cached inputs and generations, haptics | create, suggest, attach, sync, get state, haptics, destroy, `rebindControllerActions` | state only of attached and active sets; bindings frozen after attach; changes told once; motors stop |
| **Mappings** (`mappings.cpp`) | none | which paths each profile accepts, how they are rewritten to a Touch controller's, what these read | a source reads what it is called |
| **Accessibility helper** (`accessibility.cpp`) | which controllers it emulates, which of them follow the gaze, the game pad's state as its own thread polled it last | `GetEmulatedInputState`, `InputThread` | what is emulated hides what is not |
| **Spaces** (`space.cpp`) | `m_spaces`, last valid poses, last known floor | create, locate, destroy, `xrLocateViews` | nothing dangling is located; locations agree with one another; what is called tracked is |
| **Trackers** (`hand_/eye_/face_/body_tracking.cpp`) | tracker handles, `m_cachedBodyState`, the body state watcher thread | create, query, destroy | the same, and the thread reads what is mapped and ends with the session |
| **Mirror window** (`mirror_window.cpp`) | `m_mirrorWindowReady`, `m_mirrorWindowHwnd`, its texture and thread | create, update, the close handshake in `xrDestroySession` | destroy returns, and the texture goes once, whatever the user does to the window |
| **Graphics interop** (`d3d12_/vulkan_/opengl_interop.cpp`) | shared textures, fences | import, serialise, flush | the two devices take turns |
| others | | visibility mask, performance counters, audio, dispatch framework, utilities, tools, installers | see section 8 |

### How they interact

`xrEndFrame` is where most of them meet.  It takes `m_swapchainsMutex`, then `m_frameMutex`, then waits (with both)
until the submission thread has nothing left; resolves and preprocesses an image of every swapchain its layers name
on the submission device; and either calls `ovr_EndFrame` itself or hands the layers to the submission thread.
`xrWaitFrame` takes OVR's status, feeds it to the session state machine, and may wait for `xrBeginFrame`, for OVR, or
(with `m_frameMutex`) for the submission thread.  `xrDestroySwapchain` waits for the submission thread with
`m_swapchainsMutex`; `xrDestroySession` ends and joins three threads, deletes spaces, trackers and swapchains, and
destroys LibOVR's session.  `updateSessionState` runs inside frame, session and poll calls and queues events that
`xrPollEvent` takes.  `xrSyncActions`, and all that creates, destroys or locates a space, meet at
`m_actionsAndSpacesMutex`; each kind of tracker adds a lock of its own, and whatever reads hands, eyes or bodies adds
`m_bodyStateMutex`, which the body state watcher takes too.

### What is hard

Up to five threads of the runtime's and those of the application; three mutexes with waits under them, and four
reader/writer locks that one call nests; a submission thread that starts late, may be skipped by a timeout and may be
told to end at any point; counters read without a lock; two rings of images (the application's and LibOVR's) that wrap
around independently and are only brought together when a frame is composed; one dirty flag for several slices; a
state machine that several calls drive and that must explain itself through a queue; handles that are addresses, and
addresses that the heap gives out again; poses that come from a cache when a device is lost; calls that throw half-way
through what they set up; and sessions that follow one another in one instance while half of the members are not
reset.  `PROJECT.json` lists each of these hazards at its line, with the properties that cover it, or the reason why
none does.

## 2. Modules

| module | models | composes or extends |
|---|---|---|
| `FrameContract` | abstract: what the frame loop promises | |
| `FrameLoop` | `frame.cpp` (frame calls, submission thread), `xrDestroySwapchain`, `xrDestroySession` as they meet it | refines `FrameContract` |
| `SessionContract` | abstract: what the application may rely on when it follows a session | |
| `Session` | `session.cpp`, `xrPollEvent`, the parts of the frame calls that drive them | refines `SessionContract` |
| `Swapchain` | one swapchain from `xrAcquireSwapchainImage` to LibOVR's committed image | |
| `Actions` | action sets, actions, suggested bindings, `xrSyncActions` and `rebindControllerActions` | |
| `Mappings` | the paths of every interaction profile, and what they read, as functions | |
| `Input` | from a controller to what `xrGetActionState*` tells, gestures, emulation, haptics | extends `Mappings` |
| `Spaces` | handles of spaces and trackers on the heap, their registries and locks, the session that ends them | |
| `Tracking` | where spaces, views, hands, eyes and body joints are located | |
| `Runtime` | instance, system, LibOVR's session, body state watcher, mirror window | |
| `*_proof` | theorems about `FrameLoop`, `Session`, `Swapchain`, `Actions`, `Spaces`, `Tracking`, `Runtime`, `Input` | each extends its module |
| `MC*` | instances for TLC | each extends its module |

A definition named `Mutant_X` is never used by the specification.  It is X with a plausible mistake, kept to show
that the property named for it in `PROJECT.json` depends on what X says.

### FrameLoop

The threads are `sim` (calls `xrWaitFrame`), `render` (`xrBeginFrame`, `xrEndFrame`), `ctl` (session and swapchain
calls) and `async` (the runtime's `asyncSubmissionThread`).  OpenXR makes the application serialise its `xrWaitFrame`
calls, and its begin/end calls, but not one group against the other, so these are the threads that can meet.  A step
is what a thread does between two points where others can be seen: a lock, a sleep on a condition variable, a
blocking OVR call, an unlocked access.  `m_frameMutex` and `m_swapchainsMutex` are held across steps and are
variables; `m_asyncSubmissionMutex` only ever covers one step.  A sleeping thread is in `frameWaiters` or
`asyncWaiters` until a `notify_all` removes it, so a lost notification is a behaviour of the model.

| code | actions |
|---|---|
| `xrWaitFrame` | `WaitFrameEnter` (checks), `WaitFrameSleep`, `WaitFrameMatched` (under the lock: headless swapchain, thread start), then `WaitFrameOvrWait`/`OvrFails`/`Relock` (synchronous) or `WaitFrameIdleSleep`/`Idle`/`NotIdle` (asynchronous; the last is the running start timing out or the deferred wait) |
| `xrBeginFrame` | `BeginFrameEnter`, `Fails`, `Succeeds`, `OvrFails` |
| `xrEndFrame` | `EndFrameEnter`, `LockSwapchains`, `OutOfOrder`, `LockFrame`, `IdleSleep`, `Idle`, `Fails` (a layer is refused, or OVR fails), `Submit` or `Publish`, `Complete` |
| `asyncSubmissionThread` | `AsyncReadFrameId` (unlocked), `WaitToBegin`, `NotInitialized` (retry), `Begin`, `HandOff` (clear, notify, sleep), `Wake`, `Terminate` or `TakeLayers`, `EndFrame` |
| `xrDestroySwapchain` | `DestroySwapchainEnter`, `IdleSleep`, `Idle`, `DestroySwapchain` |
| `xrDestroySession` | `DestroySession`, `DestroySessionJoin`, the swapchains one by one, `DestroySessionDone` |

The layers of a frame are its number and the set of swapchains they refer to.  What is inside them is `Swapchain`'s
subject.  `published`, `shown` and `forfeits` are history and appear in no guard.

### Session

An application that calls from one thread (`updateSessionState` has no lock; what several threads do to
`m_sessionEventQueue` is undefined behaviour, which is listed as a hazard and not given a meaning).  A call sets
`call` to its name and runs `updateSessionState` one iteration a step (`UpdateSessionState`) until `Settled`; then it
goes on (`WaitFrameReturns`, the `Poll` actions) or returns.  The events keep the number of their session, which the
code does not store (the handle is always 1), so that the properties can tell the sessions apart.  Headset visibility
and mounting change freely at each `xrWaitFrame`; OVR recenters, the refresh rate and the interaction profile change freely.

`xrCreateSession` makes LibOVR's session again (`session.cpp:57`), and `ensureOVRSession` runs `initializeSystem` if the headset
is not the cached one (`system.cpp:529`).  `EnsureOVRSession` is that choice and `InitializeSystem` what it does here: the
rate and the reported rate become the headset's together (571).  `DisplayRefreshRate`, whether
`XR_FB_display_refresh_rate` is enabled, is fixed for the instance; without it a change of the rate is seen and not told (`instance.cpp:477`).

### Swapchain

One swapchain, of any ring length and number of slices; `kind` is `direct` (slice 0 is LibOVR's own texture, committed
until LibOVR stands where the application does) or `copy` (slow path, MSAA, cube).  Images hold one of four things:
`raw` (what was released last), `corrected`, `overdone` (alpha corrected twice) or `old`.  A frame is `StartLayers`, then
for every layer `ResolveImage` (`ensureSwapchainSliceResources` and `resolveSwapchainImage`) and `PreprocessImage`,
`MarkClean`, `Submit`; `LayersFail` is any error in between.  These steps are not interleaved with the application's
other calls because `xrEndFrame` holds `m_swapchainsMutex` from the first layer to the last.

Abstractions and assumptions: the application enumerates the images before it uses them; whether the alpha needs correcting
is fixed per swapchain (in the code it is a matter of the layer's flags and index); LibOVR's current index advances by
one with each commit and is 0 at first; upscaling reads the slice and writes to a chain of its own, which is not
modelled; depth images resolve as an image that needs no correction does; the correction of a texture of the
application's reaches its first slice only, as the compute shader is given one slice.

### Actions

Every call takes `m_actionsAndSpacesMutex` before it looks at the actions and keeps it to its end, so each is one
action of the module.  The exception is `refreshSettings`, on the registry watcher's thread: it clears
`m_cachedControllerType` without a lock.  `ForgetType` is that clear between two calls, and the `cut` of
`SyncFocused` is the same clear within one, before the type is compared with what it was or before
`rebindControllerActions` reads it (what tearing a `std::string` may do besides is not given a meaning).

| code | actions and operators |
|---|---|
| `xrCreateActionSet`, `xrDestroyActionSet` | `CreateActionSet`, `DestroyActionSet`; a handle may be used again |
| `xrCreateAction`, `xrDestroyAction` | `CreateAction`, `DestroyAction`; an action's memory is kept, so its handle is not used again |
| `xrSuggestInteractionProfileBindings`, `xrAttachSessionActionSets` | `SuggestBindings`, `AttachActionSets` |
| `xrSyncActions` | `SyncRefused` (a set that is not attached), `SyncUnfocused`, `SyncFails` (`ovr_GetInputState`), `SyncFocused` |
| priorities of the inputs | `PrioritiesSeen`, `Wanting`, `SourcePriorityAfter` |
| `rebindControllerActions` | `UsedProfile`, `BoundBy`, `SourcesAfter`, `ProfileAfter`, `ProfileDirtyAfter` |
| `xrPollEvent`, then `xrGetCurrentInteractionProfile` | `PollProfileChanged` |
| `xrGetActionState*` | `Read`: which sources of an action have a say in its state |

A source is a side and a component of the Touch controller (`realPath`); what a component reads is its
`ActionSourceIndex`.  The memory of a set's copy of the input is either a copy of it or not (`copied`); what the input
is does not matter.  Whether the session is FOCUSED is free in every call.  `sync`, `told` and `late` are history and
appear in no guard.  The application suggests bindings only for profiles of hand controllers, and for actions it created.

### Mappings and Input

`Actions` chooses sources by name; these two say what the names read.  `Mappings` turns the chains of comparisons of
`mappings.cpp` into functions from a path (user, input, component) to a set, a path or a source: `IsValidPath` for every
profile, the rewriting to a Touch controller's path, `getTouchControllerSource` and the localized names.  It has no state.  `Input`
binds an application's suggestions by them when a controller comes or goes, and follows an input through
`xrSyncActions` (both controllers, the helper's in the place of one it emulates, the hands' gestures on top, a copy for
each set), through `xrGetActionState*` (what is combined, whether it changed since the generation told last) and a
haptic pulse back to the motors.  Each call is one step, under the same lock as in `Actions`.  The helper's thread has two steps
of its own, with no lock: `HelperPolls` reads a game pad into `m_controllerInputState` (or, with a setting for debugging, a Touch
controller), and `HelperTurns` chooses from that the controllers that follow the gaze, which are the ones it shows; what is shown
is put in place of a controller by `GetEmulatedInputState` inside `xrSyncActions`.  LibOVR's masks of a hand's buttons
(`ovrButton_LMask`, `ovrButton_RMask`) are taken to have the menu button with the left hand's and the home button in neither, as they do.
Two histories appear in no guard: `synced`, what a set was synced for last and with which polled state and hands, and `asked`,
whether the application has a hand vibrate, by the bindings it suggested (`Meant`) and not by those there are; a stop that is
called while the hand's controller is away is `unheard`.  All sets have one
priority and there is one profile: more of both are `Actions`' subject.  Analog values are in halves.

### Spaces

A handle is the address of an object: `heap` says what lives there, `registered` what each `std::set` of handles lists.  An
application's call is a record: what it does, to which handle and base, in which phase, and the locks it has still to
take or drop.  It enters, takes the registries' locks in the order of the code, looks its handles up (`Refuse` or
`Proceed`), takes the locks of the data it reads, uses its handles and returns.  A lock is an SRW lock: a writer that waits holds up
the readers that come after it, which is what makes taking one twice shared a deadlock.  `WatcherStep` is the body state watcher as
a writer.  The application keeps OpenXR's rule that a handle is not destroyed while another call uses it, nor a session while any call is
in progress; freed addresses are allocated again, as an object of any kind.

| code | actions |
|---|---|
| `xrCreate*Space`, `xrCreate*Tracker*` | `xrCreate...` (entry), `FinishCreate` |
| `xrDestroySpace`, `xrDestroy*Tracker*` | `xrDestroy...` (entry), `FinishDestroy` |
| `xrLocateSpace`, `xrLocateViews`, `xrLocate*Joints*`, `xrGetEyeGazesFB`, `xrGetFaceExpressionWeights*` | entries of the same names, `FinishRead` |
| `xrSyncActions`, `xrCreateActionSet`, `xrDestroyActionSet` | as far as spaces and locks are concerned |
| `std::unique_lock`, `std::shared_lock` | `Queue`, `LockExclusive`, `LockShared`, `UnlockShared`; `Leave` drops what is held |
| `xrCreateSession`, `xrBeginSession`, `xrDestroySession` | the watcher's start and end; the loops over the registries |

### Tracking

A pose is a height: conversions become sums and differences, rotations drop out, and what is left is where origins
are, what is cached and what is valid.  (Heights commute: a wrong sign or a term used twice would show, a wrong order of composition
would not.)  Locating functions take the cached poses (`m_last`, the code's mutable members) and return
them changed; they are the code's functions of the same names.  Devices and body data change between
any two calls, and so does the eye height that LibOVR has or has not, which decides stage tracking (`EyeHeightChanges`,
`space.cpp:594`-611).  LibOVR's tracking origin does not: `initializeSystem` sets it (`system.cpp:600`-604) and
nothing changes it.  `xrWaitFrame`, `xrLocateViews` and `xrEndFrame` are there with what they do to the prediction, to the
distance of the eyes and to the world scale.  A time of 1 and less is special to the code (`space.cpp:582`).

### Runtime

One application thread, with `app` for the call it is in while that call can be seen half-done; the watcher, the mirror
window's thread and the user who closes the window beside it.  Functions that may fail (`initializeOVR`, `initializeSystem`,
`ensureOVRSession`, `enterVisibleMode`) are sets of outcomes, each with what it leaves behind when it throws.  `ovr.live` and
`ovrMirrors` count what LibOVR really has.  `xrDestroySession` is a step per thread it joins; `xrDestroyInstance` goes
through the same steps and unmaps the view.  Spaces, swapchains and the submission thread are the other modules'.

## 3. Runs

| run | checks | instance | distinct states | answer |
|---|---|---|---|---|
| `frame_loop` | 3 invariants, `NoFrameShownTwice`, refinement of `FrameContract`, `CallsReturn`, `PublishedFrameIsShown` | both submission modes, 1 swapchain, 3 frames a session, 2 sessions | 125,000 | holds under `FairSpec` |
| `frame_previous` | `PreviousFrameFinished`, a comment of `frame.cpp` | asynchronous, 1 session | | violated |
| `session_safety` | 4 invariants, refinement of `SessionContract` | 2 sessions, headless or not, 2 rates, 3 spaces, 2 events queued | 4,593,000 | holds |
| `session_liveness` | `ExitIsHeard` | 1 session | 36,000 | holds under `FairSpec` |
| `swapchain_safety` | 4 invariants | 2 images, 2 slices, 2 layers a frame, both kinds, static or not, upscaled or not | 2,109,000 | holds |
| `swapchain_latest` | `LayersShowRelease`, a comment of `d3d11_native.cpp` | 3 images, direct | | violated |
| `actions_safety` | 5 invariants | 2 sets of one priority that an override changes, an action in each, one hand, 2 profiles, any number of sessions | 309,000 | holds |
| `spaces_safety` | 4 invariants | 2 threads, one of which creates and destroys, 2 addresses, 2 sessions, each tracker extension in turn | 848,000 | holds |
| `tracking_safety` | 5 invariants | applications of seven kinds, 2 heights, 3 times | 53,000 | holds |
| `runtime_safety` | 4 invariants, `CallsReturn` | 2 headsets, any number of instances, systems, sessions | 104,000 | holds under `FairSpec` |
| `runtime_latched` | `CapabilitiesLatched`, a comment of `system.cpp` | 2 headsets | | violated |
| `input_safety` | 3 invariants, `ChangesToldOnce` | every path of every profile, and ten applications | 340,000 | holds |

What they show, by the question a reviewer would ask:

*Frames.*  Indices reach OVR in order (`OvrCallOrder`), no frame names a swapchain that is gone (`SubmitsLiveSwapchains`),
the submission context has one user (`SubmissionContextExclusive`), nothing is shown twice, every call returns and every published frame
but the first is shown, with a submission thread that comes late, is skipped, or is told to end.
*Sessions.*  What the application hears is a walk through OpenXR's lifecycle over any number of sessions, and it hears of every recentering
and mask, and of every rate that changes while it has a session, once.  *Images.*  What a layer shows is the image released last, under the conditions of section 6.
*Actions.*  Sources are those of the profile in use, its change is announced, a set of higher priority wins, nothing else silences an
input, and the state of a synced set is a copy of the input.
*Handles.*  A registry lists what is allocated and nothing else, no call uses an object that is gone or has become
another, what belongs to a session ends with it, and no threads wait for one another for ever.
*Locations.*  What is called tracked is where the devices are; locations in different bases agree; hands are where the body data says; the floor is never made up, also when
stage tracking is turned on and off; the compositor gets the real distance of the eyes.
*Runtime.*  LibOVR has at most one session and one mirror texture, threads never outlive their session, the watcher reads a mapped
view, and destroying returns whatever state the window is in.
*Input.*  Every accepted path reads the control it is named for, a change is told exactly once to each asker, motors are on
only for a pulse that was not stopped while its controller was there, and an emulated controller shows nothing of the physical one.

### Why the bounds are enough

*FrameLoop.*  The calls compare counters that stay within one of each other (`OneFrameAhead`, proved), so three frames hold
every relation between them that any number does: first frame, a discarded one, and one after.  The second session
meets everything a first one leaves behind (flags, layers, a headless swapchain), and leaves the same again.  One
swapchain is created and destroyed as often as the application likes; the theorems cover any number of them.
*Session.*  The same holds for two sessions; the queue may hold two events at an `xrWaitFrame`, and grows beyond by what
one call adds (a request to exit while FOCUSED adds three), so that events of two sessions are queued together.
*Swapchain.*  A ring of two wraps at every other release, and `ahead` saturates at the length, so no counter is
bounded but `layers`: two layers are needed for a slice to be used twice.  Lengths 3 and more, and more slices, are
covered by the theorems of section 5.
*Actions.*  Nothing is counted, so sessions, syncs and suggestions go on without a bound.  Two sets suffice for one to win
and one to lose, to be left out, or to be destroyed and its handle used again while the other stays; an override
lowers either.  One action has two components of one index and one that has none.  One hand is enough for
the properties that hold, since they speak of one side or one index at a time; the theorems cover any number of each.
*Spaces.*  Two addresses are a handle and its base, or an object that dies and one that lives, and each is used again; two threads
are one that uses what the other changes (two that only use do not disturb one another), with the watcher as a third
for the locks.  The kinds of tracker share locks but no registry, so one at a time is enabled.  The theorems cover any number of each.
*Tracking.*  Two heights tell a cached pose from the current one, and three times are one without a prediction, and two that differ.  An
application of each kind locates what can disagree: all pairs of its spaces are located, in every state of the devices.
The eye height is switched while reference spaces and views are located, with which the floor is; the other applications have one or none
throughout, and the one with controllers LibOVR's origin at eye level, where stage spaces are not at 0.
*Runtime.*  Two headsets are one that is replaced by another; nothing is counted.
*Input.*  Halves distinguish "not", "partly" and "all the way", and both signs.  A generation is compared with the one told last, so two are
enough for "since then" and "not since then"; one application suggests every path of every profile in turn.

`CHECK_DEADLOCK FALSE` is set for `Swapchain`, which really stops after `xrDestroySwapchain`.  The others are checked for
deadlock; in `FrameLoop`, `Finished` is the one state where nothing is left to do.

## 4. Fairness

*FrameLoop.*  A thread inside a call, and the submission thread, keep running: weak fairness of their steps.  Steps that
take a mutex held across steps by another thread get strong fairness: Windows grants a slim lock at last to a thread that
keeps trying, although it promises no order.  OVR's `ovrError_NotInitialized` does not last for ever
(`SF_vars(AsyncWaitToBegin)`): without this `xrDestroySession` never returns, since the thread retries without looking
at `m_terminateAsyncThread`, which is hazard `frame.cpp:1117`.  `CallsReturn` does not cover that hazard: it assumes it away.  The application is never obliged to make a call, which
is why `WaitFrameReturns` (a part of `CallsReturn`) starts from a matching `xrBeginFrame`.

*Session.*  `ExitIsHeard` is a promise to an application that does its part: it polls, keeps its frame loop going while the
session runs, and calls `xrEndSession` when it hears STOPPING.  These are strong fairness of those calls, since between two
of them the application makes others.  The headset is under no fairness: it may come and go at every frame.

*Runtime.*  The application's thread inside a call, the watcher and the window's thread keep running: weak fairness of
each.  The user, the headset, the body data and the settings are under none.  `xrDestroySession` posts WM_CLOSE in a loop, so that no
strong fairness is needed for a message that was posted too late.

*Spaces* has no fairness: what it says of waiting is that no circle of waits exists (`NoCircularWait`), an invariant.

## 5. Proofs

The eight `_proof` modules are checked by TLAPS from nothing, for any values of the constants under these assumptions
only: the modes are sets of Booleans, the bounds are naturals, a ring has at least one image and a swapchain one slice,
priorities are naturals up to some number, the tables of bindings lead from known components to known inputs, heights,
times, scales and the distance between the eyes are numbers from 1 on, an application of `Input` is a `Setup`, and `Null` and
`None` are none of what they are told from (`MappingsAssumption`: none of the names a component may have).  Two theorems have
a hypothesis besides: `NoCircularWaitHolds` and `ChangesToldOnceHolds`, see below.

**FrameLoop_proof** proves the three invariants of `frame_loop`, `NoFrameShownTwice`, the refinement of `FrameContract`, and
four facts on the way: `OneFrameAhead`, `AsyncWaitsAfterFirstFrame`, `ThreadStartsOnce`, `AsyncIndexNotAhead`.  None of
these is inductive.  The strengthening `Inductive` says, for every position of a thread: the locks it holds
(`LockInv`), what that implies for the counters (`CounterInv`: while `xrWaitFrame` is away from the lock,
`m_frameBegun = m_frameWaited`, so no `xrBeginFrame` can move them), when the submission thread exists (`ThreadInv`), what
`m_layersForAsyncSubmission` holds between `xrEndFrame` and the thread (`HandOffInv`: once the thread has taken the layers its
own index is below theirs, so the unlocked read is never early; and no live swapchain is missing), what was published and
shown (`HistoryInv`) and the last indices OVR was given (`OvrInv`).  The key of the refinement is that `xrEndFrame` publishes
before it sets `m_frameCompleted`; `CompletedView` moves the contract's completion to the publication.

**Session_proof** proves the four invariants of `session_safety`, `StateIsAnnounced`, `RenderedFramesAreVisible`, and the
refinement of `SessionContract`.  `WalkInv` is the heart of it: the last event told, the queued ones and the current
state form one gapless walk, over session boundaries; `ExitInv` adds that a queued EXITING of the current session means
that it has ended.

**Swapchain_proof** proves type correctness, `NoImageTwice`, `ReleasedInOrder` and the four invariants of `swapchain_safety`.
`RingInv` locates every acquired index relative to `nextIndex`; `FollowInv` says that LibOVR's committed image is exactly as
many places behind the last released one as images were released since (`Behind`), modulo the length; `LatestInv` follows the
image released last through the copies made for the slices of the frame.  `AlphaInv` ties what is corrected to the clean
flags: while the frames since a release were all submitted and used the swapchain in one layer (`Tracked`), an image the
application draws into is corrected in exactly the slices whose flag says so, and no image but the one released last can
be touched (`PreprocessTouchesOne`).  `FreedOnce` is inductive as it stands, over the order in which slices are first used.

**Actions_proof** proves all invariants of `actions_safety`, and `NothingDangles` and `BindingsKnown`, on which they rest
(nothing names an action that was erased; a new action is in no suggestion and has no source, and a profile in use was
suggested).  Besides: `ActiveSourcesInv` (an action of an active set that is not attached has no source: this is what
makes a handle that is used again harmless); `CopyInv` and `PriorityInv`, the forms of `SyncedStateIsACopy` and
`HigherSetWins` that do not ask what can be read.  `Highest` and `UsedProfile` choose a greatest and a least number; that these exist
follows from the well-foundedness of the naturals (`LeastNumber`, `GreatestNumber`), as no proof by induction is available.

**Spaces_proof** proves type correctness, `RegistriesMatchHeap`, `NoUseAfterFree` and `HandlesTiedToSession` for any number
of threads and addresses.  They are inductive together with two facts about calls: `ExternalSync`, that what is being
destroyed is named by no other call (it is an assumption on the application when a call enters, and preserved from then on), and
`CallsInv`, that a call that creates has a session, and one that destroys has still what it looked up.  The lookup
is then good until the call returns: a new object is at an address that was free, an object that goes was named by
nobody else, and the session ends only when nobody is calling.  Of the locks nothing is needed but that what happens between
a lookup and a return does so under the rule: the theorem shows that the rule alone keeps looked-up handles good, and that the locks are there
for the containers.

It also proves `NoCircularWait` for any number of threads, under the hypothesis `~NestedEyeGaze`; without it
the property is false (§6).  The argument is one order of the locks: those of the trackers, then that of actions and spaces, then
`m_bodyStateMutex`.  `LockInv` says, at each point of a call, which of them it holds and that what is left to take comes later
(`CallLocks`); that `m_bodyStateMutex` is only ever taken shared by a thread, and dropped before it is taken again
(`UseSteps`); that the watcher takes this lock alone (`WatcherLocks`); and that the base of a gaze being looked up is a reference
space (`EyeBases`, for which `ExternalSync` is needed).  Who holds the last lock wants nothing, so nobody waits for it in a
circle; so nobody for the second, so nobody for the first (`OrderBreaksCircles`).  Writers that queue block later
readers, but a queued writer itself waits for a holder only, so that queues add no circle (`NobodyWaits`).

**Runtime_proof** proves type correctness and the four invariants of `runtime_safety`.  `Good` is the invariant of LibOVR's
record, which every function that may fail keeps in each of its outcomes, thrown ones included (a lemma per function);
`Owned` says at which point of `xrDestroySession` which thread is gone already; `Textures` that the mirror texture goes with its thread.

**Tracking_proof** proves type correctness and the five invariants of `tracking_safety`.  Three of these compare two or more
locations of one state, so most of the work is in lemmas about what `locateSpace` returns rather than in steps: where the origin
of each kind of space is (`OriginFacts`), that what is cached on the way to one space moves no other, so that the order in
which spaces are located does not matter (`OriginStable`), that two spaces of one origin are found as far apart as by the
longer way (`SameOriginFacts`), and that whatever is located leaves caches that were sound so (`CachesSound`).  `FloorInv` says of the caches what
`FloorNotMadeUp` needs: a cached head was seen, or is the 0 of a head that never was, which is never
taken for the floor's; and a floor that is kept is one of those heights or an eye height that LibOVR once had (`learnt`), over any
number of changes of stage tracking.  `EyesInv` says where the real distance between the eyes is kept while an application has
another one.

**Input_proof** proves type correctness and the four properties of `input_safety`.
`SourcesMatchTheirNames` is about tables: `SuggestedInv` says that every source is what `Mappings` makes of a path that was
accepted (nothing is bound before the sets are attached, and no suggestion is accepted after); `RemappedFacts` that the
remapping of each of the five profiles keeps hand and component and can be undone (`Original`), so that no two inputs of one
hand end at one control; `SourceFacts` that each of the thirteen kinds of sources reads the control that its name tells, and
that its index gives its control away.  For `EmulatedHidesPhysical` it is shown that overriding and gestures leave of the hand
they are for only what the helper polled, what the gestures press and the system button, and show nothing more of the other
hand (`SampledFacts`); that both are as they were at the set's last sync is kept in the history `synced`.  `ToldInv`, for `ChangesToldOnce`, is the invariant of the single
generation that is kept of each action: it never exceeds the one of the last answer, and is equal to it exactly when that
answer was a change.  The hypothesis is `OneAsker`: no application asks both for the state of an action as a whole and for
that of its left hand.  Without it the property is false (§6).  `VibInv` says that a motor
that is on has a pulse and is not an emulated controller's.  `HeardInv`, for `VibrationIsAsked`, relates what the application
asked for (by the bindings it suggested) to the bindings there are: all that is suggested for a controller that is
there is bound, and what has a pulse can be bound, so that a stop while the controller is there finds it.

**Only model-checked**: liveness, that is `CallsReturn` of `FrameLoop` and of `Runtime`, `PublishedFrameIsShown` and
`ExitIsHeard` (fairness is stated with ENABLED, which this prover does not reason about); and that the violated comments
are violated.  Every safety invariant and action property of a passing run is proved.

## 6. Findings

Each of these is a run that TLC finds violated.

1. *The first asynchronous frame may be dropped* (`frame_previous`).  "Make sure the previous frame finished submission"
   (`frame.cpp:388`): an empty queue also means that the thread has not begun its first frame.  If the first `xrEndFrame` publishes
   before the thread's first `clear()` (1138), the frame is lost.  `FrameContract` therefore allows one forfeited frame, the first,
   and the refinement shows that there is never another.
2. *A chain may be shown without a commit* (`swapchain_latest`): releasing exactly as many images as the chain has before the
   first frame that uses it looks like "already committed" (`d3d11_native.cpp:558`).
3. *Capabilities are latched again* (`runtime_latched`): "they are not allowed to change later during the lifetime of the system"
   (`system.cpp:536`), but every session of LibOVR that is made for another headset, or after an `xrGetSystem` that failed, does.

Eight more statements of comments are false, and have definitions in the modules.  They are not runs, because the
properties that hold besides them say more about the code.  To see one, make it the only INVARIANT of the named configuration:

| definition | configuration | what happens |
|---|---|---|
| `HeadlessSwapchainTiedToSession` | `FrameLoop.cfg` | `m_headlessSwapchain` is destroyed with its session and never set to null (`session.cpp:280`, 286) |
| `CleanIsPreprocessed` | `Swapchain_safety.cfg` | a copied swapchain loses its alpha correction from the second frame after a release on: the clean flag is the swapchain's, while the copy is made afresh in each frame (`frame.cpp:490`, 1003) |
| `StateIsACopy` | `Actions_safety.cfg` with `Suggestions <- MCTwoProfiles` | `xrSyncActions` replaces the active sets before it returns `XR_SESSION_NOT_FOCUSED` (`action.cpp:1077`) and copies the input after that; a set first named in such a call is read from memory never written (`runtime.h:438`) |
| `UncontestedIsRead` | `Actions_safety.cfg` with `Sides = {"left", "right"}` and `Suggestions <- MCEachHand` | hands share their priorities: a trigger, squeeze, stick or pose has one `ActionSourceIndex` for both, so a set of higher priority bound to the right trigger silences the left trigger of a lower one (`action.cpp:1084`, 1097) |
| `LocateReadsLiveSet` | `Spaces_safety.cfg` | actions of a destroyed set are kept for the sake of their action spaces (`action.cpp:211`), but what these read of the action is the set, which was deleted (`action.cpp:218`, `space.cpp:638`) |
| `SameTimeSamePose` | `Tracking_safety.cfg` | the pose kept for the same time is that of the last call to locate anything with the headset (`space.cpp:744`-758) |
| `FloatIsAbsoluteMaximum` | `Input_safety.cfg` with `Setups <- MCMoving` | of several sources the greatest value wins, not the greatest in size (`action.cpp:740`) |
| `StoppedIsStopped` | `Input_safety.cfg` with `Setups <- MCBuzzing` | "to avoid any haptics to continue infinitely" (`action.cpp:1614`): but `xrStopHapticFeedback` looks for hands among the bindings there are (1587), and those of a controller that has gone were erased (1637); the pulse is kept, and `xrSyncActions` (1251) has it go on when the controller is back |

And while writing the modules, without a comment to hold against it:

- *Trackers.*  With `NestedEyeGaze = TRUE`, `NoCircularWait` is violated: `xrGetEyeGazesFB` holds `m_bodyStateMutex` shared
  (`eye_tracking.cpp:124`) and takes it again to locate an action space (155); if the watcher has come to wait
  in between (`system.cpp:655`), neither goes on.  `m_faceTrackers2` and `m_bodyTrackers` outlive their session (`session.cpp:268`).
- *Sessions.*  A refresh rate that changes while there is no session, or is still to be told when one ends, may never be told: if
  LibOVR's session is made again for another headset, `initializeSystem` sets the rate and the reported rate together
  (`system.cpp:529`, 571).  `RateAnnounced` speaks of what the session that is created has learnt.
- *Locations.*  The joints of the body are located with the base's pose inverted twice (`body_tracking.cpp:228`, 246): wherever
  the base is not at the origin they are not where `xrLocateSpace` has it.  `JointsInPlace`, the counterpart of `HandsInPlace`, is
  violated as an invariant of `Tracking_safety.cfg`.  The floor that stage tracking had is kept when it is turned off, and the one inferred
  without it when it is turned on (`space.cpp:599`, 610).  A pose cached before the headset or a controller was ever seen is the identity, and valid (`space.cpp:758`,
  839).  A gaze is tracked though the headset is not (893).  Hand joints are always tracked.  `m_cachedBodyState` is that of the
  last session until the watcher copies.  The mutable caches are written under a shared lock.
- *Runtime.*  A throw after `ovr_Create` (`system.cpp:445`) leaves a session for which `initializeSystem` is never called; extensions
  are registered before an unknown one makes `xrCreateInstance` fail (`instance.cpp:239`); `m_isHeadless` is set before the call is refused.
- *Input.*  A bare left `menu` path is accepted and bound to nothing: the table of sources misspells it (`mappings.cpp:680`); ten profiles accept
  no bare right-hand A, B or System for the same reason; syncing one side only leaves the physical inputs of an emulated other
  side in the copy (`action.cpp:1113`); a sync without focus leaves haptics as they were (1077); an application that asks for an action
  both without a subaction path and for the left hand has one last value for the two (`action.cpp:596`): who asks first is told of a change, and
  the other may be told of none, or of one that it has seen.  `ChangesToldOnce` is violated with `queries = {None, Left}` in an
  application of `Moving`.

`SyncedStateIsACopy`, `HigherSetWins` and `VibrationIsAsked` state what holds besides `StateIsACopy`, `UncontestedIsRead` and `StoppedIsStopped`.  After a call that changed the
bindings (`sync = "rebound"`) neither `HigherSetWins` nor `NoInputLost` is claimed: the priorities were computed before the rebinding,
so freshly bound actions have to wait for the next call.  `ShownIsLatest` and `CorrectedOnce` state what does hold of images,
with the conditions these cases leave: slice 0 used first and committed to once, and no other layer of the same frame
upscaling the slice; every frame since the release submitted and using the image in one layer.  `TrackedIsNow` leaves out
gazes without a headset; `HandlesTiedToSession` speaks of the kinds that the code deletes.

## 7. Plan

The modules were written in the order of what matters most to an application: frames, sessions, images, actions, then
handles, locations, the runtime's own life, and input.  All modules of the plan exist.  What would come next:

1. **Composition**: `FrameLoop`, `Session` and `Runtime` share `xrDestroySession`; each has its part of it, in the code's order,
   and none has all.  Composed, the three joins would be checked in one behaviour.
2. **Interop**: the fence values by which the application's device and the runtime's take turns, if the drivers'
   side is assumed.
3. **Threads**: `Session` has one application thread.  The registry watcher's write of `m_visibilityMaskDirty` (`session.cpp:547`)
   between the test and the decrement of `xrPollEvent` is a data race that only a step of its own would show.

## 8. Not modelled, and why

Listed with their reasons in `PROJECT.json`.  In short: rotations, velocities and filters (real numbers), shaders and
drawing (GPU), graphics interop (its state is in drivers), generated dispatch code, OS queries, tools and installers (not
part of the runtime), LibOVR (external, modelled where the runtime uses it).  The view jiggle and all timers are left
out of `FrameLoop`; names of bound sources and the bindings of Vive trackers out of `Actions` and `Input`; the poses
that the helper emulates and the recorded sequences its game pad plays out of `Input`.  Settings that the registry watcher changes at run
time are free choices where they steer a modelled branch (`WaitFrameNotIdle`, the mirror window, gestures); its data
races are listed as hazards, and one of them has no property: `m_visibilityMaskDirty` (`session.cpp:547`), which `Session` models for a
single thread.

## 9. Running it

    tlc -workers 2 -config FrameLoop.cfg FrameLoop
    tlc -workers 2 -config Spaces_safety.cfg MCSpaces
    tlapm FrameLoop_proof.tla

The module of each configuration is in `PROJECT.json`, under `runs`.
