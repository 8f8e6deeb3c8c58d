------------------------------ MODULE FrameLoop ------------------------------
(***************************************************************************)
(* The frame loop of the runtime: xrWaitFrame, xrBeginFrame and xrEndFrame  *)
(* (frame.cpp), the asynchronous submission thread they feed, and the calls *)
(* that pull resources from under them: xrDestroySwapchain (swapchain.cpp)  *)
(* and xrDestroySession (session.cpp).                                      *)
(*                                                                         *)
(* Four threads run.  OpenXR makes the application serialise its calls to   *)
(* xrWaitFrame, and its calls to xrBeginFrame/xrEndFrame, but lets the two  *)
(* groups run on different threads: "sim" waits for frames, "render" begins *)
(* and ends them, "ctl" makes the session and swapchain calls, and "async"  *)
(* is the runtime's own asyncSubmissionThread().                            *)
(*                                                                         *)
(* A step of a thread is what it does between two points where another      *)
(* thread can be seen: a lock, a wait on a condition variable, a blocking   *)
(* call to OVR, or an unlocked access to a shared member.  m_asyncSubmission*)
(* Mutex is only ever held for one such step, so it needs no variable;      *)
(* m_frameMutex and m_swapchainsMutex are held across steps and have one.   *)
(* A thread asleep on a condition variable is in frameWaiters or            *)
(* asyncWaiters until a notify_all() takes it out.                          *)
(***************************************************************************)
EXTENDS Naturals

CONSTANTS
    Swapchains,   (* the swapchain handles the application may create        *)
    AsyncModes,   (* the values xrBeginSession may compute for               *)
                  (* m_useAsyncSubmission                                    *)
    MaxFrames,    (* bound: frames waited for in a session                   *)
    MaxSessions   (* bound: sessions created in the life of the instance     *)

ASSUME AsyncModesAssumption == AsyncModes \in SUBSET BOOLEAN
ASSUME BoundsAssumption == MaxFrames \in Nat /\ MaxSessions \in Nat

VARIABLES
    session,        (* none, created, running (begun), ended (IDLE or        *)
                    (* EXITING after xrEndSession), closing (being destroyed)*)
    sessions,       (* how many sessions were created so far                 *)
    useAsync,       (* m_useAsyncSubmission                                  *)
    needStart,      (* m_needStartAsyncSubmissionThread                      *)
    terminate,      (* m_terminateAsyncThread                                *)
    frameWaited,    (* m_frameWaited                                         *)
    frameBegun,     (* m_frameBegun                                          *)
    frameCompleted, (* m_frameCompleted                                      *)
    frameMutex,     (* who holds m_frameMutex, or "free"                     *)
    frameWaiters,   (* threads asleep on m_frameCondVar                      *)
    swapchainsMutex,(* who holds m_swapchainsMutex, or "free"                *)
    swapchains,     (* m_swapchains                                          *)
    layers,         (* m_layersForAsyncSubmission: 0 when empty, otherwise   *)
                    (* the frame whose layers it holds                       *)
    layersUse,      (* the swapchains those layers refer to                  *)
    asyncWaiters,   (* threads asleep on m_asyncSubmissionCondVar            *)
    asyncFrameId,   (* ovrFrameId, the local of asyncSubmissionThread()      *)
    headless,       (* m_headlessSwapchain: the session it was created in,   *)
                    (* 0 when null                                           *)
    victim,         (* the swapchains xrDestroySwapchain is destroying       *)
    simPc, renderPc, ctlPc, asyncPc,
    ovrWaited, ovrBegun, ovrEnded,
                    (* one more than the last frame index OVR was given by   *)
                    (* ovr_WaitToBeginFrame, ovr_BeginFrame, ovr_EndFrame    *)
    (* History, read by no guard: *)
    published,      (* the last frame whose layers xrEndFrame handed over    *)
    shown,          (* the last frame whose layers reached ovr_EndFrame      *)
    forfeits        (* how many frames were handed over and never shown      *)

sessionVars == <<session, sessions, useAsync, needStart, headless>>
counterVars == <<frameWaited, frameBegun, frameCompleted>>
frameLockVars == <<frameMutex, frameWaiters>>
swapchainVars == <<swapchainsMutex, swapchains, victim>>
asyncVars == <<layers, layersUse, asyncWaiters, asyncFrameId, terminate>>
ovrVars == <<ovrWaited, ovrBegun, ovrEnded>>
historyVars == <<published, shown, forfeits>>
pcVars == <<simPc, renderPc, ctlPc, asyncPc>>

vars == <<sessionVars, counterVars, frameLockVars, swapchainVars, asyncVars,
          ovrVars, historyVars, pcVars>>

Threads == {"sim", "render", "ctl", "async"}

TypeOK ==
    /\ session \in {"none", "created", "running", "ended", "closing"}
    /\ sessions \in Nat
    /\ useAsync \in BOOLEAN /\ needStart \in BOOLEAN /\ terminate \in BOOLEAN
    /\ frameWaited \in Nat /\ frameBegun \in Nat /\ frameCompleted \in Nat
    /\ frameMutex \in {"free", "sim", "render"}
    /\ frameWaiters \in SUBSET {"sim"}
    /\ swapchainsMutex \in {"free", "render", "ctl"}
    /\ swapchains \in SUBSET Swapchains
    /\ victim \in SUBSET Swapchains
    /\ layers \in Nat /\ layersUse \in SUBSET Swapchains
    /\ asyncWaiters \in SUBSET Threads
    /\ asyncFrameId \in Nat
    /\ headless \in Nat
    /\ simPc \in {"idle", "lock", "ovrWait", "relock", "asyncIdle"}
    /\ renderPc \in {"idle", "begin", "endSwapchains", "endFrame", "asyncIdle",
                     "compose", "complete"}
    /\ ctlPc \in {"idle", "asyncIdle", "destroy", "join", "teardown"}
    /\ asyncPc \in {"none", "loop", "waitToBegin", "begin", "handOff",
                    "awaitFrame", "woken", "endFrame", "done"}
    /\ ovrWaited \in Nat /\ ovrBegun \in Nat /\ ovrEnded \in Nat
    /\ published \in Nat /\ shown \in Nat /\ forfeits \in Nat

Init ==
    /\ session = "none" /\ sessions = 0
    /\ useAsync = FALSE /\ needStart = FALSE /\ terminate = FALSE
    /\ frameWaited = 0 /\ frameBegun = 0 /\ frameCompleted = 0
    /\ frameMutex = "free" /\ frameWaiters = {}
    /\ swapchainsMutex = "free" /\ swapchains = {} /\ victim = {}
    /\ layers = 0 /\ layersUse = {} /\ asyncWaiters = {} /\ asyncFrameId = 0
    /\ headless = 0
    /\ simPc = "idle" /\ renderPc = "idle" /\ ctlPc = "idle" /\ asyncPc = "none"
    /\ ovrWaited = 0 /\ ovrBegun = 0 /\ ovrEnded = 0
    /\ published = 0 /\ shown = 0 /\ forfeits = 0

-----------------------------------------------------------------------------
(* The pieces the calls are built from.                                      *)

(* The predicate xrWaitFrame waits for on m_frameCondVar. *)
BeginMatchesWait == frameBegun = frameWaited

(* There is a begun frame for xrEndFrame to complete. *)
Mutant_FrameToEnd == TRUE
FrameToEnd == frameBegun # frameCompleted

(* One more than the index the application's threads give ovr_EndFrame. *)
Mutant_OvrEndIndex == frameWaited
OvrEndIndex == frameBegun

(* m_frameCondVar.notify_all() *)
Mutant_NotifyFrame == UNCHANGED frameWaiters
NotifyFrame == frameWaiters' = {}

(* m_asyncSubmissionCondVar.notify_all() *)
Mutant_NotifyAsync == UNCHANGED asyncWaiters
NotifyAsync == asyncWaiters' = {}

(* The test by which xrDestroySwapchain and xrDestroySession decide that     *)
(* there is a submission thread to wait for.                                 *)
Mutant_SubmissionThreadRuns == useAsync /\ needStart
SubmissionThreadRuns == useAsync /\ ~needStart

(* waitForAsyncSubmissionIdle(), for thread t: sleep on the condition        *)
(* variable while there are layers, return when there are none.              *)

IdleWaitSleeps(t) ==
    /\ t \notin asyncWaiters
    /\ layers # 0
    /\ asyncWaiters' = asyncWaiters \cup {t}

Mutant_IdleWaitReturns(t) == t \notin asyncWaiters
IdleWaitReturns(t) ==
    /\ t \notin asyncWaiters
    /\ layers = 0

-----------------------------------------------------------------------------
(* xrWaitFrame *)

WaitFrameEnter ==
    /\ simPc = "idle"
    /\ session = "running"
    /\ frameWaited < MaxFrames
    /\ simPc' = "lock"
    /\ UNCHANGED <<sessionVars, counterVars, frameLockVars, swapchainVars,
                   asyncVars, ovrVars, historyVars, renderPc, ctlPc, asyncPc>>

(* The wait for xrBeginFrame to match the previous xrWaitFrame. *)
WaitFrameSleep ==
    /\ simPc = "lock"
    /\ frameMutex = "free"
    /\ "sim" \notin frameWaiters
    /\ ~BeginMatchesWait
    /\ frameWaiters' = frameWaiters \cup {"sim"}
    /\ UNCHANGED <<sessionVars, counterVars, frameMutex, swapchainVars,
                   asyncVars, ovrVars, historyVars, pcVars>>

(* The submission thread is started by the first xrWaitFrame. *)
StartSubmissionThread ==
    IF needStart
    THEN terminate' = FALSE /\ asyncPc' = "loop" /\ needStart' = FALSE
    ELSE UNCHANGED <<terminate, asyncPc, needStart>>

(* m_frameMutex is held and xrBeginFrame has matched: create the swapchain   *)
(* OVR needs, start the submission thread when it is due, and go on to wait  *)
(* for OVR (without the lock) or for the submission thread (with the lock).  *)
WaitFrameMatched ==
    /\ simPc = "lock"
    /\ frameMutex = "free"
    /\ "sim" \notin frameWaiters
    /\ BeginMatchesWait
    /\ headless' = IF frameWaited = 0 THEN sessions ELSE headless
    /\ StartSubmissionThread
    /\ IF useAsync
       THEN simPc' = "asyncIdle" /\ frameMutex' = "sim"
       ELSE simPc' = "ovrWait" /\ UNCHANGED frameMutex
    /\ UNCHANGED <<session, sessions, useAsync, counterVars, frameWaiters,
                   swapchainVars, layers, layersUse, asyncWaiters,
                   asyncFrameId, ovrVars, historyVars, renderPc, ctlPc>>

(* Synchronous submission: ovr_WaitToBeginFrame, m_frameMutex released. *)
WaitFrameOvrWait ==
    /\ simPc = "ovrWait"
    /\ ovrWaited' = frameWaited + 1
    /\ simPc' = "relock"
    /\ UNCHANGED <<sessionVars, counterVars, frameLockVars, swapchainVars,
                   asyncVars, ovrBegun, ovrEnded, historyVars, renderPc, ctlPc,
                   asyncPc>>

(* OVR fails: xrWaitFrame returns an error and the counters stay. *)
WaitFrameOvrFails ==
    /\ simPc = "ovrWait"
    /\ simPc' = "idle"
    /\ UNCHANGED <<sessionVars, counterVars, frameLockVars, swapchainVars,
                   asyncVars, ovrVars, historyVars, renderPc, ctlPc, asyncPc>>

WaitFrameRelock ==
    /\ simPc = "relock"
    /\ frameMutex = "free"
    /\ frameWaited' = frameWaited + 1
    /\ simPc' = "idle"
    /\ UNCHANGED <<sessionVars, frameBegun, frameCompleted, frameLockVars,
                   swapchainVars, asyncVars, ovrVars, historyVars, renderPc,
                   ctlPc, asyncPc>>

(* Asynchronous submission: wait for the submission thread. *)
WaitFrameIdleSleep ==
    /\ simPc = "asyncIdle"
    /\ IdleWaitSleeps("sim")
    /\ UNCHANGED <<sessionVars, counterVars, frameLockVars, swapchainVars,
                   layers, layersUse, asyncFrameId, terminate, ovrVars,
                   historyVars, pcVars>>

WaitFrameIdle ==
    /\ simPc = "asyncIdle"
    /\ IdleWaitReturns("sim")
    /\ frameWaited' = frameWaited + 1
    /\ frameMutex' = "free"
    /\ simPc' = "idle"
    /\ UNCHANGED <<sessionVars, frameBegun, frameCompleted, frameWaiters,
                   swapchainVars, asyncVars, ovrVars, historyVars, renderPc,
                   ctlPc, asyncPc>>

(* m_useDeferredFrameWait skips the wait, m_useRunningStart makes it time    *)
(* out: either way xrWaitFrame goes on with layers still pending.            *)
WaitFrameNotIdle ==
    /\ simPc = "asyncIdle"
    /\ layers # 0
    /\ asyncWaiters' = asyncWaiters \ {"sim"}
    /\ frameWaited' = frameWaited + 1
    /\ frameMutex' = "free"
    /\ simPc' = "idle"
    /\ UNCHANGED <<sessionVars, frameBegun, frameCompleted, frameWaiters,
                   swapchainVars, layers, layersUse, asyncFrameId, terminate,
                   ovrVars, historyVars, renderPc, ctlPc, asyncPc>>

WaitFrame ==
    \/ WaitFrameEnter \/ WaitFrameSleep \/ WaitFrameMatched
    \/ WaitFrameOvrWait \/ WaitFrameOvrFails \/ WaitFrameRelock
    \/ WaitFrameIdleSleep \/ WaitFrameIdle \/ WaitFrameNotIdle

-----------------------------------------------------------------------------
(* xrBeginFrame *)

BeginFrameEnter ==
    /\ renderPc = "idle"
    /\ session = "running"
    /\ renderPc' = "begin"
    /\ UNCHANGED <<sessionVars, counterVars, frameLockVars, swapchainVars,
                   asyncVars, ovrVars, historyVars, simPc, ctlPc, asyncPc>>

BeginFrameOutOfOrder ==
    frameWaited = frameCompleted \/ frameBegun = frameWaited

(* The previous frame is over; otherwise this call forfeits it and returns   *)
(* XR_FRAME_DISCARDED.                                                       *)
BeginFrameMatchesEnd ==
    frameBegun # frameWaited /\ frameWaited = frameCompleted + 1

BeginFrameFails ==
    /\ renderPc = "begin"
    /\ frameMutex = "free"
    /\ BeginFrameOutOfOrder
    /\ renderPc' = "idle"
    /\ UNCHANGED <<sessionVars, counterVars, frameLockVars, swapchainVars,
                   asyncVars, ovrVars, historyVars, simPc, ctlPc, asyncPc>>

(* All of xrBeginFrame runs under m_frameMutex.  Its wait on m_frameCondVar  *)
(* for xrEndFrame is the second disjunct's guard: until it holds, the thread *)
(* stays where it is.                                                        *)
BeginFrameSucceeds ==
    /\ renderPc = "begin"
    /\ frameMutex = "free"
    /\ ~BeginFrameOutOfOrder
    /\ BeginFrameMatchesEnd => frameCompleted = frameBegun
    /\ ovrBegun' = IF useAsync THEN ovrBegun ELSE frameWaited
    /\ frameBegun' = frameWaited
    /\ NotifyFrame
    /\ renderPc' = "idle"
    /\ UNCHANGED <<sessionVars, frameWaited, frameCompleted, frameMutex,
                   swapchainVars, asyncVars, ovrWaited, ovrEnded, historyVars,
                   simPc, ctlPc, asyncPc>>

(* ovr_BeginFrame fails, before m_frameBegun is written. *)
BeginFrameOvrFails ==
    /\ renderPc = "begin"
    /\ frameMutex = "free"
    /\ ~BeginFrameOutOfOrder
    /\ BeginFrameMatchesEnd => frameCompleted = frameBegun
    /\ ~useAsync
    /\ renderPc' = "idle"
    /\ UNCHANGED <<sessionVars, counterVars, frameLockVars, swapchainVars,
                   asyncVars, ovrVars, historyVars, simPc, ctlPc, asyncPc>>

BeginFrame ==
    \/ BeginFrameEnter \/ BeginFrameFails \/ BeginFrameSucceeds
    \/ BeginFrameOvrFails

-----------------------------------------------------------------------------
(* xrEndFrame *)

EndFrameEnter ==
    /\ renderPc = "idle"
    /\ session = "running"
    /\ renderPc' = "endSwapchains"
    /\ UNCHANGED <<sessionVars, counterVars, frameLockVars, swapchainVars,
                   asyncVars, ovrVars, historyVars, simPc, ctlPc, asyncPc>>

EndFrameLockSwapchains ==
    /\ renderPc = "endSwapchains"
    /\ swapchainsMutex = "free"
    /\ swapchainsMutex' = "render"
    /\ renderPc' = "endFrame"
    /\ UNCHANGED <<sessionVars, counterVars, frameLockVars, swapchains, victim,
                   asyncVars, ovrVars, historyVars, simPc, ctlPc, asyncPc>>

EndFrameOutOfOrder ==
    /\ renderPc = "endFrame"
    /\ frameMutex = "free"
    /\ ~FrameToEnd
    /\ swapchainsMutex' = "free"
    /\ renderPc' = "idle"
    /\ UNCHANGED <<sessionVars, counterVars, frameLockVars, swapchains, victim,
                   asyncVars, ovrVars, historyVars, simPc, ctlPc, asyncPc>>

EndFrameLockFrame ==
    /\ renderPc = "endFrame"
    /\ frameMutex = "free"
    /\ FrameToEnd
    /\ frameMutex' = "render"
    /\ renderPc' = IF useAsync THEN "asyncIdle" ELSE "compose"
    /\ UNCHANGED <<sessionVars, counterVars, frameWaiters, swapchainVars,
                   asyncVars, ovrVars, historyVars, simPc, ctlPc, asyncPc>>

EndFrameIdleSleep ==
    /\ renderPc = "asyncIdle"
    /\ IdleWaitSleeps("render")
    /\ UNCHANGED <<sessionVars, counterVars, frameLockVars, swapchainVars,
                   layers, layersUse, asyncFrameId, terminate, ovrVars,
                   historyVars, pcVars>>

EndFrameIdle ==
    /\ renderPc = "asyncIdle"
    /\ IdleWaitReturns("render")
    /\ renderPc' = "compose"
    /\ UNCHANGED <<sessionVars, counterVars, frameLockVars, swapchainVars,
                   asyncVars, ovrVars, historyVars, simPc, ctlPc, asyncPc>>

(* A layer is invalid, or OVR fails: xrEndFrame returns and the frame stays  *)
(* begun.                                                                    *)
EndFrameFails ==
    /\ renderPc = "compose"
    /\ frameMutex' = "free"
    /\ swapchainsMutex' = "free"
    /\ renderPc' = "idle"
    /\ UNCHANGED <<sessionVars, counterVars, frameWaiters, swapchains, victim,
                   asyncVars, ovrVars, historyVars, simPc, ctlPc, asyncPc>>

(* Synchronous submission: ovr_EndFrame(m_frameBegun - 1). *)
EndFrameSubmit ==
    /\ renderPc = "compose"
    /\ ~useAsync
    /\ ovrEnded' = OvrEndIndex
    /\ published' = frameBegun
    /\ shown' = frameBegun
    /\ renderPc' = "complete"
    /\ UNCHANGED <<sessionVars, counterVars, frameLockVars, swapchainVars,
                   asyncVars, ovrWaited, ovrBegun, forfeits, simPc, ctlPc,
                   asyncPc>>

(* Asynchronous submission: hand the layers over.  Each refers to swapchains *)
(* that were looked up in m_swapchains.                                      *)
EndFramePublish ==
    /\ renderPc = "compose"
    /\ useAsync
    /\ layers' = frameBegun
    /\ layersUse' \in SUBSET swapchains
    /\ NotifyAsync
    /\ published' = frameBegun
    /\ renderPc' = "complete"
    /\ UNCHANGED <<sessionVars, counterVars, frameLockVars, swapchainVars,
                   asyncFrameId, terminate, ovrVars, shown, forfeits, simPc,
                   ctlPc, asyncPc>>

EndFrameComplete ==
    /\ renderPc = "complete"
    /\ frameCompleted' = frameBegun
    /\ NotifyFrame
    /\ frameMutex' = "free"
    /\ swapchainsMutex' = "free"
    /\ renderPc' = "idle"
    /\ UNCHANGED <<sessionVars, frameWaited, frameBegun, swapchains, victim,
                   asyncVars, ovrVars, historyVars, simPc, ctlPc, asyncPc>>

EndFrame ==
    \/ EndFrameEnter \/ EndFrameLockSwapchains \/ EndFrameOutOfOrder
    \/ EndFrameLockFrame \/ EndFrameIdleSleep \/ EndFrameIdle
    \/ EndFrameFails \/ EndFrameSubmit \/ EndFramePublish
    \/ EndFrameComplete

-----------------------------------------------------------------------------
(* asyncSubmissionThread() *)

(* m_frameCompleted, read without m_frameMutex. *)
NextOvrFrameId == frameCompleted

AsyncReadFrameId ==
    /\ asyncPc = "loop"
    /\ asyncFrameId' = NextOvrFrameId
    /\ asyncPc' = "waitToBegin"
    /\ UNCHANGED <<sessionVars, counterVars, frameLockVars, swapchainVars,
                   layers, layersUse, asyncWaiters, terminate, ovrVars,
                   historyVars, simPc, renderPc, ctlPc>>

(* ovr_WaitToBeginFrame succeeds or times out: a timeout is only logged. *)
AsyncWaitToBegin ==
    /\ asyncPc = "waitToBegin"
    /\ ovrWaited' = asyncFrameId + 1
    /\ asyncPc' = "begin"
    /\ UNCHANGED <<sessionVars, counterVars, frameLockVars, swapchainVars,
                   asyncVars, ovrBegun, ovrEnded, historyVars, simPc, renderPc,
                   ctlPc>>

(* ovrError_NotInitialized: try again, whatever m_terminateAsyncThread says. *)
AsyncNotInitialized ==
    /\ asyncPc = "waitToBegin"
    /\ asyncPc' = "loop"
    /\ UNCHANGED <<sessionVars, counterVars, frameLockVars, swapchainVars,
                   asyncVars, ovrVars, historyVars, simPc, renderPc, ctlPc>>

AsyncBegin ==
    /\ asyncPc = "begin"
    /\ ovrBegun' = asyncFrameId + 1
    /\ asyncPc' = "handOff"
    /\ UNCHANGED <<sessionVars, counterVars, frameLockVars, swapchainVars,
                   asyncVars, ovrWaited, ovrEnded, historyVars, simPc,
                   renderPc, ctlPc>>

Mutant_ClearLayers == UNCHANGED <<layers, layersUse>>
ClearLayers == layers' = 0 /\ layersUse' = {}

(* Who is asleep after the notify_all() and the wait that follows it, whose  *)
(* predicate is tested before the thread sleeps.                             *)
AsleepAfterHandOff == IF terminate \/ layers' # 0 THEN {} ELSE {"async"}

(* Under m_asyncSubmissionMutex: clear the layers, notify, and wait.  What   *)
(* is cleared was submitted, or is lost, or is left from an earlier session. *)
AsyncHandOff ==
    /\ asyncPc = "handOff"
    /\ ClearLayers
    /\ asyncWaiters' = AsleepAfterHandOff
    /\ asyncPc' = "awaitFrame"
    /\ forfeits' = IF published > shown THEN forfeits + 1 ELSE forfeits
    /\ UNCHANGED <<sessionVars, counterVars, frameLockVars, swapchainVars,
                   asyncFrameId, terminate, ovrVars, published, shown, simPc,
                   renderPc, ctlPc>>

AsyncWake ==
    /\ asyncPc = "awaitFrame"
    /\ "async" \notin asyncWaiters
    /\ terminate \/ layers # 0
    /\ asyncPc' = "woken"
    /\ UNCHANGED <<sessionVars, counterVars, frameLockVars, swapchainVars,
                   asyncVars, ovrVars, historyVars, simPc, renderPc, ctlPc>>

(* m_terminateAsyncThread is read again, after the mutex is released. *)
AsyncTerminate ==
    /\ asyncPc = "woken"
    /\ terminate
    /\ asyncPc' = "done"
    /\ UNCHANGED <<sessionVars, counterVars, frameLockVars, swapchainVars,
                   asyncVars, ovrVars, historyVars, simPc, renderPc, ctlPc>>

AsyncTakeLayers ==
    /\ asyncPc = "woken"
    /\ ~terminate
    /\ asyncPc' = "endFrame"
    /\ UNCHANGED <<sessionVars, counterVars, frameLockVars, swapchainVars,
                   asyncVars, ovrVars, historyVars, simPc, renderPc, ctlPc>>

(* ovr_EndFrame(ovrFrameId, layers), reading m_layersForAsyncSubmission in   *)
(* place.                                                                    *)
AsyncEndFrame ==
    /\ asyncPc = "endFrame"
    /\ ovrEnded' = asyncFrameId + 1
    /\ shown' = layers
    /\ asyncPc' = "loop"
    /\ UNCHANGED <<sessionVars, counterVars, frameLockVars, swapchainVars,
                   asyncVars, ovrWaited, ovrBegun, published, forfeits, simPc,
                   renderPc, ctlPc>>

AsyncSubmission ==
    \/ AsyncReadFrameId \/ AsyncWaitToBegin \/ AsyncNotInitialized \/ AsyncBegin
    \/ AsyncHandOff \/ AsyncWake \/ AsyncTerminate \/ AsyncTakeLayers
    \/ AsyncEndFrame

-----------------------------------------------------------------------------
(* Session and swapchain calls *)

CreateSession ==
    /\ ctlPc = "idle"
    /\ session = "none"
    /\ sessions < MaxSessions
    /\ session' = "created"
    /\ sessions' = sessions + 1
    /\ frameWaited' = 0 /\ frameBegun' = 0 /\ frameCompleted' = 0
    /\ published' = 0 /\ shown' = 0 /\ forfeits' = 0
    /\ UNCHANGED <<useAsync, needStart, headless, frameLockVars, swapchainVars,
                   asyncVars, ovrVars, pcVars>>

BeginSession ==
    /\ ctlPc = "idle"
    /\ session = "created"
    /\ session' = "running"
    /\ useAsync' \in AsyncModes
    /\ needStart' = useAsync'
    /\ UNCHANGED <<sessions, headless, counterVars, frameLockVars,
                   swapchainVars, asyncVars, ovrVars, historyVars, pcVars>>

(* xrEndSession takes the state to IDLE and EXITING: no frame call may start *)
(* any more, those that have started go on.  It needs STOPPING, which only a *)
(* headless session (never asynchronous) reaches without a completed frame.  *)
EndSession ==
    /\ ctlPc = "idle"
    /\ session = "running"
    /\ useAsync => frameCompleted > 0
    /\ session' = "ended"
    /\ UNCHANGED <<sessions, useAsync, needStart, headless, counterVars,
                   frameLockVars, swapchainVars, asyncVars, ovrVars,
                   historyVars, pcVars>>

CreateSwapchain ==
    /\ ctlPc = "idle"
    /\ session # "none"
    /\ swapchainsMutex = "free"
    /\ \E s \in Swapchains \ swapchains : swapchains' = swapchains \cup {s}
    /\ UNCHANGED <<sessionVars, counterVars, frameLockVars, swapchainsMutex,
                   victim, asyncVars, ovrVars, historyVars, pcVars>>

(* xrDestroySwapchain, called by the application or, for every swapchain     *)
(* left, by xrDestroySession.  It keeps m_swapchainsMutex while it waits.    *)
DestroySwapchainEnter ==
    /\ ctlPc = "idle" \/ ctlPc = "teardown"
    /\ swapchainsMutex = "free"
    /\ \E s \in swapchains : victim' = {s}
    /\ swapchainsMutex' = "ctl"
    /\ ctlPc' = IF SubmissionThreadRuns THEN "asyncIdle" ELSE "destroy"
    /\ UNCHANGED <<sessionVars, counterVars, frameLockVars, swapchains,
                   asyncVars, ovrVars, historyVars, simPc, renderPc, asyncPc>>

DestroySwapchainIdleSleep ==
    /\ ctlPc = "asyncIdle"
    /\ IdleWaitSleeps("ctl")
    /\ UNCHANGED <<sessionVars, counterVars, frameLockVars, swapchainVars,
                   layers, layersUse, asyncFrameId, terminate, ovrVars,
                   historyVars, pcVars>>

DestroySwapchainIdle ==
    /\ ctlPc = "asyncIdle"
    /\ IdleWaitReturns("ctl")
    /\ ctlPc' = "destroy"
    /\ UNCHANGED <<sessionVars, counterVars, frameLockVars, swapchainVars,
                   asyncVars, ovrVars, historyVars, simPc, renderPc, asyncPc>>

(* session = "closing" tells the caller: xrDestroySession goes on with the   *)
(* next swapchain.                                                           *)
DestroySwapchain ==
    /\ ctlPc = "destroy"
    /\ swapchains' = swapchains \ victim
    /\ victim' = {}
    /\ swapchainsMutex' = "free"
    /\ ctlPc' = IF session = "closing" THEN "teardown" ELSE "idle"
    /\ UNCHANGED <<sessionVars, counterVars, frameLockVars, asyncVars, ovrVars,
                   historyVars, simPc, renderPc, asyncPc>>

(* The application may not use a handle while it destroys it, so no frame    *)
(* call is under way when xrDestroySession starts, and none starts before it *)
(* returns.                                                                  *)
DestroySession ==
    /\ ctlPc = "idle"
    /\ session # "none"
    /\ simPc = "idle" /\ renderPc = "idle"
    /\ session' = "closing"
    /\ IF SubmissionThreadRuns
       THEN /\ terminate' = TRUE
            /\ NotifyAsync
            /\ ctlPc' = "join"
       ELSE /\ ctlPc' = "teardown"
            /\ UNCHANGED <<terminate, asyncWaiters>>
    /\ UNCHANGED <<sessions, useAsync, needStart, headless, counterVars,
                   frameLockVars, swapchainVars, layers, layersUse,
                   asyncFrameId, ovrVars, historyVars, simPc, renderPc,
                   asyncPc>>

DestroySessionJoin ==
    /\ ctlPc = "join"
    /\ asyncPc = "done"
    /\ asyncPc' = "none"
    /\ needStart' = TRUE
    /\ ctlPc' = "teardown"
    /\ UNCHANGED <<session, sessions, useAsync, headless, counterVars,
                   frameLockVars, swapchainVars, asyncVars, ovrVars,
                   historyVars, simPc, renderPc>>

(* The swapchains are gone: m_headlessSwapchain is destroyed if it is not    *)
(* null (and stays as it is), the session is reset, ovr_Destroy ends the OVR *)
(* session.                                                                  *)
DestroySessionDone ==
    /\ ctlPc = "teardown"
    /\ swapchains = {}
    /\ session' = "none"
    /\ ovrWaited' = 0 /\ ovrBegun' = 0 /\ ovrEnded' = 0
    /\ ctlPc' = "idle"
    /\ UNCHANGED <<sessions, useAsync, needStart, headless, counterVars,
                   frameLockVars, swapchainVars, asyncVars, historyVars, simPc,
                   renderPc, asyncPc>>

SessionCalls ==
    \/ CreateSession \/ BeginSession \/ EndSession
    \/ CreateSwapchain
    \/ DestroySwapchainEnter \/ DestroySwapchainIdleSleep
    \/ DestroySwapchainIdle \/ DestroySwapchain
    \/ DestroySession \/ DestroySessionJoin \/ DestroySessionDone

-----------------------------------------------------------------------------

(* Nothing is left to call when the bounds are reached. *)
Finished ==
    /\ session = "none" /\ sessions = MaxSessions /\ ctlPc = "idle"
    /\ UNCHANGED vars

Next == WaitFrame \/ BeginFrame \/ EndFrame \/ AsyncSubmission \/ SessionCalls
            \/ Finished

Spec == Init /\ [][Next]_vars

-----------------------------------------------------------------------------
(* Fairness.  Threads in a call keep running (weak fairness of their steps). *)
(* A mutex that is released again and again is granted at last to a thread   *)
(* that waits for it (strong fairness of the steps that lock one held across *)
(* steps), and OVR does not answer ovrError_NotInitialized for ever.  The    *)
(* application is never obliged to make a call.                              *)

EndFrameRuns ==
    EndFrameIdle \/ EndFrameFails \/ EndFrameSubmit \/ EndFramePublish
        \/ EndFrameComplete

RenderLocks ==
    BeginFrameFails \/ BeginFrameSucceeds \/ EndFrameLockSwapchains
        \/ EndFrameOutOfOrder \/ EndFrameLockFrame

TeardownSwapchain == ctlPc = "teardown" /\ DestroySwapchainEnter

SessionCallRuns ==
    DestroySwapchainIdle \/ DestroySwapchain \/ DestroySessionJoin
        \/ TeardownSwapchain \/ DestroySessionDone

AsyncRuns ==
    AsyncReadFrameId \/ AsyncBegin \/ AsyncHandOff \/ AsyncWake
        \/ AsyncTerminate \/ AsyncTakeLayers \/ AsyncEndFrame

Fairness ==
    /\ WF_vars(WaitFrameOvrWait \/ WaitFrameIdle)
    /\ SF_vars(WaitFrameMatched \/ WaitFrameRelock)
    /\ WF_vars(EndFrameRuns)
    /\ SF_vars(RenderLocks)
    /\ WF_vars(SessionCallRuns)
    /\ WF_vars(AsyncRuns)
    /\ SF_vars(AsyncWaitToBegin)

FairSpec == Spec /\ Fairness

-----------------------------------------------------------------------------
(* Safety *)

(* xrWaitFrame is at most one frame ahead of xrBeginFrame, and no frame is   *)
(* completed that was not begun: although xrWaitFrame drops m_frameMutex     *)
(* while OVR waits, m_frameWaited is still the right value to increment when *)
(* it has the lock again, and xrBeginFrame's own wait for xrEndFrame         *)
(* (frame.cpp:256) can never block.                                          *)
OneFrameAhead ==
    /\ frameCompleted <= frameBegun
    /\ frameBegun <= frameWaited
    /\ frameWaited <= frameBegun + 1
    /\ simPc \in {"ovrWait", "relock", "asyncIdle"} => BeginMatchesWait
    /\ ~BeginFrameOutOfOrder /\ BeginFrameMatchesEnd
          => frameCompleted = frameBegun

(* ovr_WaitToBeginFrame, ovr_BeginFrame and ovr_EndFrame get their frame     *)
(* indices in that order, in both submission modes, although two threads     *)
(* make the calls and the asynchronous one takes its index from a counter it *)
(* reads without a lock.                                                     *)
OvrCallOrder == ovrEnded <= ovrBegun /\ ovrBegun <= ovrWaited

(* ovr_EndFrame never gets a swapchain that xrDestroySwapchain destroyed:    *)
(* the layers pending for the submission thread refer to live swapchains     *)
(* from the time it takes them.                                              *)
SubmitsLiveSwapchains ==
    asyncPc = "endFrame" => layersUse \in SUBSET swapchains

(* The submission context has one user at a time: xrEndFrame composing the   *)
(* layers, xrDestroySwapchain flushing it, or the submission thread in       *)
(* ovr_EndFrame.                                                             *)
SubmissionContextExclusive ==
    /\ renderPc = "compose" \/ ctlPc = "destroy" => asyncPc # "endFrame"
    /\ renderPc = "compose" => ctlPc # "destroy"

(* Once the submission thread has taken or dropped a frame, it is waiting on *)
(* its condition variable whenever xrEndFrame composes the next one.         *)
AsyncWaitsAfterFirstFrame ==
    renderPc = "compose" /\ useAsync /\ (shown # 0 \/ forfeits # 0)
        => asyncPc = "awaitFrame"

(* The submission thread is started only when no thread is joinable:         *)
(* assigning to a joinable std::thread would end the process.                *)
ThreadStartsOnce == needStart => asyncPc = "none"

(* The index the submission thread gives OVR is below that of the frame      *)
(* whose layers it submits: the unlocked read of m_frameCompleted may be     *)
(* late, never early.                                                        *)
AsyncIndexNotAhead == asyncPc = "endFrame" => asyncFrameId < layers

(* The submission thread shows a frame that is newer than every frame shown  *)
(* before: none is shown twice, none out of order.                           *)
NoFrameShownTwice == [][AsyncEndFrame => shown' > shown]_vars

-----------------------------------------------------------------------------
(* The frame loop implements the contract.  xrEndFrame completes a frame, as *)
(* the contract sees it, when it hands the layers over, which is before      *)
(* m_frameCompleted is written; what an earlier session left in              *)
(* m_layersForAsyncSubmission is not in flight.                              *)

CompletedView == IF renderPc = "complete" THEN frameBegun ELSE frameCompleted

InFlightView == IF layers # 0 /\ published > shown THEN published ELSE 0

Contract == INSTANCE FrameContract WITH
    waited <- frameWaited, begun <- frameBegun, completed <- CompletedView,
    inFlight <- InFlightView

ImplementsContract == Contract!Spec

-----------------------------------------------------------------------------
(* Liveness *)

(* xrWaitFrame returns once xrBeginFrame has matched the previous call: the  *)
(* notification is not lost, and neither OVR nor the submission thread keeps *)
(* it.                                                                       *)
WaitFrameReturns ==
    (simPc # "idle" /\ BeginMatchesWait) ~> simPc = "idle"

(* xrBeginFrame and xrEndFrame always return. *)
BeginAndEndFrameReturn == (renderPc # "idle") ~> (renderPc = "idle")

(* xrDestroySwapchain and xrDestroySession always return: the submission     *)
(* thread goes idle, or ends and is joined.                                  *)
DestroyCallsReturn == (ctlPc # "idle") ~> (ctlPc = "idle")

(* No notification of m_frameCondVar or m_asyncSubmissionCondVar is lost and *)
(* no two waits are circular: every call of the frame loop returns.          *)
CallsReturn ==
    WaitFrameReturns /\ BeginAndEndFrameReturn /\ DestroyCallsReturn

(* A frame handed to a waiting submission thread is shown, unless the        *)
(* session is destroyed first.                                               *)
PublishedFrameIsShown ==
    (asyncPc = "awaitFrame" /\ layers # 0)
        ~> (published = shown \/ terminate)

-----------------------------------------------------------------------------
(* What comments of the code say, and the code does not do. *)

(* "Make sure the previous frame finished submission." (frame.cpp:388)       *)
PreviousFrameFinished == renderPc = "compose" => published = shown

(* "Destroy all swapchains (tied to session)." (session.cpp:280)             *)
HeadlessSwapchainTiedToSession ==
    ctlPc = "teardown" /\ swapchains = {} => headless \in {0, sessions}
=============================================================================
