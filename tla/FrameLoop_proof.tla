-------------------------- MODULE FrameLoop_proof --------------------------
(***************************************************************************)
(* Theorems about FrameLoop for any set of swapchains, any submission modes *)
(* and any bounds, checked by TLAPS.                                        *)
(*                                                                         *)
(* None of the safety invariants is inductive as it stands.  Inductive      *)
(* below strengthens them with what each thread's position says about the   *)
(* locks it holds (LockInv), about the session (SessionInv), about the      *)
(* submission thread (ThreadInv), about the layers being handed over        *)
(* (HandOffInv), and about the indices given to OVR (OvrInv).               *)
(***************************************************************************)
EXTENDS FrameLoop, TLAPS

-----------------------------------------------------------------------------
(* Who is where *)

(* The submission thread has yet to clear m_layersForAsyncSubmission: what   *)
(* they hold is an earlier frame, or a first frame that came too soon.       *)
BeforeHandOff == {"loop", "waitToBegin", "begin", "handOff"}

(* The submission thread waits for a frame, or has one. *)
AfterHandOff == {"awaitFrame", "woken", "endFrame"}

(* The session is between xrCreateSession and xrDestroySession. *)
Live == {"created", "running", "ended"}

(* Which thread holds which mutex. *)
LockInv ==
    /\ frameMutex = "sim" <=> simPc = "asyncIdle"
    /\ frameMutex = "render" <=> renderPc \in {"asyncIdle", "compose", "complete"}
    /\ swapchainsMutex = "render"
          <=> renderPc \in {"endFrame", "asyncIdle", "compose", "complete"}
    /\ swapchainsMutex = "ctl" <=> ctlPc \in {"asyncIdle", "destroy"}

(* The frame counters, and which calls can be where in between. *)
CounterInv ==
    /\ frameCompleted <= frameBegun
    /\ frameBegun <= frameWaited
    /\ frameWaited <= frameBegun + 1
    /\ simPc \in {"ovrWait", "relock", "asyncIdle"} => frameBegun = frameWaited
    /\ renderPc \in {"asyncIdle", "compose", "complete"}
          => frameBegun # frameCompleted

(* What no frame call does while a session is set up or taken down. *)
SessionInv ==
    /\ session \in {"none", "created", "closing"}
          => simPc = "idle" /\ renderPc = "idle"
    /\ session = "none" => ctlPc = "idle" /\ swapchains = {}
    /\ session = "closing" => ctlPc # "idle"
    /\ ctlPc \in {"join", "teardown"} => session = "closing"
    /\ session = "created"
          => /\ frameWaited = 0 /\ frameBegun = 0 /\ frameCompleted = 0
             /\ published = 0 /\ shown = 0 /\ forfeits = 0

(* When the submission thread exists. *)
ThreadInv ==
    /\ needStart => useAsync
    /\ needStart \/ ~useAsync => asyncPc = "none"
    /\ session \in {"none", "created"} => asyncPc = "none"
    /\ session = "closing" /\ ctlPc # "join" => asyncPc = "none"
    /\ terminate /\ asyncPc # "none" => session = "closing"
    /\ asyncPc = "done" => terminate
    /\ simPc = "asyncIdle" \/ renderPc = "asyncIdle" => useAsync
    /\ simPc \in {"ovrWait", "relock"} => ~useAsync

(* m_layersForAsyncSubmission between xrEndFrame and the thread. *)
HandOffInv ==
    /\ layers = 0 => layersUse = {}
    /\ asyncPc = "woken" => terminate \/ layers # 0
    /\ asyncPc = "endFrame" => layers # 0
    /\ renderPc = "compose" /\ useAsync => layers = 0
    /\ ctlPc = "destroy" => layers = 0 \/ asyncPc \in BeforeHandOff \cup {"none"}
    /\ asyncPc \in AfterHandOff => layersUse \in SUBSET swapchains
    /\ asyncPc \in AfterHandOff \cup {"waitToBegin", "begin", "handOff"}
          => asyncFrameId <= frameCompleted
    /\ asyncPc \in AfterHandOff /\ layers # 0
          => /\ asyncFrameId < layers
             /\ shown < layers
             /\ layers = published

(* What was published and shown. *)
HistoryInv ==
    /\ shown <= CompletedView /\ published <= CompletedView
    /\ useAsync /\ asyncPc = "none" /\ session \in Live => shown = 0 /\ forfeits = 0
    /\ ~useAsync /\ session # "none" => published = shown
    /\ asyncPc \in BeforeHandOff /\ (shown # 0 \/ forfeits # 0)
          => shown = published /\ layers # 0
    /\ asyncPc \in BeforeHandOff /\ published # 0 => layers # 0
    /\ useAsync /\ asyncPc = "none" /\ session \in Live /\ published # 0
          => layers # 0

(* The indices OVR was given. *)
OvrInv ==
    /\ ovrEnded <= ovrBegun
    /\ ovrBegun <= ovrWaited
    /\ session \in {"none", "created"} => ovrWaited = 0
    /\ ~useAsync /\ session # "none"
          => /\ ovrWaited = IF simPc = "relock" THEN frameWaited + 1 ELSE frameWaited
             /\ ovrBegun = frameBegun
    /\ useAsync /\ asyncPc = "none" /\ session \in Live => ovrWaited = 0
    /\ asyncPc = "loop" => ovrWaited <= frameCompleted + 1
    /\ asyncPc = "waitToBegin" => ovrWaited <= asyncFrameId + 1
    /\ asyncPc = "begin" => ovrWaited = asyncFrameId + 1
    /\ asyncPc \in AfterHandOff \cup {"handOff"}
          => ovrWaited = asyncFrameId + 1 /\ ovrBegun = asyncFrameId + 1

Inductive ==
    /\ TypeOK /\ LockInv /\ CounterInv /\ SessionInv /\ ThreadInv /\ HandOffInv
    /\ HistoryInv /\ OvrInv
-----------------------------------------------------------------------------
(* Types are preserved, one action at a time. *)
LEMMA TypeStep ==
    ASSUME TypeOK, [Next]_vars
    PROVE  TypeOK'
<1> USE DEF TypeOK, Threads, vars, sessionVars, counterVars, frameLockVars,
        swapchainVars, asyncVars, ovrVars, historyVars, pcVars
<1>1. CASE WaitFrame
  <2>1. CASE WaitFrameEnter BY <2>1 DEF WaitFrameEnter
  <2>2. CASE WaitFrameSleep BY <2>2 DEF WaitFrameSleep, BeginMatchesWait
  <2>3. CASE WaitFrameMatched
    <3> USE <2>3 DEF WaitFrameMatched, StartSubmissionThread
    <3>1. CASE needStart /\ useAsync BY <3>1
    <3>2. CASE needStart /\ ~useAsync BY <3>2
    <3>3. CASE ~needStart /\ useAsync BY <3>3
    <3>4. CASE ~needStart /\ ~useAsync BY <3>4
    <3> QED BY <3>1, <3>2, <3>3, <3>4
  <2>4. CASE WaitFrameOvrWait BY <2>4 DEF WaitFrameOvrWait
  <2>5. CASE WaitFrameOvrFails BY <2>5 DEF WaitFrameOvrFails
  <2>6. CASE WaitFrameRelock BY <2>6 DEF WaitFrameRelock
  <2>7. CASE WaitFrameIdleSleep BY <2>7 DEF WaitFrameIdleSleep, IdleWaitSleeps
  <2>8. CASE WaitFrameIdle BY <2>8 DEF WaitFrameIdle, IdleWaitReturns
  <2>9. CASE WaitFrameNotIdle BY <2>9 DEF WaitFrameNotIdle
  <2> QED BY <1>1, <2>1, <2>2, <2>3, <2>4, <2>5, <2>6, <2>7, <2>8, <2>9 DEF
        WaitFrame
<1>2. CASE BeginFrame
  <2>1. CASE BeginFrameEnter BY <2>1 DEF BeginFrameEnter
  <2>2. CASE BeginFrameFails BY <2>2 DEF BeginFrameFails, BeginFrameOutOfOrder
  <2>3. CASE BeginFrameSucceeds BY <2>3 DEF BeginFrameSucceeds, NotifyFrame,
        BeginFrameOutOfOrder, BeginFrameMatchesEnd
  <2>4. CASE BeginFrameOvrFails BY <2>4 DEF BeginFrameOvrFails,
        BeginFrameOutOfOrder, BeginFrameMatchesEnd
  <2> QED BY <1>2, <2>1, <2>2, <2>3, <2>4 DEF BeginFrame
<1>3. CASE EndFrame
  <2>1. CASE EndFrameEnter BY <2>1 DEF EndFrameEnter
  <2>2. CASE EndFrameLockSwapchains BY <2>2 DEF EndFrameLockSwapchains
  <2>3. CASE EndFrameOutOfOrder BY <2>3 DEF EndFrameOutOfOrder, FrameToEnd
  <2>4. CASE EndFrameLockFrame BY <2>4 DEF EndFrameLockFrame, FrameToEnd
  <2>5. CASE EndFrameIdleSleep BY <2>5 DEF EndFrameIdleSleep, IdleWaitSleeps
  <2>6. CASE EndFrameIdle BY <2>6 DEF EndFrameIdle, IdleWaitReturns
  <2>7. CASE EndFrameFails BY <2>7 DEF EndFrameFails
  <2>8. CASE EndFrameSubmit BY <2>8 DEF EndFrameSubmit, OvrEndIndex
  <2>9. CASE EndFramePublish BY <2>9 DEF EndFramePublish, NotifyAsync
  <2>10. CASE EndFrameComplete BY <2>10 DEF EndFrameComplete, NotifyFrame
  <2> QED BY <1>3, <2>1, <2>2, <2>3, <2>4, <2>5, <2>6, <2>7, <2>8, <2>9, <2>10
        DEF EndFrame
<1>4. CASE AsyncSubmission
  <2>1. CASE AsyncReadFrameId BY <2>1 DEF AsyncReadFrameId, NextOvrFrameId
  <2>2. CASE AsyncWaitToBegin BY <2>2 DEF AsyncWaitToBegin
  <2>3. CASE AsyncNotInitialized BY <2>3 DEF AsyncNotInitialized
  <2>4. CASE AsyncBegin BY <2>4 DEF AsyncBegin
  <2>5. CASE AsyncHandOff BY <2>5 DEF AsyncHandOff, AsleepAfterHandOff,
        ClearLayers
  <2>6. CASE AsyncWake BY <2>6 DEF AsyncWake
  <2>7. CASE AsyncTerminate BY <2>7 DEF AsyncTerminate
  <2>8. CASE AsyncTakeLayers BY <2>8 DEF AsyncTakeLayers
  <2>9. CASE AsyncEndFrame BY <2>9 DEF AsyncEndFrame
  <2> QED BY <1>4, <2>1, <2>2, <2>3, <2>4, <2>5, <2>6, <2>7, <2>8, <2>9 DEF
        AsyncSubmission
<1>5. CASE SessionCalls
  <2>1. CASE CreateSession BY <2>1 DEF CreateSession
  <2>2. CASE BeginSession
    BY <2>2, AsyncModesAssumption DEF BeginSession
  <2>3. CASE EndSession BY <2>3 DEF EndSession
  <2>4. CASE CreateSwapchain BY <2>4 DEF CreateSwapchain
  <2>5. CASE DestroySwapchainEnter BY <2>5 DEF DestroySwapchainEnter,
        SubmissionThreadRuns
  <2>6. CASE DestroySwapchainIdleSleep BY <2>6 DEF DestroySwapchainIdleSleep,
        IdleWaitSleeps
  <2>7. CASE DestroySwapchainIdle BY <2>7 DEF DestroySwapchainIdle,
        IdleWaitReturns
  <2>8. CASE DestroySwapchain BY <2>8 DEF DestroySwapchain
  <2>9. CASE DestroySession
    <3> USE <2>9 DEF DestroySession, NotifyAsync
    <3>1. CASE SubmissionThreadRuns BY <3>1
    <3>2. CASE ~SubmissionThreadRuns BY <3>2
    <3> QED BY <3>1, <3>2
  <2>10. CASE DestroySessionJoin BY <2>10 DEF DestroySessionJoin
  <2>11. CASE DestroySessionDone BY <2>11 DEF DestroySessionDone
  <2> QED BY <1>5, <2>1, <2>2, <2>3, <2>4, <2>5, <2>6, <2>7, <2>8, <2>9,
        <2>10, <2>11 DEF SessionCalls
<1>6. CASE Finished BY <1>6 DEF Finished
<1>7. CASE UNCHANGED vars BY <1>7
<1> QED BY <1>1, <1>2, <1>3, <1>4, <1>5, <1>6, <1>7 DEF Next

(* Who holds which mutex can be read off the threads' positions: each lock   *)
(* and unlock of frame.cpp and swapchain.cpp comes with a change of position.*)
LEMMA LockStep ==
    ASSUME TypeOK, LockInv, [Next]_vars
    PROVE  LockInv'
<1> USE DEF TypeOK, LockInv, vars, sessionVars, counterVars, frameLockVars,
        swapchainVars, asyncVars, ovrVars, historyVars, pcVars
<1>1. CASE WaitFrame
  BY <1>1 DEF WaitFrame, WaitFrameEnter, WaitFrameSleep, WaitFrameMatched,
        WaitFrameOvrWait, WaitFrameOvrFails, WaitFrameRelock,
        WaitFrameIdleSleep, WaitFrameIdle, WaitFrameNotIdle, BeginMatchesWait,
        StartSubmissionThread, IdleWaitSleeps, IdleWaitReturns
<1>2. CASE BeginFrame
  BY <1>2 DEF BeginFrame, BeginFrameEnter, BeginFrameFails,
        BeginFrameSucceeds, BeginFrameOvrFails, BeginFrameOutOfOrder,
        NotifyFrame, BeginFrameMatchesEnd
<1>3. CASE EndFrame
  BY <1>3 DEF EndFrame, EndFrameEnter, EndFrameLockSwapchains,
        EndFrameOutOfOrder, EndFrameLockFrame, EndFrameIdleSleep,
        EndFrameIdle, EndFrameFails, EndFrameSubmit, EndFramePublish,
        EndFrameComplete, FrameToEnd, IdleWaitSleeps, IdleWaitReturns,
        OvrEndIndex, NotifyAsync, NotifyFrame
<1>4. CASE AsyncSubmission
  BY <1>4 DEF AsyncSubmission, AsyncReadFrameId, AsyncWaitToBegin,
        AsyncNotInitialized, AsyncBegin, AsyncHandOff, AsyncWake,
        AsyncTerminate, AsyncTakeLayers, AsyncEndFrame, NextOvrFrameId,
        AsleepAfterHandOff, ClearLayers
<1>5. CASE SessionCalls
  BY <1>5 DEF SessionCalls, CreateSession, BeginSession, EndSession,
        CreateSwapchain, DestroySwapchainEnter, DestroySwapchainIdleSleep,
        DestroySwapchainIdle, DestroySwapchain, DestroySession,
        DestroySessionJoin, DestroySessionDone, SubmissionThreadRuns,
        IdleWaitSleeps, IdleWaitReturns, NotifyAsync
<1>6. CASE Finished BY <1>6 DEF Finished
<1>7. CASE UNCHANGED vars BY <1>7
<1> QED BY <1>1, <1>2, <1>3, <1>4, <1>5, <1>6, <1>7 DEF Next

(* xrBeginFrame cannot match while xrWaitFrame is past its own wait, since    *)
(* it needs frameBegun # frameWaited: nobody writes the counters between      *)
(* that wait and m_frameWaited++, mutex or no mutex.                          *)
LEMMA CounterStep ==
    ASSUME TypeOK, CounterInv, SessionInv, [Next]_vars
    PROVE  CounterInv'
<1> USE DEF TypeOK, CounterInv, SessionInv, vars, sessionVars, counterVars,
        frameLockVars, swapchainVars, asyncVars, ovrVars, historyVars, pcVars
<1>1. CASE WaitFrame
  BY <1>1 DEF WaitFrame, WaitFrameEnter, WaitFrameSleep, WaitFrameMatched,
        WaitFrameOvrWait, WaitFrameOvrFails, WaitFrameRelock,
        WaitFrameIdleSleep, WaitFrameIdle, WaitFrameNotIdle, BeginMatchesWait,
        StartSubmissionThread, IdleWaitSleeps, IdleWaitReturns
<1>2. CASE BeginFrame
  BY <1>2 DEF BeginFrame, BeginFrameEnter, BeginFrameFails,
        BeginFrameSucceeds, BeginFrameOvrFails, BeginFrameOutOfOrder,
        NotifyFrame, BeginFrameMatchesEnd
<1>3. CASE EndFrame
  BY <1>3 DEF EndFrame, EndFrameEnter, EndFrameLockSwapchains,
        EndFrameOutOfOrder, EndFrameLockFrame, EndFrameIdleSleep,
        EndFrameIdle, EndFrameFails, EndFrameSubmit, EndFramePublish,
        EndFrameComplete, FrameToEnd, IdleWaitSleeps, IdleWaitReturns,
        OvrEndIndex, NotifyAsync, NotifyFrame
<1>4. CASE AsyncSubmission
  BY <1>4 DEF AsyncSubmission, AsyncReadFrameId, AsyncWaitToBegin,
        AsyncNotInitialized, AsyncBegin, AsyncHandOff, AsyncWake,
        AsyncTerminate, AsyncTakeLayers, AsyncEndFrame, NextOvrFrameId,
        AsleepAfterHandOff, ClearLayers
<1>5. CASE SessionCalls
  BY <1>5 DEF SessionCalls, CreateSession, BeginSession, EndSession,
        CreateSwapchain, DestroySwapchainEnter, DestroySwapchainIdleSleep,
        DestroySwapchainIdle, DestroySwapchain, DestroySession,
        DestroySessionJoin, DestroySessionDone, SubmissionThreadRuns,
        IdleWaitSleeps, IdleWaitReturns, NotifyAsync
<1>6. CASE Finished BY <1>6 DEF Finished
<1>7. CASE UNCHANGED vars BY <1>7
<1> QED BY <1>1, <1>2, <1>3, <1>4, <1>5, <1>6, <1>7 DEF Next

(* A session that is new or going away has no frame call under way.          *)
LEMMA SessionStep ==
    ASSUME TypeOK, SessionInv, ThreadInv, [Next]_vars
    PROVE  SessionInv'
<1> USE DEF TypeOK, SessionInv, ThreadInv, vars, sessionVars, counterVars,
        frameLockVars, swapchainVars, asyncVars, ovrVars, historyVars, pcVars
<1>1. CASE WaitFrame
  BY <1>1 DEF WaitFrame, WaitFrameEnter, WaitFrameSleep, WaitFrameMatched,
        WaitFrameOvrWait, WaitFrameOvrFails, WaitFrameRelock,
        WaitFrameIdleSleep, WaitFrameIdle, WaitFrameNotIdle, BeginMatchesWait,
        StartSubmissionThread, IdleWaitSleeps, IdleWaitReturns
<1>2. CASE BeginFrame
  BY <1>2 DEF BeginFrame, BeginFrameEnter, BeginFrameFails,
        BeginFrameSucceeds, BeginFrameOvrFails, BeginFrameOutOfOrder,
        NotifyFrame, BeginFrameMatchesEnd
<1>3. CASE EndFrame
  BY <1>3 DEF EndFrame, EndFrameEnter, EndFrameLockSwapchains,
        EndFrameOutOfOrder, EndFrameLockFrame, EndFrameIdleSleep,
        EndFrameIdle, EndFrameFails, EndFrameSubmit, EndFramePublish,
        EndFrameComplete, FrameToEnd, IdleWaitSleeps, IdleWaitReturns,
        OvrEndIndex, NotifyAsync, NotifyFrame
<1>4. CASE AsyncSubmission
  BY <1>4 DEF AsyncSubmission, AsyncReadFrameId, AsyncWaitToBegin,
        AsyncNotInitialized, AsyncBegin, AsyncHandOff, AsyncWake,
        AsyncTerminate, AsyncTakeLayers, AsyncEndFrame, NextOvrFrameId,
        AsleepAfterHandOff, ClearLayers
<1>5. CASE SessionCalls
  BY <1>5 DEF SessionCalls, CreateSession, BeginSession, EndSession,
        CreateSwapchain, DestroySwapchainEnter, DestroySwapchainIdleSleep,
        DestroySwapchainIdle, DestroySwapchain, DestroySession,
        DestroySessionJoin, DestroySessionDone, SubmissionThreadRuns,
        IdleWaitSleeps, IdleWaitReturns, NotifyAsync
<1>6. CASE Finished BY <1>6 DEF Finished
<1>7. CASE UNCHANGED vars BY <1>7
<1> QED BY <1>1, <1>2, <1>3, <1>4, <1>5, <1>6, <1>7 DEF Next

(* The submission thread exists between the first xrWaitFrame and the join,  *)
(* in an asynchronous session only, and needStart says that it does not.     *)
LEMMA ThreadStep ==
    ASSUME TypeOK, SessionInv, ThreadInv, [Next]_vars
    PROVE  ThreadInv'
<1> USE DEF TypeOK, SessionInv, ThreadInv, vars, sessionVars, counterVars,
        frameLockVars, swapchainVars, asyncVars, ovrVars, historyVars, pcVars
<1>1. CASE WaitFrame
  BY <1>1 DEF WaitFrame, WaitFrameEnter, WaitFrameSleep, WaitFrameMatched,
        WaitFrameOvrWait, WaitFrameOvrFails, WaitFrameRelock,
        WaitFrameIdleSleep, WaitFrameIdle, WaitFrameNotIdle, BeginMatchesWait,
        StartSubmissionThread, IdleWaitSleeps, IdleWaitReturns
<1>2. CASE BeginFrame
  BY <1>2 DEF BeginFrame, BeginFrameEnter, BeginFrameFails,
        BeginFrameSucceeds, BeginFrameOvrFails, BeginFrameOutOfOrder,
        NotifyFrame, BeginFrameMatchesEnd
<1>3. CASE EndFrame
  BY <1>3 DEF EndFrame, EndFrameEnter, EndFrameLockSwapchains,
        EndFrameOutOfOrder, EndFrameLockFrame, EndFrameIdleSleep,
        EndFrameIdle, EndFrameFails, EndFrameSubmit, EndFramePublish,
        EndFrameComplete, FrameToEnd, IdleWaitSleeps, IdleWaitReturns,
        OvrEndIndex, NotifyAsync, NotifyFrame
<1>4. CASE AsyncSubmission
  BY <1>4 DEF AsyncSubmission, AsyncReadFrameId, AsyncWaitToBegin,
        AsyncNotInitialized, AsyncBegin, AsyncHandOff, AsyncWake,
        AsyncTerminate, AsyncTakeLayers, AsyncEndFrame, NextOvrFrameId,
        AsleepAfterHandOff, ClearLayers
<1>5. CASE SessionCalls
  BY <1>5 DEF SessionCalls, CreateSession, BeginSession, EndSession,
        CreateSwapchain, DestroySwapchainEnter, DestroySwapchainIdleSleep,
        DestroySwapchainIdle, DestroySwapchain, DestroySession,
        DestroySessionJoin, DestroySessionDone, SubmissionThreadRuns,
        IdleWaitSleeps, IdleWaitReturns, NotifyAsync
<1>6. CASE Finished BY <1>6 DEF Finished
<1>7. CASE UNCHANGED vars BY <1>7
<1> QED BY <1>1, <1>2, <1>3, <1>4, <1>5, <1>6, <1>7 DEF Next

(* Layers are published only when there are none, and only while no swapchain *)
(* is being destroyed; the thread takes them only after it cleared what was   *)
(* left before.  Its frame index was read from frameCompleted, and the layers *)
(* published after that are those of a later frame.                           *)
LEMMA HandOffStep ==
    ASSUME Inductive, [Next]_vars
    PROVE  HandOffInv'
<1> USE DEF Inductive, TypeOK, LockInv, CounterInv, SessionInv, ThreadInv,
        HandOffInv, HistoryInv, BeforeHandOff, AfterHandOff, CompletedView,
        vars, sessionVars, counterVars, frameLockVars, swapchainVars,
        asyncVars, ovrVars, historyVars, pcVars
<1>1. CASE WaitFrame
  BY <1>1 DEF WaitFrame, WaitFrameEnter, WaitFrameSleep, WaitFrameMatched,
        WaitFrameOvrWait, WaitFrameOvrFails, WaitFrameRelock,
        WaitFrameIdleSleep, WaitFrameIdle, WaitFrameNotIdle, BeginMatchesWait,
        StartSubmissionThread, IdleWaitSleeps, IdleWaitReturns
<1>2. CASE BeginFrame
  BY <1>2 DEF BeginFrame, BeginFrameEnter, BeginFrameFails,
        BeginFrameSucceeds, BeginFrameOvrFails, BeginFrameOutOfOrder,
        NotifyFrame, BeginFrameMatchesEnd
<1>3. CASE EndFrame
  BY <1>3 DEF EndFrame, EndFrameEnter, EndFrameLockSwapchains,
        EndFrameOutOfOrder, EndFrameLockFrame, EndFrameIdleSleep,
        EndFrameIdle, EndFrameFails, EndFrameSubmit, EndFramePublish,
        EndFrameComplete, FrameToEnd, IdleWaitSleeps, IdleWaitReturns,
        OvrEndIndex, NotifyAsync, NotifyFrame
<1>4. CASE AsyncSubmission
  BY <1>4 DEF AsyncSubmission, AsyncReadFrameId, AsyncWaitToBegin,
        AsyncNotInitialized, AsyncBegin, AsyncHandOff, AsyncWake,
        AsyncTerminate, AsyncTakeLayers, AsyncEndFrame, NextOvrFrameId,
        AsleepAfterHandOff, ClearLayers
<1>5. CASE SessionCalls
  BY <1>5 DEF SessionCalls, CreateSession, BeginSession, EndSession,
        CreateSwapchain, DestroySwapchainEnter, DestroySwapchainIdleSleep,
        DestroySwapchainIdle, DestroySwapchain, DestroySession,
        DestroySessionJoin, DestroySessionDone, SubmissionThreadRuns,
        IdleWaitSleeps, IdleWaitReturns, NotifyAsync
<1>6. CASE Finished BY <1>6 DEF Finished
<1>7. CASE UNCHANGED vars BY <1>7
<1> QED BY <1>1, <1>2, <1>3, <1>4, <1>5, <1>6, <1>7 DEF Next

(* What was published and not shown is still in the layers until the thread  *)
(* hands off for the first time.                                             *)
LEMMA HistoryStep ==
    ASSUME Inductive, [Next]_vars
    PROVE  HistoryInv'
<1> USE DEF Inductive, TypeOK, LockInv, CounterInv, SessionInv, ThreadInv,
        HandOffInv, HistoryInv, BeforeHandOff, AfterHandOff, CompletedView,
        Live, vars, sessionVars, counterVars, frameLockVars, swapchainVars,
        asyncVars, ovrVars, historyVars, pcVars
<1>1. CASE WaitFrame
  BY <1>1 DEF WaitFrame, WaitFrameEnter, WaitFrameSleep, WaitFrameMatched,
        WaitFrameOvrWait, WaitFrameOvrFails, WaitFrameRelock,
        WaitFrameIdleSleep, WaitFrameIdle, WaitFrameNotIdle, BeginMatchesWait,
        StartSubmissionThread, IdleWaitSleeps, IdleWaitReturns
<1>2. CASE BeginFrame
  BY <1>2 DEF BeginFrame, BeginFrameEnter, BeginFrameFails,
        BeginFrameSucceeds, BeginFrameOvrFails, BeginFrameOutOfOrder,
        NotifyFrame, BeginFrameMatchesEnd
<1>3. CASE EndFrame
  BY <1>3 DEF EndFrame, EndFrameEnter, EndFrameLockSwapchains,
        EndFrameOutOfOrder, EndFrameLockFrame, EndFrameIdleSleep,
        EndFrameIdle, EndFrameFails, EndFrameSubmit, EndFramePublish,
        EndFrameComplete, FrameToEnd, IdleWaitSleeps, IdleWaitReturns,
        OvrEndIndex, NotifyAsync, NotifyFrame
<1>4. CASE AsyncSubmission
  BY <1>4 DEF AsyncSubmission, AsyncReadFrameId, AsyncWaitToBegin,
        AsyncNotInitialized, AsyncBegin, AsyncHandOff, AsyncWake,
        AsyncTerminate, AsyncTakeLayers, AsyncEndFrame, NextOvrFrameId,
        AsleepAfterHandOff, ClearLayers
<1>5. CASE SessionCalls
  BY <1>5 DEF SessionCalls, CreateSession, BeginSession, EndSession,
        CreateSwapchain, DestroySwapchainEnter, DestroySwapchainIdleSleep,
        DestroySwapchainIdle, DestroySwapchain, DestroySession,
        DestroySessionJoin, DestroySessionDone, SubmissionThreadRuns,
        IdleWaitSleeps, IdleWaitReturns, NotifyAsync
<1>6. CASE Finished BY <1>6 DEF Finished
<1>7. CASE UNCHANGED vars BY <1>7
<1> QED BY <1>1, <1>2, <1>3, <1>4, <1>5, <1>6, <1>7 DEF Next

(* A synchronous session gives OVR the frame counters themselves; the         *)
(* submission thread gives it indices that follow asyncFrameId.               *)
LEMMA OvrStep ==
    ASSUME Inductive, [Next]_vars
    PROVE  OvrInv'
<1> USE DEF Inductive, TypeOK, LockInv, CounterInv, SessionInv, ThreadInv,
        HandOffInv, OvrInv, AfterHandOff, Live, vars, sessionVars,
        counterVars, frameLockVars, swapchainVars, asyncVars, ovrVars,
        historyVars, pcVars
<1>1. CASE WaitFrame
  BY <1>1 DEF WaitFrame, WaitFrameEnter, WaitFrameSleep, WaitFrameMatched,
        WaitFrameOvrWait, WaitFrameOvrFails, WaitFrameRelock,
        WaitFrameIdleSleep, WaitFrameIdle, WaitFrameNotIdle, BeginMatchesWait,
        StartSubmissionThread, IdleWaitSleeps, IdleWaitReturns
<1>2. CASE BeginFrame
  BY <1>2 DEF BeginFrame, BeginFrameEnter, BeginFrameFails,
        BeginFrameSucceeds, BeginFrameOvrFails, BeginFrameOutOfOrder,
        NotifyFrame, BeginFrameMatchesEnd
<1>3. CASE EndFrame
  BY <1>3 DEF EndFrame, EndFrameEnter, EndFrameLockSwapchains,
        EndFrameOutOfOrder, EndFrameLockFrame, EndFrameIdleSleep,
        EndFrameIdle, EndFrameFails, EndFrameSubmit, EndFramePublish,
        EndFrameComplete, FrameToEnd, IdleWaitSleeps, IdleWaitReturns,
        OvrEndIndex, NotifyAsync, NotifyFrame
<1>4. CASE AsyncSubmission
  BY <1>4 DEF AsyncSubmission, AsyncReadFrameId, AsyncWaitToBegin,
        AsyncNotInitialized, AsyncBegin, AsyncHandOff, AsyncWake,
        AsyncTerminate, AsyncTakeLayers, AsyncEndFrame, NextOvrFrameId,
        AsleepAfterHandOff, ClearLayers
<1>5. CASE SessionCalls
  BY <1>5 DEF SessionCalls, CreateSession, BeginSession, EndSession,
        CreateSwapchain, DestroySwapchainEnter, DestroySwapchainIdleSleep,
        DestroySwapchainIdle, DestroySwapchain, DestroySession,
        DestroySessionJoin, DestroySessionDone, SubmissionThreadRuns,
        IdleWaitSleeps, IdleWaitReturns, NotifyAsync
<1>6. CASE Finished BY <1>6 DEF Finished
<1>7. CASE UNCHANGED vars BY <1>7
<1> QED BY <1>1, <1>2, <1>3, <1>4, <1>5, <1>6, <1>7 DEF Next

LEMMA InductiveInit == Init => Inductive
<1> SUFFICES ASSUME Init PROVE Inductive OBVIOUS
<1>1. TypeOK BY DEF Init, TypeOK
<1>2. LockInv /\ CounterInv BY DEF Init, LockInv, CounterInv
<1>3. SessionInv BY DEF Init, SessionInv
<1>4. ThreadInv BY DEF Init, ThreadInv
<1>5. HandOffInv BY DEF Init, HandOffInv, AfterHandOff
<1>6. HistoryInv BY DEF Init, HistoryInv, BeforeHandOff, CompletedView
<1>7. OvrInv BY DEF Init, OvrInv, AfterHandOff
<1> QED BY <1>1, <1>2, <1>3, <1>4, <1>5, <1>6, <1>7 DEF Inductive

LEMMA InductiveStep == Inductive /\ [Next]_vars => Inductive'
BY TypeStep, LockStep, CounterStep, SessionStep, ThreadStep, HandOffStep,
   HistoryStep, OvrStep DEF Inductive

(* Every variable keeps its type, whatever the bounds. *)
THEOREM TypeCorrect == Spec => []TypeOK
<1>1. Init => TypeOK
  BY InductiveInit DEF Inductive
<1>2. TypeOK /\ [Next]_vars => TypeOK'
  BY TypeStep
<1> QED BY <1>1, <1>2, PTL DEF Spec

(* The inductive invariant holds in every reachable state.                    *)
THEOREM InductiveHolds == Spec => []Inductive
BY InductiveInit, InductiveStep, PTL DEF Spec

(* xrWaitFrame, xrBeginFrame and xrEndFrame keep the three frame counters in
   step, although xrWaitFrame lets go of m_frameMutex while OVR waits.        *)
THEOREM FramesStayInOrder == Spec => []OneFrameAhead
<1>1. Inductive => OneFrameAhead
  BY DEF Inductive, TypeOK, CounterInv, OneFrameAhead, BeginMatchesWait,
         BeginFrameOutOfOrder, BeginFrameMatchesEnd
<1> QED BY <1>1, InductiveHolds, PTL

(* OVR gets its wait, begin and end calls in the order of their indices.      *)
THEOREM OvrCallsInOrder == Spec => []OvrCallOrder
<1>1. Inductive => OvrCallOrder
  BY DEF Inductive, OvrInv, OvrCallOrder
<1> QED BY <1>1, InductiveHolds, PTL

(* The layers the submission thread gives ovr_EndFrame refer to swapchains
   that xrDestroySwapchain has not destroyed.                                 *)
THEOREM SwapchainsOutliveSubmission == Spec => []SubmitsLiveSwapchains
<1>1. Inductive => SubmitsLiveSwapchains
  BY DEF Inductive, HandOffInv, AfterHandOff, SubmitsLiveSwapchains
<1> QED BY <1>1, InductiveHolds, PTL

(* xrEndFrame, xrDestroySwapchain and the submission thread never use the
   submission context at the same time.                                       *)
THEOREM ContextHasOneUser == Spec => []SubmissionContextExclusive
<1>1. Inductive => SubmissionContextExclusive
  BY DEF Inductive, TypeOK, LockInv, ThreadInv, HandOffInv,
         BeforeHandOff, SubmissionContextExclusive
<1> QED BY <1>1, InductiveHolds, PTL

(* After its first frame, the submission thread is waiting whenever xrEndFrame
   composes.                                                                  *)
THEOREM ThreadWaitsDuringCompose == Spec => []AsyncWaitsAfterFirstFrame
<1>1. Inductive => AsyncWaitsAfterFirstFrame
  BY DEF Inductive, TypeOK, SessionInv, ThreadInv, HandOffInv,
         HistoryInv, BeforeHandOff, Live, AsyncWaitsAfterFirstFrame
<1> QED BY <1>1, InductiveHolds, PTL

(* m_asyncSubmissionThread is never assigned while it is joinable.            *)
THEOREM ThreadStartedOnce == Spec => []ThreadStartsOnce
<1>1. Inductive => ThreadStartsOnce
  BY DEF Inductive, ThreadInv, ThreadStartsOnce
<1> QED BY <1>1, InductiveHolds, PTL

(* The unlocked read of m_frameCompleted never gives OVR an index ahead of the
   frame being submitted.                                                     *)
THEOREM UnlockedReadIsSafe == Spec => []AsyncIndexNotAhead
<1>1. Inductive => AsyncIndexNotAhead
  BY DEF Inductive, HandOffInv, AfterHandOff, AsyncIndexNotAhead
<1> QED BY <1>1, InductiveHolds, PTL

(* ovr_EndFrame gets each frame's layers at most once, and in order.          *)
THEOREM ShownOnce == Spec => NoFrameShownTwice
<1>1. Inductive /\ [Next]_vars => [AsyncEndFrame => shown' > shown]_vars
  BY DEF Inductive, TypeOK, HandOffInv, AfterHandOff, AsyncEndFrame
<1> QED BY <1>1, InductiveHolds, PTL DEF Spec, NoFrameShownTwice

-----------------------------------------------------------------------------
(* Each step of the frame loop is a step of the contract or leaves its view   *)
(* unchanged: the counters when they are incremented, the publication and not *)
(* the later write of m_frameCompleted, and the clearing of layers that were  *)
(* published and never shown.                                                 *)
LEMMA ContractStep ==
    ASSUME Inductive, [Next]_vars
    PROVE  [Contract!Next]_(Contract!vars)
<1> USE DEF Inductive, TypeOK, LockInv, CounterInv, SessionInv, ThreadInv,
        HandOffInv, HistoryInv, BeforeHandOff, AfterHandOff, Live, vars,
        sessionVars, counterVars, frameLockVars, swapchainVars, asyncVars,
        ovrVars, historyVars, pcVars, CompletedView, InFlightView,
        Contract!vars
<1>1. CASE WaitFrame
  <2>1. CASE WaitFrameRelock BY <2>1 DEF WaitFrameRelock, Contract!Next,
        Contract!Wait
  <2>2. CASE WaitFrameIdle BY <2>2 DEF WaitFrameIdle, IdleWaitReturns,
        Contract!Next, Contract!Wait
  <2>3. CASE WaitFrameNotIdle BY <2>3 DEF WaitFrameNotIdle, Contract!Next,
        Contract!Wait
  <2>4. CASE WaitFrameEnter \/ WaitFrameSleep \/ WaitFrameMatched \/
        WaitFrameOvrWait \/ WaitFrameOvrFails \/ WaitFrameIdleSleep
    <3>1. UNCHANGED Contract!vars
      BY <2>4 DEF WaitFrameEnter, WaitFrameSleep, WaitFrameMatched,
        WaitFrameOvrWait, WaitFrameOvrFails, WaitFrameIdleSleep,
        BeginMatchesWait, StartSubmissionThread, IdleWaitSleeps
    <3> QED BY <3>1
  <2> QED BY <1>1, <2>1, <2>2, <2>3, <2>4 DEF WaitFrame
<1>2. CASE BeginFrame
  <2>1. CASE BeginFrameSucceeds BY <2>1 DEF BeginFrameSucceeds, NotifyFrame,
        BeginFrameOutOfOrder, BeginFrameMatchesEnd, Contract!Next,
        Contract!Begin
  <2>2. CASE BeginFrameEnter \/ BeginFrameFails \/ BeginFrameOvrFails
    <3>1. UNCHANGED Contract!vars
      BY <2>2 DEF BeginFrameEnter, BeginFrameFails, BeginFrameOvrFails,
        BeginFrameOutOfOrder, BeginFrameMatchesEnd
    <3> QED BY <3>1
  <2> QED BY <1>2, <2>1, <2>2 DEF BeginFrame
<1>3. CASE EndFrame
  <2>1. CASE EndFrameSubmit BY <2>1 DEF EndFrameSubmit, OvrEndIndex,
        Contract!Next, Contract!EndAndShow
  <2>2. CASE EndFramePublish BY <2>2 DEF EndFramePublish, NotifyAsync,
        Contract!Next, Contract!EndAndLeave
  <2>3. CASE EndFrameEnter \/ EndFrameLockSwapchains \/ EndFrameOutOfOrder \/
        EndFrameLockFrame \/ EndFrameIdleSleep \/ EndFrameIdle \/
        EndFrameFails \/ EndFrameComplete
    <3>1. UNCHANGED Contract!vars
      BY <2>3 DEF EndFrameEnter, EndFrameLockSwapchains, EndFrameOutOfOrder,
        EndFrameLockFrame, EndFrameIdleSleep, EndFrameIdle, EndFrameFails,
        EndFrameComplete, FrameToEnd, IdleWaitSleeps, IdleWaitReturns,
        NotifyFrame
    <3> QED BY <3>1
  <2> QED BY <1>3, <2>1, <2>2, <2>3 DEF EndFrame
<1>4. CASE AsyncSubmission
  <2>1. CASE AsyncHandOff
    <3> USE <2>1 DEF AsyncHandOff, ClearLayers
    <3>1. CASE published > shown
      BY <3>1 DEF Contract!Next, Contract!ForfeitFirst
    <3>2. CASE ~(published > shown)
      BY <3>2
    <3> QED BY <3>1, <3>2
  <2>2. CASE AsyncEndFrame BY <2>2 DEF AsyncEndFrame, Contract!Next,
        Contract!Show
  <2>3. CASE AsyncReadFrameId \/ AsyncWaitToBegin \/ AsyncNotInitialized \/
        AsyncBegin \/ AsyncWake \/ AsyncTerminate \/ AsyncTakeLayers
    <3>1. UNCHANGED Contract!vars
      BY <2>3 DEF AsyncReadFrameId, AsyncWaitToBegin, AsyncNotInitialized,
        AsyncBegin, AsyncWake, AsyncTerminate, AsyncTakeLayers, NextOvrFrameId
    <3> QED BY <3>1
  <2> QED BY <1>4, <2>1, <2>2, <2>3 DEF AsyncSubmission
<1>5. CASE SessionCalls
  <2>1. CASE CreateSession BY <2>1 DEF CreateSession, Contract!Next,
        Contract!StartOver
  <2>2. CASE BeginSession \/ EndSession \/ CreateSwapchain \/
        DestroySwapchainEnter \/ DestroySwapchainIdleSleep \/
        DestroySwapchainIdle \/ DestroySwapchain \/ DestroySession \/
        DestroySessionJoin \/ DestroySessionDone
    <3>1. UNCHANGED Contract!vars
      BY <2>2 DEF BeginSession, EndSession, CreateSwapchain,
        DestroySwapchainEnter, DestroySwapchainIdleSleep,
        DestroySwapchainIdle, DestroySwapchain, DestroySession,
        DestroySessionJoin, DestroySessionDone, SubmissionThreadRuns,
        IdleWaitSleeps, IdleWaitReturns, NotifyAsync
    <3> QED BY <3>1
  <2> QED BY <1>5, <2>1, <2>2 DEF SessionCalls
<1>6. CASE Finished BY <1>6 DEF Finished
<1>7. CASE UNCHANGED vars BY <1>7
<1> QED BY <1>1, <1>2, <1>3, <1>4, <1>5, <1>6, <1>7 DEF Next

(* The frame loop, in both submission modes and however its threads           *)
(* interleave, implements FrameContract: frames are completed and shown in    *)
(* order, once, and only the first one of a session can be forfeited.         *)
THEOREM FrameLoopImplementsContract == Spec => ImplementsContract
<1>1. Init => Contract!Init
  BY DEF Init, Contract!Init, CompletedView, InFlightView
<1> QED BY <1>1, InductiveHolds, ContractStep, PTL
       DEF Spec, Contract!Spec, ImplementsContract

=============================================================================
