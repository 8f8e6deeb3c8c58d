------------------------------- MODULE Session -------------------------------
(***************************************************************************)
(* The session state machine (session.cpp) and the events it and its        *)
(* neighbours send through xrPollEvent (instance.cpp).                      *)
(*                                                                         *)
(* The state machine has no lock: updateSessionState() reads and writes     *)
(* m_sessionState and m_sessionEventQueue from whichever thread calls       *)
(* xrWaitFrame, xrEndFrame, xrPollEvent or a session call.  This module is  *)
(* an application that makes these calls from one thread, with the settings *)
(* of the registry left alone; what more threads do is undefined behaviour. *)
(*                                                                         *)
(* A call that changes what the state machine looks at sets "call" to its   *)
(* name and runs the loop of updateSessionState(), one iteration a step,    *)
(* until nothing changes; then it goes on, or returns.                      *)
(***************************************************************************)
EXTENDS Naturals, Sequences

CONSTANTS
    HeadlessModes,  (* the values xrCreateSession may compute for m_isHeadless *)
    LocalFloor,     (* XR_EXT_local_floor is enabled or the API is 1.1       *)
    Rates,          (* the display refresh rates of the headsets             *)
    DisplayRefreshRate,
                    (* has_XR_FB_display_refresh_rate                        *)
    Masks,          (* whether xrCreateSession can find a new mask scale     *)
    MaxSessions,    (* bound: sessions created in the life of the instance   *)
    MaxQueued       (* bound: events the application lets accumulate before  *)
                    (* it stops waiting for frames                           *)

ASSUME HeadlessAssumption == HeadlessModes \in SUBSET BOOLEAN
ASSUME LocalFloorAssumption == LocalFloor \in BOOLEAN
ASSUME RefreshAssumption == DisplayRefreshRate \in BOOLEAN
ASSUME MasksAssumption == Masks \in SUBSET BOOLEAN
ASSUME LimitsAssumption == MaxSessions \in Nat /\ MaxQueued \in Nat

VARIABLES
    call,           (* the call inside updateSessionState(), or "none"       *)
    sessionCreated, (* m_sessionCreated                                      *)
    isHeadless,     (* m_isHeadless                                          *)
    sessionBegun,   (* m_sessionBegun                                        *)
    stopping,       (* m_sessionStopping                                     *)
    exiting,        (* m_sessionExiting                                      *)
    lossPending,    (* m_sessionLossPending                                  *)
    sessionState,   (* m_sessionState                                        *)
    queue,          (* m_sessionEventQueue: <<session, state>>; the session  *)
                    (* is not stored by the code, every event names handle 1 *)
    hmdVisible, hmdMounted,
                    (* m_hmdStatus.IsVisible, m_hmdStatus.HmdMounted         *)
    frameWaited,    (* a frame was waited for and not ended                  *)
    completed,      (* m_frameCompleted > 0                                  *)
    ovrRecenter,    (* OVR's ShouldRecenter flag                             *)
    shouldRecenter, (* m_shouldRecenter                                      *)
    maskDirty,      (* m_visibilityMaskDirty                                 *)
    profileDirty,   (* m_currentInteractionProfileDirty                      *)
    rate,           (* m_displayRefreshRate                                  *)
    rateChanged,    (* m_displayRefreshRateChanged                           *)
    (* History, read by no guard: *)
    sessions,       (* how many sessions were created                        *)
    told,           (* the last session event xrPollEvent returned           *)
    spacesStale,    (* reference spaces that were recentered unannounced     *)
    viewsStale,     (* views whose new visibility mask is unannounced        *)
    rateTold        (* the refresh rate the application asked for, or was    *)
                    (* told, last in this session: {} if it never was        *)

lifeVars == <<sessionCreated, isHeadless, sessionBegun, sessions>>
flagVars == <<stopping, exiting, lossPending>>
stateVars == <<sessionState, queue, told>>
hmdVars == <<hmdVisible, hmdMounted>>
frameVars == <<frameWaited, completed>>
recenterVars == <<ovrRecenter, shouldRecenter, spacesStale>>
maskVars == <<maskDirty, viewsStale>>
rateVars == <<rate, rateChanged, rateTold>>

vars == <<call, lifeVars, flagVars, stateVars, hmdVars, frameVars,
          recenterVars, maskVars, profileDirty, rateVars>>

States == {"UNKNOWN", "IDLE", "READY", "SYNCHRONIZED", "VISIBLE", "FOCUSED",
           "STOPPING", "EXITING"}

Calls == {"createSession", "beginSession", "endSession", "requestExit",
          "waitFrame", "endFrame", "pollEvent"}

(* m_shouldRecenter counts down through these. *)
WorldLockedSpaces == IF LocalFloor THEN {"STAGE", "LOCAL", "LOCAL_FLOOR"}
                                   ELSE {"STAGE", "LOCAL"}
SpaceOf(n) == <<"STAGE", "LOCAL", "LOCAL_FLOOR">>[n]

(* m_visibilityMaskDirty counts down through these. *)
Views == {"left", "right"}
ViewOf(n) == IF n = 2 THEN "left" ELSE "right"

FlagsOK ==
    /\ sessionCreated \in BOOLEAN /\ isHeadless \in BOOLEAN
    /\ sessionBegun \in BOOLEAN
    /\ stopping \in BOOLEAN /\ exiting \in BOOLEAN /\ lossPending \in BOOLEAN
    /\ hmdVisible \in BOOLEAN /\ hmdMounted \in BOOLEAN
    /\ frameWaited \in BOOLEAN /\ completed \in BOOLEAN
    /\ ovrRecenter \in BOOLEAN /\ profileDirty \in BOOLEAN

DataOK ==
    /\ call \in Calls \cup {"none"}
    /\ sessionState \in States
    /\ queue \in Seq(Nat \X States)
    /\ told \in Nat \X States
    /\ sessions \in Nat
    /\ shouldRecenter \in 0 .. 3
    /\ spacesStale \in SUBSET {"STAGE", "LOCAL", "LOCAL_FLOOR"}
    /\ maskDirty \in 0 .. 2
    /\ viewsStale \in SUBSET Views
    /\ rate \in Rates /\ rateChanged \in Rates /\ rateTold \in SUBSET Rates

(* Every variable has its type: the two countdowns of events included. *)
TypeOK == FlagsOK /\ DataOK

(* LibOVR's session was made by a first xrGetSystem. *)
Init ==
    /\ call = "none"
    /\ sessionCreated = FALSE /\ isHeadless = FALSE /\ sessionBegun = FALSE
    /\ stopping = FALSE /\ exiting = FALSE /\ lossPending = FALSE
    /\ sessionState = "UNKNOWN" /\ queue = <<>> /\ told = <<0, "UNKNOWN">>
    /\ hmdVisible = FALSE /\ hmdMounted = FALSE
    /\ frameWaited = FALSE /\ completed = FALSE
    /\ ovrRecenter = FALSE /\ shouldRecenter = 0 /\ spacesStale = {}
    /\ maskDirty = 0 /\ viewsStale = {} /\ profileDirty = FALSE
    /\ rate \in Rates /\ rateChanged = rate /\ rateTold = {}
    /\ sessions = 0

-----------------------------------------------------------------------------
(* updateSessionState() *)

(* The switch of the loop: where the current state goes. *)
Mutant_NextStateIgnoresStop ==  (* a visible session is not stopped *)
    CASE sessionState = "IDLE" -> IF exiting THEN "EXITING" ELSE "READY"
      [] sessionState = "READY" ->
            IF (isHeadless /\ sessionBegun) \/ completed THEN "SYNCHRONIZED"
                                                         ELSE "READY"
      [] sessionState = "SYNCHRONIZED" ->
            IF isHeadless \/ hmdVisible THEN "VISIBLE"
            ELSE IF stopping THEN "STOPPING" ELSE "SYNCHRONIZED"
      [] sessionState = "VISIBLE" ->
            IF isHeadless \/ hmdMounted THEN "FOCUSED" ELSE "VISIBLE"
      [] sessionState = "FOCUSED" ->
            IF ~isHeadless /\ ~hmdMounted THEN "VISIBLE" ELSE "FOCUSED"
      [] sessionState = "STOPPING" -> IF exiting THEN "IDLE" ELSE "STOPPING"
      [] OTHER -> sessionState

NextState ==
    CASE sessionState = "IDLE" -> IF exiting THEN "EXITING" ELSE "READY"
      [] sessionState = "READY" ->
            IF (isHeadless /\ sessionBegun) \/ completed THEN "SYNCHRONIZED"
                                                         ELSE "READY"
      [] sessionState = "SYNCHRONIZED" ->
            IF stopping THEN "STOPPING"
            ELSE IF isHeadless \/ hmdVisible THEN "VISIBLE" ELSE "SYNCHRONIZED"
      [] sessionState = "VISIBLE" ->
            IF stopping THEN "SYNCHRONIZED"
            ELSE IF isHeadless \/ hmdMounted THEN "FOCUSED" ELSE "VISIBLE"
      [] sessionState = "FOCUSED" ->
            IF stopping \/ (~isHeadless /\ ~hmdMounted) THEN "VISIBLE"
                                                        ELSE "FOCUSED"
      [] sessionState = "STOPPING" -> IF exiting THEN "IDLE" ELSE "STOPPING"
      [] OTHER -> sessionState

(* The loop ends. *)
Settled == NextState = sessionState

(* One iteration that changes the state. *)
UpdateSessionState ==
    /\ call # "none"
    /\ ~Settled
    /\ sessionState' = NextState
    /\ queue' = Append(queue, <<sessions, NextState>>)
    /\ UNCHANGED <<call, lifeVars, flagVars, told, hmdVars, frameVars,
                   recenterVars, maskVars, profileDirty, rateVars>>

(* The calls that have nothing more to do return. *)
Return ==
    /\ call \in {"createSession", "beginSession", "endSession", "requestExit",
                 "endFrame"}
    /\ Settled
    /\ call' = "none"
    /\ UNCHANGED <<lifeVars, flagVars, stateVars, hmdVars, frameVars,
                   recenterVars, maskVars, profileDirty, rateVars>>

-----------------------------------------------------------------------------
(* Session calls *)

(* xrDestroySession ends LibOVR's session, and enterVisibleMode(), which     *)
(* needs XR_MND_headless, replaces it.                                       *)
OVRSessionRemade == sessions > 0 \/ TRUE \in HeadlessModes

(* ensureOVRSession() makes it again, and initializeSystem() takes the rate  *)
(* of a headset it did not know, or was made to forget by an xrGetSystem     *)
(* that failed: a change still to be announced is dropped.                   *)
InitializeSystem ==
    \/ UNCHANGED <<rate, rateChanged>>
    \/ /\ OVRSessionRemade
       /\ \E r \in Rates : rate' = r /\ rateChanged' = r

(* Without a session, xrGetSystem and the other calls that need LibOVR's     *)
(* session make it, and so does an xrCreateSession that fails later.         *)
EnsureOVRSession ==
    /\ call = "none"
    /\ ~sessionCreated
    /\ InitializeSystem
    /\ UNCHANGED <<call, lifeVars, flagVars, stateVars, hmdVars, frameVars,
                   recenterVars, maskVars, profileDirty, rateTold>>

(* ensureOVRSession() first, and again in enterVisibleMode().                *)
(* updateSessionState(true) sends IDLE first.  refreshSettings() may find    *)
(* another mask scale.                                                       *)
CreateSession ==
    /\ call = "none"
    /\ ~sessionCreated
    /\ sessions < MaxSessions
    /\ sessionCreated' = TRUE
    /\ isHeadless' \in HeadlessModes
    /\ sessions' = sessions + 1
    /\ completed' = FALSE /\ frameWaited' = FALSE
    /\ sessionState' = "IDLE"
    /\ queue' = Append(queue, <<sessions + 1, "IDLE">>)
    /\ \E changed \in Masks :
          /\ maskDirty' = IF changed THEN 2 ELSE maskDirty
          /\ viewsStale' = IF changed THEN Views ELSE viewsStale
    /\ InitializeSystem
    /\ rateTold' = {}
    /\ call' = "createSession"
    /\ UNCHANGED <<sessionBegun, flagVars, told, hmdVars, recenterVars,
                   profileDirty>>

Mutant_DestroySession ==  (* m_sessionExiting is not reset *)
    /\ call = "none"
    /\ sessionCreated
    /\ sessionCreated' = FALSE /\ sessionBegun' = FALSE
    /\ stopping' = FALSE /\ exiting' = exiting /\ lossPending' = FALSE
    /\ sessionState' = "UNKNOWN"
    /\ UNCHANGED <<call, isHeadless, sessions, queue, told, hmdVars, frameVars,
                   recenterVars, maskVars, profileDirty, rateVars>>

(* Neither the event queue nor the recenter countdown is reset. *)
DestroySession ==
    /\ call = "none"
    /\ sessionCreated
    /\ sessionCreated' = FALSE /\ sessionBegun' = FALSE
    /\ stopping' = FALSE /\ exiting' = FALSE /\ lossPending' = FALSE
    /\ sessionState' = "UNKNOWN"
    /\ UNCHANGED <<call, isHeadless, sessions, queue, told, hmdVars, frameVars,
                   recenterVars, maskVars, profileDirty, rateVars>>

BeginSession ==
    /\ call = "none"
    /\ sessionCreated /\ ~sessionBegun
    /\ sessionState = "READY"
    /\ sessionBegun' = TRUE
    /\ call' = "beginSession"
    /\ UNCHANGED <<sessionCreated, isHeadless, sessions, flagVars, stateVars,
                   hmdVars, frameVars, recenterVars, maskVars, profileDirty,
                   rateVars>>

EndSession ==
    /\ call = "none"
    /\ sessionCreated /\ sessionBegun
    /\ sessionState = "STOPPING"
    /\ exiting' = TRUE
    /\ call' = "endSession"
    /\ UNCHANGED <<lifeVars, stopping, lossPending, stateVars, hmdVars,
                   frameVars, recenterVars, maskVars, profileDirty, rateVars>>

(* xrRequestExitSession and the frame calls accept these states. *)
Running == sessionCreated /\ sessionBegun /\ sessionState \notin {"IDLE", "EXITING"}

Mutant_RequestExitSession ==  (* does not update the state *)
    /\ call = "none"
    /\ Running
    /\ stopping' = TRUE
    /\ UNCHANGED <<call, lifeVars, exiting, lossPending, stateVars, hmdVars,
                   frameVars, recenterVars, maskVars, profileDirty, rateVars>>

RequestExitSession ==
    /\ call = "none"
    /\ Running
    /\ stopping' = TRUE
    /\ call' = "requestExit"
    /\ UNCHANGED <<lifeVars, exiting, lossPending, stateVars, hmdVars,
                   frameVars, recenterVars, maskVars, profileDirty, rateVars>>

-----------------------------------------------------------------------------
(* Frame calls, as far as the state machine and the events go *)

(* How many events a recenter sends. *)
Mutant_RecenterCount == 2
RecenterCount == IF LocalFloor THEN 3 ELSE 2

(* xrWaitFrame takes OVR's status and recenter flag... *)
WaitFrame ==
    /\ call = "none"
    /\ Running
    /\ Len(queue) < MaxQueued
    /\ hmdVisible' \in BOOLEAN /\ hmdMounted' \in BOOLEAN
    /\ lossPending' \in {lossPending, TRUE}
    /\ IF shouldRecenter = 0 /\ ovrRecenter
       THEN /\ shouldRecenter' = RecenterCount
            /\ ovrRecenter' = FALSE
            /\ spacesStale' = WorldLockedSpaces
       ELSE UNCHANGED recenterVars
    /\ call' = "waitFrame"
    /\ UNCHANGED <<lifeVars, stopping, exiting, stateVars, frameVars, maskVars,
                   profileDirty, rateVars>>

(* frameState->shouldRender *)
ShouldRender ==
    ~isHeadless /\ ~stopping /\ ~exiting /\ ~lossPending /\ hmdVisible

(* The rate xrPollEvent will compare with when the headset runs at r. *)
Mutant_RateBefore(r) == rate
RateBefore(r) == IF r # rate THEN rate ELSE rateChanged

(* ... and, once the state is up to date, its refresh rate. *)
WaitFrameReturns ==
    /\ call = "waitFrame"
    /\ Settled
    /\ \E r \in Rates :
          /\ rateChanged' = RateBefore(r)
          /\ rate' = r
    /\ frameWaited' = TRUE
    /\ call' = "none"
    /\ UNCHANGED <<lifeVars, flagVars, stateVars, hmdVars, completed,
                   recenterVars, maskVars, profileDirty, rateTold>>

(* xrGetDisplayRefreshRateFB *)
GetDisplayRefreshRate ==
    /\ call = "none"
    /\ DisplayRefreshRate
    /\ sessionCreated
    /\ rateTold' = {rate}
    /\ UNCHANGED <<call, lifeVars, flagVars, stateVars, hmdVars, frameVars,
                   recenterVars, maskVars, profileDirty, rate, rateChanged>>

(* xrEndFrame completes the frame, then updates the session state. *)
EndFrame ==
    /\ call = "none"
    /\ Running
    /\ frameWaited
    /\ frameWaited' = FALSE
    /\ completed' = TRUE
    /\ call' = "endFrame"
    /\ UNCHANGED <<lifeVars, flagVars, stateVars, hmdVars, recenterVars,
                   maskVars, profileDirty, rateVars>>

-----------------------------------------------------------------------------
(* Everything else that ends up in an event *)

(* The user recenters: OVR raises ShouldRecenter. *)
UserRecenters ==
    /\ ~ovrRecenter
    /\ ovrRecenter' = TRUE
    /\ UNCHANGED <<call, lifeVars, flagVars, stateVars, hmdVars, frameVars,
                   shouldRecenter, spacesStale, maskVars, profileDirty,
                   rateVars>>

(* rebindControllerActions() finds another interaction profile, or, with or  *)
(* without a session, the application suggests eye or body tracker bindings. *)
ProfileChanges ==
    /\ call = "none"
    /\ profileDirty' = TRUE
    /\ UNCHANGED <<call, lifeVars, flagVars, stateVars, hmdVars, frameVars,
                   recenterVars, maskVars, rateVars>>

-----------------------------------------------------------------------------
(* xrPollEvent: update the session state, then return the first event there  *)
(* is, in this order.                                                        *)

PollEvent ==
    /\ call = "none"
    /\ call' = "pollEvent"
    /\ UNCHANGED <<lifeVars, flagVars, stateVars, hmdVars, frameVars,
                   recenterVars, maskVars, profileDirty, rateVars>>

Polling == call = "pollEvent" /\ Settled

Untold == Tail(queue)

PollSessionState ==
    /\ Polling
    /\ queue # <<>>
    /\ told' = Head(queue)
    /\ queue' = Untold
    /\ call' = "none"
    /\ UNCHANGED <<lifeVars, flagVars, sessionState, hmdVars, frameVars,
                   recenterVars, maskVars, profileDirty, rateVars>>

PollProfile ==
    /\ Polling
    /\ queue = <<>> /\ profileDirty
    /\ profileDirty' = FALSE
    /\ call' = "none"
    /\ UNCHANGED <<lifeVars, flagVars, stateVars, hmdVars, frameVars,
                   recenterVars, maskVars, rateVars>>

PollRecenter ==
    /\ Polling
    /\ queue = <<>> /\ ~profileDirty
    /\ shouldRecenter > 0
    /\ spacesStale' = spacesStale \ {SpaceOf(shouldRecenter)}
    /\ shouldRecenter' = shouldRecenter - 1
    /\ call' = "none"
    /\ UNCHANGED <<lifeVars, flagVars, stateVars, hmdVars, frameVars,
                   ovrRecenter, maskVars, profileDirty, rateVars>>

Mutant_MaskLeft == 0
MaskLeft == maskDirty - 1

PollMask ==
    /\ Polling
    /\ queue = <<>> /\ ~profileDirty /\ shouldRecenter = 0
    /\ maskDirty > 0
    /\ viewsStale' = viewsStale \ {ViewOf(maskDirty)}
    /\ maskDirty' = MaskLeft
    /\ call' = "none"
    /\ UNCHANGED <<lifeVars, flagVars, stateVars, hmdVars, frameVars,
                   recenterVars, profileDirty, rateVars>>

PollRate ==
    /\ Polling
    /\ queue = <<>> /\ ~profileDirty /\ shouldRecenter = 0 /\ maskDirty = 0
    /\ DisplayRefreshRate /\ rateChanged # rate
    /\ rateTold' = {rate}
    /\ rateChanged' = rate
    /\ call' = "none"
    /\ UNCHANGED <<lifeVars, flagVars, stateVars, hmdVars, frameVars,
                   recenterVars, maskVars, profileDirty, rate>>

(* XR_EVENT_UNAVAILABLE *)
PollNothing ==
    /\ Polling
    /\ queue = <<>> /\ ~profileDirty /\ shouldRecenter = 0 /\ maskDirty = 0
    /\ ~DisplayRefreshRate \/ rateChanged = rate
    /\ call' = "none"
    /\ UNCHANGED <<lifeVars, flagVars, stateVars, hmdVars, frameVars,
                   recenterVars, maskVars, profileDirty, rateVars>>

Poll == PollSessionState \/ PollProfile \/ PollRecenter \/ PollMask \/ PollRate
            \/ PollNothing

SessionCalls == CreateSession \/ DestroySession \/ BeginSession \/ EndSession
                    \/ RequestExitSession \/ EnsureOVRSession

FrameCalls == WaitFrame \/ WaitFrameReturns \/ EndFrame \/ GetDisplayRefreshRate

Next ==
    \/ UpdateSessionState \/ Return \/ SessionCalls \/ FrameCalls
    \/ UserRecenters \/ ProfileChanges \/ PollEvent \/ Poll

Spec == Init /\ [][Next]_vars

-----------------------------------------------------------------------------
(* Fairness: a call runs to its end, and the application, as OpenXR asks it  *)
(* to, keeps polling events, keeps its frame loop going while the session    *)
(* runs, and calls xrEndSession when it hears STOPPING.                      *)

HeardStopping == told = <<sessions, "STOPPING">>

Fairness ==
    /\ WF_vars(UpdateSessionState \/ Return \/ WaitFrameReturns \/ Poll)
    /\ SF_vars(PollEvent)
    /\ SF_vars(WaitFrame)
    /\ SF_vars(EndFrame)
    /\ SF_vars(HeardStopping /\ EndSession)

FairSpec == Spec /\ Fairness

-----------------------------------------------------------------------------
(* Safety *)

(* Between calls the state is the one updateSessionState() would compute     *)
(* again: no call changes what the state machine looks at without running    *)
(* it, and one run of the loop is enough.                                    *)
SettledBetweenCalls == call = "none" => Settled

(* The application can always find out the state it is in: it is the one     *)
(* of the last event of the queue, or of the last event it was given.        *)
StateIsAnnounced ==
    sessionCreated =>
        <<sessions, sessionState>> = IF queue = <<>> THEN told
                                                     ELSE queue[Len(queue)]

(* A frame is to be rendered only while the application is visible, or       *)
(* before its first frame completed.                                         *)
RenderedFramesAreVisible ==
    call = "waitFrame" /\ Settled /\ completed /\ ShouldRender
        => sessionState \in {"VISIBLE", "FOCUSED"}

(* "We will send one event for each world-locked reference space             *)
(* (LOCAL, STAGE and LOCAL_FLOOR_EXT)." (frame.cpp:79): when a countdown is  *)
(* over every space was announced, even when the user recentered again, or   *)
(* the session changed, meanwhile.                                           *)
RecenterAnnounced ==
    spacesStale = {SpaceOf(n) : n \in 1 .. shouldRecenter}

(* Both views are told of a new visibility mask, even when another comes     *)
(* before the second view was told of the first.                             *)
MaskAnnounced == viewsStale = {ViewOf(n) : n \in 1 .. maskDirty}

(* An application that asked for the refresh rate in this session, or was    *)
(* told it, knows it whenever no event is left, however often it changed     *)
(* between two polls, and whatever was pending when the session was created. *)
(* What it learnt in an earlier session may be wrong: InitializeSystem.      *)
RateAnnounced ==
    sessionCreated /\ rateChanged = rate => rateTold \subseteq {rate}

-----------------------------------------------------------------------------

Phase ==
    IF ~sessionCreated THEN "none"
    ELSE IF ~sessionBegun THEN "created"
    ELSE IF sessionState \in {"IDLE", "EXITING"} THEN "ended" ELSE "running"

Contract == INSTANCE SessionContract WITH phase <- Phase, heard <- told

(* What xrPollEvent tells the application of its sessions is a gapless walk  *)
(* of the OpenXR lifecycle, across session changes too, and frames are       *)
(* accepted once per session, between xrBeginSession and EXITING.            *)
ImplementsContract == Contract!Spec

-----------------------------------------------------------------------------
(* Liveness *)

(* Once the application asks to exit, it hears EXITING, unless it destroys   *)
(* the session: through whatever states, and whatever the headset does.      *)
ExitIsHeard ==
    stopping ~> (told = <<sessions, "EXITING">> \/ ~sessionCreated)
=============================================================================
