------------------------------ MODULE Runtime ------------------------------
(***************************************************************************)
(* What the runtime object owns, and what must outlive what: the instance, *)
(* the LibOVR session, the mapped view of Virtual Desktop's body tracking  *)
(* data, and the threads of a session that use them: the body state        *)
(* watcher and the thread of the mirror window.                            *)
(*                                                                         *)
(* The application calls from one thread.  The two threads, the user who   *)
(* closes the window, the registry watcher and the headset run beside it.  *)
(***************************************************************************)
EXTENDS Integers

CONSTANTS
    Devices,        \* headsets that may be connected, by serial number
    None

ASSUME RuntimeAssumption == None \notin Devices

VARIABLES
    device,         \* the headset that is connected, or None
    bodyFile,       \* Virtual Desktop publishes VirtualDesktop.BodyState
    m_instanceCreated,
    has_XR_MND_headless,
    m_systemCreated,
    ovr,            \* LibOVR, and what is known of it: see Ovr
    promised,       \* history: m_supports* when the system was created
    m_sessionCreated,
    m_sessionBegun,
    m_isHeadless,
    m_terminateBodyStateThread,
    watcher,        \* bodyStateWatcherThread()
    m_useMirrorWindow,
    m_mirrorWindowReady,
    m_mirrorWindowHwnd,     \* whether it is set
    closing,        \* WM_CLOSE is in the queue of the window
    mirror,         \* the thread of the mirror window
    m_ovrMirrorSwapChain,   \* whether it is set
    ovrMirrors,     \* external: how many mirror textures LibOVR has
    app             \* where the application's thread is, and what called it

world == <<device, bodyFile>>
system == <<m_systemCreated, ovr, promised>>
instance == <<m_instanceCreated, has_XR_MND_headless>>
session == <<m_sessionCreated, m_sessionBegun, m_isHeadless>>
body == <<m_terminateBodyStateThread, watcher>>
window == <<m_mirrorWindowReady, m_mirrorWindowHwnd, closing, mirror>>
texture == <<m_ovrMirrorSwapChain, ovrMirrors>>
vars == <<world, system, instance, session, body, m_useMirrorWindow, window,
          texture, app>>

\* m_isOVRLoaded, m_ovrSession and m_bodyState, as flags; LibOVR's mode, and
\* how many sessions it has; whether the view is mapped; m_cachedHmdInfo; any
\* m_supports* of an enabled extension.
Ovr == [loaded : BOOLEAN, session : BOOLEAN, bodyState : BOOLEAN,
        mode : {"off", "invisible", "visible"}, live : Int, mapped : BOOLEAN,
        cachedHmdInfo : Devices \cup {None}, supports : BOOLEAN]

NoOvr == [loaded |-> FALSE, session |-> FALSE, bodyState |-> FALSE,
          mode |-> "off", live |-> 0, mapped |-> FALSE,
          cachedHmdInfo |-> None, supports |-> FALSE]

\* Where a call is, and whether the runtime is being destroyed.
App == [at : {"idle", "update", "draw", "joinWatcher", "awaitReady",
              "awaitClosed", "joinMirror", "finish", "unmap"},
        dying : BOOLEAN]

Idle == [at |-> "idle", dying |-> FALSE]

Init ==
    /\ device \in Devices \cup {None}
    /\ bodyFile \in BOOLEAN
    /\ m_instanceCreated = FALSE
    /\ has_XR_MND_headless = FALSE
    /\ m_systemCreated = FALSE
    /\ ovr = NoOvr
    /\ promised = FALSE
    /\ m_sessionCreated = FALSE
    /\ m_sessionBegun = FALSE
    /\ m_isHeadless = FALSE
    /\ m_terminateBodyStateThread = FALSE
    /\ watcher = "none"
    /\ m_useMirrorWindow \in BOOLEAN
    /\ m_mirrorWindowReady = FALSE
    /\ m_mirrorWindowHwnd = FALSE
    /\ m_ovrMirrorSwapChain = FALSE
    /\ closing = FALSE
    /\ mirror = "none"
    /\ ovrMirrors = 0
    /\ app = Idle

-----------------------------------------------------------------------------
(* Functions that may fail, as the sets of their outcomes: returns true,   *)
(* returns false or throws, and what they leave behind.                    *)

Outcome(result, o) == [result |-> result, ovr |-> o]

\* The service is not running, an unexpected error, or LibOVR is there.
initializeOVR(o) ==
    {Outcome("false", o), Outcome("throws", o),
     Outcome("true",
        [o EXCEPT !.loaded = TRUE, !.session = FALSE,
                  !.mode = IF has_XR_MND_headless THEN "invisible"
                           ELSE "visible"])}

\* Without the file, the view there was is kept.
initializeBodyTrackingMmf(o) ==
    IF ~bodyFile THEN {o}
    ELSE {[o EXCEPT !.bodyState = mapped, !.mapped = mapped] :
            mapped \in BOOLEAN}

\* Mutant: capabilities are not cleared without the data.
Mutant_Supporting(o, s) ==
    [o EXCEPT !.cachedHmdInfo = device, !.supports = s]

Supporting(o, s) ==
    [o EXCEPT !.cachedHmdInfo = device, !.supports = o.bodyState /\ s]

\* Capabilities are latched when the device changes.
Latched(o) ==
    IF o.cachedHmdInfo = device THEN {o}
    ELSE {Supporting(p, s) : p \in initializeBodyTrackingMmf(o), s \in BOOLEAN}

\* The tracking origin is set last, and may fail.
initializeSystem(o) ==
    {Outcome(result, p) : result \in {"true", "throws"}, p \in Latched(o)}

Created(o) == [o EXCEPT !.session = TRUE, !.live = @ + 1]

\* ovr_Create() and what follows; the status may not be had.
CreateOVRSession(o) ==
    IF device = None THEN {Outcome("false", o)}
    ELSE {Outcome("throws", o), Outcome("throws", Created(o))}
           \cup initializeSystem(Created(o))

Loaded(o) ==
    IF o.loaded THEN {Outcome("true", o)} ELSE initializeOVR(o)

WithSession(loaded) ==
    IF loaded.result = "true" THEN CreateOVRSession(loaded.ovr) ELSE {loaded}

\* Mutant: a new session is made of every call.
Mutant_ensureOVRSession(o) ==
    UNION {WithSession(loaded) : loaded \in Loaded(o)}

ensureOVRSession(o) ==
    IF o.session THEN {Outcome("true", o)}
    ELSE UNION {WithSession(loaded) : loaded \in Loaded(o)}

\* ovr_ReInitialize() and ovr_Destroy().
Visible(o) ==
    [o EXCEPT !.mode = "visible", !.session = FALSE, !.live = @ - 1]

OrThrows(made) ==
    IF made.result = "true" THEN made ELSE Outcome("throws", made.ovr)

\* Without a session of LibOVR, the call has failed, and so has the next one
\* until there is a headset.
enterVisibleMode(o) ==
    {Outcome("throws", o)}
      \cup {OrThrows(made) : made \in ensureOVRSession(Visible(o))}

-----------------------------------------------------------------------------
(* Instance and system.                                                    *)

Calls == app = Idle

\* An extension that is not known is refused after those before it were
\* registered.
xrCreateInstance(headless, known) ==
    /\ Calls /\ ~m_instanceCreated
    /\ has_XR_MND_headless' = (has_XR_MND_headless \/ headless)
    /\ m_instanceCreated' = known
    /\ UNCHANGED <<world, system, session, body, m_useMirrorWindow, window,
                   texture, app>>

xrGetSystem ==
    /\ Calls /\ m_instanceCreated
    /\ \E made \in ensureOVRSession(ovr) :
         /\ ovr' = IF made.result = "false"
                   THEN [made.ovr EXCEPT !.cachedHmdInfo = None] ELSE made.ovr
         /\ m_systemCreated' = (m_systemCreated \/ made.result = "true")
         /\ promised' = IF m_systemCreated \/ made.result # "true" THEN promised
                        ELSE made.ovr.supports
    /\ UNCHANGED <<world, instance, session, body, m_useMirrorWindow, window,
                   texture, app>>

\* The destructor: a session that is left is destroyed as by the application.
xrDestroyInstance ==
    /\ Calls /\ m_instanceCreated
    /\ app' = [at |-> IF m_sessionCreated THEN "joinWatcher" ELSE "unmap",
               dying |-> TRUE]
    /\ UNCHANGED <<world, instance, system, session, body, m_useMirrorWindow,
                   window, texture>>

\* UnmapViewOfFile(), ovr_Destroy() and ovr_Shutdown(). The next call makes a
\* new runtime.
ResetInstance ==
    /\ app.at = "unmap"
    /\ m_instanceCreated' = FALSE /\ has_XR_MND_headless' = FALSE
    /\ m_systemCreated' = FALSE /\ promised' = FALSE
    /\ ovr' = [NoOvr EXCEPT !.live = ovr.live - (IF ovr.session THEN 1 ELSE 0)]
    /\ m_sessionCreated' = FALSE /\ m_sessionBegun' = FALSE
    /\ m_isHeadless' = FALSE
    /\ m_terminateBodyStateThread' = FALSE
    /\ m_mirrorWindowReady' = FALSE
    /\ m_ovrMirrorSwapChain' = FALSE
    /\ app' = Idle
    /\ UNCHANGED <<world, watcher, m_useMirrorWindow, m_mirrorWindowHwnd,
                   closing, mirror, ovrMirrors>>

-----------------------------------------------------------------------------
(* The session.                                                            *)

\* An application that renders needs LibOVR to be visible, if it was made
\* otherwise for the extension.
Entered(o, headless) ==
    IF ~headless /\ has_XR_MND_headless THEN enterVisibleMode(o)
    ELSE {Outcome("true", o)}

\* LIMIT_REACHED, or an error of ensureOVRSession() or of the graphics device.
CreateSessionRefused ==
    /\ Calls /\ m_instanceCreated /\ m_systemCreated
    /\ \E made \in ensureOVRSession(ovr) : ovr' = made.ovr
    /\ UNCHANGED <<world, instance, m_systemCreated, promised, session, body,
                   m_useMirrorWindow, window, texture, app>>

xrCreateSession(headless) ==
    /\ Calls /\ m_instanceCreated /\ m_systemCreated /\ ~m_sessionCreated
    /\ m_isHeadless' = headless
    /\ \E made \in ensureOVRSession(ovr) :
       \E in \in Entered(made.ovr, headless) :
         /\ made.result = "true"
         /\ \/ /\ headless /\ ~has_XR_MND_headless
               /\ ovr' = made.ovr
               /\ UNCHANGED m_sessionCreated
            \/ /\ ~headless \/ has_XR_MND_headless
               /\ ovr' = in.ovr
               /\ m_sessionCreated' = (in.result = "true")
    /\ UNCHANGED <<world, instance, m_systemCreated, promised, m_sessionBegun,
                   body, m_useMirrorWindow, window, texture, app>>

xrBeginSession ==
    /\ Calls /\ m_sessionCreated /\ ~m_sessionBegun
    /\ m_sessionBegun' = TRUE
    /\ IF ovr.supports
       THEN /\ m_terminateBodyStateThread' = FALSE
            /\ watcher' = "waiting"
       ELSE UNCHANGED body
    /\ UNCHANGED <<world, instance, system, m_sessionCreated, m_isHeadless,
                   m_useMirrorWindow, window, texture, app>>

xrDestroySession ==
    /\ Calls /\ m_sessionCreated
    /\ app' = [Idle EXCEPT !.at = "joinWatcher"]
    /\ UNCHANGED <<world, instance, system, session, body, m_useMirrorWindow,
                   window, texture>>

\* Mutant: without the setting, no window is looked for.
Mutant_JoinWatcher ==
    /\ app.at = "joinWatcher"
    /\ watcher \in {"none", "ended"} \/ ~m_terminateBodyStateThread
    /\ m_terminateBodyStateThread' =
         (m_terminateBodyStateThread \/ watcher # "none")
    /\ IF watcher \in {"none", "ended"}
       THEN /\ watcher' = "none"
            /\ app' = [app EXCEPT !.at = IF m_useMirrorWindow
                                         THEN "awaitReady" ELSE "finish"]
       ELSE UNCHANGED <<watcher, app>>
    /\ UNCHANGED <<world, instance, system, session, m_useMirrorWindow, window,
                   texture>>

\* m_terminateBodyStateThread is set, and then the thread ends.
JoinWatcher ==
    /\ app.at = "joinWatcher"
    /\ watcher \in {"none", "ended"} \/ ~m_terminateBodyStateThread
    /\ m_terminateBodyStateThread' =
         (m_terminateBodyStateThread \/ watcher # "none")
    /\ IF watcher \in {"none", "ended"}
       THEN /\ watcher' = "none"
            /\ app' = [app EXCEPT !.at = IF mirror = "none" THEN "finish"
                                         ELSE "awaitReady"]
       ELSE UNCHANGED <<watcher, app>>
    /\ UNCHANGED <<world, instance, system, session, m_useMirrorWindow, window,
                   texture>>

\* Mutant: no waiting for the window to be made.
Mutant_AwaitReady ==
    /\ app.at = "awaitReady"
    /\ app' = [app EXCEPT !.at = "awaitClosed"]
    /\ UNCHANGED <<world, instance, system, session, body, m_useMirrorWindow,
                   window, texture>>

AwaitReady ==
    /\ app.at = "awaitReady" /\ m_mirrorWindowReady
    /\ app' = [app EXCEPT !.at = "awaitClosed"]
    /\ UNCHANGED <<world, instance, system, session, body, m_useMirrorWindow,
                   window, texture>>

\* PostMessage(WM_CLOSE), again and again: it is lost once the window is gone.
PostClose ==
    /\ app.at = "awaitClosed" /\ m_mirrorWindowHwnd
    /\ closing' = (mirror = "pumping")
    /\ UNCHANGED <<world, instance, system, session, body, m_useMirrorWindow,
                   m_mirrorWindowReady, m_mirrorWindowHwnd, mirror, texture,
                   app>>

SeeClosed ==
    /\ app.at = "awaitClosed" /\ ~m_mirrorWindowHwnd
    /\ app' = [app EXCEPT !.at = "joinMirror"]
    /\ UNCHANGED <<world, instance, system, session, body, m_useMirrorWindow,
                   window, texture>>

JoinMirror ==
    /\ app.at = "joinMirror" /\ mirror = "ended"
    /\ mirror' = "none"
    /\ app' = [app EXCEPT !.at = "finish"]
    /\ UNCHANGED <<world, instance, system, session, body, m_useMirrorWindow,
                   m_mirrorWindowReady, m_mirrorWindowHwnd, closing, texture>>

\* The handles go, which Spaces has, and then LibOVR's session.
FinishDestroySession ==
    /\ app.at = "finish"
    /\ m_sessionCreated' = FALSE
    /\ m_sessionBegun' = FALSE
    /\ ovr' = [ovr EXCEPT !.session = FALSE, !.live = @ - 1]
    /\ app' = IF app.dying THEN [app EXCEPT !.at = "unmap"] ELSE Idle
    /\ UNCHANGED <<world, instance, m_systemCreated, promised, m_isHeadless,
                   body, m_useMirrorWindow, window, texture>>

-----------------------------------------------------------------------------
(* bodyStateWatcherThread().                                               *)

WatcherWakes ==
    /\ watcher = "waiting"
    /\ watcher' = IF m_terminateBodyStateThread THEN "ended" ELSE "copying"
    /\ UNCHANGED <<world, instance, system, session, m_terminateBodyStateThread,
                   m_useMirrorWindow, window, texture, app>>

\* m_cachedBodyState = *m_bodyState, and a sleep.
WatcherCopies ==
    /\ watcher = "copying"
    /\ watcher' = "waiting"
    /\ UNCHANGED <<world, instance, system, session, m_terminateBodyStateThread,
                   m_useMirrorWindow, window, texture, app>>

-----------------------------------------------------------------------------
(* The mirror window.                                                      *)

createMirrorWindow ==
    /\ m_mirrorWindowReady' = FALSE
    /\ mirror' = "creating"
    /\ closing' = FALSE
    /\ UNCHANGED m_mirrorWindowHwnd

\* The end of xrEndFrame().
xrEndFrame ==
    /\ Calls /\ m_sessionBegun
    /\ IF ~m_isHeadless /\ m_useMirrorWindow /\ mirror = "none"
       THEN createMirrorWindow ELSE UNCHANGED window
    /\ app' = [Idle EXCEPT !.at = "update"]
    /\ UNCHANGED <<world, instance, system, session, body, m_useMirrorWindow,
                   texture>>

IsWindowVisible == m_mirrorWindowHwnd /\ mirror = "pumping"

\* updateMirrorWindow(), once it has m_mirrorWindowMutex.
updateMirrorWindow ==
    /\ app.at = "update"
    /\ app' = [app EXCEPT !.at = IF m_mirrorWindowReady /\ IsWindowVisible
                                 THEN "draw" ELSE "idle"]
    /\ UNCHANGED <<world, instance, system, session, body, m_useMirrorWindow,
                   window, texture>>

\* The texture is as it should be, or there is an error before it is touched.
\* xrEndFrame() catches the exception.
DrawMirror ==
    /\ app.at = "draw"
    /\ app' = Idle
    /\ UNCHANGED <<world, instance, system, session, body, m_useMirrorWindow,
                   window, texture>>

\* A first texture, or one of another size. LibOVR gives null for a failure.
ResizeMirror(created) ==
    /\ app.at = "draw"
    /\ m_ovrMirrorSwapChain' = created
    /\ ovrMirrors' = ovrMirrors - (IF m_ovrMirrorSwapChain THEN 1 ELSE 0)
                       + (IF created THEN 1 ELSE 0)
    /\ app' = Idle
    /\ UNCHANGED <<world, instance, system, session, body, m_useMirrorWindow,
                   window>>

MirrorCreates ==
    /\ mirror = "creating"
    /\ mirror' = "created"
    /\ m_mirrorWindowHwnd' = TRUE
    /\ UNCHANGED <<world, instance, system, session, body, m_useMirrorWindow,
                   m_mirrorWindowReady, closing, texture, app>>

MirrorReady ==
    /\ mirror = "created"
    /\ mirror' = "pumping"
    /\ m_mirrorWindowReady' = TRUE
    /\ UNCHANGED <<world, instance, system, session, body, m_useMirrorWindow,
                   m_mirrorWindowHwnd, closing, texture, app>>

UserCloses ==
    /\ mirror = "pumping"
    /\ closing' = TRUE
    /\ UNCHANGED <<world, instance, system, session, body, m_useMirrorWindow,
                   m_mirrorWindowReady, m_mirrorWindowHwnd, mirror, texture,
                   app>>

\* WM_CLOSE destroys the window, and then there are no more messages.
mirrorWindowProc ==
    /\ mirror = "pumping" /\ closing
    /\ mirror' = "closed"
    /\ closing' = FALSE
    /\ UNCHANGED <<world, instance, system, session, body, m_useMirrorWindow,
                   m_mirrorWindowReady, m_mirrorWindowHwnd, texture, app>>

\* Mutant: without m_mirrorWindowMutex.
Mutant_MirrorFrees ==
    /\ mirror = "closed"
    /\ mirror' = "ended"
    /\ m_mirrorWindowHwnd' = FALSE
    /\ m_ovrMirrorSwapChain' = FALSE
    /\ ovrMirrors' = ovrMirrors - (IF m_ovrMirrorSwapChain THEN 1 ELSE 0)
    /\ UNCHANGED <<world, instance, system, session, body, m_useMirrorWindow,
                   m_mirrorWindowReady, closing, app>>

\* Under m_mirrorWindowMutex.
MirrorFrees ==
    /\ mirror = "closed" /\ app.at # "draw"
    /\ mirror' = "ended"
    /\ m_mirrorWindowHwnd' = FALSE
    /\ m_ovrMirrorSwapChain' = FALSE
    /\ ovrMirrors' = ovrMirrors - (IF m_ovrMirrorSwapChain THEN 1 ELSE 0)
    /\ UNCHANGED <<world, instance, system, session, body, m_useMirrorWindow,
                   m_mirrorWindowReady, closing, app>>

-----------------------------------------------------------------------------
(* The world.                                                              *)

\* A headset comes or goes; Virtual Desktop publishes the data or not.
WorldChanges ==
    /\ device' \in Devices \cup {None} /\ bodyFile' \in BOOLEAN
    /\ UNCHANGED <<instance, system, session, body, m_useMirrorWindow, window,
                   texture, app>>

\* The part of refreshSettings(), on its thread, that matters here.
refreshSettings ==
    /\ m_useMirrorWindow' \in BOOLEAN
    /\ UNCHANGED <<world, instance, system, session, body, window, texture,
                   app>>

-----------------------------------------------------------------------------
InstanceCalls ==
    \/ \E headless, known \in BOOLEAN : xrCreateInstance(headless, known)
    \/ xrGetSystem \/ xrDestroyInstance

SessionCalls ==
    \/ CreateSessionRefused
    \/ \E headless \in BOOLEAN : xrCreateSession(headless)
    \/ xrBeginSession \/ xrDestroySession \/ xrEndFrame

\* What a call does once it was made.
Proceeds ==
    \/ JoinWatcher \/ AwaitReady \/ PostClose \/ SeeClosed
    \/ JoinMirror \/ FinishDestroySession \/ ResetInstance
    \/ updateMirrorWindow \/ DrawMirror
    \/ \E created \in BOOLEAN : ResizeMirror(created)

Watcher == WatcherWakes \/ WatcherCopies

\* The thread of the window, which is not the user.
Mirror == MirrorCreates \/ MirrorReady \/ mirrorWindowProc \/ MirrorFrees

Next ==
    \/ InstanceCalls \/ SessionCalls \/ Proceeds \/ Watcher \/ Mirror
    \/ UserCloses \/ WorldChanges \/ refreshSettings

Spec == Init /\ [][Next]_vars

\* Threads that can run do, and so does a call that can go on.
FairSpec ==
    Spec /\ WF_vars(Proceeds) /\ WF_vars(Watcher) /\ WF_vars(Mirror)

-----------------------------------------------------------------------------
(* Properties.                                                             *)

\* Types of the variables.
TypeOK ==
    /\ device \in Devices \cup {None} /\ bodyFile \in BOOLEAN
    /\ m_instanceCreated \in BOOLEAN /\ has_XR_MND_headless \in BOOLEAN
    /\ m_systemCreated \in BOOLEAN /\ ovr \in Ovr /\ promised \in BOOLEAN
    /\ m_sessionCreated \in BOOLEAN /\ m_sessionBegun \in BOOLEAN
    /\ m_isHeadless \in BOOLEAN
    /\ m_terminateBodyStateThread \in BOOLEAN
    /\ watcher \in {"none", "waiting", "copying", "ended"}
    /\ m_useMirrorWindow \in BOOLEAN /\ m_mirrorWindowReady \in BOOLEAN
    /\ m_mirrorWindowHwnd \in BOOLEAN /\ closing \in BOOLEAN
    /\ mirror \in {"none", "creating", "created", "pumping", "closed", "ended"}
    /\ m_ovrMirrorSwapChain \in BOOLEAN /\ ovrMirrors \in Int
    /\ app \in App

\* The watcher copies from a view that is mapped (system.cpp:656), through
\* devices that change, data that come and go, and the end of the instance.
WatcherReadsMappedView == watcher = "copying" => ovr.bodyState /\ ovr.mapped

\* The thread objects are of the session: they are joined before they are
\* destroyed or assigned to, either of which would end the process.
ThreadsOfSession ==
    /\ watcher # "none" => m_sessionBegun
    /\ mirror # "none" => m_sessionBegun /\ ~m_isHeadless

\* The mirror texture is destroyed once, and before the session of LibOVR it
\* is of, as LibOVR wants it: none is made after the thread that destroys it
\* is done, whoever closes the window and whenever.
MirrorTexturesTied ==
    /\ ovrMirrors = IF m_ovrMirrorSwapChain THEN 1 ELSE 0
    /\ m_ovrMirrorSwapChain => ovr.session /\ mirror \notin {"none", "ended"}

\* LibOVR has the session that the runtime knows of and no other, through all
\* the calls that may fail half-way; a session of OpenXR has one, which is
\* visible for an application that renders, even if it could be headless.
OvrSessionsTied ==
    /\ ovr.live = IF ovr.session THEN 1 ELSE 0
    /\ m_sessionCreated => ovr.session
    /\ m_sessionCreated /\ ~m_isHeadless => ovr.mode = "visible"

\* xrDestroySession() and xrDestroyInstance() return, and so does xrEndFrame(),
\* with threads to join and a window that may be half made or half closed.
CallsReturn == app.at # "idle" ~> app.at = "idle"

\* What xrGetSystemProperties() says is not "allowed to change later during the
\* lifetime of the system" (the comment at system.cpp:536).
CapabilitiesLatched == m_systemCreated => ovr.supports = promised

=============================================================================
