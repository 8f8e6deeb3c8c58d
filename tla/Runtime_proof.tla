---------------------------- MODULE Runtime_proof ----------------------------
(***************************************************************************)
(* Theorems about Runtime for any set of headsets, checked by TLAPS.        *)
(***************************************************************************)
EXTENDS Runtime, TLAPS

-----------------------------------------------------------------------------
(* LibOVR, whatever failed on the way: it has the session that is known of  *)
(* and no other, the view is mapped as long as it is used, nothing is       *)
(* supported without it, and frames are shown but for the extension.        *)
Good(o, invisible) ==
    /\ o \in Ovr
    /\ o.live = IF o.session THEN 1 ELSE 0
    /\ o.session => o.loaded
    /\ o.bodyState = o.mapped
    /\ o.supports => o.bodyState
    /\ o.loaded /\ ~invisible => o.mode = "visible"

(* The view is mapped or not; nothing else changes.                         *)
LEMMA MmfMaps ==
    ASSUME NEW o \in Ovr, o.bodyState = o.mapped,
           NEW p \in initializeBodyTrackingMmf(o)
    PROVE  /\ p \in Ovr /\ p.bodyState = p.mapped
           /\ p.live = o.live /\ p.mode = o.mode
           /\ p.session = o.session /\ p.loaded = o.loaded
<1>1. CASE ~bodyFile BY <1>1 DEF initializeBodyTrackingMmf
<1>2. CASE bodyFile
  <2>1. PICK mapped \in BOOLEAN :
            p = [o EXCEPT !.bodyState = mapped, !.mapped = mapped]
    BY <1>2 DEF initializeBodyTrackingMmf
  <2>2. p \in Ovr BY <2>1 DEF Ovr
  <2>3. p.live = o.live /\ p.mode = o.mode BY <2>1 DEF Ovr
  <2>4. p.session = o.session /\ p.loaded = o.loaded BY <2>1 DEF Ovr
  <2>5. p.bodyState = p.mapped BY <2>1 DEF Ovr
  <2> QED BY <2>2, <2>3, <2>4, <2>5
<1> QED BY <1>1, <1>2

(* What is latched is no more than the view allows.                         *)
LEMMA LatchedIsGood ==
    ASSUME NEW o, NEW invisible \in BOOLEAN, Good(o, invisible),
           device \in Devices \cup {None},
           NEW q \in Latched(o)
    PROVE  Good(q, invisible) /\ q.session = o.session /\ q.mode = o.mode
<1>0. o \in Ovr BY DEF Good
<1>1. CASE o.cachedHmdInfo = device BY <1>1 DEF Latched
<1>2. CASE o.cachedHmdInfo # device
  <2>1. PICK p \in initializeBodyTrackingMmf(o), s \in BOOLEAN :
            q = Supporting(p, s)
    BY <1>2 DEF Latched
  <2>2. /\ p \in Ovr /\ p.bodyState = p.mapped
        /\ p.live = o.live /\ p.mode = o.mode
        /\ p.session = o.session /\ p.loaded = o.loaded
    BY <1>0, MmfMaps DEF Good
  <2>3. q \in Ovr BY <2>1, <2>2 DEF Supporting, Ovr
  <2>4. q.live = p.live /\ q.mode = p.mode BY <2>1, <2>2 DEF Supporting, Ovr
  <2>5. q.session = p.session /\ q.loaded = p.loaded
    BY <2>1, <2>2 DEF Supporting, Ovr
  <2>6. q.bodyState = p.bodyState /\ q.mapped = p.mapped
    BY <2>1, <2>2 DEF Supporting, Ovr
  <2>7. q.supports => p.bodyState BY <2>1, <2>2 DEF Supporting, Ovr
  <2> QED BY <2>2, <2>3, <2>4, <2>5, <2>6, <2>7 DEF Good
<1> QED BY <1>1, <1>2

(* initializeSystem() may throw, after it latched.                          *)
LEMMA SystemIsGood ==
    ASSUME NEW o, NEW invisible \in BOOLEAN, Good(o, invisible),
           device \in Devices \cup {None},
           NEW made \in initializeSystem(o)
    PROVE  /\ Good(made.ovr, invisible) /\ made.ovr.session = o.session
           /\ made.ovr.mode = o.mode
<1>1. PICK result \in {"true", "throws"}, q \in Latched(o) :
          made = Outcome(result, q)
  BY DEF initializeSystem
<1>2. made.ovr = q BY <1>1 DEF Outcome
<1> QED BY <1>2, LatchedIsGood

(* Without LibOVR there is no session, and loading it makes none.           *)
LEMMA LoadedIsGood ==
    ASSUME NEW o, Good(o, has_XR_MND_headless), has_XR_MND_headless \in BOOLEAN,
           ~o.session, NEW made \in Loaded(o)
    PROVE  /\ Good(made.ovr, has_XR_MND_headless)
           /\ ~made.ovr.session
           /\ made.result = "true" => made.ovr.loaded
<1>0. o \in Ovr BY DEF Good
<1>1. CASE made = Outcome("true", o) /\ o.loaded
  BY <1>1 DEF Outcome
<1>2. CASE made \in {Outcome("false", o), Outcome("throws", o)}
  <2>1. made.ovr = o /\ made.result # "true" BY <1>2 DEF Outcome
  <2> QED BY <2>1
<1>3. CASE /\ ~o.loaded
           /\ made = Outcome("true",
                        [o EXCEPT !.loaded = TRUE, !.session = FALSE,
                                  !.mode = IF has_XR_MND_headless
                                           THEN "invisible" ELSE "visible"])
  <2> DEFINE q == [o EXCEPT !.loaded = TRUE, !.session = FALSE,
                            !.mode = IF has_XR_MND_headless
                                     THEN "invisible" ELSE "visible"]
  <2>1. made.ovr = q BY <1>3 DEF Outcome
  <2>2. q \in Ovr BY <1>0 DEF Ovr
  <2>3. q.session = FALSE /\ q.loaded = TRUE BY <1>0 DEF Ovr
  <2>4. q.live = o.live BY <1>0 DEF Ovr
  <2>5. q.bodyState = o.bodyState /\ q.mapped = o.mapped BY <1>0 DEF Ovr
  <2>6. q.supports = o.supports BY <1>0 DEF Ovr
  <2>7. ~has_XR_MND_headless => q.mode = "visible" BY <1>0 DEF Ovr
  <2> HIDE DEF q
  <2>8. Good(q, has_XR_MND_headless)
    BY <2>2, <2>3, <2>4, <2>5, <2>6, <2>7 DEF Good
  <2> QED BY <2>1, <2>3, <2>8
<1> QED BY <1>1, <1>2, <1>3 DEF Loaded, initializeOVR

(* ovr_Create() gives the only session there is, or none.                   *)
LEMMA CreatedIsGood ==
    ASSUME NEW o, NEW invisible \in BOOLEAN, Good(o, invisible),
           device \in Devices \cup {None}, ~o.session, o.loaded,
           NEW made \in CreateOVRSession(o)
    PROVE  /\ Good(made.ovr, invisible)
           /\ made.result = "true" => made.ovr.session
           /\ made.result = "true" => made.ovr.mode = o.mode
<1>0. o \in Ovr /\ o.live = 0 BY DEF Good
<1> DEFINE q == Created(o)
<1>a. o.live + 1 \in Int BY <1>0
<1>1. q \in Ovr BY <1>0, <1>a DEF Created, Ovr
<1>2. q.session = TRUE /\ q.live = 1 BY <1>0 DEF Created, Ovr
<1>3. q.loaded = o.loaded /\ q.mode = o.mode BY <1>0 DEF Created, Ovr
<1>4. q.bodyState = o.bodyState /\ q.mapped = o.mapped
  BY <1>0 DEF Created, Ovr
<1>5. q.supports = o.supports BY <1>0 DEF Created, Ovr
<1> HIDE DEF q
<1>6. Good(q, invisible) BY <1>1, <1>2, <1>3, <1>4, <1>5 DEF Good
<1>7. CASE made \in {Outcome("false", o), Outcome("throws", o)}
  <2>1. made.ovr = o /\ made.result # "true" BY <1>7 DEF Outcome
  <2> QED BY <2>1
<1>8. CASE made = Outcome("throws", q)
  <2>1. made.ovr = q /\ made.result # "true" BY <1>8 DEF Outcome
  <2> QED BY <2>1, <1>6
<1>9. CASE made \in initializeSystem(q)
  <2>1. Good(made.ovr, invisible) /\ made.ovr.session = q.session
        /\ made.ovr.mode = q.mode
    BY <1>6, <1>9, SystemIsGood
  <2> QED BY <2>1, <1>2, <1>3
<1> QED BY <1>7, <1>8, <1>9 DEF CreateOVRSession, q

(* The runtime has a session of LibOVR when ensureOVRSession() says so, and  *)
(* never makes a second one.                                                *)
LEMMA EnsureIsGood ==
    ASSUME NEW o, Good(o, has_XR_MND_headless), has_XR_MND_headless \in BOOLEAN,
           device \in Devices \cup {None},
           NEW made \in ensureOVRSession(o)
    PROVE  /\ Good(made.ovr, has_XR_MND_headless)
           /\ o.session => made.ovr = o
           /\ made.result = "true" => made.ovr.session
           /\ made.result = "true" /\ o.loaded => made.ovr.mode = o.mode
<1>1. CASE o.session
  <2>1. made = Outcome("true", o) BY <1>1 DEF ensureOVRSession
  <2>2. made.ovr = o BY <2>1 DEF Outcome
  <2> QED BY <1>1, <2>2
<1>2. CASE ~o.session
  <2>1. PICK loaded \in Loaded(o) : made \in WithSession(loaded)
    BY <1>2 DEF ensureOVRSession
  <2>2. /\ Good(loaded.ovr, has_XR_MND_headless) /\ ~loaded.ovr.session
        /\ loaded.result = "true" => loaded.ovr.loaded
    BY <1>2, LoadedIsGood
  <2>3. CASE loaded.result # "true"
    <3>1. made = loaded BY <2>1, <2>3 DEF WithSession
    <3> QED BY <1>2, <2>2, <2>3, <3>1
  <2>4. CASE loaded.result = "true"
    <3>1. made \in CreateOVRSession(loaded.ovr)
      BY <2>1, <2>4 DEF WithSession
    <3>2. o.loaded => loaded.ovr = o BY <2>4 DEF Loaded, Outcome
    <3> QED BY <1>2, <2>2, <2>4, <3>1, <3>2, CreatedIsGood
  <2> QED BY <2>3, <2>4
<1> QED BY <1>1, <1>2

(* enterVisibleMode() leaves a visible session, or the call fails.          *)
LEMMA VisibleIsGood ==
    ASSUME NEW o, Good(o, has_XR_MND_headless), has_XR_MND_headless \in BOOLEAN,
           device \in Devices \cup {None}, o.session,
           NEW made \in enterVisibleMode(o)
    PROVE  /\ Good(made.ovr, has_XR_MND_headless)
           /\ made.result = "true"
                => made.ovr.session /\ made.ovr.mode = "visible"
<1>0. o \in Ovr /\ o.live = 1 BY DEF Good
<1> DEFINE q == Visible(o)
<1>a. o.live - 1 \in Int BY <1>0
<1>1. q \in Ovr BY <1>0, <1>a DEF Visible, Ovr
<1>2. q.session = FALSE /\ q.live = 0 BY <1>0 DEF Visible, Ovr
<1>3. q.loaded = o.loaded /\ q.mode = "visible" BY <1>0 DEF Visible, Ovr
<1>4. q.bodyState = o.bodyState /\ q.mapped = o.mapped
  BY <1>0 DEF Visible, Ovr
<1>5. q.supports = o.supports BY <1>0 DEF Visible, Ovr
<1> HIDE DEF q
<1>6. Good(q, has_XR_MND_headless)
  BY <1>1, <1>2, <1>3, <1>4, <1>5 DEF Good
<1>7. CASE made = Outcome("throws", o)
  <2>1. made.ovr = o /\ made.result # "true" BY <1>7 DEF Outcome
  <2> QED BY <2>1
<1>8. CASE made \in {OrThrows(ensured) : ensured \in ensureOVRSession(q)}
  <2>1. PICK ensured \in ensureOVRSession(q) : made = OrThrows(ensured)
    BY <1>8
  <2>2. /\ Good(ensured.ovr, has_XR_MND_headless)
        /\ ensured.result = "true" => ensured.ovr.session
        /\ ensured.result = "true" /\ q.loaded => ensured.ovr.mode = q.mode
    BY <1>6, EnsureIsGood
  <2>3. made.ovr = ensured.ovr
    BY <2>1 DEF OrThrows, Outcome
  <2>4. made.result = "true" => ensured.result = "true"
    BY <2>1 DEF OrThrows, Outcome
  <2>5. q.loaded BY <1>3 DEF Good
  <2> QED BY <2>2, <2>3, <2>4, <2>5, <1>3
<1> QED BY <1>7, <1>8 DEF enterVisibleMode, q

-----------------------------------------------------------------------------
(* The inductive invariant.                                                 *)

Destroying ==
    {"joinWatcher", "awaitReady", "awaitClosed", "joinMirror", "finish"}

(* What is part of what: threads of a session that has begun, a session of  *)
(* one of LibOVR; and how far their end has come.                           *)
Owned ==
    /\ m_sessionBegun => m_sessionCreated
    /\ m_sessionCreated => ovr.session
    /\ m_sessionCreated /\ ~m_isHeadless => ovr.mode = "visible"
    /\ watcher # "none" => m_sessionBegun /\ ovr.supports
    /\ mirror # "none" => m_sessionBegun /\ ~m_isHeadless
    /\ app.at \in Destroying => m_sessionCreated
    /\ app.at \in Destroying \ {"joinWatcher"} => watcher = "none"
    /\ app.at = "finish" => mirror = "none"
    /\ app.at = "unmap" => ~m_sessionCreated
    /\ app.at = "draw" => mirror \in {"pumping", "closed"}

Textures ==
    /\ ovrMirrors = IF m_ovrMirrorSwapChain THEN 1 ELSE 0
    /\ m_ovrMirrorSwapChain => mirror \notin {"none", "ended"}

IInv == TypeOK /\ Good(ovr, has_XR_MND_headless) /\ Owned /\ Textures

(* Where a call may go.                                                     *)
LEMMA AppMoves ==
    /\ Idle \in App
    /\ \A a \in App : [a EXCEPT !.at = "awaitReady"] \in App
    /\ \A a \in App : [a EXCEPT !.at = "awaitClosed"] \in App
    /\ \A a \in App : [a EXCEPT !.at = "joinMirror"] \in App
    /\ \A a \in App : [a EXCEPT !.at = "finish"] \in App
    /\ \A a \in App : [a EXCEPT !.at = "unmap"] \in App
    /\ \A a \in App : [a EXCEPT !.at = "draw"] \in App
    /\ \A a \in App : [a EXCEPT !.at = "idle"] \in App
    /\ [Idle EXCEPT !.at = "joinWatcher"] \in App
    /\ [Idle EXCEPT !.at = "update"] \in App
BY DEF App, Idle

(* The program starts so.                                                   *)
LEMMA InitHolds == Init => IInv
<1> SUFFICES ASSUME Init PROVE IInv OBVIOUS
<1>1. NoOvr \in Ovr BY DEF NoOvr, Ovr
<1>2. Good(NoOvr, FALSE) BY <1>1 DEF Good, NoOvr
<1>a. Idle \in App BY AppMoves
<1>b. 0 \in Int OBVIOUS
<1>3. TypeOK BY <1>1, <1>a, <1>b DEF Init, TypeOK
<1>4. Owned /\ Textures BY DEF Init, Owned, Textures, Idle, Destroying
<1> QED BY <1>2, <1>3, <1>4 DEF IInv, Init

USE DEF world, system, instance, session, body, window, texture

(* Calls that touch LibOVR.                                                 *)
LEMMA InstanceCallsHold == IInv /\ InstanceCalls => IInv'
<1> SUFFICES ASSUME IInv, InstanceCalls PROVE IInv' OBVIOUS
<1> USE DEF IInv, TypeOK
<1>1. ASSUME NEW headless \in BOOLEAN, NEW known \in BOOLEAN,
             xrCreateInstance(headless, known)
      PROVE  IInv'
  <2>1. TypeOK' BY <1>1 DEF xrCreateInstance, Calls, Idle
  <2>2. Good(ovr, has_XR_MND_headless)' BY <1>1 DEF xrCreateInstance, Good
  <2>3. Owned' BY <1>1 DEF xrCreateInstance, Owned
  <2>4. Textures' BY <1>1 DEF xrCreateInstance, Textures
  <2> QED BY <2>1, <2>2, <2>3, <2>4
<1>2. CASE xrGetSystem
  <2>1. PICK made \in ensureOVRSession(ovr) :
            /\ ovr' = IF made.result = "false"
                      THEN [made.ovr EXCEPT !.cachedHmdInfo = None]
                      ELSE made.ovr
            /\ m_systemCreated' = (m_systemCreated \/ made.result = "true")
            /\ promised' = IF m_systemCreated \/ made.result # "true"
                           THEN promised ELSE made.ovr.supports
    BY <1>2 DEF xrGetSystem
  <2>2. Good(made.ovr, has_XR_MND_headless)
        /\ (ovr.session => made.ovr = ovr)
    BY <2>1, EnsureIsGood
  <2> DEFINE q == [made.ovr EXCEPT !.cachedHmdInfo = None]
  <2>3. q \in Ovr BY <2>2 DEF Good, Ovr
  <2>4. q.live = made.ovr.live /\ q.mode = made.ovr.mode
    BY <2>2 DEF Good, Ovr
  <2>5. q.session = made.ovr.session /\ q.loaded = made.ovr.loaded
    BY <2>2 DEF Good, Ovr
  <2>6. q.bodyState = made.ovr.bodyState /\ q.mapped = made.ovr.mapped
    BY <2>2 DEF Good, Ovr
  <2>7. q.supports = made.ovr.supports BY <2>2 DEF Good, Ovr
  <2> HIDE DEF q
  <2>8. Good(q, has_XR_MND_headless)
    BY <2>2, <2>3, <2>4, <2>5, <2>6, <2>7 DEF Good
  <2>9. ovr' = q \/ ovr' = made.ovr BY <2>1 DEF q
  <2>10. Good(ovr, has_XR_MND_headless)'
    BY <1>2, <2>2, <2>8, <2>9 DEF xrGetSystem, Good
  <2>11. promised' \in BOOLEAN BY <2>1, <2>2 DEF Good, Ovr
  <2>12. TypeOK' BY <1>2, <2>1, <2>10, <2>11 DEF xrGetSystem, Good
  <2>13. Textures' BY <1>2 DEF xrGetSystem, Textures
  <2>14. m_sessionCreated => /\ ovr'.session /\ ovr'.mode = ovr.mode
                             /\ ovr'.supports = ovr.supports
    BY <2>2, <2>4, <2>5, <2>7, <2>9 DEF Owned
  <2>15. Owned' BY <1>2, <2>14 DEF xrGetSystem, Owned, Calls, Idle
  <2> QED BY <2>10, <2>12, <2>13, <2>15
<1>3. CASE xrDestroyInstance
  <2>a. app' \in App
    <3>1. CASE m_sessionCreated BY <1>3, <3>1 DEF xrDestroyInstance, App
    <3>2. CASE ~m_sessionCreated BY <1>3, <3>2 DEF xrDestroyInstance, App
    <3> QED BY <3>1, <3>2
  <2>1. TypeOK' BY <1>3, <2>a DEF xrDestroyInstance
  <2>2. Good(ovr, has_XR_MND_headless)' BY <1>3 DEF xrDestroyInstance
  <2>3. Owned' BY <1>3 DEF xrDestroyInstance, Owned, Destroying, Calls, Idle
  <2>4. Textures' BY <1>3 DEF xrDestroyInstance, Textures
  <2> QED BY <2>1, <2>2, <2>3, <2>4
<1> QED BY <1>1, <1>2, <1>3 DEF InstanceCalls

(* Calls of a session.                                                      *)
LEMMA SessionCallsHold == IInv /\ SessionCalls => IInv'
<1> SUFFICES ASSUME IInv, SessionCalls PROVE IInv' OBVIOUS
<1> USE DEF IInv, TypeOK
<1>1. CASE CreateSessionRefused
  <2>1. PICK made \in ensureOVRSession(ovr) : ovr' = made.ovr
    BY <1>1 DEF CreateSessionRefused
  <2>2. Good(made.ovr, has_XR_MND_headless)
        /\ (ovr.session => made.ovr = ovr)
    BY <2>1, EnsureIsGood
  <2>3. Good(ovr, has_XR_MND_headless)'
    BY <1>1, <2>1, <2>2 DEF CreateSessionRefused
  <2>4. TypeOK' BY <1>1, <2>3 DEF CreateSessionRefused, Good
  <2>5. Textures' BY <1>1 DEF CreateSessionRefused, Textures
  <2>6. m_sessionCreated => ovr' = ovr BY <2>1, <2>2 DEF Owned
  <2>7. Owned' BY <1>1, <2>6 DEF CreateSessionRefused, Owned, Calls, Idle
  <2> QED BY <2>3, <2>4, <2>5, <2>7
<1>2. ASSUME NEW headless \in BOOLEAN, xrCreateSession(headless)
      PROVE  IInv'
  <2>a. PICK made \in ensureOVRSession(ovr) :
          \E in \in Entered(made.ovr, headless) :
            /\ made.result = "true"
            /\ \/ /\ headless /\ ~has_XR_MND_headless
                  /\ ovr' = made.ovr
                  /\ UNCHANGED m_sessionCreated
               \/ /\ ~headless \/ has_XR_MND_headless
                  /\ ovr' = in.ovr
                  /\ m_sessionCreated' = (in.result = "true")
    BY <1>2 DEF xrCreateSession
  <2>1. PICK in \in Entered(made.ovr, headless) :
            /\ made.result = "true"
            /\ \/ /\ headless /\ ~has_XR_MND_headless
                  /\ ovr' = made.ovr
                  /\ UNCHANGED m_sessionCreated
               \/ /\ ~headless \/ has_XR_MND_headless
                  /\ ovr' = in.ovr
                  /\ m_sessionCreated' = (in.result = "true")
    BY <2>a
  <2>2. /\ Good(made.ovr, has_XR_MND_headless) /\ made.ovr.session
    BY <2>1, EnsureIsGood
  <2>3. /\ Good(in.ovr, has_XR_MND_headless)
        /\ in.result = "true" => /\ in.ovr.session
                                 /\ ~headless => in.ovr.mode = "visible"
    <3>1. CASE ~headless /\ has_XR_MND_headless
      BY <2>2, <3>1, VisibleIsGood DEF Entered
    <3>2. CASE headless \/ ~has_XR_MND_headless
      <4>1. in = Outcome("true", made.ovr) BY <3>2 DEF Entered
      <4>2. in.ovr = made.ovr BY <4>1 DEF Outcome
      <4> QED BY <2>2, <3>2, <4>2 DEF Good
    <3> QED BY <3>1, <3>2
  <2>4. Good(ovr, has_XR_MND_headless)'
    BY <1>2, <2>1, <2>2, <2>3 DEF xrCreateSession
  <2>5. m_sessionCreated' \in BOOLEAN BY <1>2, <2>1
  <2>6. TypeOK' BY <1>2, <2>4, <2>5 DEF xrCreateSession, Good
  <2>7. Textures' BY <1>2 DEF xrCreateSession, Textures
  <2>8. m_sessionCreated' => /\ ovr'.session
                             /\ ~headless => ovr'.mode = "visible"
    BY <1>2, <2>1, <2>3 DEF xrCreateSession
  <2>9. watcher = "none" /\ mirror = "none" /\ ~m_sessionBegun
    BY <1>2 DEF xrCreateSession, Owned
  <2>10. Owned'
    BY <1>2, <2>8, <2>9 DEF xrCreateSession, Owned, Calls, Idle, Destroying
  <2> QED BY <2>4, <2>6, <2>7, <2>10
<1>3. CASE xrBeginSession
  <2>a. ovr.supports => TypeOK'
    BY <1>3 DEF xrBeginSession, TypeOK
  <2>b. ~ovr.supports => TypeOK'
    BY <1>3 DEF xrBeginSession, TypeOK
  <2>1. TypeOK' BY <2>a, <2>b
  <2>2. Good(ovr, has_XR_MND_headless)' BY <1>3 DEF xrBeginSession, Calls, Idle
  <2>3. Owned' BY <1>3 DEF xrBeginSession, Calls, Idle, Owned, Destroying
  <2>4. Textures' BY <1>3 DEF xrBeginSession, Calls, Idle, Textures
  <2> QED BY <2>1, <2>2, <2>3, <2>4
<1>4. CASE xrDestroySession
  <2>1. TypeOK' BY <1>4, AppMoves DEF xrDestroySession
  <2>2. Good(ovr, has_XR_MND_headless)'
    BY <1>4 DEF xrDestroySession, Calls, Idle
  <2>3. Owned' BY <1>4 DEF xrDestroySession, Calls, Idle, Owned, Destroying
  <2>4. Textures' BY <1>4 DEF xrDestroySession, Calls, Idle, Textures
  <2> QED BY <2>1, <2>2, <2>3, <2>4
<1>5. CASE xrEndFrame
  <2>a. /\ m_mirrorWindowReady' \in BOOLEAN /\ m_mirrorWindowHwnd' \in BOOLEAN
        /\ closing' \in BOOLEAN
    BY <1>5 DEF xrEndFrame, createMirrorWindow
  <2>b. mirror' = "creating" \/ mirror' = mirror
    BY <1>5 DEF xrEndFrame, createMirrorWindow
  <2>c. app' \in App BY <1>5, AppMoves DEF xrEndFrame
  <2>1. TypeOK' BY <1>5, <2>a, <2>b, <2>c DEF xrEndFrame
  <2>2. Good(ovr, has_XR_MND_headless)'
    BY <1>5 DEF xrEndFrame, createMirrorWindow, Calls, Idle
  <2>3. Owned'
    BY <1>5 DEF xrEndFrame, createMirrorWindow, Calls, Idle, Owned, Destroying
  <2>4. Textures'
    BY <1>5 DEF xrEndFrame, createMirrorWindow, Calls, Idle, Textures
  <2> QED BY <2>1, <2>2, <2>3, <2>4
<1> QED BY <1>1, <1>2, <1>3, <1>4, <1>5 DEF SessionCalls

(* What calls do after they were made.                                      *)
LEMMA ProceedsHold == IInv /\ Proceeds => IInv'
<1> SUFFICES ASSUME IInv, Proceeds PROVE IInv' OBVIOUS
<1> USE DEF IInv, TypeOK
<1>1. CASE JoinWatcher
  <2>1. TypeOK' BY <1>1, AppMoves DEF JoinWatcher
  <2>2. Good(ovr, has_XR_MND_headless)' BY <1>1 DEF JoinWatcher
  <2>3. Owned'
    <3>a. CASE watcher \in {"none", "ended"}
      <4>1. /\ watcher' = "none" /\ ovr' = ovr /\ mirror' = mirror
            /\ m_sessionCreated' = m_sessionCreated
            /\ m_sessionBegun' = m_sessionBegun /\ m_isHeadless' = m_isHeadless
        BY <1>1, <3>a DEF JoinWatcher
      <4>2. app' = [app EXCEPT !.at = IF mirror = "none" THEN "finish"
                                      ELSE "awaitReady"]
        BY <1>1, <3>a DEF JoinWatcher
      <4>3. app'.at = IF mirror = "none" THEN "finish" ELSE "awaitReady"
        BY <4>2 DEF App
      <4>4. m_sessionCreated BY <1>1 DEF JoinWatcher, Owned, Destroying
      <4> QED BY <4>1, <4>3, <4>4 DEF Owned, Destroying
    <3>b. CASE watcher \notin {"none", "ended"}
      <4>1. /\ watcher' = watcher /\ ovr' = ovr /\ mirror' = mirror
            /\ m_sessionCreated' = m_sessionCreated /\ app' = app
            /\ m_sessionBegun' = m_sessionBegun /\ m_isHeadless' = m_isHeadless
        BY <1>1, <3>b DEF JoinWatcher
      <4> QED BY <4>1 DEF Owned, Destroying
    <3> QED BY <3>a, <3>b
  <2>4. Textures' BY <1>1 DEF JoinWatcher, Textures
  <2> QED BY <2>1, <2>2, <2>3, <2>4
<1>2. CASE AwaitReady
  <2>1. TypeOK' BY <1>2, AppMoves DEF AwaitReady
  <2>2. Good(ovr, has_XR_MND_headless)' BY <1>2 DEF AwaitReady
  <2>3. Owned' BY <1>2 DEF AwaitReady, Owned, Destroying
  <2>4. Textures' BY <1>2 DEF AwaitReady, Textures
  <2> QED BY <2>1, <2>2, <2>3, <2>4
<1>3. CASE PostClose
  <2>1. TypeOK' BY <1>3 DEF PostClose
  <2>2. Good(ovr, has_XR_MND_headless)' BY <1>3 DEF PostClose
  <2>3. Owned' BY <1>3 DEF PostClose, Owned, Destroying
  <2>4. Textures' BY <1>3 DEF PostClose, Textures
  <2> QED BY <2>1, <2>2, <2>3, <2>4
<1>4. CASE SeeClosed
  <2>1. TypeOK' BY <1>4, AppMoves DEF SeeClosed
  <2>2. Good(ovr, has_XR_MND_headless)' BY <1>4 DEF SeeClosed
  <2>3. Owned' BY <1>4 DEF SeeClosed, Owned, Destroying
  <2>4. Textures' BY <1>4 DEF SeeClosed, Textures
  <2> QED BY <2>1, <2>2, <2>3, <2>4
<1>5. CASE JoinMirror
  <2>1. TypeOK' BY <1>5, AppMoves DEF JoinMirror
  <2>2. Good(ovr, has_XR_MND_headless)' BY <1>5 DEF JoinMirror
  <2>3. Owned' BY <1>5 DEF JoinMirror, Owned, Destroying
  <2>4. Textures' BY <1>5 DEF JoinMirror, Textures
  <2> QED BY <2>1, <2>2, <2>3, <2>4
<1>6. CASE FinishDestroySession
  <2> DEFINE q == [ovr EXCEPT !.session = FALSE, !.live = @ - 1]
  <2>1. ovr' = q BY <1>6 DEF FinishDestroySession
  <2>2. ovr.session /\ ovr.live = 1
    BY <1>6 DEF FinishDestroySession, Owned, Destroying, Good
  <2>3. ovr.live - 1 \in Int BY <2>2
  <2>4. q \in Ovr BY <2>3 DEF Ovr
  <2>5. q.session = FALSE /\ q.live = 0 BY <2>2 DEF Ovr
  <2>6. q.loaded = ovr.loaded /\ q.mode = ovr.mode BY DEF Ovr
  <2>7. q.bodyState = ovr.bodyState /\ q.mapped = ovr.mapped BY DEF Ovr
  <2>8. q.supports = ovr.supports BY DEF Ovr
  <2> HIDE DEF q
  <2>9. Good(q, has_XR_MND_headless)
    BY <2>4, <2>5, <2>6, <2>7, <2>8 DEF Good
  <2>10. Good(ovr, has_XR_MND_headless)'
    BY <1>6, <2>1, <2>9 DEF FinishDestroySession
  <2>a. app' = [app EXCEPT !.at = "unmap"] \/ app' = Idle
    BY <1>6 DEF FinishDestroySession
  <2>b. app' \in App BY <2>a, AppMoves
  <2>c. ovr' \in Ovr BY <2>1, <2>4
  <2>d. m_sessionCreated' = FALSE /\ m_sessionBegun' = FALSE
    BY <1>6 DEF FinishDestroySession
  <2>e. UNCHANGED <<device, bodyFile, m_instanceCreated, has_XR_MND_headless,
                    m_systemCreated, promised, m_isHeadless, m_useMirrorWindow>>
    BY <1>6 DEF FinishDestroySession
  <2>f. UNCHANGED <<m_terminateBodyStateThread, watcher, m_mirrorWindowReady,
                    m_mirrorWindowHwnd, closing, mirror,
                    m_ovrMirrorSwapChain, ovrMirrors>>
    BY <1>6 DEF FinishDestroySession
  <2>11. TypeOK'
    <3>1. device' \in Devices \cup {None} /\ bodyFile' \in BOOLEAN
      BY <2>e
    <3>2. /\ m_instanceCreated' \in BOOLEAN
          /\ has_XR_MND_headless' \in BOOLEAN
          /\ m_systemCreated' \in BOOLEAN /\ promised' \in BOOLEAN
          /\ m_isHeadless' \in BOOLEAN /\ m_useMirrorWindow' \in BOOLEAN
      BY <2>e
    <3>3. /\ m_terminateBodyStateThread' \in BOOLEAN
          /\ watcher' \in {"none", "waiting", "copying", "ended"}
          /\ m_mirrorWindowReady' \in BOOLEAN
          /\ m_mirrorWindowHwnd' \in BOOLEAN /\ closing' \in BOOLEAN
      BY <2>f
    <3>4. /\ mirror' \in {"none", "creating", "created", "pumping", "closed",
                          "ended"}
          /\ m_ovrMirrorSwapChain' \in BOOLEAN /\ ovrMirrors' \in Int
      BY <2>f
    <3> QED BY <2>b, <2>c, <2>d, <3>1, <3>2, <3>3, <3>4 DEF TypeOK
  <2>12. Textures' BY <1>6 DEF FinishDestroySession, Textures
  <2>13. Owned'
    BY <1>6, <2>1, <2>8 DEF FinishDestroySession, Owned, Destroying, Idle
  <2> QED BY <2>10, <2>11, <2>12, <2>13
<1>7. CASE ResetInstance
  <2>1. /\ ~m_sessionCreated /\ ~m_sessionBegun
        /\ watcher = "none" /\ mirror = "none"
    BY <1>7 DEF ResetInstance, Owned
  <2> DEFINE live == ovr.live - (IF ovr.session THEN 1 ELSE 0)
             q == [NoOvr EXCEPT !.live = live]
  <2>2. ovr' = q BY <1>7 DEF ResetInstance
  <2>3. live = 0 BY DEF Good
  <2>a. live \in Int BY <2>3
  <2>4. q \in Ovr BY <2>a DEF NoOvr, Ovr
  <2>5. q.session = FALSE /\ q.loaded = FALSE /\ q.live = 0
    BY <2>3 DEF NoOvr, Ovr
  <2>6. q.bodyState = FALSE /\ q.mapped = FALSE /\ q.supports = FALSE
    BY DEF NoOvr, Ovr
  <2> HIDE DEF q
  <2>7. Good(q, FALSE) BY <2>4, <2>5, <2>6 DEF Good
  <2>8. Good(ovr, has_XR_MND_headless)' BY <1>7, <2>2, <2>7 DEF ResetInstance
  <2>9. TypeOK' BY <1>7, <2>2, <2>4, AppMoves DEF ResetInstance
  <2>10. Textures' BY <1>7, <2>1 DEF ResetInstance, Textures
  <2>11. Owned' BY <1>7, <2>1 DEF ResetInstance, Owned, Destroying, Idle
  <2> QED BY <2>8, <2>9, <2>10, <2>11
<1>8. CASE updateMirrorWindow
  <2>1. TypeOK' BY <1>8, AppMoves DEF updateMirrorWindow, IsWindowVisible
  <2>2. Good(ovr, has_XR_MND_headless)'
    BY <1>8 DEF updateMirrorWindow, IsWindowVisible
  <2>3. Owned'
    BY <1>8 DEF updateMirrorWindow, IsWindowVisible, Owned, Destroying
  <2>4. Textures' BY <1>8 DEF updateMirrorWindow, IsWindowVisible, Textures
  <2> QED BY <2>1, <2>2, <2>3, <2>4
<1>9. CASE DrawMirror
  <2>1. TypeOK' BY <1>9, AppMoves DEF DrawMirror
  <2>2. Good(ovr, has_XR_MND_headless)' BY <1>9 DEF DrawMirror, Idle
  <2>3. Owned' BY <1>9 DEF DrawMirror, Idle, Owned, Destroying
  <2>4. Textures' BY <1>9 DEF DrawMirror, Idle, Textures
  <2> QED BY <2>1, <2>2, <2>3, <2>4
<1>10. ASSUME NEW created \in BOOLEAN, ResizeMirror(created)
      PROVE  IInv'
  <2>1. TypeOK' BY <1>10, AppMoves DEF ResizeMirror
  <2>2. Good(ovr, has_XR_MND_headless)' BY <1>10 DEF ResizeMirror, Idle
  <2>3. Owned' BY <1>10 DEF ResizeMirror, Idle, Owned, Destroying
  <2>4. Textures' BY <1>10 DEF ResizeMirror, Idle, Textures, Owned
  <2> QED BY <2>1, <2>2, <2>3, <2>4
<1> QED
  BY <1>1, <1>2, <1>3, <1>4, <1>5, <1>6, <1>7, <1>8, <1>9, <1>10 DEF Proceeds

(* The threads, the user and the world.                                     *)
LEMMA OthersHold ==
    /\ IInv
    /\ Watcher \/ Mirror \/ UserCloses \/ WorldChanges \/ refreshSettings
    => IInv'
<1> SUFFICES ASSUME IInv,
                    \/ Watcher \/ Mirror
                    \/ UserCloses \/ WorldChanges \/ refreshSettings
             PROVE  IInv'
  OBVIOUS
<1> USE DEF IInv, TypeOK
<1>1. CASE WatcherWakes
  <2>1. TypeOK' BY <1>1 DEF WatcherWakes
  <2>2. Good(ovr, has_XR_MND_headless)' BY <1>1 DEF WatcherWakes
  <2>3. Owned' BY <1>1 DEF WatcherWakes, Owned, Destroying
  <2>4. Textures' BY <1>1 DEF WatcherWakes, Textures
  <2> QED BY <2>1, <2>2, <2>3, <2>4
<1>2. CASE WatcherCopies
  <2>1. TypeOK' BY <1>2 DEF WatcherCopies
  <2>2. Good(ovr, has_XR_MND_headless)' BY <1>2 DEF WatcherCopies
  <2>3. Owned' BY <1>2 DEF WatcherCopies, Owned, Destroying
  <2>4. Textures' BY <1>2 DEF WatcherCopies, Textures
  <2> QED BY <2>1, <2>2, <2>3, <2>4
<1>3. CASE MirrorCreates
  <2>1. TypeOK' BY <1>3 DEF MirrorCreates
  <2>2. Good(ovr, has_XR_MND_headless)' BY <1>3 DEF MirrorCreates
  <2>3. Owned' BY <1>3 DEF MirrorCreates, Owned, Destroying
  <2>4. Textures' BY <1>3 DEF MirrorCreates, Textures
  <2> QED BY <2>1, <2>2, <2>3, <2>4
<1>4. CASE MirrorReady
  <2>1. TypeOK' BY <1>4 DEF MirrorReady
  <2>2. Good(ovr, has_XR_MND_headless)' BY <1>4 DEF MirrorReady
  <2>3. Owned' BY <1>4 DEF MirrorReady, Owned, Destroying
  <2>4. Textures' BY <1>4 DEF MirrorReady, Textures
  <2> QED BY <2>1, <2>2, <2>3, <2>4
<1>5. CASE mirrorWindowProc
  <2>a. mirror' = "closed" /\ closing' \in BOOLEAN
    BY <1>5 DEF mirrorWindowProc
  <2>1. TypeOK' BY <1>5, <2>a DEF mirrorWindowProc
  <2>2. Good(ovr, has_XR_MND_headless)' BY <1>5 DEF mirrorWindowProc
  <2>3. Owned' BY <1>5 DEF mirrorWindowProc, Owned, Destroying
  <2>4. Textures' BY <1>5 DEF mirrorWindowProc, Textures
  <2> QED BY <2>1, <2>2, <2>3, <2>4
<1>6. CASE MirrorFrees
  <2>a. mirror' = "ended" /\ m_mirrorWindowHwnd' \in BOOLEAN
    BY <1>6 DEF MirrorFrees
  <2>b. m_ovrMirrorSwapChain' \in BOOLEAN BY <1>6 DEF MirrorFrees
  <2>c. ovrMirrors' = 0 BY <1>6 DEF MirrorFrees, Textures
  <2>1. TypeOK' BY <1>6, <2>a, <2>b, <2>c DEF MirrorFrees
  <2>2. Good(ovr, has_XR_MND_headless)' BY <1>6 DEF MirrorFrees
  <2>3. Owned' BY <1>6 DEF MirrorFrees, Owned, Destroying
  <2>4. Textures' BY <1>6 DEF MirrorFrees, Textures
  <2> QED BY <2>1, <2>2, <2>3, <2>4
<1>7. CASE UserCloses
  <2>1. TypeOK' BY <1>7 DEF UserCloses
  <2>2. Good(ovr, has_XR_MND_headless)' BY <1>7 DEF UserCloses
  <2>3. Owned' BY <1>7 DEF UserCloses, Owned, Destroying
  <2>4. Textures' BY <1>7 DEF UserCloses, Textures
  <2> QED BY <2>1, <2>2, <2>3, <2>4
<1>8. CASE WorldChanges
  <2>1. TypeOK' BY <1>8 DEF WorldChanges
  <2>2. Good(ovr, has_XR_MND_headless)' BY <1>8 DEF WorldChanges
  <2>3. Owned' BY <1>8 DEF WorldChanges, Owned, Destroying
  <2>4. Textures' BY <1>8 DEF WorldChanges, Textures
  <2> QED BY <2>1, <2>2, <2>3, <2>4
<1>9. CASE refreshSettings
  <2>1. TypeOK' BY <1>9 DEF refreshSettings
  <2>2. Good(ovr, has_XR_MND_headless)' BY <1>9 DEF refreshSettings
  <2>3. Owned' BY <1>9 DEF refreshSettings, Owned, Destroying
  <2>4. Textures' BY <1>9 DEF refreshSettings, Textures
  <2> QED BY <2>1, <2>2, <2>3, <2>4
<1> QED
  BY <1>1, <1>2, <1>3, <1>4, <1>5, <1>6, <1>7, <1>8, <1>9 DEF Watcher, Mirror

(* A step of nobody.                                                        *)
LEMMA StutterHolds == IInv /\ UNCHANGED vars => IInv'
BY DEF IInv, TypeOK, Good, Owned, Textures, vars

(* Every step keeps it, and so it holds for ever.                           *)
LEMMA NextHolds == IInv /\ [Next]_vars => IInv'
BY InstanceCallsHold, SessionCallsHold, ProceedsHold, OthersHold, StutterHolds
   DEF Next

LEMMA InductiveHolds == Spec => []IInv
BY InitHolds, NextHolds, PTL DEF Spec

-----------------------------------------------------------------------------
(* The theorems.                                                            *)

(* Every variable keeps its type.                                           *)
THEOREM TypeCorrect == Spec => []TypeOK
BY InductiveHolds, PTL DEF IInv

(* The watcher only copies from a view that is mapped (system.cpp:656):     *)
(* it runs in a session, during which nothing maps or unmaps.               *)
THEOREM WatcherReadsMappedViewHolds == Spec => []WatcherReadsMappedView
<1>1. IInv => WatcherReadsMappedView
  BY DEF IInv, Good, Owned, WatcherReadsMappedView
<1> QED BY <1>1, InductiveHolds, PTL

(* No std::thread is destroyed, or assigned to, before it was joined        *)
(* (session.cpp:233, 241).                                                  *)
THEOREM ThreadsOfSessionHolds == Spec => []ThreadsOfSession
<1>1. IInv => ThreadsOfSession BY DEF IInv, Owned, ThreadsOfSession
<1> QED BY <1>1, InductiveHolds, PTL

(* LibOVR has one mirror texture at most, and none without its session or   *)
(* after its thread ended (mirror_window.cpp:75, 157).                      *)
THEOREM MirrorTexturesTiedHolds == Spec => []MirrorTexturesTied
<1>1. IInv => MirrorTexturesTied
  BY DEF IInv, TypeOK, Owned, Textures, MirrorTexturesTied
<1> QED BY <1>1, InductiveHolds, PTL

(* LibOVR has one session at most, whichever step of system.cpp:416-509     *)
(* fails, and a session of OpenXR that renders has a visible one.           *)
THEOREM OvrSessionsTiedHolds == Spec => []OvrSessionsTied
<1>1. IInv => OvrSessionsTied BY DEF IInv, Good, Owned, OvrSessionsTied
<1> QED BY <1>1, InductiveHolds, PTL

=============================================================================
