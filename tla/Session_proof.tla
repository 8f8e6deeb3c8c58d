---------------------------- MODULE Session_proof ----------------------------
(***************************************************************************)
(* Theorems about Session for any modes, rates, masks and bounds, checked   *)
(* by TLAPS.                                                                *)
(***************************************************************************)
EXTENDS Session, TLAPS

-----------------------------------------------------------------------------
(* What a session that was created, begun and stopped implies. *)
LifeInv ==
    /\ ~sessionCreated => ~sessionBegun /\ ~exiting /\ sessionState = "UNKNOWN"
    /\ sessionCreated => sessionState # "UNKNOWN"
    /\ sessionCreated /\ ~sessionBegun
          => ~exiting /\ ~completed /\ sessionState \in {"IDLE", "READY"}
    /\ sessionBegun /\ sessionState = "IDLE" => exiting
    /\ sessionState = "EXITING" => exiting
    /\ sessionState = "STOPPING" => stopping
    /\ call = "waitFrame" => sessionBegun

(* The event the application was, or will be, given before the i-th and      *)
(* after the last of the queue.                                              *)
Before(i) == IF i = 1 THEN told ELSE queue[i - 1]

Last == Before(Len(queue) + 1)

(* Events told and to be told walk the lifecycle, up to the current state. *)
WalkInv ==
    /\ \A i \in 1 .. Len(queue) : Contract!Follows(Before(i), queue[i])
    /\ Last[1] = sessions
    /\ sessionCreated => Last[2] = sessionState

(* EXITING is announced by a session that ended. *)
ExitInv ==
    \A i \in 1 .. Len(queue) :
        /\ queue[i][1] <= sessions
        /\ queue[i] = <<sessions, "EXITING">> /\ sessionCreated
              => sessionBegun /\ sessionState = "EXITING"

Inductive ==
    /\ TypeOK /\ LifeInv /\ WalkInv /\ ExitInv
    /\ SettledBetweenCalls /\ RecenterAnnounced /\ MaskAnnounced /\ RateAnnounced

-----------------------------------------------------------------------------
(* Types are preserved, one action at a time. *)
LEMMA FlagsStep ==
    ASSUME FlagsOK, DataOK, [Next]_vars
    PROVE  FlagsOK'
<1> USE DEF FlagsOK, vars, lifeVars, flagVars, stateVars, hmdVars, frameVars,
      recenterVars, maskVars, rateVars
<1>1. CASE UpdateSessionState BY <1>1 DEF UpdateSessionState
<1>2. CASE Return BY <1>2 DEF Return
<1>3. CASE CreateSession BY HeadlessAssumption, <1>3 DEF CreateSession
<1>4. CASE DestroySession BY <1>4 DEF DestroySession
<1>5. CASE BeginSession BY <1>5 DEF BeginSession
<1>6. CASE EndSession BY <1>6 DEF EndSession
<1>7. CASE RequestExitSession BY <1>7 DEF RequestExitSession
<1>8. CASE WaitFrame
  <2>1. lossPending' \in BOOLEAN BY <1>8 DEF WaitFrame
  <2>2. hmdVisible' \in BOOLEAN /\ hmdMounted' \in BOOLEAN
    BY <1>8 DEF WaitFrame
  <2>3. ovrRecenter' \in BOOLEAN BY <1>8 DEF WaitFrame
  <2>4. UNCHANGED <<lifeVars, stopping, exiting, frameVars, profileDirty>>
    BY <1>8 DEF WaitFrame
  <2> QED BY <2>1, <2>2, <2>3, <2>4
<1>9. CASE WaitFrameReturns BY <1>9 DEF WaitFrameReturns, Running
<1>10. CASE EndFrame BY <1>10 DEF EndFrame
<1>11. CASE UserRecenters BY <1>11 DEF UserRecenters
<1>12. CASE ProfileChanges BY <1>12 DEF ProfileChanges
<1>13. CASE PollEvent BY <1>13 DEF PollEvent
<1>14. CASE PollSessionState BY <1>14 DEF PollSessionState
<1>15. CASE PollProfile BY <1>15 DEF PollProfile
<1>16. CASE PollRecenter BY <1>16 DEF PollRecenter
<1>17. CASE PollMask BY <1>17 DEF PollMask
<1>18. CASE PollRate BY <1>18 DEF PollRate
<1>19. CASE PollNothing BY <1>19 DEF PollNothing
<1>20. CASE UNCHANGED vars BY <1>20
<1>21. CASE EnsureOVRSession BY <1>21 DEF EnsureOVRSession
<1>22. CASE GetDisplayRefreshRate BY <1>22 DEF GetDisplayRefreshRate
<1> QED BY <1>1, <1>2, <1>3, <1>4, <1>5, <1>6, <1>7, <1>8, <1>9, <1>10, <1>11,
      <1>12, <1>13, <1>14, <1>15, <1>16, <1>17, <1>18, <1>19, <1>20,
      <1>21, <1>22 DEF Next, SessionCalls, FrameCalls, Poll

LEMMA DataStep ==
    ASSUME FlagsOK, DataOK, [Next]_vars
    PROVE  DataOK'
<1> USE DEF DataOK, Calls, States, Views, vars, lifeVars, flagVars, stateVars,
      hmdVars, frameVars, recenterVars, maskVars, rateVars
<1>1. CASE UpdateSessionState BY <1>1 DEF UpdateSessionState, NextState
<1>2. CASE Return BY <1>2 DEF Return
<1>3. CASE CreateSession BY <1>3 DEF CreateSession, InitializeSystem
<1>4. CASE DestroySession BY <1>4 DEF DestroySession
<1>5. CASE BeginSession BY <1>5 DEF BeginSession
<1>6. CASE EndSession BY <1>6 DEF EndSession
<1>7. CASE RequestExitSession BY <1>7 DEF RequestExitSession
<1>8. CASE WaitFrame
  <2>1. CASE shouldRecenter = 0 /\ ovrRecenter
    BY <1>8, <2>1 DEF WaitFrame, RecenterCount, WorldLockedSpaces
  <2>2. CASE ~(shouldRecenter = 0 /\ ovrRecenter)
    BY <1>8, <2>2 DEF WaitFrame
  <2> QED BY <2>1, <2>2
<1>9. CASE WaitFrameReturns BY <1>9 DEF WaitFrameReturns, RateBefore
<1>10. CASE EndFrame BY <1>10 DEF EndFrame
<1>11. CASE UserRecenters BY <1>11 DEF UserRecenters
<1>12. CASE ProfileChanges BY <1>12 DEF ProfileChanges
<1>13. CASE PollEvent BY <1>13 DEF PollEvent
<1>14. CASE PollSessionState BY <1>14 DEF PollSessionState, Untold, Polling
<1>15. CASE PollProfile BY <1>15 DEF PollProfile
<1>16. CASE PollRecenter
  <2>1. shouldRecenter' \in 0 .. 3 BY <1>16 DEF PollRecenter
  <2>2. spacesStale' \in SUBSET {"STAGE", "LOCAL", "LOCAL_FLOOR"}
    BY <1>16 DEF PollRecenter
  <2>3. /\ call' = "none"
        /\ UNCHANGED <<lifeVars, stateVars, maskVars, rateVars>>
    BY <1>16 DEF PollRecenter
  <2> QED BY <2>1, <2>2, <2>3
<1>17. CASE PollMask
  <2>1. maskDirty' \in 0 .. 2 BY <1>17 DEF PollMask, MaskLeft
  <2>2. viewsStale' \in SUBSET Views BY <1>17 DEF PollMask
  <2>3. /\ call' = "none"
        /\ UNCHANGED <<lifeVars, stateVars, recenterVars, rateVars>>
    BY <1>17 DEF PollMask
  <2> QED BY <2>1, <2>2, <2>3
<1>18. CASE PollRate BY <1>18 DEF PollRate
<1>19. CASE PollNothing BY <1>19 DEF PollNothing
<1>20. CASE UNCHANGED vars BY <1>20
<1>21. CASE EnsureOVRSession BY <1>21 DEF EnsureOVRSession, InitializeSystem
<1>22. CASE GetDisplayRefreshRate BY <1>22 DEF GetDisplayRefreshRate
<1> QED BY <1>1, <1>2, <1>3, <1>4, <1>5, <1>6, <1>7, <1>8, <1>9, <1>10, <1>11,
      <1>12, <1>13, <1>14, <1>15, <1>16, <1>17, <1>18, <1>19, <1>20,
      <1>21, <1>22 DEF Next, SessionCalls, FrameCalls, Poll

(* Each action keeps what a session that got this far implies. *)
LEMMA LifeStep ==
    ASSUME DataOK, LifeInv, [Next]_vars
    PROVE  LifeInv'
<1> USE DEF LifeInv, vars, lifeVars, flagVars, stateVars, hmdVars, frameVars,
      recenterVars, maskVars, rateVars
<1>1. CASE UpdateSessionState BY <1>1 DEF UpdateSessionState, NextState,
      Settled
<1>2. CASE Return BY <1>2 DEF Return
<1>3. CASE CreateSession BY <1>3 DEF CreateSession
<1>4. CASE DestroySession BY <1>4 DEF DestroySession
<1>5. CASE BeginSession BY <1>5 DEF BeginSession
<1>6. CASE EndSession BY <1>6 DEF EndSession
<1>7. CASE RequestExitSession BY <1>7 DEF RequestExitSession, Running
<1>8. CASE WaitFrame BY <1>8 DEF WaitFrame, Running
<1>9. CASE WaitFrameReturns BY <1>9 DEF WaitFrameReturns, Settled
<1>10. CASE EndFrame BY <1>10 DEF EndFrame, Running
<1>11. CASE UserRecenters BY <1>11 DEF UserRecenters
<1>12. CASE ProfileChanges BY <1>12 DEF ProfileChanges
<1>13. CASE PollEvent BY <1>13 DEF PollEvent
<1>14. CASE PollSessionState BY <1>14 DEF PollSessionState
<1>15. CASE PollProfile BY <1>15 DEF PollProfile
<1>16. CASE PollRecenter BY <1>16 DEF PollRecenter
<1>17. CASE PollMask BY <1>17 DEF PollMask
<1>18. CASE PollRate BY <1>18 DEF PollRate
<1>19. CASE PollNothing BY <1>19 DEF PollNothing
<1>20. CASE UNCHANGED vars BY <1>20
<1>21. CASE EnsureOVRSession BY <1>21 DEF EnsureOVRSession
<1>22. CASE GetDisplayRefreshRate BY <1>22 DEF GetDisplayRefreshRate
<1> QED BY <1>1, <1>2, <1>3, <1>4, <1>5, <1>6, <1>7, <1>8, <1>9, <1>10, <1>11,
      <1>12, <1>13, <1>14, <1>15, <1>16, <1>17, <1>18, <1>19, <1>20,
      <1>21, <1>22 DEF Next, SessionCalls, FrameCalls, Poll

-----------------------------------------------------------------------------
(* The queue of session events *)

(* One iteration of updateSessionState() is an edge of the lifecycle. *)
LEMMA NextStateFollows ==
    ASSUME DataOK, ~Settled
    PROVE  <<sessionState, NextState>> \in Contract!Lifecycle /\ NextState \in States
BY DEF DataOK, Settled, NextState, States, Contract!Lifecycle

(* An event that follows the last one can be queued. *)
LEMMA Push ==
    ASSUME DataOK, WalkInv, NEW e \in Nat \X States,
           Contract!Follows(Last, e),
           queue' = Append(queue, e), told' = told
    PROVE  /\ Last' = e
           /\ \A i \in 1 .. Len(queue') : Contract!Follows(Before(i)', queue'[i])
<1>1. queue \in Seq(Nat \X States) BY DEF DataOK
<1>2. Len(queue') = Len(queue) + 1 /\ queue'[Len(queue) + 1] = e
      /\ Len(queue) \in Nat
  BY <1>1
<1>3. \A i \in 1 .. Len(queue) : queue'[i] = queue[i] BY <1>1
<1>4. \A i \in 1 .. Len(queue) + 1 : Before(i)' = Before(i)
  BY <1>2, <1>3 DEF Before
<1>5. Last' = e BY <1>2 DEF Last, Before
<1>6. ASSUME NEW i \in 1 .. Len(queue')
      PROVE  Contract!Follows(Before(i)', queue'[i])
  <2>1. CASE i = Len(queue) + 1 BY <2>1, <1>2, <1>4 DEF Last
  <2>2. CASE i # Len(queue) + 1
    <3>1. i \in 1 .. Len(queue) BY <1>2, <2>2
    <3> QED BY <3>1, <1>3, <1>4 DEF WalkInv
  <2> QED BY <2>1, <2>2
<1> QED BY <1>5, <1>6

(* The first event can be given to the application. *)
LEMMA Pop ==
    ASSUME DataOK, WalkInv, queue # <<>>, told' = Head(queue),
           queue' = Tail(queue)
    PROVE  /\ Last' = Last
           /\ \A i \in 1 .. Len(queue') : Contract!Follows(Before(i)', queue'[i])
<1>1. queue \in Seq(Nat \X States) BY DEF DataOK
<1>2. Len(queue) \in Nat \ {0} /\ Len(queue') = Len(queue) - 1
      /\ told' = queue[1]
  BY <1>1
<1>3. \A i \in 1 .. Len(queue') : queue'[i] = queue[i + 1] BY <1>1
<1>4. \A i \in 1 .. Len(queue) : Before(i)' = Before(i + 1)
  BY <1>2, <1>3 DEF Before
<1>5. Last' = Last BY <1>2, <1>4 DEF Last
<1>6. \A i \in 1 .. Len(queue') : Contract!Follows(Before(i + 1), queue[i + 1])
  BY <1>2 DEF WalkInv
<1> QED BY <1>2, <1>3, <1>4, <1>5, <1>6

(* What is queued follows what was queued before. *)
LEMMA WalkStep ==
    ASSUME DataOK, LifeInv, WalkInv, [Next]_vars
    PROVE  WalkInv'
<1> USE DEF WalkInv, vars, stateVars, lifeVars
<1>1. CASE UpdateSessionState
  <2> DEFINE e == <<sessions, NextState>>
  <2>1. <<sessionState, NextState>> \in Contract!Lifecycle /\ e \in Nat \X States
    BY <1>1, NextStateFollows DEF UpdateSessionState, DataOK
  <2>2. sessionCreated
    BY <1>1 DEF UpdateSessionState, LifeInv, Settled, NextState
  <2>3. Contract!Follows(Last, e) BY <2>1, <2>2 DEF Contract!Follows
  <2>4. queue' = Append(queue, e) /\ told' = told BY <1>1 DEF UpdateSessionState
  <2>5. /\ Last' = e
        /\ \A i \in 1 .. Len(queue') : Contract!Follows(Before(i)', queue'[i])
    BY <2>1, <2>3, <2>4, Push
  <2> QED BY <1>1, <2>5 DEF UpdateSessionState
<1>2. CASE Return BY <1>2 DEF Return, Last, Before
<1>3. CASE CreateSession
  <2> DEFINE e == <<sessions + 1, "IDLE">>
  <2>1. e \in Nat \X States /\ Contract!Follows(Last, e)
    BY DEF DataOK, States, Contract!Follows
  <2>2. queue' = Append(queue, e) /\ told' = told BY <1>3 DEF CreateSession
  <2>3. /\ Last' = e
        /\ \A i \in 1 .. Len(queue') : Contract!Follows(Before(i)', queue'[i])
    BY <2>1, <2>2, Push
  <2> QED BY <1>3, <2>3 DEF CreateSession
<1>4. CASE DestroySession BY <1>4 DEF DestroySession, Last, Before
<1>5. CASE BeginSession BY <1>5 DEF BeginSession, Last, Before
<1>6. CASE EndSession BY <1>6 DEF EndSession, Last, Before
<1>7. CASE RequestExitSession BY <1>7 DEF RequestExitSession, Last, Before
<1>8. CASE WaitFrame BY <1>8 DEF WaitFrame, Last, Before
<1>9. CASE WaitFrameReturns BY <1>9 DEF WaitFrameReturns, Last, Before
<1>10. CASE EndFrame BY <1>10 DEF EndFrame, Last, Before
<1>11. CASE UserRecenters BY <1>11 DEF UserRecenters, Last, Before
<1>12. CASE ProfileChanges BY <1>12 DEF ProfileChanges, Last, Before
<1>13. CASE PollEvent BY <1>13 DEF PollEvent, Last, Before
<1>14. CASE PollSessionState
  <2>1. /\ Last' = Last
        /\ \A i \in 1 .. Len(queue') : Contract!Follows(Before(i)', queue'[i])
    BY <1>14, Pop DEF PollSessionState, Untold
  <2> QED BY <1>14, <2>1 DEF PollSessionState
<1>15. CASE PollProfile BY <1>15 DEF PollProfile, Last, Before
<1>16. CASE PollRecenter BY <1>16 DEF PollRecenter, Last, Before
<1>17. CASE PollMask BY <1>17 DEF PollMask, Last, Before
<1>18. CASE PollRate BY <1>18 DEF PollRate, Last, Before
<1>19. CASE PollNothing BY <1>19 DEF PollNothing, Last, Before
<1>20. CASE UNCHANGED vars BY <1>20 DEF Last, Before
<1>21. CASE EnsureOVRSession BY <1>21 DEF EnsureOVRSession, Last, Before
<1>22. CASE GetDisplayRefreshRate
  BY <1>22 DEF GetDisplayRefreshRate, Last, Before
<1> QED BY <1>1, <1>2, <1>3, <1>4, <1>5, <1>6, <1>7, <1>8, <1>9, <1>10, <1>11,
      <1>12, <1>13, <1>14, <1>15, <1>16, <1>17, <1>18, <1>19, <1>20,
      <1>21, <1>22 DEF Next, SessionCalls, FrameCalls, Poll

(* EXITING is only queued by the session that just ended. *)
LEMMA ExitStep ==
    ASSUME DataOK, LifeInv, WalkInv, ExitInv, [Next]_vars
    PROVE  ExitInv'
<1> USE DEF ExitInv, vars, stateVars, lifeVars
<1>1. CASE UpdateSessionState
  <2>1. queue \in Seq(Nat \X States) BY DEF DataOK
  <2>2. queue' = Append(queue, <<sessions, NextState>>)
    BY <1>1 DEF UpdateSessionState
  <2>3. Len(queue') = Len(queue) + 1 /\ Len(queue) \in Nat
        /\ queue'[Len(queue) + 1] = <<sessions, NextState>>
        /\ \A i \in 1 .. Len(queue) : queue'[i] = queue[i]
    BY <2>1, <2>2
  <2>4. NextState = "EXITING" /\ sessionCreated => sessionBegun
    BY <1>1 DEF UpdateSessionState, Settled, NextState, LifeInv
  <2>5. sessionCreated => sessionState # "EXITING"
    BY <1>1 DEF UpdateSessionState, Settled, NextState
  <2>6. ASSUME NEW i \in 1 .. Len(queue')
        PROVE  /\ queue'[i][1] <= sessions'
               /\ queue'[i] = <<sessions', "EXITING">> /\ sessionCreated'
                     => sessionBegun' /\ sessionState' = "EXITING"
    <3>1. CASE i = Len(queue) + 1
      BY <1>1, <3>1, <2>3, <2>4 DEF UpdateSessionState, DataOK
    <3>2. CASE i # Len(queue) + 1
      <4>1. i \in 1 .. Len(queue) BY <3>2, <2>3
      <4> QED BY <1>1, <4>1, <2>3, <2>5 DEF UpdateSessionState
    <3> QED BY <3>1, <3>2
  <2> QED BY <2>6
<1>2. CASE Return BY <1>2 DEF Return
<1>3. CASE CreateSession
  <2>1. queue \in Seq(Nat \X States) BY DEF DataOK
  <2>2. queue' = Append(queue, <<sessions + 1, "IDLE">>)
    BY <1>3 DEF CreateSession
  <2>3. Len(queue') = Len(queue) + 1 /\ Len(queue) \in Nat
        /\ queue'[Len(queue) + 1] = <<sessions + 1, "IDLE">>
        /\ \A i \in 1 .. Len(queue) : queue'[i] = queue[i]
    BY <2>1, <2>2
  <2>4. ASSUME NEW i \in 1 .. Len(queue')
        PROVE  /\ queue'[i][1] <= sessions + 1
               /\ queue'[i] # <<sessions + 1, "EXITING">>
    <3>1. CASE i = Len(queue) + 1 BY <3>1, <2>3 DEF DataOK
    <3>2. CASE i # Len(queue) + 1
      <4>1. i \in 1 .. Len(queue) BY <3>2, <2>3
      <4>2. queue[i][1] <= sessions /\ queue[i][1] \in Nat BY <4>1, <2>1
      <4> QED BY <4>1, <4>2, <2>3 DEF DataOK
    <3> QED BY <3>1, <3>2
  <2> QED BY <1>3, <2>4 DEF CreateSession
<1>4. CASE DestroySession
  <2> QED BY <1>4 DEF DestroySession
<1>5. CASE BeginSession BY <1>5 DEF BeginSession
<1>6. CASE EndSession BY <1>6 DEF EndSession
<1>7. CASE RequestExitSession BY <1>7 DEF RequestExitSession
<1>8. CASE WaitFrame BY <1>8 DEF WaitFrame
<1>9. CASE WaitFrameReturns BY <1>9 DEF WaitFrameReturns
<1>10. CASE EndFrame BY <1>10 DEF EndFrame
<1>11. CASE UserRecenters BY <1>11 DEF UserRecenters
<1>12. CASE ProfileChanges BY <1>12 DEF ProfileChanges
<1>13. CASE PollEvent BY <1>13 DEF PollEvent
<1>14. CASE PollSessionState
  <2>1. queue \in Seq(Nat \X States) BY DEF DataOK
  <2>2. queue # <<>> /\ queue' = Tail(queue)
    BY <1>14 DEF PollSessionState, Untold
  <2>3. /\ Len(queue') = Len(queue) - 1 /\ Len(queue) \in Nat
        /\ \A i \in 1 .. Len(queue') : queue'[i] = queue[i + 1]
    BY <2>1, <2>2
  <2>4. \A i \in 1 .. Len(queue') : i + 1 \in 1 .. Len(queue) BY <2>3
  <2>5. UNCHANGED <<sessions, sessionCreated, sessionBegun, sessionState>>
    BY <1>14 DEF PollSessionState
  <2> QED BY <2>3, <2>4, <2>5
<1>15. CASE PollProfile BY <1>15 DEF PollProfile
<1>16. CASE PollRecenter BY <1>16 DEF PollRecenter
<1>17. CASE PollMask BY <1>17 DEF PollMask
<1>18. CASE PollRate BY <1>18 DEF PollRate
<1>19. CASE PollNothing BY <1>19 DEF PollNothing
<1>20. CASE UNCHANGED vars BY <1>20
<1>21. CASE EnsureOVRSession BY <1>21 DEF EnsureOVRSession
<1>22. CASE GetDisplayRefreshRate BY <1>22 DEF GetDisplayRefreshRate
<1> QED BY <1>1, <1>2, <1>3, <1>4, <1>5, <1>6, <1>7, <1>8, <1>9, <1>10, <1>11,
      <1>12, <1>13, <1>14, <1>15, <1>16, <1>17, <1>18, <1>19, <1>20,
      <1>21, <1>22 DEF Next, SessionCalls, FrameCalls, Poll

-----------------------------------------------------------------------------
(* The other events *)

(* One recenter event announces one space. *)
LEMMA RecenterStep ==
    ASSUME DataOK, RecenterAnnounced, [Next]_vars
    PROVE  RecenterAnnounced'
<1> USE DEF DataOK, RecenterAnnounced, SpaceOf, WorldLockedSpaces,
      recenterVars
<1>1. CASE WaitFrame
  <2>1. CASE shouldRecenter = 0 /\ ovrRecenter
    <3>1. /\ shouldRecenter' = RecenterCount
          /\ spacesStale' = WorldLockedSpaces
      BY <1>1, <2>1 DEF WaitFrame
    <3>2. CASE LocalFloor BY <3>1, <3>2 DEF RecenterCount
    <3>3. CASE ~LocalFloor BY <3>1, <3>3 DEF RecenterCount
    <3> QED BY <3>2, <3>3
  <2>2. CASE ~(shouldRecenter = 0 /\ ovrRecenter)
    BY <1>1, <2>2 DEF WaitFrame
  <2> QED BY <2>1, <2>2
<1>2. CASE PollRecenter
  <2>1. shouldRecenter \in {1, 2, 3} BY <1>2 DEF PollRecenter
  <2>2. CASE shouldRecenter = 1 BY <1>2, <2>2 DEF PollRecenter
  <2>3. CASE shouldRecenter = 2 BY <1>2, <2>3 DEF PollRecenter
  <2>4. CASE shouldRecenter = 3 BY <1>2, <2>4 DEF PollRecenter
  <2> QED BY <2>1, <2>2, <2>3, <2>4
<1>3. CASE UpdateSessionState \/ Return \/ CreateSession \/ DestroySession \/
      BeginSession \/ EndSession \/ RequestExitSession \/ WaitFrameReturns \/
      EndFrame \/ UserRecenters \/ ProfileChanges \/ PollEvent \/
      PollSessionState \/ PollProfile \/ PollMask \/ PollRate \/ PollNothing
      \/ EnsureOVRSession \/ GetDisplayRefreshRate \/ UNCHANGED vars
  <2>1. UNCHANGED <<shouldRecenter, spacesStale>>
    BY <1>3 DEF vars, UpdateSessionState, Return, CreateSession,
          DestroySession, BeginSession, EndSession, RequestExitSession,
          WaitFrameReturns, EndFrame, UserRecenters, ProfileChanges,
          PollEvent, PollSessionState, PollProfile, PollMask, PollRate,
          PollNothing, EnsureOVRSession, GetDisplayRefreshRate
  <2> QED BY <2>1
<1> QED BY <1>1, <1>2, <1>3 DEF Next, SessionCalls, FrameCalls, Poll

(* One mask event announces one view. *)
LEMMA MaskStep ==
    ASSUME DataOK, MaskAnnounced, [Next]_vars
    PROVE  MaskAnnounced'
<1> USE DEF DataOK, MaskAnnounced, ViewOf, Views, maskVars
<1>1. CASE CreateSession
  <2>1. PICK changed \in Masks :
           /\ maskDirty' = IF changed THEN 2 ELSE maskDirty
           /\ viewsStale' = IF changed THEN Views ELSE viewsStale
    BY <1>1 DEF CreateSession
  <2>2. CASE changed BY <2>1, <2>2
  <2>3. CASE ~changed BY <2>1, <2>3
  <2> QED BY <2>2, <2>3
<1>2. CASE PollMask
  <2>1. maskDirty \in {1, 2} BY <1>2 DEF PollMask
  <2>2. CASE maskDirty = 1 BY <1>2, <2>2 DEF PollMask, MaskLeft
  <2>3. CASE maskDirty = 2 BY <1>2, <2>3 DEF PollMask, MaskLeft
  <2> QED BY <2>1, <2>2, <2>3
<1>3. CASE UpdateSessionState \/ Return \/ DestroySession \/ BeginSession \/
      EndSession \/ RequestExitSession \/ WaitFrame \/ WaitFrameReturns \/
      EndFrame \/ UserRecenters \/ ProfileChanges \/ PollEvent \/
      PollSessionState \/ PollProfile \/ PollRecenter \/ PollRate \/
      PollNothing \/ EnsureOVRSession
      \/ GetDisplayRefreshRate \/ UNCHANGED vars
  <2>1. UNCHANGED <<maskDirty, viewsStale>>
    BY <1>3 DEF vars, UpdateSessionState, Return, DestroySession,
          BeginSession, EndSession, RequestExitSession, WaitFrame,
          WaitFrameReturns, EndFrame, UserRecenters, ProfileChanges,
          PollEvent, PollSessionState, PollProfile, PollRecenter, PollRate,
          PollNothing, EnsureOVRSession, GetDisplayRefreshRate
  <2> QED BY <2>1
<1> QED BY <1>1, <1>2, <1>3 DEF Next, SessionCalls, FrameCalls, Poll

(* A rate that differs from the one told is compared with until told. *)
LEMMA RateStep ==
    ASSUME DataOK, RateAnnounced, [Next]_vars
    PROVE  RateAnnounced'
<1> USE DEF RateAnnounced, rateVars, lifeVars
<1>1. CASE WaitFrameReturns BY <1>1 DEF WaitFrameReturns, RateBefore
<1>2. CASE PollRate BY <1>2 DEF PollRate
<1>3. CASE CreateSession BY <1>3 DEF CreateSession
<1>4. CASE EnsureOVRSession BY <1>4 DEF EnsureOVRSession
<1>5. CASE GetDisplayRefreshRate BY <1>5 DEF GetDisplayRefreshRate
<1>6. CASE DestroySession BY <1>6 DEF DestroySession
<1>7. CASE UpdateSessionState \/ Return \/ BeginSession \/ EndSession \/
      RequestExitSession \/ WaitFrame \/ EndFrame \/ UserRecenters \/
      ProfileChanges \/ PollEvent \/ PollSessionState \/ PollProfile \/
      PollRecenter \/ PollMask \/ PollNothing \/ UNCHANGED vars
  <2>1. UNCHANGED <<sessionCreated, rate, rateChanged, rateTold>>
    BY <1>7 DEF vars, UpdateSessionState, Return, BeginSession, EndSession,
          RequestExitSession, WaitFrame, EndFrame, UserRecenters,
          ProfileChanges, PollEvent, PollSessionState, PollProfile,
          PollRecenter, PollMask, PollNothing
  <2> QED BY <2>1
<1> QED BY <1>1, <1>2, <1>3, <1>4, <1>5, <1>6, <1>7 DEF Next, SessionCalls,
        FrameCalls, Poll

-----------------------------------------------------------------------------
(* Calls *)

(* No call returns before updateSessionState() has nothing to change. *)
LEMMA SettledStep ==
    ASSUME DataOK, LifeInv, SettledBetweenCalls, [Next]_vars
    PROVE  SettledBetweenCalls'
<1> USE DEF SettledBetweenCalls, Settled, vars, lifeVars, flagVars, stateVars,
      hmdVars, frameVars, recenterVars, maskVars, rateVars
<1>1. CASE UpdateSessionState BY <1>1 DEF UpdateSessionState
<1>2. CASE Return BY <1>2 DEF Return, NextState
<1>3. CASE CreateSession BY <1>3 DEF CreateSession
<1>4. CASE DestroySession BY <1>4 DEF DestroySession, NextState
<1>5. CASE BeginSession BY <1>5 DEF BeginSession
<1>6. CASE EndSession BY <1>6 DEF EndSession
<1>7. CASE RequestExitSession BY <1>7 DEF RequestExitSession
<1>8. CASE WaitFrame BY <1>8 DEF WaitFrame
<1>9. CASE WaitFrameReturns BY <1>9 DEF WaitFrameReturns, NextState
<1>10. CASE EndFrame BY <1>10 DEF EndFrame
<1>11. CASE UserRecenters BY <1>11 DEF UserRecenters, NextState
<1>12. CASE ProfileChanges BY <1>12 DEF ProfileChanges, NextState
<1>13. CASE PollEvent BY <1>13 DEF PollEvent
<1>14. CASE PollSessionState BY <1>14 DEF PollSessionState, NextState, Polling
<1>15. CASE PollProfile BY <1>15 DEF PollProfile, NextState, Polling
<1>16. CASE PollRecenter BY <1>16 DEF PollRecenter, NextState, Polling
<1>17. CASE PollMask BY <1>17 DEF PollMask, NextState, Polling
<1>18. CASE PollRate BY <1>18 DEF PollRate, NextState, Polling
<1>19. CASE PollNothing BY <1>19 DEF PollNothing, NextState, Polling
<1>20. CASE UNCHANGED vars BY <1>20 DEF NextState
<1>21. CASE EnsureOVRSession BY <1>21 DEF EnsureOVRSession, NextState
<1>22. CASE GetDisplayRefreshRate BY <1>22 DEF GetDisplayRefreshRate, NextState
<1> QED BY <1>1, <1>2, <1>3, <1>4, <1>5, <1>6, <1>7, <1>8, <1>9, <1>10, <1>11,
      <1>12, <1>13, <1>14, <1>15, <1>16, <1>17, <1>18, <1>19, <1>20,
      <1>21, <1>22 DEF Next, SessionCalls, FrameCalls, Poll

-----------------------------------------------------------------------------
(* The theorems *)

LEMMA InitInductive ==
    ASSUME Init
    PROVE  Inductive
<1> USE DEF Init
<1>1. FlagsOK BY DEF FlagsOK
<1>2. DataOK BY DEF DataOK, Calls, States, Views
<1>3. LifeInv BY DEF LifeInv
<1>4. queue = <<>> /\ Len(queue) = 0 OBVIOUS
<1>5. Last = told BY <1>4 DEF Last, Before
<1>6. WalkInv BY <1>4, <1>5 DEF WalkInv
<1>7. ExitInv BY <1>4 DEF ExitInv
<1>8. SettledBetweenCalls BY DEF SettledBetweenCalls, Settled, NextState
<1>9. RecenterAnnounced BY DEF RecenterAnnounced
<1>10. MaskAnnounced BY DEF MaskAnnounced
<1>11. RateAnnounced BY DEF RateAnnounced
<1> QED BY <1>1, <1>2, <1>3, <1>6, <1>7, <1>8, <1>9, <1>10, <1>11 DEF Inductive,
        TypeOK

LEMMA InductiveStep ==
    ASSUME Inductive, [Next]_vars
    PROVE  Inductive'
BY FlagsStep, DataStep, LifeStep, WalkStep, ExitStep, SettledStep, RecenterStep,
   MaskStep, RateStep DEF Inductive, TypeOK

(* The inductive invariant holds of every reachable state. *)
THEOREM InductiveHolds == Spec => []Inductive
<1>1. Init => Inductive BY InitInductive
<1>2. Inductive /\ [Next]_vars => Inductive' BY InductiveStep
<1> QED BY <1>1, <1>2, PTL DEF Spec

(* Every variable keeps its type: the recenter countdown never exceeds the   *)
(* spaces there are, nor the mask countdown the views.                       *)
THEOREM TypeCorrect == Spec => []TypeOK
<1>1. Inductive => TypeOK BY DEF Inductive
<1> QED BY <1>1, InductiveHolds, PTL

(* Every call that changes what updateSessionState() looks at runs it to the *)
(* end before it returns.                                                    *)
THEOREM CallsSettle == Spec => []SettledBetweenCalls
<1>1. Inductive => SettledBetweenCalls BY DEF Inductive
<1> QED BY <1>1, InductiveHolds, PTL

(* The last event queued, or told, is the state the session is in.           *)
THEOREM StateAnnounced == Spec => []StateIsAnnounced
<1>1. ASSUME Inductive, sessionCreated
      PROVE  <<sessions, sessionState>> = IF queue = <<>> THEN told
                                                          ELSE queue[Len(queue)]
  <2>1. queue \in Seq(Nat \X States) /\ told \in Nat \X States
    BY <1>1 DEF Inductive, TypeOK, DataOK
  <2>2. Last = <<sessions, sessionState>>
    <3>1. Last \in Nat \X States
      <4>1. CASE queue = <<>> BY <2>1, <4>1 DEF Last, Before
      <4>2. CASE queue # <<>>
        <5>1. Len(queue) \in 1 .. Len(queue) /\ Last = queue[Len(queue)]
          BY <2>1, <4>2 DEF Last, Before
        <5> QED BY <5>1, <2>1
      <4> QED BY <4>1, <4>2
    <3> QED BY <1>1, <3>1 DEF Inductive, WalkInv
  <2>3. CASE queue = <<>> BY <2>1, <2>2, <2>3 DEF Last, Before
  <2>4. CASE queue # <<>> BY <2>1, <2>2, <2>4 DEF Last, Before
  <2> QED BY <2>3, <2>4
<1>2. Inductive => StateIsAnnounced BY <1>1 DEF StateIsAnnounced
<1> QED BY <1>2, InductiveHolds, PTL

(* After its first frame, an application is only asked to render what the    *)
(* user sees: shouldRender agrees with the state of the session.             *)
THEOREM RenderedVisible == Spec => []RenderedFramesAreVisible
<1>1. ASSUME Inductive, call = "waitFrame", Settled, completed, ShouldRender
      PROVE  sessionState \in {"VISIBLE", "FOCUSED"}
  <2>1. sessionBegun /\ sessionState \in States /\ LifeInv
    BY <1>1 DEF Inductive, LifeInv, TypeOK, DataOK
  <2>2. ~isHeadless /\ ~stopping /\ ~exiting /\ hmdVisible
    BY <1>1 DEF ShouldRender
  <2>3. sessionState \notin {"UNKNOWN", "IDLE", "STOPPING", "EXITING"}
    BY <2>1, <2>2 DEF LifeInv
  <2>4. sessionState # "READY" /\ sessionState # "SYNCHRONIZED"
    BY <1>1, <2>2 DEF Settled, NextState
  <2> QED BY <2>1, <2>3, <2>4 DEF States
<1>2. Inductive => RenderedFramesAreVisible BY <1>1 DEF RenderedFramesAreVisible
<1> QED BY <1>2, InductiveHolds, PTL

(* Each recentered space is announced, however often the user recenters.     *)
THEOREM RecentersAnnounced == Spec => []RecenterAnnounced
<1>1. Inductive => RecenterAnnounced BY DEF Inductive
<1> QED BY <1>1, InductiveHolds, PTL

(* Each view is told of a new visibility mask.                               *)
THEOREM MasksAnnounced == Spec => []MaskAnnounced
<1>1. Inductive => MaskAnnounced BY DEF Inductive
<1> QED BY <1>1, InductiveHolds, PTL

(* Within a session no change of refresh rate is lost between two polls: the *)
(* application that asked for it, or was told it, in this session knows it   *)
(* whenever no event is left.  What it learnt in an earlier session may be   *)
(* out of date: a change is dropped when LibOVR's session is made again for  *)
(* a headset initializeSystem() did not know.                                *)
THEOREM RatesAnnounced == Spec => []RateAnnounced
<1>1. Inductive => RateAnnounced BY DEF Inductive
<1> QED BY <1>1, InductiveHolds, PTL

-----------------------------------------------------------------------------
(* The refinement *)

(* The initial state is the contract's. *)
LEMMA InitRefines ==
    ASSUME Init
    PROVE  Contract!Init
BY DEF Init, Contract!Init, Phase

(* Every step is a step of the contract or leaves its state alone. *)
LEMMA StepRefines ==
    ASSUME Inductive, [Next]_vars
    PROVE  [Contract!Next]_(Contract!vars)
<1> USE DEF Contract!vars, vars, lifeVars, flagVars, stateVars
<1>0. DataOK /\ LifeInv /\ WalkInv /\ ExitInv BY DEF Inductive, TypeOK
<1>1. CASE UpdateSessionState
  <2>1. UNCHANGED <<sessions, told, sessionCreated, sessionBegun, exiting>>
    BY <1>1 DEF UpdateSessionState
  <2>2. sessionState' = NextState /\ NextState # sessionState
    BY <1>1 DEF UpdateSessionState, Settled
  <2>3. CASE Phase' = Phase BY <2>1, <2>3
  <2>4. CASE Phase' # Phase
    <3>1. Phase = "running" /\ Phase' = "ended"
      BY <1>0, <2>1, <2>2, <2>4 DEF Phase, LifeInv, NextState
    <3> QED BY <2>1, <3>1 DEF Contract!Next, Contract!End
  <2> QED BY <2>3, <2>4
<1>2. CASE CreateSession
  <2>1. Phase = "none" /\ Phase' = "created"
    BY <1>0, <1>2 DEF CreateSession, Phase, LifeInv
  <2> QED BY <1>2, <2>1 DEF CreateSession, Contract!Next, Contract!Create
<1>3. CASE DestroySession
  <2>1. Phase # "none" /\ Phase' = "none" BY <1>3 DEF DestroySession, Phase
  <2> QED BY <1>3, <2>1 DEF DestroySession, Contract!Next, Contract!Destroy
<1>4. CASE BeginSession
  <2>1. Phase = "created" /\ Phase' = "running" BY <1>4 DEF BeginSession, Phase
  <2> QED BY <1>4, <2>1 DEF BeginSession, Contract!Next, Contract!Begin
<1>5. CASE PollSessionState
  <2>1. UNCHANGED <<sessions, sessionCreated, sessionBegun, sessionState>>
        /\ queue # <<>> /\ told' = Head(queue)
    BY <1>5 DEF PollSessionState
  <2>2. queue \in Seq(Nat \X States) BY <1>0 DEF DataOK
  <2>3. 1 \in 1 .. Len(queue) /\ told' = queue[1] BY <2>1, <2>2
  <2>4. Contract!Follows(told, told') BY <1>0, <2>3 DEF WalkInv, Before
  <2>5. told' = <<sessions, "EXITING">> => Phase \in {"ended", "none"}
    BY <1>0, <2>3 DEF ExitInv, Phase
  <2>6. Phase' = Phase BY <2>1 DEF Phase
  <2> QED BY <2>1, <2>4, <2>5, <2>6 DEF Contract!Next, Contract!Hear
<1>6. CASE Return \/ EndSession \/ RequestExitSession \/ WaitFrame \/ WaitFrameReturns
           \/ EndFrame \/ UserRecenters \/ ProfileChanges \/ PollEvent
           \/ PollProfile \/ PollRecenter \/ PollMask \/ PollRate \/ PollNothing
           \/ EnsureOVRSession \/ GetDisplayRefreshRate \/ UNCHANGED vars
  <2>1. UNCHANGED <<sessions, told, sessionCreated, sessionBegun, sessionState>>
    BY <1>6 DEF Return, EndSession, RequestExitSession, WaitFrame,
          WaitFrameReturns, EndFrame, UserRecenters, ProfileChanges, PollEvent,
          PollProfile, PollRecenter, PollMask, PollRate, PollNothing,
          EnsureOVRSession, GetDisplayRefreshRate
  <2> QED BY <2>1 DEF Phase
<1> QED BY <1>1, <1>2, <1>3, <1>4, <1>5, <1>6 DEF Next, SessionCalls, FrameCalls,
        Poll

(* What the application hears of its sessions is a gapless walk of the       *)
(* OpenXR lifecycle, and each session accepts frames once.                   *)
THEOREM SessionImplementsContract == Spec => ImplementsContract
<1>1. Init => Contract!Init BY InitRefines
<1>2. Inductive /\ [Next]_vars => [Contract!Next]_(Contract!vars) BY StepRefines
<1> QED BY <1>1, <1>2, InductiveHolds, PTL DEF Spec, ImplementsContract, Contract!Spec
=============================================================================
