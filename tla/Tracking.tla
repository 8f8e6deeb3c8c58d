------------------------------ MODULE Tracking ------------------------------
(***************************************************************************)
(* Where things are: the poses of the headset, the controllers, the hands, *)
(* the eyes and the body, as spaces are located in one another.            *)
(*                                                                         *)
(* A pose is a height.  The conversions between spaces are then sums and   *)
(* differences, rotations have no effect, and the questions that remain    *)
(* are those of origins, of what is cached, and of what is valid.          *)
(*                                                                         *)
(* The locating functions are pure, but for the last poses they cache in   *)
(* mutable members: they take these and return them changed.  Devices and  *)
(* body tracking data change at any time between two calls.                *)
(***************************************************************************)
EXTENDS Integers, FiniteSets

CONSTANTS
    Heights,        \* where the headset can be tracked
    MaxTime,        \* bound: the latest time asked for, and predicted
    Second,         \* how many units of time the code calls a second
    Setups,         \* applications, and what they run on: see Setup
    Ipd,            \* the distance between the eyes
    None

Left == "left"
Right == "right"
Sides == {Left, Right}

ReferenceKinds == {"view", "local", "stage", "localFloor"}
ControllerKinds == {"grip", "aim", "palm"}
Kinds == ReferenceKinds \cup ControllerKinds \cup {"gaze", "tracker"}
Spaces == [kind : Kinds, side : Sides, poseInSpace : {0, 1}]

\* What does not change while the application runs.
Setup ==
    [spaces : SUBSET Spaces,    \* the spaces it locates
     hands : SUBSET Sides,      \* its hand trackers
     floorLevel : BOOLEAN,      \* the tracking origin: initializeSystem() sets
                                \* it, at eye level on the Oculus runtime only
     eyeHeights : SUBSET Nat,   \* values of OVR_KEY_EYE_HEIGHT: the user may
                                \* switch, and 0 is stage tracking
     samePoseForTime : BOOLEAN, \* Unity with the OculusXR plugin
     optical : BOOLEAN,         \* hand trackers use cameras,
     simulated : BOOLEAN,       \* or fall back on the controllers
     scales : SUBSET Nat]       \* the world scales its user tries

ASSUME TrackingAssumption ==
    /\ Heights \subseteq Nat \ {0}
    /\ MaxTime \in Nat \ {0} /\ Second \in Nat \ {0}
    /\ Setups \subseteq Setup
    /\ Ipd \in Nat \ {0}
    /\ \A chosen \in Setups : \A scale \in chosen.scales :
         scale # 0 /\ Ipd % scale = 0
    /\ None \notin Int

VARIABLES
    setup,
    head,       \* the headset: where it is tracked, or None
    controller, \* of each side: "tracked", "noPosition" (a NaN) or "lost"
    m_cachedBodyState,
    eyeHeight,  \* OVR_KEY_EYE_HEIGHT
    m_last,     \* m_lastValidHmdPose, m_lastValidControllerPose, and
                \* m_lastKnownFloorHeight
    setActive,  \* the action set of the poses is active, since xrSyncActions
    m_lastPredictedDisplayTime,
    m_lastRequestedViewDisplayTime,
    m_overrideWorldScale,
    m_lastSeenIpd,
    rendered,   \* the distance between the eyes in the views located last
    submitted,  \* and in the last frame submitted
    viewed,     \* history: the headset's pose in the views located last
    learnt      \* history: heights the headset was tracked at, and eye
                \* heights there were

devices == <<head, controller, m_cachedBodyState, eyeHeight>>
eyes == <<m_overrideWorldScale, m_lastSeenIpd, rendered, submitted>>
times == <<m_lastPredictedDisplayTime, m_lastRequestedViewDisplayTime>>
vars == <<setup, devices, m_last, setActive, times, eyes, viewed, learnt>>

\* What the body tracking data say: hands and their joints, eyes, a joint.
NoBody == [active |-> {}, aimValid |-> {}, eyes |-> FALSE, joint |-> FALSE]
HandAt(side) == IF side = Left THEN 1 ELSE 2
AimAt == 3
JointAt == 1
ControllerAt(side) == IF side = Left THEN 2 ELSE 1

\* m_viewSpace.
ViewSpace == [kind |-> "view", side |-> Left, poseInSpace |-> 0]

Uses(kinds) == \E s \in setup.spaces : s.kind \in kinds

Init ==
    /\ setup \in Setups
    /\ head = None
    /\ controller = [side \in Sides |-> "lost"]
    /\ m_cachedBodyState = NoBody
    /\ eyeHeight \in setup.eyeHeights
    /\ m_last = [ValidHmdPose |-> None,
                 ValidControllerPose |-> [side \in Sides |-> None],
                 KnownFloorHeight |-> None]
    /\ setActive = FALSE
    /\ m_lastPredictedDisplayTime = 0
    /\ m_lastRequestedViewDisplayTime = 0
    /\ m_overrideWorldScale = 1
    /\ m_lastSeenIpd = None
    /\ rendered = Ipd
    /\ submitted = Ipd
    /\ viewed = None
    /\ learnt = {eyeHeight} \ {0}

-----------------------------------------------------------------------------
(* Locating.  m is m_last before the call, and Located's m is m_last after *)

Located(valid, tracked, pose, m) ==
    [valid |-> valid, tracked |-> tracked, pose |-> pose, m |-> m]

ValueOr0(optional) == IF optional = None THEN 0 ELSE optional

\* The pose is cached whether it is valid or not.
getHmdPose(m, time) ==
    LET refined == \/ ~setup.samePoseForTime
                   \/ time # m_lastRequestedViewDisplayTime
        fresh == head # None /\ refined
        valid == fresh \/ m.ValidHmdPose # None
        pose == IF fresh THEN head ELSE ValueOr0(m.ValidHmdPose)
    IN Located(valid, valid /\ head # None, pose,
               [m EXCEPT !.ValidHmdPose = pose])

\* Mutant: a position that is a NaN is taken for one.
Mutant_getControllerPose(m, side) ==
    LET here == controller[side] # "lost"
        pose == IF controller[side] = "tracked" THEN ControllerAt(side)
                ELSE ValueOr0(m.ValidControllerPose[side])
    IN Located(here \/ m.ValidControllerPose[side] # None, here, pose,
               [m EXCEPT !.ValidControllerPose[side] = pose])

getControllerPose(m, side) ==
    LET here == controller[side] # "lost"
        pose == IF controller[side] = "tracked" THEN ControllerAt(side)
                ELSE ValueOr0(m.ValidControllerPose[side])
    IN Located(here \/ m.ValidControllerPose[side] # None,
               controller[side] = "tracked", pose,
               [m EXCEPT !.ValidControllerPose[side] = pose])

\* The gaze is a direction, and the pose is the headset's.
getEyeTrackerPose(m, time) ==
    LET hmd == getHmdPose(m, time)
    IN IF ~m_cachedBodyState.eyes THEN Located(FALSE, FALSE, 0, m)
       ELSE Located(hmd.valid, hmd.valid, hmd.pose, hmd.m)

\* Joints are measured from the eye level at rest, or from the floor in stage
\* tracking, where the eye height is 0.
JointsToVirtual == eyeHeight

CanPinch(side) ==
    /\ \/ side = Left /\ Left \in m_cachedBodyState.active
       \/ Right \in m_cachedBodyState.active
    /\ side \in m_cachedBodyState.aimValid

getPinchPose == AimAt + JointsToVirtual

getBodyJointPose(m) ==
    Located(m_cachedBodyState.joint, m_cachedBodyState.joint,
            IF m_cachedBodyState.joint THEN JointAt + JointsToVirtual ELSE 0, m)

\* Mutant: any valid pose is good to infer the eye level from.
Mutant_CanInfer(hmd) == hmd.valid

CanInfer(hmd) == hmd.valid /\ hmd.pose # 0

\* The eye level at rest. Stage tracking has it inferred from the first pose,
\* unless it was known before: also from before the switch to stage tracking.
LocalPose(m, time) ==
    LET hmd == getHmdPose(m, time)
        inferred == IF CanInfer(hmd)
                    THEN [hmd.m EXCEPT !.KnownFloorHeight = hmd.pose] ELSE hmd.m
        known == CASE eyeHeight # 0 ->
                        [m EXCEPT !.KnownFloorHeight = eyeHeight]
                   [] eyeHeight = 0 /\ m.KnownFloorHeight = None ->
                        inferred
                   [] OTHER -> m
    IN Located(TRUE, TRUE, ValueOr0(known.KnownFloorHeight), known)

ActionPose(m, space, time) ==
    LET hand == getControllerPose(m, space.side)
    IN CASE ~setActive -> Located(FALSE, FALSE, 0, m)
         [] setActive /\ space.kind = "gaze" -> getEyeTrackerPose(m, time)
         [] setActive /\ space.kind = "tracker" -> getBodyJointPose(m)
         [] setActive /\ space.kind \in ControllerKinds ->
                [hand EXCEPT !.pose =
                   IF space.kind = "aim" /\ CanPinch(space.side)
                   THEN getPinchPose ELSE @]

\* Times are clamped to a second before the last frame.
Clamp(time) ==
    IF m_lastPredictedDisplayTime = 0 THEN time
    ELSE IF time < m_lastPredictedDisplayTime - Second
         THEN m_lastPredictedDisplayTime - Second ELSE time

locateSpaceToOrigin(m, space, time) ==
    LET ignoreFloorHeight == time <= 1
        origin ==
            CASE space.kind = "view" -> getHmdPose(m, Clamp(time))
              [] space.kind = "local" ->
                    IF setup.floorLevel /\ ~ignoreFloorHeight
                    THEN LocalPose(m, Clamp(time))
                    ELSE Located(TRUE, TRUE, 0, m)
              [] space.kind \in {"stage", "localFloor"} ->
                    IF setup.floorLevel \/ ignoreFloorHeight
                    THEN Located(TRUE, TRUE, 0, m)
                    ELSE Located(TRUE, TRUE, -eyeHeight, m)
              [] OTHER -> ActionPose(m, space, Clamp(time))
    IN [origin EXCEPT !.pose = space.poseInSpace + @]

\* Mutant: spaces of one action have one origin.
Mutant_SameOrigin(space, base) == space.kind = base.kind

\* The same reference space, or the same action and side, at other offsets.
SameOrigin(space, base) ==
    /\ space.kind = base.kind
    /\ space.kind \notin ReferenceKinds => space.side = base.side

locateSpace(m, space, base, time) ==
    LET this == locateSpaceToOrigin(m, space, time)
        that == locateSpaceToOrigin(this.m, base, time)
    IN CASE SameOrigin(space, base) ->
                Located(TRUE, TRUE, space.poseInSpace - base.poseInSpace, m)
         [] ~SameOrigin(space, base) /\ this.valid /\ that.valid ->
                Located(TRUE, this.tracked /\ that.tracked,
                        this.pose - that.pose, that.m)
         [] OTHER -> Located(FALSE, FALSE, 0, that.m)

\* Mutant: the base space is subtracted twice, as in xrLocateBodyJointsFB.
Mutant_InBase(pose, base) == pose - base.pose - base.pose

InBase(pose, base) == pose - base.pose

UsesCamera(side) == setup.optical /\ side \in m_cachedBodyState.active

\* Simulated joints are made from the controller's pose, and need no offset.
xrLocateHandJoints(m, side, base, time) ==
    LET that == locateSpaceToOrigin(m, base, time)
        hand == getControllerPose(that.m, side)
        offset == IF setup.floorLevel THEN JointsToVirtual ELSE 0
    IN CASE UsesCamera(side) ->
                Located(that.valid, that.valid,
                        InBase(HandAt(side) + offset, that), that.m)
         [] ~UsesCamera(side) /\ setup.simulated ->
                Located(that.valid /\ hand.valid, that.valid /\ hand.valid,
                        InBase(hand.pose, that), hand.m)
         [] OTHER -> Located(FALSE, FALSE, 0, that.m)

\* The eyes' poses are offsets from the headset's: here, none.
GetEyeGazes(m, base, time) ==
    LET hmd == getHmdPose(m, time)
        that == locateSpaceToOrigin(hmd.m, base, time)
        valid == m_cachedBodyState.eyes /\ hmd.valid /\ that.valid
    IN Located(valid, valid, hmd.pose - that.pose,
               CASE ~m_cachedBodyState.eyes -> m
                 [] m_cachedBodyState.eyes /\ ~hmd.valid -> hmd.m
                 [] OTHER -> that.m)

\* basePose takes the base space into account, and then it is once more.
LocateBodyJoints(m, base, time) ==
    LET that == locateSpaceToOrigin(m, base, time)
        basePose == JointsToVirtual - that.pose
        valid == m_cachedBodyState.joint /\ that.valid
    IN Located(valid, valid, JointAt + basePose - that.pose, that.m)

-----------------------------------------------------------------------------
(* Calls. An application that does not use the headset's pose renders      *)
(* nothing.                                                                *)

xrWaitFrame(predicted) ==
    LET next == IF predicted <= m_lastPredictedDisplayTime
                THEN m_lastPredictedDisplayTime + 1 ELSE predicted
    IN /\ Uses({"view"}) /\ next <= MaxTime
       /\ m_lastPredictedDisplayTime' = next
       /\ UNCHANGED <<setup, devices, m_last, setActive,
                      m_lastRequestedViewDisplayTime, eyes, viewed, learnt>>

\* A call that locates, and changes nothing but the cached poses.
Locates(located) ==
    /\ m_last' = located.m
    /\ UNCHANGED <<setup, devices, setActive, times, eyes, viewed, learnt>>

\* One xrLocateSpaces() is as many of these.
xrLocateSpace(space, base, time) ==
    Locates(locateSpace(m_last, space, base, time))

xrLocateHandJointsEXT(side, base, time) ==
    /\ side \in setup.hands
    /\ Locates(xrLocateHandJoints(m_last, side, base, time))

xrGetEyeGazesFB(base, time) ==
    /\ Uses({"gaze"})
    /\ Locates(GetEyeGazes(m_last, base, time))

xrLocateBodyJointsFB(base, time) ==
    /\ Uses({"tracker"})
    /\ Locates(LocateBodyJoints(m_last, base, time))

\* Mutant: the distance after the change is returned, not the one before.
Mutant_SeenIpd ==
    IF m_overrideWorldScale # 1 THEN Ipd \div m_overrideWorldScale ELSE None

\* The distance that xrEndFrame() restores.
SeenIpd == IF m_overrideWorldScale # 1 THEN Ipd ELSE None

xrLocateViews(base, time) ==
    LET view == locateSpace(m_last, ViewSpace, base, time)
    IN /\ Uses({"view"})
       /\ m_last' = view.m
       /\ m_lastRequestedViewDisplayTime' = time
       /\ rendered' = IF view.valid THEN Ipd \div m_overrideWorldScale
                      ELSE rendered
       /\ m_lastSeenIpd' = IF view.valid THEN SeenIpd ELSE m_lastSeenIpd
       /\ viewed' = IF setup.samePoseForTime /\ view.valid /\ base.kind # "view"
                    THEN view.m.ValidHmdPose ELSE None
       /\ UNCHANGED <<setup, devices, setActive, m_lastPredictedDisplayTime,
                      m_overrideWorldScale, submitted, learnt>>

\* Of an application that submits the views it located last.
xrEndFrame ==
    /\ submitted' = IF m_lastSeenIpd = None THEN rendered ELSE m_lastSeenIpd
    /\ UNCHANGED <<setup, devices, m_last, setActive, times,
                   m_overrideWorldScale, m_lastSeenIpd, rendered, viewed,
                   learnt>>

\* The set of the poses is among the sets synced, or not. A controller that is
\* gone, and has been for a while, is forgotten.
xrSyncActions ==
    /\ Uses(Kinds \ ReferenceKinds)
    /\ setActive' \in BOOLEAN
    /\ \E gone \in SUBSET {side \in Sides : controller[side] = "lost"} :
         m_last' = [m_last EXCEPT !.ValidControllerPose =
                      [side \in Sides |->
                         IF side \in gone THEN None ELSE @[side]]]
    /\ UNCHANGED <<setup, devices, times, eyes, viewed, learnt>>

\* refreshSettings(), on the thread that watches the registry.
refreshSettings(scale) ==
    /\ m_overrideWorldScale' = scale
    /\ UNCHANGED <<setup, devices, m_last, setActive, times, m_lastSeenIpd,
                   rendered, submitted, viewed, learnt>>

-----------------------------------------------------------------------------
(* The world. Devices that the application has no use for stay as they are *)

HeadMoves(to) ==
    /\ Uses({"view", "gaze", "local"})
    /\ head' = to
    /\ learnt' = learnt \cup ({to} \ {None})
    /\ UNCHANGED <<setup, controller, m_cachedBodyState, eyeHeight, m_last,
                   setActive, times, eyes, viewed>>

ControllerChanges(side, to) ==
    /\ \/ \E space \in setup.spaces :
            space.kind \in ControllerKinds /\ space.side = side
       \/ setup.simulated /\ side \in setup.hands
    /\ controller' = [controller EXCEPT ![side] = to]
    /\ UNCHANGED <<setup, head, m_cachedBodyState, eyeHeight, m_last,
                   setActive, times, eyes, viewed, learnt>>

\* bodyStateWatcherThread() copies what Virtual Desktop has written.
BodyStates ==
    [active : IF setup.hands # {} \/ Uses({"aim"}) THEN SUBSET Sides ELSE {{}},
     aimValid : IF Uses({"aim"}) THEN SUBSET Sides ELSE {{}},
     eyes : IF Uses({"gaze"}) THEN BOOLEAN ELSE {FALSE},
     joint : IF Uses({"tracker"}) THEN BOOLEAN ELSE {FALSE}]

WatcherCopies ==
    /\ m_cachedBodyState' \in BodyStates
    /\ UNCHANGED <<setup, head, controller, eyeHeight, m_last, setActive, times,
                   eyes, viewed, learnt>>

\* The user turns stage tracking on or off, or is measured again.
EyeHeightChanges(to) ==
    /\ eyeHeight' = to
    /\ learnt' = learnt \cup ({to} \ {0})
    /\ UNCHANGED <<setup, head, controller, m_cachedBodyState, m_last, setActive,
                   times, eyes, viewed>>

Times == 1 .. MaxTime

Next ==
    \/ \E time \in Times :
         \/ xrWaitFrame(time)
         \/ \E space, base \in setup.spaces : xrLocateSpace(space, base, time)
         \/ \E base \in setup.spaces :
              \/ xrLocateViews(base, time)
              \/ \E side \in Sides : xrLocateHandJointsEXT(side, base, time)
              \/ xrGetEyeGazesFB(base, time) \/ xrLocateBodyJointsFB(base, time)
    \/ xrEndFrame \/ xrSyncActions
    \/ \E scale \in setup.scales : refreshSettings(scale)
    \/ \E to \in Heights \cup {None} : HeadMoves(to)
    \/ \E side \in Sides, to \in {"tracked", "noPosition", "lost"} :
         ControllerChanges(side, to)
    \/ WatcherCopies
    \/ \E to \in setup.eyeHeights : EyeHeightChanges(to)

Spec == Init /\ [][Next]_vars

-----------------------------------------------------------------------------
(* Properties.                                                             *)

Optional(S) == S \cup {None}

\* Types of the variables.
TypeOK ==
    /\ setup \in Setups
    /\ head \in Optional(Heights)
    /\ controller \in [Sides -> {"tracked", "noPosition", "lost"}]
    /\ m_cachedBodyState \in [active : SUBSET Sides, aimValid : SUBSET Sides,
                             eyes : BOOLEAN, joint : BOOLEAN]
    /\ m_last \in [ValidHmdPose : Optional(Nat),
                   ValidControllerPose : [Sides -> Optional(Nat)],
                   KnownFloorHeight : Optional(Nat \ {0})]
    /\ eyeHeight \in setup.eyeHeights
    /\ setActive \in BOOLEAN
    /\ m_lastPredictedDisplayTime \in 0 .. MaxTime
    /\ m_lastRequestedViewDisplayTime \in 0 .. MaxTime
    /\ m_overrideWorldScale \in setup.scales \cup {1}
    /\ m_lastSeenIpd \in Optional(Nat)
    /\ rendered \in Nat /\ submitted \in Nat
    /\ viewed \in Optional(Nat)
    /\ learnt \subseteq Heights \cup setup.eyeHeights

\* Where a space really is, from the devices as they are now.
LocalHeight ==
    CASE eyeHeight # 0 -> eyeHeight
      [] eyeHeight = 0 /\ m_last.KnownFloorHeight # None ->
            m_last.KnownFloorHeight
      [] OTHER -> ValueOr0(IF head # None THEN head ELSE m_last.ValidHmdPose)
Place(space) == space.poseInSpace +
    CASE space.kind \in {"view", "gaze"} -> head
      [] space.kind = "local" -> IF setup.floorLevel THEN LocalHeight ELSE 0
      [] space.kind \in {"stage", "localFloor"} ->
            IF setup.floorLevel THEN 0 ELSE -eyeHeight
      [] space.kind = "tracker" -> JointAt + eyeHeight
      [] space.kind = "aim" /\ CanPinch(space.side) -> AimAt + eyeHeight
      [] OTHER -> ControllerAt(space.side)

\* What it takes for its place to be known.
Tracked(space) ==
    CASE space.kind \in {"view", "gaze"} -> head # None
      [] space.kind \in ControllerKinds -> controller[space.side] = "tracked"
      [] space.kind = "tracker" -> m_cachedBodyState.joint
      [] OTHER -> TRUE

\* A location with the tracked bits is where the devices are now: neither space
\* comes from a cache, whichever of the two, and of the caches, it might be
\* (space.cpp:546). A gaze is an exception, tracked even if the headset is not
\* (space.cpp:893), and so is the pose kept for OVRPlugin (space.cpp:743).
TrackedIsNow ==
    \A space, base \in setup.spaces, time \in 2 .. MaxTime :
        LET location == locateSpace(m_last, space, base, time)
        IN /\ location.tracked /\ ~SameOrigin(space, base)
           /\ ~setup.samePoseForTime
           /\ "gaze" \in {space.kind, base.kind} => head # None
           => /\ Tracked(space) /\ Tracked(base)
              /\ location.pose = Place(space) - Place(base)

Stage == [kind |-> "stage", side |-> Left, poseInSpace |-> 0]

\* Locations at one time agree with one another: what locates a space in a base,
\* by its origin or by the shorter way for the same origin, by whatever cache,
\* locates both in the stage as far apart. So it is with a time of 1, for which
\* the height of the floor is ignored (space.cpp:582).
SpacesCompose ==
    \A time \in Times :
        LET at == [space \in setup.spaces |->
                     locateSpace(m_last, space, Stage, time)]
        IN \A space, base \in setup.spaces :
             /\ at[space].valid /\ at[base].valid
             => /\ locateSpace(m_last, space, base, time).valid
                /\ locateSpace(m_last, space, base, time).pose
                     = at[space].pose - at[base].pose

\* The joints of a hand are in the same place, whatever base they are located
\* in, wherever the origin is, and from cameras where the data say they are.
HandsInPlace ==
    \A side \in setup.hands, time \in 2 .. MaxTime, base \in setup.spaces :
        LET inStage == xrLocateHandJoints(m_last, side, Stage, time)
            inBase == xrLocateHandJoints(m_last, side, base, time)
        IN inBase.valid =>
             /\ inStage.pose - inBase.pose
                  = locateSpace(m_last, base, Stage, time).pose
             /\ UsesCamera(side) =>
                  inStage.pose = HandAt(side) + eyeHeight

\* So are the joints of the body. They are not, wherever the base space is not
\* at the origin: its pose is inverted twice (body_tracking.cpp:228, 246).
JointsInPlace ==
    \A time \in 2 .. MaxTime, base \in setup.spaces :
        LET inStage == LocateBodyJoints(m_last, Stage, time)
            inBase == LocateBodyJoints(m_last, base, time)
        IN inBase.valid =>
             inStage.pose - inBase.pose
                = locateSpace(m_last, base, Stage, time).pose

\* The eye level at rest is never made up: it is a height at which the headset
\* was tracked, although cached poses are valid without one (space.cpp:758), or
\* an eye height that the user had, through any switches between the two.
FloorNotMadeUp ==
    m_last.KnownFloorHeight # None => m_last.KnownFloorHeight \in learnt

\* The compositor gets views as far apart as the eyes really are, whatever
\* became of the world scale, and of the tracking, since they were located.
RealIpdSubmitted == submitted = Ipd

\* Locating the views again for the same time gives the same pose, as the
\* comment at space.cpp:744 says for OVRPlugin: "Return the same pose for the
\* same timestamp." The pose that is kept is not that of the views, but of the
\* last call to locate anything with the headset.
SameTimeSamePose ==
    /\ setup.samePoseForTime /\ viewed \in Heights
    /\ Clamp(m_lastRequestedViewDisplayTime) = m_lastRequestedViewDisplayTime
    => getHmdPose(m_last, m_lastRequestedViewDisplayTime).pose = viewed
=============================================================================
