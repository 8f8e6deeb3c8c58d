--------------------------- MODULE Tracking_proof ---------------------------
(***************************************************************************)
(* Theorems about Tracking for any heights, times, applications and         *)
(* distance between the eyes, checked by TLAPS.                             *)
(***************************************************************************)
EXTENDS Tracking, TLAPS

-----------------------------------------------------------------------------
(* The invariant.                                                           *)

(* What m_last may be.                                                      *)
Cached == [ValidHmdPose : Optional(Nat),
           ValidControllerPose : [Sides -> Optional(Nat)],
           KnownFloorHeight : Optional(Nat \ {0})]

(* A cached pose of the headset is one it was tracked at, or the 0 of a       *)
(* headset that was asked for before it was ever tracked; the height of the  *)
(* floor is one that was learnt.                                             *)
FloorSeen(m) ==
    /\ m.ValidHmdPose \in {None, 0} \cup learnt
    /\ m.KnownFloorHeight # None => m.KnownFloorHeight \in learnt

FloorInv ==
    /\ head \in {None} \cup learnt
    /\ eyeHeight # 0 => eyeHeight \in learnt
    /\ FloorSeen(m_last)

(* The views are as far apart as the eyes, or what is to be restored is.     *)
EyesInv ==
    /\ submitted = Ipd
    /\ IF m_lastSeenIpd = None THEN rendered = Ipd ELSE m_lastSeenIpd = Ipd

IInv == TypeOK /\ FloorInv /\ EyesInv

-----------------------------------------------------------------------------
(* Constants and types.                                                     *)

LEMMA SetupFacts ==
    ASSUME TypeOK
    PROVE  /\ setup \in Setup /\ setup.spaces \subseteq Spaces
           /\ setup.hands \subseteq Sides /\ eyeHeight \in Nat
           /\ setup.floorLevel \in BOOLEAN /\ setup.samePoseForTime \in BOOLEAN
           /\ setup.optical \in BOOLEAN /\ setup.simulated \in BOOLEAN
           /\ \A scale \in setup.scales : scale \in Nat \ {0}
           /\ None \notin Int /\ Ipd \in Nat \ {0}
           /\ Heights \subseteq Nat \ {0}
           /\ MaxTime \in Nat \ {0}
<1>1. setup \in Setups /\ setup \in Setup BY TrackingAssumption DEF TypeOK
<1>2. \A scale \in setup.scales : scale \in Nat \ {0}
  <2>1. setup.scales \subseteq Nat BY <1>1 DEF Setup
  <2>2. \A scale \in setup.scales : scale # 0 BY <1>1, TrackingAssumption
  <2> QED BY <2>1, <2>2
<1>3. eyeHeight \in Nat
  <2>1. setup.eyeHeights \subseteq Nat BY <1>1 DEF Setup
  <2> QED BY <2>1 DEF TypeOK
<1> QED BY <1>1, <1>2, <1>3, TrackingAssumption DEF Setup

LEMMA CachedFacts ==
    ASSUME None \notin Int, NEW m \in Cached
    PROVE  /\ ValueOr0(m.ValidHmdPose) \in Nat
           /\ \A side \in Sides : ValueOr0(m.ValidControllerPose[side]) \in Nat
           /\ ValueOr0(m.KnownFloorHeight) \in Nat
           /\ m.ValidHmdPose \in Optional(Nat)
           /\ m.KnownFloorHeight \in Optional(Nat \ {0})
           /\ m.ValidControllerPose \in [Sides -> Optional(Nat)]
BY DEF Cached, ValueOr0, Optional

-----------------------------------------------------------------------------
(* Locating twice is locating once: what is cached on the way changes no     *)
(* pose, and takes no validity away.                                         *)
Agrees(n, m, time) ==
    /\ n \in Cached
    /\ getHmdPose(n, time).pose = getHmdPose(m, time).pose
    /\ getHmdPose(m, time).valid => getHmdPose(n, time).valid
    /\ \A side \in Sides :
          /\ getControllerPose(n, side).pose = getControllerPose(m, side).pose
          /\ getControllerPose(m, side).valid
                => getControllerPose(n, side).valid

LEMMA HmdFacts ==
    ASSUME TypeOK, NEW m \in Cached, NEW time
    PROVE  LET hmd == getHmdPose(m, time)
               fresh == head # None /\ (\/ ~setup.samePoseForTime
                                        \/ time # m_lastRequestedViewDisplayTime)
           IN /\ hmd.pose \in Nat
              /\ hmd.pose = IF fresh THEN head ELSE ValueOr0(m.ValidHmdPose)
              /\ hmd.valid \in BOOLEAN /\ hmd.tracked \in BOOLEAN
              /\ hmd.valid <=> fresh \/ m.ValidHmdPose # None
              /\ hmd.tracked <=> hmd.valid /\ head # None
              /\ hmd.pose # 0 => hmd.valid
              /\ hmd.m \in Cached
              /\ hmd.m.ValidHmdPose = hmd.pose
              /\ hmd.m.KnownFloorHeight = m.KnownFloorHeight
              /\ hmd.m.ValidControllerPose = m.ValidControllerPose
<1>1. None \notin Int /\ Heights \subseteq Nat \ {0} BY SetupFacts
<1>2. head \in Optional(Nat) BY <1>1 DEF TypeOK, Optional
<1>3. ValueOr0(m.ValidHmdPose) \in Nat /\ m.ValidHmdPose \in Optional(Nat)
  BY <1>1, CachedFacts
<1> DEFINE hmd == getHmdPose(m, time)
           fresh == head # None /\ (\/ ~setup.samePoseForTime
                                    \/ time # m_lastRequestedViewDisplayTime)
<1>4. /\ hmd.pose = IF fresh THEN head ELSE ValueOr0(m.ValidHmdPose)
      /\ hmd.valid = (fresh \/ m.ValidHmdPose # None)
      /\ hmd.tracked = (hmd.valid /\ head # None)
      /\ hmd.m = [m EXCEPT !.ValidHmdPose = hmd.pose]
  BY DEF getHmdPose, Located
<1>5. hmd.pose \in Nat BY <1>2, <1>3, <1>4 DEF Optional
<1>6. hmd.pose # 0 => hmd.valid BY <1>3, <1>4 DEF ValueOr0
<1> HIDE DEF hmd, fresh
<1>7. /\ hmd.m \in Cached /\ hmd.m.ValidHmdPose = hmd.pose
      /\ hmd.m.KnownFloorHeight = m.KnownFloorHeight
      /\ hmd.m.ValidControllerPose = m.ValidControllerPose
  BY <1>4, <1>5 DEF Cached, Optional
<1> QED BY <1>4, <1>5, <1>6, <1>7 DEF hmd, fresh

LEMMA ControllerFacts ==
    ASSUME TypeOK, NEW m \in Cached, NEW side \in Sides
    PROVE  LET hand == getControllerPose(m, side)
           IN /\ hand.pose \in Nat
              /\ hand.pose = IF controller[side] = "tracked"
                             THEN ControllerAt(side)
                             ELSE ValueOr0(m.ValidControllerPose[side])
              /\ hand.valid \in BOOLEAN /\ hand.tracked \in BOOLEAN
              /\ hand.valid <=> \/ controller[side] # "lost"
                                \/ m.ValidControllerPose[side] # None
              /\ hand.tracked <=> controller[side] = "tracked"
              /\ hand.m \in Cached
              /\ hand.m.ValidHmdPose = m.ValidHmdPose
              /\ hand.m.KnownFloorHeight = m.KnownFloorHeight
              /\ \A s \in Sides :
                    hand.m.ValidControllerPose[s] =
                       IF s = side THEN hand.pose ELSE m.ValidControllerPose[s]
<1>1. None \notin Int BY SetupFacts
<1>2. /\ ValueOr0(m.ValidControllerPose[side]) \in Nat
      /\ m.ValidControllerPose \in [Sides -> Optional(Nat)]
  BY <1>1, CachedFacts
<1> DEFINE hand == getControllerPose(m, side)
<1>3. /\ hand.pose = IF controller[side] = "tracked" THEN ControllerAt(side)
                     ELSE ValueOr0(m.ValidControllerPose[side])
      /\ hand.valid = (\/ controller[side] # "lost"
                       \/ m.ValidControllerPose[side] # None)
      /\ hand.tracked = (controller[side] = "tracked")
      /\ hand.m = [m EXCEPT !.ValidControllerPose[side] = hand.pose]
  BY DEF getControllerPose, Located
<1>4. hand.pose \in Nat BY <1>2, <1>3 DEF ControllerAt
<1> HIDE DEF hand
<1>5. /\ hand.m \in Cached
      /\ hand.m.ValidHmdPose = m.ValidHmdPose
      /\ hand.m.KnownFloorHeight = m.KnownFloorHeight
      /\ \A s \in Sides :
            hand.m.ValidControllerPose[s] =
               IF s = side THEN hand.pose ELSE m.ValidControllerPose[s]
  BY <1>2, <1>3, <1>4 DEF Cached, Optional
<1> QED BY <1>3, <1>4, <1>5 DEF hand

LEMMA AgreesBy ==
    ASSUME TypeOK, NEW n \in Cached, NEW m \in Cached, NEW time,
           \/ n.ValidHmdPose = m.ValidHmdPose
           \/ n.ValidHmdPose = getHmdPose(m, time).pose,
           \A side \in Sides :
              \/ n.ValidControllerPose[side] = m.ValidControllerPose[side]
              \/ n.ValidControllerPose[side] = getControllerPose(m, side).pose
    PROVE  Agrees(n, m, time)
<1>1. None \notin Int BY SetupFacts
<1>2. /\ getHmdPose(n, time).pose = getHmdPose(m, time).pose
      /\ getHmdPose(m, time).valid => getHmdPose(n, time).valid
  <2>1. CASE n.ValidHmdPose = m.ValidHmdPose BY <2>1, HmdFacts
  <2>2. CASE n.ValidHmdPose = getHmdPose(m, time).pose
    <3>1. getHmdPose(m, time).pose \in Nat BY HmdFacts
    <3>2. /\ n.ValidHmdPose # None
          /\ ValueOr0(n.ValidHmdPose) = getHmdPose(m, time).pose
      BY <1>1, <2>2, <3>1 DEF ValueOr0
    <3> QED BY <3>2, HmdFacts
  <2> QED BY <2>1, <2>2
<1>3. ASSUME NEW side \in Sides
      PROVE  /\ getControllerPose(n, side).pose = getControllerPose(m, side).pose
             /\ getControllerPose(m, side).valid
                   => getControllerPose(n, side).valid
  <2>1. CASE n.ValidControllerPose[side] = m.ValidControllerPose[side]
    BY <2>1, ControllerFacts
  <2>2. CASE n.ValidControllerPose[side] = getControllerPose(m, side).pose
    <3>1. getControllerPose(m, side).pose \in Nat BY ControllerFacts
    <3>2. /\ n.ValidControllerPose[side] # None
          /\ ValueOr0(n.ValidControllerPose[side])
                = getControllerPose(m, side).pose
      BY <1>1, <2>2, <3>1 DEF ValueOr0
    <3> QED BY <3>2, ControllerFacts
  <2> QED BY <2>1, <2>2
<1> QED BY <1>2, <1>3 DEF Agrees

(* What a call that locates may do to what is cached.                        *)
Caches(n, m, time) ==
    /\ n \in Cached
    /\ \/ n.ValidHmdPose = m.ValidHmdPose
       \/ n.ValidHmdPose = getHmdPose(m, time).pose
    /\ \A side \in Sides :
          \/ n.ValidControllerPose[side] = m.ValidControllerPose[side]
          \/ n.ValidControllerPose[side] = getControllerPose(m, side).pose
    /\ \/ n.KnownFloorHeight = m.KnownFloorHeight
       \/ eyeHeight # 0 /\ n.KnownFloorHeight = eyeHeight
       \/ /\ eyeHeight = 0
          /\ n.KnownFloorHeight = getHmdPose(m, time).pose
          /\ getHmdPose(m, time).pose # 0

(* The origin of a space, before its offset.                                 *)
LocatedOK(located, m, time) ==
    /\ located.pose \in Int
    /\ located.valid \in BOOLEAN /\ located.tracked \in BOOLEAN
    /\ Caches(located.m, m, time)

LEMMA HmdLocated ==
    ASSUME TypeOK, NEW m \in Cached, NEW time
    PROVE  LocatedOK(getHmdPose(m, time), m, time)
BY HmdFacts DEF LocatedOK, Caches

LEMMA ControllerLocated ==
    ASSUME TypeOK, NEW m \in Cached, NEW side \in Sides, NEW time
    PROVE  LocatedOK(getControllerPose(m, side), m, time)
<1>1. m.ValidControllerPose \in [Sides -> Optional(Nat)] BY DEF Cached
<1> QED BY <1>1, ControllerFacts DEF LocatedOK, Caches

LEMMA SelfLocated ==
    ASSUME TypeOK, NEW m \in Cached, NEW time,
           NEW valid \in BOOLEAN, NEW tracked \in BOOLEAN, NEW pose \in Int
    PROVE  LET located == Located(valid, tracked, pose, m)
           IN /\ LocatedOK(located, m, time)
              /\ located.m = m /\ located.pose = pose
              /\ located.valid = valid /\ located.tracked = tracked
BY DEF LocatedOK, Caches, Located

LEMMA NowhereLocated ==
    ASSUME TypeOK, NEW m \in Cached, NEW time
    PROVE  LET located == Located(FALSE, FALSE, 0, m)
           IN /\ LocatedOK(located, m, time)
              /\ located.m = m /\ ~located.valid /\ ~located.tracked
BY DEF LocatedOK, Caches, Located

(* The eye level at rest.                                                    *)
LEMMA LocalFacts ==
    ASSUME TypeOK, NEW m \in Cached, NEW time
    PROVE  LET hmd == getHmdPose(m, time)
               local == LocalPose(m, time)
           IN /\ local.valid /\ local.tracked
              /\ LocatedOK(local, m, time)
              /\ local.pose =
                    IF eyeHeight # 0 THEN eyeHeight
                    ELSE IF m.KnownFloorHeight # None THEN m.KnownFloorHeight
                    ELSE hmd.pose
<1> DEFINE hmd == getHmdPose(m, time)
           local == LocalPose(m, time)
<1>1. None \notin Int /\ eyeHeight \in Nat BY SetupFacts
<1>2. m.KnownFloorHeight \in Optional(Nat \ {0}) BY <1>1, CachedFacts
<1>3. /\ hmd.pose \in Nat /\ hmd.m \in Cached /\ (hmd.pose # 0 => hmd.valid)
      /\ hmd.m.ValidHmdPose = hmd.pose
      /\ hmd.m.KnownFloorHeight = m.KnownFloorHeight
      /\ hmd.m.ValidControllerPose = m.ValidControllerPose
  BY HmdFacts
<1> DEFINE inferred == IF CanInfer(hmd)
                       THEN [hmd.m EXCEPT !.KnownFloorHeight = hmd.pose]
                       ELSE hmd.m
           known == CASE eyeHeight # 0 ->
                           [m EXCEPT !.KnownFloorHeight = eyeHeight]
                      [] eyeHeight = 0 /\ m.KnownFloorHeight = None ->
                           inferred
                      [] OTHER -> m
<1>4. local = Located(TRUE, TRUE, ValueOr0(known.KnownFloorHeight), known)
  BY DEF LocalPose
<1>5. /\ local.valid /\ local.tracked /\ local.m = known
      /\ local.valid \in BOOLEAN /\ local.tracked \in BOOLEAN
      /\ local.pose = ValueOr0(known.KnownFloorHeight)
  BY <1>4 DEF Located
<1> HIDE DEF hmd, local
<1>6. CASE eyeHeight # 0
  <2>1. known = [m EXCEPT !.KnownFloorHeight = eyeHeight] BY <1>6
  <2>2. /\ known \in Cached
        /\ known.ValidHmdPose = m.ValidHmdPose
        /\ known.ValidControllerPose = m.ValidControllerPose
        /\ known.KnownFloorHeight = eyeHeight
    BY <1>1, <1>6, <2>1 DEF Cached, Optional
  <2>3. local.pose = eyeHeight BY <1>1, <1>5, <2>2 DEF ValueOr0
  <2> QED BY <1>1, <1>5, <1>6, <2>2, <2>3 DEF LocatedOK, Caches, hmd, local
<1>7. CASE eyeHeight = 0 /\ m.KnownFloorHeight # None
  <2>1. known = m BY <1>7
  <2>2. local.pose = m.KnownFloorHeight /\ m.KnownFloorHeight \in Nat
    BY <1>2, <1>5, <1>7, <2>1 DEF ValueOr0, Optional
  <2> QED BY <1>5, <1>7, <2>1, <2>2 DEF LocatedOK, Caches, hmd, local
<1>8. CASE eyeHeight = 0 /\ m.KnownFloorHeight = None /\ hmd.pose # 0
  <2>1. CanInfer(hmd) BY <1>3, <1>8 DEF CanInfer
  <2>2. known = [hmd.m EXCEPT !.KnownFloorHeight = hmd.pose] BY <1>8, <2>1
  <2>3. /\ known \in Cached
        /\ known.ValidHmdPose = hmd.pose
        /\ known.ValidControllerPose = m.ValidControllerPose
        /\ known.KnownFloorHeight = hmd.pose
    BY <1>3, <1>8, <2>2 DEF Cached, Optional
  <2>4. local.pose = hmd.pose BY <1>1, <1>3, <1>5, <2>3 DEF ValueOr0
  <2> QED BY <1>3, <1>5, <1>8, <2>3, <2>4 DEF LocatedOK, Caches, hmd, local
<1>9. CASE eyeHeight = 0 /\ m.KnownFloorHeight = None /\ hmd.pose = 0
  <2>1. ~CanInfer(hmd) BY <1>9 DEF CanInfer
  <2>2. known = hmd.m BY <1>9, <2>1
  <2> HIDE DEF known
  <2>3. local.pose = 0 BY <1>3, <1>5, <1>9, <2>2 DEF ValueOr0
  <2> QED BY <1>3, <1>5, <1>9, <2>2, <2>3 DEF LocatedOK, Caches, hmd, local
<1> QED BY <1>6, <1>7, <1>8, <1>9

-----------------------------------------------------------------------------
(* The origins of spaces, kind by kind, at the time they are clamped to.     *)

Shift(located, offset) ==
    Located(located.valid, located.tracked, offset + located.pose, located.m)

LEMMA ShiftFacts ==
    ASSUME NEW valid, NEW tracked, NEW pose, NEW m, NEW offset
    PROVE  [Located(valid, tracked, pose, m) EXCEPT !.pose = offset + @]
           = Shift(Located(valid, tracked, pose, m), offset)
BY DEF Shift, Located

LEMMA OriginByKind ==
    ASSUME TypeOK, NEW m, NEW space \in Spaces, NEW time
    PROVE  LET t == Clamp(time)
               o == locateSpaceToOrigin(m, space, time)
               x == space.poseInSpace
           IN /\ space.kind = "view" => o = Shift(getHmdPose(m, t), x)
              /\ space.kind = "local" =>
                    o = IF setup.floorLevel /\ ~(time <= 1)
                        THEN Shift(LocalPose(m, t), x)
                        ELSE Located(TRUE, TRUE, x + 0, m)
              /\ space.kind \in {"stage", "localFloor"} =>
                    o = Located(TRUE, TRUE,
                                x + (IF setup.floorLevel \/ time <= 1 THEN 0
                                     ELSE -eyeHeight), m)
              /\ space.kind \notin ReferenceKinds =>
                    o = Shift(ActionPose(m, space, t), x)
<1> DEFINE t == Clamp(time)
           x == space.poseInSpace
           o == locateSpaceToOrigin(m, space, time)
<1> HIDE DEF t
<1>1. ASSUME space.kind = "view" PROVE o = Shift(getHmdPose(m, t), x)
  <2>1. o = [getHmdPose(m, t) EXCEPT !.pose = x + @]
    BY <1>1 DEF locateSpaceToOrigin, t
  <2> QED BY <2>1, ShiftFacts DEF getHmdPose
<1>2. ASSUME space.kind = "local"
      PROVE  o = IF setup.floorLevel /\ ~(time <= 1)
                 THEN Shift(LocalPose(m, t), x)
                 ELSE Located(TRUE, TRUE, x + 0, m)
  <2>1. CASE setup.floorLevel /\ ~(time <= 1)
    <3>1. o = [LocalPose(m, t) EXCEPT !.pose = x + @]
      BY <1>2, <2>1 DEF locateSpaceToOrigin, t
    <3>2. PICK v, k, p, n : LocalPose(m, t) = Located(v, k, p, n)
      BY DEF LocalPose
    <3>3. o = Shift(LocalPose(m, t), x) BY <3>1, <3>2, ShiftFacts
    <3> QED BY <2>1, <3>3
  <2>2. CASE ~(setup.floorLevel /\ ~(time <= 1))
    <3>1. o = [Located(TRUE, TRUE, 0, m) EXCEPT !.pose = x + @]
      BY <1>2, <2>2 DEF locateSpaceToOrigin, t
    <3> QED BY <2>2, <3>1 DEF Located
  <2> QED BY <2>1, <2>2
<1>3. ASSUME space.kind \in {"stage", "localFloor"}
      PROVE  o = Located(TRUE, TRUE,
                         x + (IF setup.floorLevel \/ time <= 1 THEN 0
                              ELSE -eyeHeight), m)
  <2> DEFINE y == IF setup.floorLevel \/ time <= 1 THEN 0 ELSE -eyeHeight
  <2>1. o = [Located(TRUE, TRUE, y, m) EXCEPT !.pose = x + @]
    <3>1. CASE setup.floorLevel \/ time <= 1
      BY <1>3, <3>1 DEF locateSpaceToOrigin, t
    <3>2. CASE ~(setup.floorLevel \/ time <= 1)
      BY <1>3, <3>2 DEF locateSpaceToOrigin, t
    <3> QED BY <3>1, <3>2
  <2> HIDE DEF y
  <2>2. o = Located(TRUE, TRUE, x + y, m) BY <2>1, ShiftFacts DEF Shift, Located
  <2> QED BY <2>2 DEF y
<1>4. ASSUME space.kind \notin ReferenceKinds
      PROVE  o = Shift(ActionPose(m, space, t), x)
  <2>1. o = [ActionPose(m, space, t) EXCEPT !.pose = x + @]
    BY <1>4 DEF locateSpaceToOrigin, t, ReferenceKinds
  <2>2. PICK v, k, p, n : ActionPose(m, space, t) = Located(v, k, p, n)
    <3>1. space.kind \in ControllerKinds \cup {"gaze", "tracker"}
      BY <1>4 DEF Spaces, Kinds
    <3>2. CASE ~setActive BY <3>2 DEF ActionPose
    <3>3. CASE setActive /\ space.kind = "gaze"
      <4>1. ActionPose(m, space, t) = getEyeTrackerPose(m, t)
        BY <3>3 DEF ActionPose, ControllerKinds
      <4> QED BY <4>1 DEF getEyeTrackerPose
    <3>4. CASE setActive /\ space.kind = "tracker"
      <4>1. ActionPose(m, space, t) = getBodyJointPose(m)
        BY <3>4 DEF ActionPose, ControllerKinds
      <4> QED BY <4>1 DEF getBodyJointPose
    <3>5. CASE setActive /\ space.kind \in ControllerKinds
      <4>1. ActionPose(m, space, t) =
              [getControllerPose(m, space.side) EXCEPT !.pose =
                 IF space.kind = "aim" /\ CanPinch(space.side)
                 THEN getPinchPose ELSE @]
        BY <3>5 DEF ActionPose, ControllerKinds
      <4>2. PICK v, k, q, n :
               getControllerPose(m, space.side) = Located(v, k, q, n)
        BY DEF getControllerPose
      <4> DEFINE r == IF space.kind = "aim" /\ CanPinch(space.side)
                      THEN getPinchPose ELSE q
      <4>3. ActionPose(m, space, t) = Located(v, k, r, n)
        BY <4>1, <4>2 DEF Located
      <4> QED BY <4>3
    <3> QED BY <3>1, <3>2, <3>3, <3>4, <3>5
  <2> QED BY <2>1, <2>2, ShiftFacts
<1> QED BY <1>1, <1>2, <1>3, <1>4 DEF t

(* The pose of a controller, or of the pinch that stands for its aim.        *)
HandPose(m, space) ==
    IF space.kind = "aim" /\ CanPinch(space.side) THEN AimAt + eyeHeight
    ELSE getControllerPose(m, space.side).pose

LEMMA ActionByKind ==
    ASSUME TypeOK, NEW m, NEW space \in Spaces, NEW time
    PROVE  LET action == ActionPose(m, space, time)
               hand == getControllerPose(m, space.side)
               hmd == getHmdPose(m, time)
           IN /\ ~setActive => action = Located(FALSE, FALSE, 0, m)
              /\ setActive /\ space.kind = "gaze" =>
                    action = IF ~m_cachedBodyState.eyes
                             THEN Located(FALSE, FALSE, 0, m)
                             ELSE Located(hmd.valid, hmd.valid, hmd.pose, hmd.m)
              /\ setActive /\ space.kind = "tracker" =>
                    action = getBodyJointPose(m)
              /\ setActive /\ space.kind \in ControllerKinds =>
                    action = Located(hand.valid, hand.tracked,
                                     HandPose(m, space), hand.m)
<1> DEFINE action == ActionPose(m, space, time)
           hand == getControllerPose(m, space.side)
           hmd == getHmdPose(m, time)
<1>1. ~setActive => action = Located(FALSE, FALSE, 0, m) BY DEF ActionPose
<1>2. setActive /\ space.kind = "gaze" =>
         action = IF ~m_cachedBodyState.eyes THEN Located(FALSE, FALSE, 0, m)
                  ELSE Located(hmd.valid, hmd.valid, hmd.pose, hmd.m)
  <2>1. setActive /\ space.kind = "gaze" => action = getEyeTrackerPose(m, time)
    BY DEF ActionPose, ControllerKinds
  <2> QED BY <2>1 DEF getEyeTrackerPose
<1>3. setActive /\ space.kind = "tracker" => action = getBodyJointPose(m)
  BY DEF ActionPose, ControllerKinds
<1>4. ASSUME setActive, space.kind \in ControllerKinds
      PROVE  action = Located(hand.valid, hand.tracked, HandPose(m, space),
                              hand.m)
  <2>1. action = [hand EXCEPT !.pose =
                    IF space.kind = "aim" /\ CanPinch(space.side)
                    THEN getPinchPose ELSE @]
    BY <1>4 DEF ActionPose, ControllerKinds
  <2>2. PICK v, k, q, n : hand = Located(v, k, q, n) BY DEF getControllerPose
  <2>3. getPinchPose = AimAt + eyeHeight
    BY DEF getPinchPose, JointsToVirtual
  <2>4. HandPose(m, space) = IF space.kind = "aim" /\ CanPinch(space.side)
                             THEN AimAt + eyeHeight ELSE hand.pose
    BY DEF HandPose
  <2> HIDE DEF hand
  <2> QED BY <2>1, <2>2, <2>3, <2>4 DEF Located
<1> QED BY <1>1, <1>2, <1>3, <1>4

LEMMA ControllerAction ==
    ASSUME TypeOK, NEW m, NEW space \in Spaces, NEW time,
           setActive, space.kind \in ControllerKinds
    PROVE  ActionPose(m, space, time)
           = Located(getControllerPose(m, space.side).valid,
                     getControllerPose(m, space.side).tracked,
                     HandPose(m, space),
                     getControllerPose(m, space.side).m)
BY ActionByKind

LEMMA ActionFacts ==
    ASSUME TypeOK, NEW m \in Cached, NEW space \in Spaces, NEW time,
           space.kind \notin ReferenceKinds
    PROVE  LET action == ActionPose(m, space, time)
           IN /\ LocatedOK(action, m, time)
              /\ action.m.KnownFloorHeight = m.KnownFloorHeight
<1> DEFINE action == ActionPose(m, space, time)
           hand == getControllerPose(m, space.side)
           hmd == getHmdPose(m, time)
<1>1. space.kind \in ControllerKinds \cup {"gaze", "tracker"} /\ space.side \in Sides
  BY DEF Spaces, Kinds
<1>2. eyeHeight \in Nat /\ m_cachedBodyState.joint \in BOOLEAN
  BY SetupFacts DEF TypeOK
<1>3. CASE ~setActive
  <2>1. action = Located(FALSE, FALSE, 0, m) BY <1>3, ActionByKind
  <2> HIDE DEF action
  <2>2. LocatedOK(action, m, time) /\ action.m = m BY <2>1, NowhereLocated
  <2> QED BY <2>2 DEF action
<1>4. CASE setActive /\ space.kind = "gaze"
  <2>1. CASE ~m_cachedBodyState.eyes
    <3>1. action = Located(FALSE, FALSE, 0, m) BY <1>4, <2>1, ActionByKind
    <3> HIDE DEF action
    <3>2. LocatedOK(action, m, time) /\ action.m = m BY <3>1, NowhereLocated
    <3> QED BY <3>2 DEF action
  <2>2. CASE m_cachedBodyState.eyes
    <3>1. action = Located(hmd.valid, hmd.valid, hmd.pose, hmd.m)
      BY <1>4, <2>2, ActionByKind
    <3>2. LocatedOK(hmd, m, time) /\ hmd.m.KnownFloorHeight = m.KnownFloorHeight
      BY HmdLocated, HmdFacts
    <3> HIDE DEF action, hmd
    <3>3. action.valid = hmd.valid /\ action.tracked = hmd.valid
          /\ action.pose = hmd.pose /\ action.m = hmd.m
      BY <3>1 DEF Located
    <3> QED BY <3>2, <3>3 DEF LocatedOK, action
  <2> QED BY <2>1, <2>2
<1>5. CASE setActive /\ space.kind = "tracker"
  <2>1. action = getBodyJointPose(m) BY <1>5, ActionByKind
  <2> DEFINE q == IF m_cachedBodyState.joint THEN JointAt + eyeHeight
                  ELSE 0
  <2>2. action = Located(m_cachedBodyState.joint, m_cachedBodyState.joint, q, m)
    BY <2>1 DEF getBodyJointPose, JointsToVirtual
  <2>3. q \in Int BY <1>2 DEF JointAt
  <2> HIDE DEF q
  <2> QED BY <1>2, <2>2, <2>3, SelfLocated
<1>6. CASE setActive /\ space.kind \in ControllerKinds
  <2> DEFINE q == HandPose(m, space)
  <2>1. action = Located(hand.valid, hand.tracked, q, hand.m)
    BY <1>6, ActionByKind
  <2>2. LocatedOK(hand, m, time) /\ hand.m.KnownFloorHeight = m.KnownFloorHeight
        /\ hand.pose \in Int
    BY <1>1, ControllerLocated, ControllerFacts
  <2>3. q \in Int BY <1>2, <2>2 DEF AimAt, HandPose
  <2> HIDE DEF action, hand, q
  <2>4. action.valid = hand.valid /\ action.tracked = hand.tracked
        /\ action.pose = q /\ action.m = hand.m
    BY <2>1 DEF Located
  <2> QED BY <2>2, <2>3, <2>4 DEF LocatedOK, action
<1> QED BY <1>1, <1>3, <1>4, <1>5, <1>6

LEMMA ShiftLocated ==
    ASSUME NEW located, NEW m, NEW time, NEW offset \in Int,
           LocatedOK(located, m, time)
    PROVE  /\ LocatedOK(Shift(located, offset), m, time)
           /\ Shift(located, offset).m = located.m
           /\ Shift(located, offset).pose = offset + located.pose
           /\ Shift(located, offset).valid = located.valid
           /\ Shift(located, offset).tracked = located.tracked
BY DEF Shift, LocatedOK, Located

(* Locating a space in the origin caches poses as above, and the height of   *)
(* the floor only for the local space.                                       *)
LEMMA OriginFacts ==
    ASSUME TypeOK, NEW m \in Cached, NEW space \in Spaces, NEW time
    PROVE  LET o == locateSpaceToOrigin(m, space, time)
           IN /\ LocatedOK(o, m, Clamp(time))
              /\ space.kind # "local" =>
                    o.m.KnownFloorHeight = m.KnownFloorHeight
              /\ space.kind \in {"local", "stage", "localFloor"} =>
                    o.valid /\ o.tracked
<1> DEFINE t == Clamp(time)
           x == space.poseInSpace
           o == locateSpaceToOrigin(m, space, time)
<1> HIDE DEF t
<1>1. x \in Int /\ eyeHeight \in Nat /\ space.kind \in Kinds
  BY SetupFacts DEF Spaces
<1>2. CASE space.kind = "view"
  <2>1. o = Shift(getHmdPose(m, t), x) BY <1>2, OriginByKind DEF t
  <2>2. getHmdPose(m, t).m.KnownFloorHeight = m.KnownFloorHeight
    BY HmdFacts
  <2> QED BY <1>1, <1>2, <2>1, <2>2, HmdLocated, ShiftLocated DEF t
<1>3. CASE space.kind = "local"
  <2>1. CASE setup.floorLevel /\ ~(time <= 1)
    <3>1. o = Shift(LocalPose(m, t), x) BY <1>3, <2>1, OriginByKind DEF t
    <3>2. LocatedOK(LocalPose(m, t), m, t) /\ LocalPose(m, t).valid
          /\ LocalPose(m, t).tracked
      BY LocalFacts
    <3> QED BY <1>1, <1>3, <3>1, <3>2, ShiftLocated DEF t
  <2>2. CASE ~(setup.floorLevel /\ ~(time <= 1))
    <3>1. o = Located(TRUE, TRUE, x + 0, m) BY <1>3, <2>2, OriginByKind DEF t
    <3>2. x + 0 \in Int BY <1>1
    <3> QED BY <1>3, <3>1, <3>2, SelfLocated DEF t
  <2> QED BY <2>1, <2>2
<1>4. CASE space.kind \in {"stage", "localFloor"}
  <2> DEFINE y == x + (IF setup.floorLevel \/ time <= 1 THEN 0
                       ELSE -eyeHeight)
  <2>1. o = Located(TRUE, TRUE, y, m) BY <1>4, OriginByKind DEF t
  <2>2. y \in Int BY <1>1
  <2> HIDE DEF y, o
  <2>3. LocatedOK(o, m, t) /\ o.m = m /\ o.valid /\ o.tracked
    BY <2>1, <2>2, SelfLocated
  <2> QED BY <2>3 DEF t, o
<1>5. CASE space.kind \notin ReferenceKinds
  <2>1. o = Shift(ActionPose(m, space, t), x) BY <1>5, OriginByKind DEF t
  <2>2. LocatedOK(ActionPose(m, space, t), m, t)
        /\ ActionPose(m, space, t).m.KnownFloorHeight = m.KnownFloorHeight
    BY <1>5, ActionFacts
  <2> QED BY <1>1, <1>5, <2>1, <2>2, ShiftLocated DEF t, ReferenceKinds
<1> QED BY <1>2, <1>3, <1>4, <1>5 DEF ReferenceKinds

LEMMA CachesAgree ==
    ASSUME TypeOK, NEW n, NEW m \in Cached, NEW time, Caches(n, m, time)
    PROVE  Agrees(n, m, time)
BY AgreesBy DEF Caches

(* What is cached on the way to one space moves no other one.                *)
LEMMA OriginStable ==
    ASSUME TypeOK, NEW m \in Cached, NEW n \in Cached, NEW time,
           Agrees(n, m, Clamp(time)), NEW space \in Spaces,
           space.kind = "local" => n.KnownFloorHeight = m.KnownFloorHeight
    PROVE  LET o == locateSpaceToOrigin(m, space, time)
               p == locateSpaceToOrigin(n, space, time)
           IN p.pose = o.pose /\ (o.valid => p.valid)
<1> DEFINE t == Clamp(time)
           x == space.poseInSpace
           o == locateSpaceToOrigin(m, space, time)
           p == locateSpaceToOrigin(n, space, time)
<1>0. Agrees(n, m, t) OBVIOUS
<1> HIDE DEF t
<1>1. x \in Int /\ eyeHeight \in Nat /\ space.kind \in Kinds
      /\ space.side \in Sides
  BY SetupFacts DEF Spaces
<1>2. CASE space.kind = "view"
  <2>1. o = Shift(getHmdPose(m, t), x) /\ p = Shift(getHmdPose(n, t), x)
    BY <1>2, OriginByKind DEF t
  <2> QED BY <1>0, <2>1 DEF Shift, Located, Agrees
<1>3. CASE space.kind = "local"
  <2>1. CASE setup.floorLevel /\ ~(time <= 1)
    <3>1. o = Shift(LocalPose(m, t), x) /\ p = Shift(LocalPose(n, t), x)
      BY <1>3, <2>1, OriginByKind DEF t
    <3>2. LocalPose(n, t).pose = LocalPose(m, t).pose
          /\ LocalPose(n, t).valid
      BY <1>0, <1>3, LocalFacts DEF Agrees
    <3> QED BY <3>1, <3>2 DEF Shift, Located
  <2>2. CASE ~(setup.floorLevel /\ ~(time <= 1))
    <3>1. o = Located(TRUE, TRUE, x + 0, m) /\ p = Located(TRUE, TRUE, x + 0, n)
      BY <1>3, <2>2, OriginByKind DEF t
    <3> QED BY <3>1 DEF Located
  <2> QED BY <2>1, <2>2
<1>4. CASE space.kind \in {"stage", "localFloor"}
  <2> DEFINE y == x + (IF setup.floorLevel \/ time <= 1 THEN 0
                       ELSE -eyeHeight)
  <2>1. o = Located(TRUE, TRUE, y, m) /\ p = Located(TRUE, TRUE, y, n)
    BY <1>4, OriginByKind DEF t
  <2> QED BY <2>1 DEF Located
<1>5. CASE space.kind \notin ReferenceKinds
  <2>1. o = Shift(ActionPose(m, space, t), x)
        /\ p = Shift(ActionPose(n, space, t), x)
    BY <1>5, OriginByKind DEF t
  <2>2. /\ ActionPose(n, space, t).pose = ActionPose(m, space, t).pose
        /\ ActionPose(m, space, t).valid => ActionPose(n, space, t).valid
    <3>1. space.kind \in ControllerKinds \cup {"gaze", "tracker"}
      BY <1>1, <1>5 DEF Kinds
    <3>2. CASE ~setActive
      BY <3>2, ActionByKind DEF Located
    <3>3. CASE setActive /\ space.kind = "gaze"
      <4>1. CASE ~m_cachedBodyState.eyes
        BY <3>3, <4>1, ActionByKind DEF Located
      <4>2. CASE m_cachedBodyState.eyes
        BY <1>0, <3>3, <4>2, ActionByKind DEF Located, Agrees
      <4> QED BY <4>1, <4>2
    <3>4. CASE setActive /\ space.kind = "tracker"
      <4>1. ActionPose(n, space, t) = getBodyJointPose(n)
            /\ ActionPose(m, space, t) = getBodyJointPose(m)
        BY <3>4, ActionByKind
      <4> QED BY <4>1 DEF getBodyJointPose, Located
    <3>5. CASE setActive /\ space.kind \in ControllerKinds
      <4> DEFINE h == getControllerPose(m, space.side)
                 k == getControllerPose(n, space.side)
      <4>1. ActionPose(m, space, t)
               = Located(h.valid, h.tracked, HandPose(m, space), h.m)
        BY <3>5, ControllerAction
      <4>2. ActionPose(n, space, t)
               = Located(k.valid, k.tracked, HandPose(n, space), k.m)
        BY <3>5, ControllerAction
      <4>3. HandPose(n, space) = HandPose(m, space) /\ (h.valid => k.valid)
        BY <1>0, <1>1 DEF Agrees, HandPose
      <4> HIDE DEF h, k
      <4> QED BY <4>1, <4>2, <4>3 DEF Located
    <3> QED BY <3>1, <3>2, <3>3, <3>4, <3>5
  <2> HIDE DEF o, p
  <2> QED BY <2>1, <2>2 DEF Shift, Located, o, p
<1> QED BY <1>1, <1>2, <1>3, <1>4, <1>5 DEF ReferenceKinds

(* Spaces in a base.                                                         *)
LEMMA LocateFacts ==
    ASSUME TypeOK, NEW m \in Cached, NEW space \in Spaces, NEW base \in Spaces,
           NEW time
    PROVE  LET o == locateSpaceToOrigin(m, space, time)
               p == locateSpaceToOrigin(m, base, time)
               that == locateSpaceToOrigin(o.m, base, time)
               l == locateSpace(m, space, base, time)
           IN /\ SameOrigin(space, base) =>
                    l = Located(TRUE, TRUE, space.poseInSpace - base.poseInSpace, m)
              /\ ~SameOrigin(space, base) =>
                    /\ l.valid <=> o.valid /\ that.valid
                    /\ l.valid => l.pose = o.pose - p.pose
                    /\ l.tracked <=> l.valid /\ o.tracked /\ that.tracked
                    /\ o.valid /\ p.valid => l.valid
                    /\ l.m = that.m
<1> DEFINE o == locateSpaceToOrigin(m, space, time)
           p == locateSpaceToOrigin(m, base, time)
           that == locateSpaceToOrigin(o.m, base, time)
           l == locateSpace(m, space, base, time)
<1>1. SameOrigin(space, base) =>
         l = Located(TRUE, TRUE, space.poseInSpace - base.poseInSpace, m)
  BY DEF locateSpace
<1>2. ASSUME ~SameOrigin(space, base)
      PROVE  /\ that.pose = p.pose /\ (p.valid => that.valid)
             /\ that.valid \in BOOLEAN /\ o.valid \in BOOLEAN
             /\ that.tracked \in BOOLEAN /\ o.tracked \in BOOLEAN
  <2>1. LocatedOK(o, m, Clamp(time)) /\ o.m \in Cached
        /\ (space.kind # "local" => o.m.KnownFloorHeight = m.KnownFloorHeight)
    BY OriginFacts DEF LocatedOK, Caches
  <2>2. Agrees(o.m, m, Clamp(time)) BY <2>1, CachesAgree DEF LocatedOK
  <2>3. base.kind = "local" => space.kind # "local"
    BY <1>2 DEF SameOrigin, ReferenceKinds
  <2> HIDE DEF o
  <2>4. that.pose = p.pose /\ (p.valid => that.valid)
    BY <2>1, <2>2, <2>3, OriginStable
  <2>5. LocatedOK(that, o.m, Clamp(time)) BY <2>1, OriginFacts
  <2> QED BY <2>1, <2>4, <2>5 DEF LocatedOK
<1>3. ASSUME ~SameOrigin(space, base)
      PROVE  l = IF o.valid /\ that.valid
                 THEN Located(TRUE, o.tracked /\ that.tracked,
                              o.pose - that.pose, that.m)
                 ELSE Located(FALSE, FALSE, 0, that.m)
  BY <1>3 DEF locateSpace
<1> HIDE DEF o, p, that, l
<1>4. ASSUME ~SameOrigin(space, base)
      PROVE  /\ l.valid <=> o.valid /\ that.valid
             /\ l.valid => l.pose = o.pose - p.pose
             /\ l.tracked <=> l.valid /\ o.tracked /\ that.tracked
             /\ o.valid /\ p.valid => l.valid
             /\ l.m = that.m
  BY <1>2, <1>3, <1>4 DEF Located
<1> QED BY <1>1, <1>4 DEF o, p, that, l

-----------------------------------------------------------------------------
(* What is cached stays sound, whatever is located.                          *)
Sound(m) == m \in Cached /\ FloorSeen(m)

LEMMA CachesSound ==
    ASSUME TypeOK, FloorInv, NEW m, Sound(m), NEW n, NEW time, Caches(n, m, time)
    PROVE  Sound(n)
<1>1. /\ m \in Cached /\ n \in Cached /\ None \notin Int
      /\ m.ValidHmdPose \in Optional(Nat)
  BY SetupFacts DEF Sound, Caches, Cached
<1>2. getHmdPose(m, time).pose \in {0} \cup learnt
  <2>1. ValueOr0(m.ValidHmdPose) \in {0} \cup learnt
    BY DEF Sound, FloorSeen, ValueOr0
  <2>2. head # None => head \in learnt BY DEF FloorInv
  <2> QED BY <1>1, <2>1, <2>2, HmdFacts
<1>3. eyeHeight # 0 => eyeHeight \in learnt BY DEF FloorInv
<1> QED BY <1>1, <1>2, <1>3 DEF Sound, FloorSeen, Caches

LEMMA StageIsSpace == Stage \in Spaces
BY DEF Stage, Spaces, Kinds, ReferenceKinds, Sides

LEMMA LocateSound ==
    ASSUME TypeOK, FloorInv, NEW m, Sound(m), NEW space \in Spaces,
           NEW base \in Spaces, NEW side \in Sides, NEW time
    PROVE  /\ Sound(locateSpaceToOrigin(m, base, time).m)
           /\ Sound(locateSpace(m, space, base, time).m)
           /\ Sound(xrLocateHandJoints(m, side, base, time).m)
           /\ Sound(GetEyeGazes(m, base, time).m)
           /\ Sound(LocateBodyJoints(m, base, time).m)
<1>1. ASSUME NEW n, Sound(n), NEW s \in Spaces
      PROVE  Sound(locateSpaceToOrigin(n, s, time).m)
  <2>1. n \in Cached BY <1>1 DEF Sound
  <2>2. Caches(locateSpaceToOrigin(n, s, time).m, n, Clamp(time))
    BY <2>1, OriginFacts DEF LocatedOK
  <2> QED BY <1>1, <2>2, CachesSound
<1>2. ASSUME NEW n, Sound(n)
      PROVE  /\ Sound(getHmdPose(n, time).m)
             /\ Sound(getControllerPose(n, side).m)
  <2>1. n \in Cached BY <1>2 DEF Sound
  <2>2. /\ Caches(getHmdPose(n, time).m, n, time)
        /\ Caches(getControllerPose(n, side).m, n, time)
    BY <2>1, HmdLocated, ControllerLocated DEF LocatedOK
  <2> QED BY <1>2, <2>2, CachesSound
<1>3. Sound(locateSpace(m, space, base, time).m)
  <2>1. m \in Cached BY DEF Sound
  <2>2. CASE SameOrigin(space, base)
    <3>1. locateSpace(m, space, base, time).m = m
      BY <2>2 DEF locateSpace, Located
    <3> QED BY <3>1
  <2>3. CASE ~SameOrigin(space, base)
    <3>1. locateSpace(m, space, base, time).m
          = locateSpaceToOrigin(locateSpaceToOrigin(m, space, time).m,
                                base, time).m
      BY <2>1, <2>3, LocateFacts
    <3>2. Sound(locateSpaceToOrigin(m, space, time).m) BY <1>1
    <3> QED BY <1>1, <3>1, <3>2
  <2> QED BY <2>2, <2>3
<1> DEFINE that == locateSpaceToOrigin(m, base, time)
<1>4. Sound(that.m) BY <1>1
<1>5. Sound(xrLocateHandJoints(m, side, base, time).m)
  <2>1. xrLocateHandJoints(m, side, base, time).m
           \in {that.m, getControllerPose(that.m, side).m}
    BY DEF xrLocateHandJoints, Located
  <2>2. Sound(getControllerPose(that.m, side).m) BY <1>2, <1>4
  <2> QED BY <1>4, <2>1, <2>2
<1>6. Sound(GetEyeGazes(m, base, time).m)
  <2>1. Sound(getHmdPose(m, time).m) BY <1>2
  <2>2. Sound(locateSpaceToOrigin(getHmdPose(m, time).m, base, time).m)
    BY <1>1, <2>1
  <2>3. GetEyeGazes(m, base, time).m
           \in {m, getHmdPose(m, time).m,
                locateSpaceToOrigin(getHmdPose(m, time).m, base, time).m}
    BY DEF GetEyeGazes, Located
  <2> QED BY <2>1, <2>2, <2>3
<1>7. Sound(LocateBodyJoints(m, base, time).m)
  <2>1. LocateBodyJoints(m, base, time).m = that.m
    BY DEF LocateBodyJoints, Located
  <2> QED BY <1>4, <2>1
<1> QED BY <1>3, <1>4, <1>5, <1>6, <1>7

-----------------------------------------------------------------------------
(* Every step keeps the invariant.                                           *)

LEMMA InitHolds ==
    ASSUME Init
    PROVE  IInv
<1> USE DEF Init
<1>1. /\ MaxTime \in Nat \ {0} /\ Ipd \in Nat \ {0} /\ None \notin Int
  BY TrackingAssumption
<1>2. m_last \in Cached BY DEF Cached, Optional
<1>3. m_cachedBodyState \in [active : SUBSET Sides, aimValid : SUBSET Sides,
                             eyes : BOOLEAN, joint : BOOLEAN]
  BY DEF NoBody
<1>4. TypeOK
  <2>1. /\ setup \in Setups /\ head \in Optional(Heights) /\ viewed \in Optional(Nat)
        /\ m_lastSeenIpd \in Optional(Nat)
    BY DEF Optional
  <2>2. controller \in [Sides -> {"tracked", "noPosition", "lost"}] OBVIOUS
  <2>3. rendered \in Nat /\ submitted \in Nat /\ 0 \in 0 .. MaxTime BY <1>1
  <2>4. /\ learnt \subseteq Heights \cup setup.eyeHeights
        /\ eyeHeight \in setup.eyeHeights /\ setActive \in BOOLEAN
    OBVIOUS
  <2>5. m_overrideWorldScale \in setup.scales \cup {1} OBVIOUS
  <2>6. /\ m_lastPredictedDisplayTime \in 0 .. MaxTime
        /\ m_lastRequestedViewDisplayTime \in 0 .. MaxTime
    BY <2>3
  <2> QED BY <1>2, <1>3, <2>1, <2>2, <2>3, <2>4, <2>5, <2>6 DEF TypeOK, Cached
<1>5. FloorInv BY DEF FloorInv, FloorSeen
<1>6. EyesInv BY DEF EyesInv
<1> QED BY <1>4, <1>5, <1>6 DEF IInv

(* A call that locates, and caches soundly.                                  *)
LEMMA LocatesStep ==
    ASSUME IInv, NEW located, Locates(located), Sound(located.m)
    PROVE  IInv'
<1>1. /\ m_last' = located.m /\ m_last' \in Cached
      /\ UNCHANGED <<setup, head, controller, m_cachedBodyState, eyeHeight, setActive,
                     m_lastPredictedDisplayTime, m_lastRequestedViewDisplayTime,
                     m_overrideWorldScale, m_lastSeenIpd, rendered, submitted,
                     viewed, learnt>>
  BY DEF Locates, devices, times, eyes, Sound
<1>2. TypeOK' BY <1>1 DEF IInv, TypeOK, Cached
<1>3. FloorInv' BY <1>1 DEF IInv, FloorInv, Sound, FloorSeen
<1>4. EyesInv' BY <1>1 DEF IInv, EyesInv
<1> QED BY <1>2, <1>3, <1>4 DEF IInv

LEMMA ViewsStep ==
    ASSUME IInv, NEW base \in setup.spaces, NEW time \in Times,
           xrLocateViews(base, time)
    PROVE  IInv'
<1> DEFINE view == locateSpace(m_last, ViewSpace, base, time)
<1>0. /\ TypeOK /\ FloorInv /\ EyesInv BY DEF IInv
<1>1. /\ Sound(view.m)
  <2>1. ViewSpace \in Spaces /\ base \in Spaces
    BY <1>0, SetupFacts DEF ViewSpace, Spaces, Kinds, ReferenceKinds, Sides
  <2>2. Sound(m_last) BY <1>0 DEF Sound, TypeOK, Cached, FloorInv
  <2>3. Left \in Sides BY DEF Sides
  <2> QED BY <1>0, <2>1, <2>2, <2>3, LocateSound
<1> HIDE DEF view
<1>2. /\ m_last' = view.m /\ m_last' \in Cached
      /\ m_lastRequestedViewDisplayTime' = time
      /\ rendered' = IF view.valid THEN Ipd \div m_overrideWorldScale
                     ELSE rendered
      /\ m_lastSeenIpd' = IF view.valid
                          THEN IF m_overrideWorldScale # 1 THEN Ipd ELSE None
                          ELSE m_lastSeenIpd
      /\ viewed' = None \/ viewed' = view.m.ValidHmdPose
      /\ UNCHANGED <<setup, head, controller, m_cachedBodyState, eyeHeight, setActive,
                     m_lastPredictedDisplayTime, m_overrideWorldScale,
                     submitted, learnt>>
  BY <1>1 DEF xrLocateViews, SeenIpd, devices, Sound, view
<1>3. /\ Ipd \in Nat \ {0} /\ None \notin Int /\ MaxTime \in Nat
      /\ m_overrideWorldScale \in Nat \ {0}
  BY <1>0, SetupFacts DEF TypeOK
<1>4. Ipd \div m_overrideWorldScale \in Nat BY <1>3
<1>5. Ipd \div 1 = Ipd BY <1>3
<1>6. TypeOK'
  <2>1. rendered' \in Nat /\ m_lastSeenIpd' \in Optional(Nat)'
    BY <1>0, <1>2, <1>3, <1>4 DEF TypeOK, Optional
  <2>2. viewed' \in Optional(Nat)' BY <1>1, <1>2 DEF Sound, Cached, Optional
  <2>3. m_lastRequestedViewDisplayTime' \in 0 .. MaxTime
    BY <1>2, <1>3 DEF Times
  <2> QED BY <1>0, <1>2, <2>1, <2>2, <2>3 DEF TypeOK, Cached, Optional
<1>7. FloorInv' BY <1>0, <1>1, <1>2 DEF FloorInv, Sound, FloorSeen
<1>8. EyesInv'
  <2>1. CASE ~view.valid BY <1>0, <1>2, <2>1 DEF EyesInv
  <2>2. CASE view.valid /\ m_overrideWorldScale = 1
    <3>1. rendered' = Ipd /\ m_lastSeenIpd' = None BY <1>2, <1>5, <2>2
    <3> QED BY <1>0, <1>2, <3>1 DEF EyesInv
  <2>3. CASE view.valid /\ m_overrideWorldScale # 1
    <3>1. m_lastSeenIpd' = Ipd /\ Ipd # None BY <1>2, <1>3, <2>3
    <3> QED BY <1>0, <1>2, <3>1 DEF EyesInv
  <2> QED BY <2>1, <2>2, <2>3
<1> QED BY <1>6, <1>7, <1>8 DEF IInv

LEMMA StepHolds ==
    ASSUME IInv, [Next]_vars
    PROVE  IInv'
<1>0. /\ TypeOK /\ FloorInv /\ EyesInv BY DEF IInv
<1>1. /\ setup.spaces \subseteq Spaces /\ None \notin Int
      /\ Heights \subseteq Nat \ {0} /\ MaxTime \in Nat
      /\ Sound(m_last) /\ m_last \in Cached /\ Ipd \in Nat
  BY <1>0, SetupFacts DEF Sound, TypeOK, Cached, FloorInv
<1>2. ASSUME NEW time \in Times, xrWaitFrame(time) PROVE IInv'
  <2>1. /\ m_lastPredictedDisplayTime' \in 0 .. MaxTime
        /\ UNCHANGED <<setup, head, controller, m_cachedBodyState, eyeHeight, m_last,
                       setActive, m_lastRequestedViewDisplayTime,
                       m_overrideWorldScale, m_lastSeenIpd, rendered, submitted,
                       viewed, learnt>>
    <3>1. m_lastPredictedDisplayTime \in 0 .. MaxTime BY <1>0 DEF TypeOK
    <3> QED BY <1>1, <1>2, <3>1 DEF xrWaitFrame, devices, eyes, Times
  <2> QED BY <1>0, <2>1 DEF IInv, TypeOK, FloorInv, FloorSeen, EyesInv
<1>3. ASSUME NEW time \in Times, NEW space \in setup.spaces,
             NEW base \in setup.spaces, xrLocateSpace(space, base, time)
      PROVE  IInv'
  <2>1. space \in Spaces /\ base \in Spaces /\ Left \in Sides
    BY <1>1 DEF Sides
  <2>2. Sound(locateSpace(m_last, space, base, time).m)
    BY <1>0, <1>1, <2>1, LocateSound
  <2> QED BY <1>3, <2>2, LocatesStep DEF xrLocateSpace
<1>4. ASSUME NEW time \in Times, NEW base \in setup.spaces, NEW side \in Sides,
             \/ xrLocateHandJointsEXT(side, base, time)
             \/ xrGetEyeGazesFB(base, time) \/ xrLocateBodyJointsFB(base, time)
      PROVE  IInv'
  <2>1. base \in Spaces BY <1>1
  <2>2. /\ Sound(xrLocateHandJoints(m_last, side, base, time).m)
        /\ Sound(GetEyeGazes(m_last, base, time).m)
        /\ Sound(LocateBodyJoints(m_last, base, time).m)
    BY <1>0, <1>1, <2>1, LocateSound
  <2> QED BY <1>4, <2>2, LocatesStep
        DEF xrLocateHandJointsEXT, xrGetEyeGazesFB, xrLocateBodyJointsFB
<1>5. ASSUME NEW time \in Times, NEW base \in setup.spaces,
             xrLocateViews(base, time)
      PROVE  IInv'
  BY <1>5, ViewsStep
<1>6. CASE xrEndFrame
  <2>1. /\ submitted' = IF m_lastSeenIpd = None THEN rendered ELSE m_lastSeenIpd
        /\ UNCHANGED <<setup, head, controller, m_cachedBodyState, eyeHeight, m_last,
                       setActive, m_lastPredictedDisplayTime,
                       m_lastRequestedViewDisplayTime, m_overrideWorldScale,
                       m_lastSeenIpd, rendered, viewed, learnt>>
    BY <1>6 DEF xrEndFrame, devices, times
  <2>2. submitted' = Ipd BY <1>0, <2>1 DEF EyesInv
  <2> QED BY <1>0, <1>1, <2>1, <2>2
        DEF IInv, TypeOK, FloorInv, FloorSeen, EyesInv
<1>7. CASE xrSyncActions
  <2>1. PICK gone \in SUBSET {side \in Sides : controller[side] = "lost"} :
           m_last' = [m_last EXCEPT !.ValidControllerPose =
                        [side \in Sides |->
                           IF side \in gone THEN None
                           ELSE m_last.ValidControllerPose[side]]]
    BY <1>7 DEF xrSyncActions
  <2>2. /\ m_last' \in Cached /\ m_last'.ValidHmdPose = m_last.ValidHmdPose
        /\ m_last'.KnownFloorHeight = m_last.KnownFloorHeight
    BY <1>1, <2>1 DEF Cached, Optional
  <2>3. /\ setActive' \in BOOLEAN
        /\ UNCHANGED <<setup, head, controller, m_cachedBodyState, eyeHeight,
                       m_lastPredictedDisplayTime,
                       m_lastRequestedViewDisplayTime, m_overrideWorldScale,
                       m_lastSeenIpd, rendered, submitted, viewed, learnt>>
    BY <1>7 DEF xrSyncActions, devices, times, eyes
  <2>4. TypeOK' BY <1>0, <2>2, <2>3 DEF TypeOK, Cached
  <2> QED BY <1>0, <2>2, <2>3, <2>4 DEF IInv, FloorInv, FloorSeen, EyesInv
<1>8. ASSUME NEW scale \in setup.scales, refreshSettings(scale)
      PROVE  IInv'
  <2>1. /\ m_overrideWorldScale' = scale
        /\ UNCHANGED <<setup, head, controller, m_cachedBodyState, eyeHeight, m_last,
                       setActive, m_lastPredictedDisplayTime,
                       m_lastRequestedViewDisplayTime,
                       m_lastSeenIpd, rendered, submitted, viewed, learnt>>
    BY <1>8 DEF refreshSettings, devices, times
  <2> QED BY <1>0, <2>1 DEF IInv, TypeOK, FloorInv, FloorSeen, EyesInv
<1>9. ASSUME NEW to \in Heights \cup {None}, HeadMoves(to)
      PROVE  IInv'
  <2>1. /\ head' = to
        /\ learnt' = learnt \cup ({to} \ {None})
        /\ UNCHANGED <<setup, controller, m_cachedBodyState, eyeHeight, m_last, setActive,
                       m_lastPredictedDisplayTime,
                       m_lastRequestedViewDisplayTime, m_overrideWorldScale,
                       m_lastSeenIpd, rendered, submitted, viewed>>
    BY <1>9 DEF HeadMoves, times, eyes
  <2>2. learnt \subseteq learnt' /\ learnt' \subseteq Heights \cup setup.eyeHeights
    BY <1>0, <2>1 DEF TypeOK
  <2>3. TypeOK' BY <1>0, <2>1, <2>2 DEF TypeOK, Optional
  <2>4. FloorInv'
    <3>1. FloorSeen(m_last)' BY <1>0, <2>1, <2>2 DEF FloorInv, FloorSeen
    <3>2. head' \in {None} \cup learnt' BY <2>1
    <3>3. eyeHeight' # 0 => eyeHeight' \in learnt'
      BY <1>0, <2>1, <2>2 DEF FloorInv
    <3> QED BY <3>1, <3>2, <3>3 DEF FloorInv
  <2> QED BY <1>0, <2>1, <2>3, <2>4 DEF IInv, EyesInv
<1>10. ASSUME NEW side \in Sides, NEW to \in {"tracked", "noPosition", "lost"},
              ControllerChanges(side, to)
       PROVE  IInv'
  <2>1. /\ controller' = [controller EXCEPT ![side] = to]
        /\ UNCHANGED <<setup, head, m_cachedBodyState, eyeHeight, m_last, setActive,
                       m_lastPredictedDisplayTime,
                       m_lastRequestedViewDisplayTime, m_overrideWorldScale,
                       m_lastSeenIpd, rendered, submitted, viewed, learnt>>
    BY <1>10 DEF ControllerChanges, times, eyes
  <2> QED BY <1>0, <2>1 DEF IInv, TypeOK, FloorInv, FloorSeen, EyesInv
<1>11. CASE WatcherCopies
  <2>1. /\ m_cachedBodyState' \in BodyStates
        /\ UNCHANGED <<setup, head, controller, eyeHeight, m_last, setActive,
                       m_lastPredictedDisplayTime,
                       m_lastRequestedViewDisplayTime, m_overrideWorldScale,
                       m_lastSeenIpd, rendered, submitted, viewed, learnt>>
    BY <1>11 DEF WatcherCopies, times, eyes
  <2>2. m_cachedBodyState' \in [active : SUBSET Sides, aimValid : SUBSET Sides,
                                eyes : BOOLEAN, joint : BOOLEAN]
    BY <2>1 DEF BodyStates
  <2> QED BY <1>0, <2>1, <2>2 DEF IInv, TypeOK, FloorInv, FloorSeen, EyesInv
<1>15. ASSUME NEW to \in setup.eyeHeights, EyeHeightChanges(to)
       PROVE  IInv'
  <2>1. /\ eyeHeight' = to
        /\ learnt' = learnt \cup ({to} \ {0})
        /\ UNCHANGED <<setup, head, controller, m_cachedBodyState, m_last,
                       setActive, m_lastPredictedDisplayTime,
                       m_lastRequestedViewDisplayTime, m_overrideWorldScale,
                       m_lastSeenIpd, rendered, submitted, viewed>>
    BY <1>15 DEF EyeHeightChanges, times, eyes
  <2>2. learnt \subseteq learnt' /\ learnt' \subseteq Heights \cup setup.eyeHeights
    BY <1>0, <2>1 DEF TypeOK
  <2>3. TypeOK' BY <1>0, <2>1, <2>2 DEF TypeOK
  <2>4. FloorInv'
    <3>1. FloorSeen(m_last)' BY <1>0, <2>1, <2>2 DEF FloorInv, FloorSeen
    <3>2. head' \in {None} \cup learnt' BY <1>0, <2>1, <2>2 DEF FloorInv
    <3>3. eyeHeight' # 0 => eyeHeight' \in learnt' BY <2>1
    <3> QED BY <3>1, <3>2, <3>3 DEF FloorInv
  <2> QED BY <1>0, <2>1, <2>3, <2>4 DEF IInv, EyesInv
<1>16. CASE UNCHANGED vars
  BY <1>0, <1>16 DEF vars, devices, times, eyes, IInv, TypeOK, FloorInv,
     FloorSeen, EyesInv
<1>13. Left \in Sides BY DEF Sides
<1>14. ASSUME NEW time \in Times, NEW base \in setup.spaces,
              xrGetEyeGazesFB(base, time) \/ xrLocateBodyJointsFB(base, time)
       PROVE  IInv'
  BY <1>4, <1>13, <1>14
<1> QED BY <1>2, <1>3, <1>4, <1>5, <1>6, <1>7, <1>8, <1>9, <1>10, <1>11, <1>16,
           <1>14, <1>15
      DEF Next

LEMMA InductiveHolds == Spec => []IInv
BY InitHolds, StepHolds, PTL DEF Spec

-----------------------------------------------------------------------------
(* What locations mean.                                                      *)

(* A tracked origin is where the devices are now, whatever was cached on the *)
(* way, as long as that is not another height of the floor.                  *)
LEMMA OriginIsNow ==
    ASSUME TypeOK, NEW m \in Cached, NEW time, Agrees(m, m_last, Clamp(time)),
           NEW space \in Spaces, ~(time <= 1),
           space.kind = "local" =>
              m.KnownFloorHeight = m_last.KnownFloorHeight,
           ~setup.samePoseForTime,
           space.kind = "gaze" => head # None,
           locateSpaceToOrigin(m, space, time).tracked
    PROVE  /\ Tracked(space)
           /\ locateSpaceToOrigin(m, space, time).pose = Place(space)
<1> DEFINE t == Clamp(time)
           x == space.poseInSpace
           o == locateSpaceToOrigin(m, space, time)
<1>0. Agrees(m, m_last, t) /\ m_last \in Cached
  BY DEF TypeOK, Cached
<1> HIDE DEF t
<1>1. /\ x \in Int /\ eyeHeight \in Nat /\ space.kind \in Kinds
      /\ space.side \in Sides /\ None \notin Int
  BY SetupFacts DEF Spaces
<1>2. getHmdPose(m, t).pose =
         IF head # None THEN head ELSE ValueOr0(m_last.ValidHmdPose)
  <2>1. getHmdPose(m_last, t).pose =
           IF head # None THEN head ELSE ValueOr0(m_last.ValidHmdPose)
    BY <1>0, HmdFacts
  <2> QED BY <1>0, <2>1 DEF Agrees
<1>3. CASE space.kind = "view"
  <2>1. o = Shift(getHmdPose(m, t), x) BY <1>3, OriginByKind DEF t
  <2>2. o.pose = x + getHmdPose(m, t).pose /\ getHmdPose(m, t).tracked
    BY <2>1 DEF Shift, Located
  <2>3. head # None BY <2>2, HmdFacts
  <2>4. Tracked(space) BY <1>3, <2>3 DEF Tracked, ControllerKinds
  <2>5. Place(space) = x + head BY <1>3 DEF Place
  <2> QED BY <1>2, <2>2, <2>3, <2>4, <2>5
<1>4. CASE space.kind = "local"
  <2>1. Tracked(space) BY <1>4 DEF Tracked, ControllerKinds
  <2>2. Place(space) = x + IF setup.floorLevel THEN LocalHeight ELSE 0
    BY <1>4 DEF Place
  <2>3. CASE setup.floorLevel
    <3>1. o = Shift(LocalPose(m, t), x) BY <1>4, <2>3, OriginByKind DEF t
    <3>2. o.pose = x + LocalPose(m, t).pose BY <3>1 DEF Shift, Located
    <3>3. LocalPose(m, t).pose =
             IF eyeHeight # 0 THEN eyeHeight
             ELSE IF m.KnownFloorHeight # None THEN m.KnownFloorHeight
             ELSE getHmdPose(m, t).pose
      BY LocalFacts
    <3>4. LocalPose(m, t).pose = LocalHeight
      <4>1. CASE eyeHeight # 0 BY <3>3, <4>1 DEF LocalHeight
      <4>2. CASE eyeHeight = 0 /\ m_last.KnownFloorHeight # None
        BY <1>4, <3>3, <4>2 DEF LocalHeight
      <4>3. CASE eyeHeight = 0 /\ m_last.KnownFloorHeight = None
        <5>1. LocalHeight =
                 ValueOr0(IF head # None THEN head ELSE m_last.ValidHmdPose)
          BY <4>3 DEF LocalHeight
        <5>2. head # None => ValueOr0(head) = head BY DEF ValueOr0
        <5> QED BY <1>2, <1>4, <3>3, <4>3, <5>1, <5>2
      <4> QED BY <4>1, <4>2, <4>3
    <3> QED BY <2>1, <2>2, <2>3, <3>2, <3>4
  <2>4. CASE ~setup.floorLevel
    <3>1. o = Located(TRUE, TRUE, x + 0, m) BY <1>4, <2>4, OriginByKind DEF t
    <3>2. o.pose = x + 0 BY <3>1 DEF Located
    <3> QED BY <2>1, <2>2, <2>4, <3>2
  <2> QED BY <2>3, <2>4
<1>5. CASE space.kind \in {"stage", "localFloor"}
  <2>1. Tracked(space) BY <1>5 DEF Tracked, ControllerKinds
  <2>2. Place(space) = x + IF setup.floorLevel THEN 0 ELSE -eyeHeight
    BY <1>5 DEF Place
  <2>3. o.pose = x + (IF setup.floorLevel \/ time <= 1 THEN 0
                      ELSE -eyeHeight)
    BY <1>5, OriginByKind DEF t, Located
  <2> QED BY <2>1, <2>2, <2>3
<1>6. CASE space.kind \notin ReferenceKinds
  <2> DEFINE action == ActionPose(m, space, t)
             h == getControllerPose(m, space.side)
  <2>1. o = Shift(action, x) BY <1>6, OriginByKind DEF t
  <2>2. o.pose = x + action.pose /\ action.tracked
    <3> HIDE DEF action
    <3> QED BY <2>1 DEF Shift, Located
  <2>3. setActive
    <3>1. ~setActive => action = Located(FALSE, FALSE, 0, m) BY ActionByKind
    <3> QED BY <2>2, <3>1 DEF Located
  <2>4. CASE space.kind = "gaze"
    <3>1. action.pose = getHmdPose(m, t).pose
      <4>1. CASE m_cachedBodyState.eyes
        BY <2>3, <2>4, <4>1, ActionByKind DEF Located
      <4>2. CASE ~m_cachedBodyState.eyes
        <5>1. action = Located(FALSE, FALSE, 0, m)
          BY <2>3, <2>4, <4>2, ActionByKind
        <5> QED BY <2>2, <5>1 DEF Located
      <4> QED BY <4>1, <4>2
    <3>2. Tracked(space) BY <2>4 DEF Tracked, ControllerKinds
    <3>3. Place(space) = x + head BY <2>4 DEF Place
    <3> QED BY <1>2, <2>2, <2>4, <3>1, <3>2, <3>3
  <2>5. CASE space.kind = "tracker"
    <3>1. action = getBodyJointPose(m) BY <2>3, <2>5, ActionByKind
    <3>2. m_cachedBodyState.joint /\ action.pose = JointAt + eyeHeight
      BY <2>2, <3>1 DEF getBodyJointPose, Located, JointsToVirtual
    <3>3. Tracked(space) BY <2>5, <3>2 DEF Tracked, ControllerKinds
    <3>4. Place(space) = x + (JointAt + eyeHeight) BY <2>5 DEF Place
    <3> QED BY <2>2, <3>2, <3>3, <3>4
  <2>6. CASE space.kind \in ControllerKinds
    <3>1. action = Located(h.valid, h.tracked, HandPose(m, space), h.m)
      BY <2>3, <2>6, ControllerAction
    <3>2. action.tracked = h.tracked /\ action.pose = HandPose(m, space)
      BY <3>1 DEF Located
    <3>3. controller[space.side] = "tracked"
          /\ h.pose = ControllerAt(space.side)
      BY <1>1, <2>2, <3>2, ControllerFacts
    <3>4. Tracked(space) BY <2>6, <3>3 DEF Tracked, ControllerKinds
    <3>5. Place(space) = x + HandPose(m, space)
      <4>1. space.kind \in {"grip", "aim", "palm"} BY <2>6 DEF ControllerKinds
      <4>2. CASE space.kind = "aim" /\ CanPinch(space.side)
        BY <4>2 DEF Place, HandPose
      <4>3. CASE ~(space.kind = "aim" /\ CanPinch(space.side))
        BY <3>3, <4>1, <4>3 DEF Place, HandPose
      <4> QED BY <4>2, <4>3
    <3> QED BY <2>2, <3>2, <3>4, <3>5
  <2> QED BY <1>1, <1>6, <2>4, <2>5, <2>6 DEF Kinds
<1> QED BY <1>3, <1>4, <1>5, <1>6 DEF ReferenceKinds

LEMMA AgreesSelf ==
    ASSUME NEW m \in Cached, NEW time
    PROVE  Agrees(m, m, time)
BY DEF Agrees

(* What is cached on the way to a space.                                     *)
LEMMA OriginAgrees ==
    ASSUME TypeOK, NEW m \in Cached, NEW space \in Spaces, NEW time
    PROVE  LET n == locateSpaceToOrigin(m, space, time).m
           IN /\ n \in Cached /\ Agrees(n, m, Clamp(time))
              /\ space.kind # "local" => n.KnownFloorHeight = m.KnownFloorHeight
<1>1. Caches(locateSpaceToOrigin(m, space, time).m, m, Clamp(time))
  BY OriginFacts DEF LocatedOK
<1> QED BY <1>1, CachesAgree, OriginFacts DEF Caches

LEMMA TrackedImplies ==
    ASSUME TypeOK
    PROVE  TrackedIsNow
<1> SUFFICES ASSUME NEW space \in setup.spaces, NEW base \in setup.spaces,
                    NEW time \in 2 .. MaxTime,
                    locateSpace(m_last, space, base, time).tracked,
                    ~SameOrigin(space, base), ~setup.samePoseForTime,
                    "gaze" \in {space.kind, base.kind} => head # None
             PROVE  /\ Tracked(space) /\ Tracked(base)
                    /\ locateSpace(m_last, space, base, time).pose
                          = Place(space) - Place(base)
  BY DEF TrackedIsNow
<1> DEFINE o == locateSpaceToOrigin(m_last, space, time)
           p == locateSpaceToOrigin(m_last, base, time)
           that == locateSpaceToOrigin(o.m, base, time)
           l == locateSpace(m_last, space, base, time)
<1>1. space \in Spaces /\ base \in Spaces /\ m_last \in Cached /\ ~(time <= 1)
  BY SetupFacts DEF TypeOK, Cached
<1>2. /\ l.valid /\ o.tracked /\ that.tracked /\ l.pose = o.pose - p.pose
  BY <1>1, LocateFacts
<1>3. /\ o.m \in Cached /\ Agrees(o.m, m_last, Clamp(time))
      /\ space.kind # "local" =>
            o.m.KnownFloorHeight = m_last.KnownFloorHeight
  BY <1>1, OriginAgrees
<1>4. Agrees(m_last, m_last, Clamp(time)) BY <1>1, AgreesSelf
<1>5. Tracked(space) /\ o.pose = Place(space) BY <1>1, <1>2, <1>4, OriginIsNow
<1>6. base.kind = "local" => space.kind # "local"
  BY DEF SameOrigin, ReferenceKinds
<1> HIDE DEF o
<1>7. Tracked(base) /\ that.pose = Place(base)
  BY <1>1, <1>2, <1>3, <1>6, OriginIsNow
<1>8. that.pose = p.pose BY <1>1, <1>3, <1>6, OriginStable
<1> QED BY <1>2, <1>5, <1>7, <1>8

(* Spaces of one origin are there together.                                  *)
LEMMA SameOriginFacts ==
    ASSUME TypeOK, NEW m \in Cached, NEW space \in Spaces, NEW base \in Spaces,
           NEW time, SameOrigin(space, base)
    PROVE  LET o == locateSpaceToOrigin(m, space, time)
               p == locateSpaceToOrigin(m, base, time)
           IN o.pose - p.pose = space.poseInSpace - base.poseInSpace
<1> DEFINE t == Clamp(time)
           o == locateSpaceToOrigin(m, space, time)
           p == locateSpaceToOrigin(m, base, time)
<1> SUFFICES \E q \in Int : o.pose = space.poseInSpace + q
                           /\ p.pose = base.poseInSpace + q
  BY DEF Spaces
<1> HIDE DEF t
<1>1. /\ eyeHeight \in Nat /\ space.kind \in Kinds /\ space.side \in Sides
      /\ base.kind = space.kind
      /\ space.kind \notin ReferenceKinds => base.side = space.side
  BY SetupFacts DEF Spaces, SameOrigin
<1>2. CASE space.kind = "view"
  <2>1. o = Shift(getHmdPose(m, t), space.poseInSpace)
        /\ p = Shift(getHmdPose(m, t), base.poseInSpace)
    BY <1>1, <1>2, OriginByKind DEF t
  <2>2. getHmdPose(m, t).pose \in Int BY HmdFacts
  <2> QED BY <2>1, <2>2 DEF Shift, Located
<1>3. CASE space.kind = "local"
  <2>1. CASE setup.floorLevel /\ ~(time <= 1)
    <3>1. o = Shift(LocalPose(m, t), space.poseInSpace)
          /\ p = Shift(LocalPose(m, t), base.poseInSpace)
      BY <1>1, <1>3, <2>1, OriginByKind DEF t
    <3>2. LocalPose(m, t).pose \in Int BY LocalFacts DEF LocatedOK
    <3> QED BY <3>1, <3>2 DEF Shift, Located
  <2>2. CASE ~(setup.floorLevel /\ ~(time <= 1))
    <3>1. o = Located(TRUE, TRUE, space.poseInSpace + 0, m)
          /\ p = Located(TRUE, TRUE, base.poseInSpace + 0, m)
      BY <1>1, <1>3, <2>2, OriginByKind DEF t
    <3> QED BY <3>1 DEF Located
  <2> QED BY <2>1, <2>2
<1>4. CASE space.kind \in {"stage", "localFloor"}
  <2> DEFINE y == IF setup.floorLevel \/ time <= 1 THEN 0 ELSE -eyeHeight
  <2>1. o = Located(TRUE, TRUE, space.poseInSpace + y, m)
        /\ p = Located(TRUE, TRUE, base.poseInSpace + y, m)
    BY <1>1, <1>4, OriginByKind DEF t
  <2>2. y \in Int BY <1>1
  <2> HIDE DEF y
  <2> QED BY <2>1, <2>2 DEF Located
<1>5. CASE space.kind \notin ReferenceKinds
  <2>1. o = Shift(ActionPose(m, space, t), space.poseInSpace)
        /\ p = Shift(ActionPose(m, base, t), base.poseInSpace)
    BY <1>1, <1>5, OriginByKind DEF t
  <2>2. ActionPose(m, base, t) = ActionPose(m, space, t)
    BY <1>1, <1>5 DEF ActionPose
  <2>3. ActionPose(m, space, t).pose \in Int
    BY <1>5, ActionFacts DEF LocatedOK
  <2> HIDE DEF o, p
  <2> QED BY <2>1, <2>2, <2>3 DEF Shift, Located, o, p
<1> QED BY <1>1, <1>2, <1>3, <1>4, <1>5 DEF ReferenceKinds

(* Locating a space in the stage subtracts the origin of the stage.          *)
LEMMA InStage ==
    ASSUME TypeOK, NEW m \in Cached, NEW space \in Spaces, NEW time
    PROVE  LET o == locateSpaceToOrigin(m, space, time)
               stage == locateSpaceToOrigin(m, Stage, time)
               l == locateSpace(m, space, Stage, time)
           IN /\ l.valid <=> o.valid
              /\ l.valid => l.pose = o.pose - stage.pose
              /\ stage.valid /\ stage.pose \in Int
              /\ ~(time <= 1) => stage.pose =
                    IF setup.floorLevel THEN 0 ELSE -eyeHeight
<1> DEFINE o == locateSpaceToOrigin(m, space, time)
           stage == locateSpaceToOrigin(m, Stage, time)
           l == locateSpace(m, space, Stage, time)
<1>1. Stage \in Spaces /\ Stage.kind = "stage" /\ Stage.poseInSpace = 0
  BY StageIsSpace DEF Stage
<1>2. stage.valid /\ stage.pose \in Int
  BY <1>1, OriginFacts DEF LocatedOK
<1>3. ~(time <= 1) => stage.pose =
         IF setup.floorLevel THEN 0 ELSE -eyeHeight
  <2>1. stage = Located(TRUE, TRUE,
                        0 + (IF setup.floorLevel \/ time <= 1 THEN 0
                             ELSE -eyeHeight), m)
    BY <1>1, OriginByKind
  <2>2. stage.pose = 0 + (IF setup.floorLevel \/ time <= 1 THEN 0
                          ELSE -eyeHeight)
    BY <2>1 DEF Located
  <2> HIDE DEF stage
  <2> QED BY <2>2, SetupFacts
<1>4. CASE SameOrigin(space, Stage)
  <2>1. l = Located(TRUE, TRUE, space.poseInSpace - 0, m)
    BY <1>1, <1>4, LocateFacts
  <2>2. l.valid /\ l.pose = space.poseInSpace - 0 BY <2>1 DEF Located
  <2>3. o.pose - stage.pose = space.poseInSpace - 0
    BY <1>1, <1>4, SameOriginFacts
  <2>4. o.valid BY <1>1, <1>4, OriginFacts DEF SameOrigin
  <2> QED BY <1>2, <1>3, <2>2, <2>3, <2>4
<1>5. CASE ~SameOrigin(space, Stage)
  <2>1. /\ l.valid => o.valid
        /\ l.valid => l.pose = o.pose - stage.pose
        /\ o.valid /\ stage.valid => l.valid
    BY <1>1, <1>5, LocateFacts
  <2>2. l.valid <=> o.valid BY <1>2, <2>1
  <2> QED BY <1>2, <1>3, <2>1, <2>2
<1> QED BY <1>4, <1>5

LEMMA ComposeImplies ==
    ASSUME TypeOK
    PROVE  SpacesCompose
<1> SUFFICES ASSUME NEW time \in Times,
                    NEW space \in setup.spaces, NEW base \in setup.spaces,
                    locateSpace(m_last, space, Stage, time).valid,
                    locateSpace(m_last, base, Stage, time).valid
             PROVE  /\ locateSpace(m_last, space, base, time).valid
                    /\ locateSpace(m_last, space, base, time).pose
                          = locateSpace(m_last, space, Stage, time).pose
                            - locateSpace(m_last, base, Stage, time).pose
  BY DEF SpacesCompose
<1> DEFINE o == locateSpaceToOrigin(m_last, space, time)
           p == locateSpaceToOrigin(m_last, base, time)
           stage == locateSpaceToOrigin(m_last, Stage, time)
           l == locateSpace(m_last, space, base, time)
<1>1. space \in Spaces /\ base \in Spaces /\ m_last \in Cached
  BY SetupFacts DEF TypeOK, Cached
<1>2. /\ o.valid /\ locateSpace(m_last, space, Stage, time).pose
                       = o.pose - stage.pose
      /\ p.valid /\ locateSpace(m_last, base, Stage, time).pose
                       = p.pose - stage.pose
      /\ stage.pose \in Int
  BY <1>1, InStage
<1>3. o.pose \in Int /\ p.pose \in Int BY <1>1, OriginFacts DEF LocatedOK
<1>4. l.valid /\ l.pose = o.pose - p.pose
  <2>1. CASE SameOrigin(space, base)
    <3>1. l = Located(TRUE, TRUE, space.poseInSpace - base.poseInSpace, m_last)
      BY <1>1, <2>1, LocateFacts
    <3>2. l.valid /\ l.pose = space.poseInSpace - base.poseInSpace
      BY <3>1 DEF Located
    <3> QED BY <1>1, <2>1, <3>2, SameOriginFacts
  <2>2. CASE ~SameOrigin(space, base)
    BY <1>1, <1>2, <2>2, LocateFacts
  <2> QED BY <2>1, <2>2
<1> HIDE DEF o, p, stage, l
<1> QED BY <1>2, <1>3, <1>4 DEF l

(* The joints of a hand, by where they come from.                            *)
LEMMA JointsFacts ==
    ASSUME NEW m, NEW side, NEW base, NEW time
    PROVE  LET that == locateSpaceToOrigin(m, base, time)
               hand == getControllerPose(that.m, side)
               joints == xrLocateHandJoints(m, side, base, time)
           IN /\ UsesCamera(side) =>
                    /\ joints.valid = that.valid
                    /\ joints.pose =
                          (HandAt(side)
                           + (IF setup.floorLevel THEN eyeHeight ELSE 0))
                          - that.pose
              /\ ~UsesCamera(side) /\ setup.simulated =>
                    /\ joints.valid => that.valid
                    /\ joints.pose = hand.pose - that.pose
              /\ ~UsesCamera(side) /\ ~setup.simulated => ~joints.valid
<1> DEFINE that == locateSpaceToOrigin(m, base, time)
           hand == getControllerPose(that.m, side)
           joints == xrLocateHandJoints(m, side, base, time)
           offset == IF setup.floorLevel THEN eyeHeight ELSE 0
<1>1. joints =
         CASE UsesCamera(side) ->
                 Located(that.valid, that.valid,
                         InBase(HandAt(side) + offset, that), that.m)
           [] ~UsesCamera(side) /\ setup.simulated ->
                 Located(that.valid /\ hand.valid, that.valid /\ hand.valid,
                         InBase(hand.pose, that), hand.m)
           [] OTHER -> Located(FALSE, FALSE, 0, that.m)
  BY DEF xrLocateHandJoints, JointsToVirtual
<1> HIDE DEF that, hand, joints, offset
<1>2. ASSUME UsesCamera(side)
      PROVE  /\ joints.valid = that.valid
             /\ joints.pose = (HandAt(side) + offset) - that.pose
  <2>1. joints = Located(that.valid, that.valid,
                         InBase(HandAt(side) + offset, that), that.m)
    BY <1>1, <1>2
  <2>2. joints.valid = that.valid BY <2>1 DEF Located
  <2>3. joints.pose = InBase(HandAt(side) + offset, that) BY <2>1 DEF Located
  <2>4. joints.pose = (HandAt(side) + offset) - that.pose BY <2>3 DEF InBase
  <2> QED BY <2>2, <2>4
<1>3. ASSUME ~UsesCamera(side), setup.simulated
      PROVE  /\ joints.valid => that.valid
             /\ joints.pose = hand.pose - that.pose
  <2>1. joints = Located(that.valid /\ hand.valid, that.valid /\ hand.valid,
                         InBase(hand.pose, that), hand.m)
    BY <1>1, <1>3
  <2>2. joints.valid => that.valid BY <2>1 DEF Located
  <2>3. joints.pose = InBase(hand.pose, that) BY <2>1 DEF Located
  <2> QED BY <2>2, <2>3 DEF InBase
<1>4. ~UsesCamera(side) /\ ~setup.simulated => ~joints.valid
  BY <1>1 DEF Located
<1> QED BY <1>2, <1>3, <1>4 DEF that, hand, joints, offset

LEMMA HandsImply ==
    ASSUME TypeOK
    PROVE  HandsInPlace
<1> SUFFICES ASSUME NEW side \in setup.hands, NEW time \in 2 .. MaxTime,
                    NEW base \in setup.spaces,
                    xrLocateHandJoints(m_last, side, base, time).valid
             PROVE  LET inStage == xrLocateHandJoints(m_last, side, Stage, time)
                        inBase == xrLocateHandJoints(m_last, side, base, time)
                    IN /\ inStage.pose - inBase.pose
                             = locateSpace(m_last, base, Stage, time).pose
                       /\ UsesCamera(side) =>
                             inStage.pose = HandAt(side) + eyeHeight
  BY DEF HandsInPlace
<1> DEFINE p == locateSpaceToOrigin(m_last, base, time)
           stage == locateSpaceToOrigin(m_last, Stage, time)
           inStage == xrLocateHandJoints(m_last, side, Stage, time)
           inBase == xrLocateHandJoints(m_last, side, base, time)
           offset == IF setup.floorLevel THEN eyeHeight ELSE 0
           l == locateSpace(m_last, base, Stage, time)
<1>1. /\ base \in Spaces /\ Stage \in Spaces /\ side \in Sides
      /\ m_last \in Cached /\ ~(time <= 1) /\ eyeHeight \in Nat
  BY SetupFacts, StageIsSpace DEF TypeOK, Cached
<1>2. p.pose \in Int /\ p.m \in Cached /\ Agrees(p.m, m_last, Clamp(time))
      /\ stage.m \in Cached /\ Agrees(stage.m, m_last, Clamp(time))
  BY <1>1, OriginFacts, OriginAgrees DEF LocatedOK
<1>3. /\ stage.pose = IF setup.floorLevel THEN 0 ELSE -eyeHeight
      /\ stage.pose \in Int /\ stage.valid
      /\ l.valid <=> p.valid
      /\ l.valid => l.pose = p.pose - stage.pose
  BY <1>1, InStage
<1>4. HandAt(side) \in Int BY DEF HandAt
<1> HIDE DEF p, stage, l
<1>5. CASE UsesCamera(side)
  <2>1. /\ inStage.pose = (HandAt(side) + offset) - stage.pose
        /\ inBase.pose = (HandAt(side) + offset) - p.pose
        /\ p.valid
    BY <1>5, JointsFacts DEF p, stage
  <2> QED BY <1>1, <1>2, <1>3, <1>4, <2>1 DEF l
<1>6. CASE ~UsesCamera(side) /\ setup.simulated
  <2> DEFINE h == getControllerPose(stage.m, side)
             k == getControllerPose(p.m, side)
  <2>1. /\ inStage.pose = h.pose - stage.pose
        /\ inBase.pose = k.pose - p.pose
        /\ p.valid
    BY <1>6, JointsFacts DEF p, stage
  <2>2. h.pose = k.pose /\ h.pose \in Nat
    BY <1>1, <1>2, ControllerFacts DEF Agrees
  <2> HIDE DEF h, k
  <2> QED BY <1>2, <1>3, <1>6, <2>1, <2>2 DEF l
<1>7. CASE ~UsesCamera(side) /\ ~setup.simulated BY <1>7, JointsFacts
<1> QED BY <1>5, <1>6, <1>7

-----------------------------------------------------------------------------
(* The theorems.                                                            *)

(* The variables keep their types.                                          *)
THEOREM TypeCorrect == Spec => []TypeOK
<1>1. IInv => TypeOK BY DEF IInv
<1> QED BY <1>1, InductiveHolds, PTL

(* xrLocateSpace: a location with the tracked bits is where the devices are *)
(* now, whatever of it was cached.                                          *)
THEOREM TrackedIsNowHolds == Spec => []TrackedIsNow
<1>1. IInv => TrackedIsNow BY TrackedImplies DEF IInv
<1> QED BY <1>1, InductiveHolds, PTL

(* xrLocateSpace: the locations of spaces in one another agree.             *)
THEOREM SpacesComposeHolds == Spec => []SpacesCompose
<1>1. IInv => SpacesCompose BY ComposeImplies DEF IInv
<1> QED BY <1>1, InductiveHolds, PTL

(* xrLocateHandJointsEXT: hands are in one place, in whatever base.         *)
THEOREM HandsInPlaceHolds == Spec => []HandsInPlace
<1>1. IInv => HandsInPlace BY HandsImply DEF IInv
<1> QED BY <1>1, InductiveHolds, PTL

(* locateSpaceToOrigin: the height of the eyes at rest is one at which the   *)
(* headset was tracked, or an eye height the user had, through any switches. *)
THEOREM FloorNotMadeUpHolds == Spec => []FloorNotMadeUp
<1>1. IInv => FloorNotMadeUp
  BY DEF IInv, FloorInv, FloorSeen, FloorNotMadeUp
<1> QED BY <1>1, InductiveHolds, PTL

(* xrEndFrame restores the distance between the eyes, whatever became of    *)
(* the world scale since the views were located.                            *)
THEOREM RealIpdSubmittedHolds == Spec => []RealIpdSubmitted
<1>1. IInv => RealIpdSubmitted BY DEF IInv, EyesInv, RealIpdSubmitted
<1> QED BY <1>1, InductiveHolds, PTL

=============================================================================
