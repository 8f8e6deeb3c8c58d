----------------------------- MODULE Input_proof -----------------------------
(***************************************************************************)
(* Theorems about Input for any applications, users and controllers,       *)
(* checked by TLAPS.                                                       *)
(***************************************************************************)
EXTENDS Input, TLAPS

-----------------------------------------------------------------------------
(* The invariant.                                                          *)

\* What is bound is bound to a controller.
HandsInv ==
    /\ DOMAIN actionSources = Actions
    /\ \A action \in Actions : \A source \in actionSources[action] :
          source.path[1] \in Hands

\* A motor that is on has a pulse, and is not one of an emulated controller.
VibInv ==
    /\ motor \cap setup.emulated = {}
    /\ \A side \in motor : m_currentVibration[side] # "none"

\* The value that was told last is the one kept, and was told as a change when
\* the generation that is kept was the one it was told in.
ToldOf(state, kept, now) ==
    /\ kept.generation \in Nat
    /\ kept.generation <= now
    /\ state # None =>
         /\ state.value = kept.value
         /\ state.generation \in Nat
         /\ state.changed \in BOOLEAN
         /\ state.changed <=> kept.generation = state.generation
         /\ kept.generation <= state.generation
         /\ state.generation <= now

States == {"boolean", "float", "vector"}

ToldInv ==
    /\ DOMAIN last = Actions /\ DOMAIN told = Actions
    /\ \A action \in Actions :
         /\ DOMAIN last[action] = Hands
         /\ DOMAIN told[action] = setup.queries
         /\ \A query \in setup.queries :
              setup.type[action] \in States =>
              ToldOf(told[action][query], last[action][Slot(query)],
                     generation[setup.set[action]])

\* An application that asks for a state does not do so both for the action as a
\* whole and for its left hand: these share what was told last.
OneAsker(chosen) ==
    {None, Left} \subseteq chosen.queries =>
        \A action \in DOMAIN chosen.type : chosen.type[action] \notin States

-----------------------------------------------------------------------------
(* Setups.                                                                 *)

LEMMA SetupFacts ==
    ASSUME TypeOK
    PROVE  /\ setup.emulated \subseteq Hands
           /\ setup.states \subseteq InputState
           /\ setup.bodies \subseteq Bodies
           /\ setup.queries \subseteq Hands \cup {None}
           /\ setup.connects \subseteq SUBSET Hands
           /\ setup.syncs \subseteq SUBSET Hands
           /\ setup.dominant \in Hands
           /\ setup.polled \subseteq InputState
           /\ setup.maxGeneration \in Nat
           /\ None \notin Hands
<1>1. Setup(setup) BY InputAssumption DEF TypeOK
<1> QED BY <1>1, InputAssumption DEF Setup

LEMMA HandsFacts == Hands = {"left", "right"} /\ Left # Right
BY DEF Hands, Left, Right

-----------------------------------------------------------------------------
(* What an xrSyncActions copies.                                           *)

LEMMA AtRestFacts ==
    /\ AtRest \in InputState
    /\ AtRest.Buttons = {} /\ AtRest.Touches = {}
    /\ \A side \in Hands : /\ AtRest.IndexTrigger[side] = 0
                           /\ AtRest.HandTrigger[side] = 0
                           /\ AtRest.ThumbstickNoDeadzone[side] = <<0, 0>>
<1>1. 0 \in Halves /\ <<0, 0>> \in Halves \X Halves BY DEF Halves
<1> QED BY <1>1 DEF AtRest, InputState

(* What the helper shows is its trigger and its menu button, or nothing.   *)
LEMMA EmulatedFacts ==
    ASSUME TypeOK, NEW side \in Hands
    PROVE  LET shown == GetEmulatedInputState(side)
               helper == m_controllerInputState IN
           /\ shown.Buttons \in SUBSET Buttons
           /\ shown.Buttons \subseteq helper.Buttons \cap {Menu}
           /\ shown.Touches = {}
           /\ shown.IndexTrigger[side] \in Halves
           /\ shown.IndexTrigger[side] \in
                {0, helper.IndexTrigger[setup.dominant]}
           /\ shown.HandTrigger[side] = 0
           /\ shown.ThumbstickNoDeadzone[side] = <<0, 0>>
<1> DEFINE shown == GetEmulatedInputState(side)
           helper == m_controllerInputState
<1>1. /\ helper.IndexTrigger[setup.dominant] \in Halves
      /\ helper.Buttons \in SUBSET Buttons
  BY SetupFacts DEF TypeOK, InputState
<1>2. CASE side \notin followGaze
  <2>1. shown = AtRest BY <1>2 DEF GetEmulatedInputState
  <2>2. AtRest.IndexTrigger[side] \in Halves BY AtRestFacts DEF Halves
  <2> QED BY <2>1, <2>2, AtRestFacts
<1>3. CASE side \in followGaze
  <2>1. shown = [AtRest EXCEPT
            !.IndexTrigger[side] = helper.IndexTrigger[setup.dominant],
            !.Buttons = helper.Buttons \cap {Menu}]
    BY <1>3 DEF GetEmulatedInputState
  <2>2. /\ shown.Buttons = helper.Buttons \cap {Menu}
        /\ shown.Touches = AtRest.Touches
        /\ shown.IndexTrigger[side] = helper.IndexTrigger[setup.dominant]
        /\ shown.HandTrigger = AtRest.HandTrigger
        /\ shown.ThumbstickNoDeadzone = AtRest.ThumbstickNoDeadzone
    BY <2>1 DEF AtRest
  <2> QED BY <2>2, <1>1, AtRestFacts
<1> QED BY <1>2, <1>3

(* What the helper shows takes the place of all of a hand's inputs.        *)
LEMMA OverrideFacts ==
    ASSUME TypeOK, NEW state \in InputState, NEW side \in Hands
    PROVE  LET over == Override(state, side)
               helper == m_controllerInputState IN
           /\ over \in InputState
           /\ \A button \in over.Touches :
                 button \in state.Touches /\ button[1] # side
           /\ \A button \in over.Buttons :
                 \/ /\ button \in state.Buttons
                    /\ button[1] # side \/ button = Home
                 \/ /\ button[1] = side
                    /\ button = Menu /\ Menu \in helper.Buttons
           /\ over.IndexTrigger[side] \in
                {0, helper.IndexTrigger[setup.dominant]}
           /\ over.HandTrigger[side] = 0
           /\ over.ThumbstickNoDeadzone[side] = <<0, 0>>
           /\ \A other \in Hands \ {side} :
                 /\ over.IndexTrigger[other] = state.IndexTrigger[other]
                 /\ over.HandTrigger[other] = state.HandTrigger[other]
                 /\ over.ThumbstickNoDeadzone[other] =
                      state.ThumbstickNoDeadzone[other]
<1> DEFINE shown == GetEmulatedInputState(side)
           helper == m_controllerInputState
           over == Override(state, side)
           kept == {button \in state.Buttons : button[1] # side}
           felt == {button \in state.Touches : button[1] # side}
           home == {Home}
           own == {button \in shown.Buttons : button[1] = side}
<1>1. /\ shown.Buttons \in SUBSET Buttons
      /\ shown.Buttons \subseteq helper.Buttons \cap {Menu}
      /\ shown.Touches = {}
      /\ shown.IndexTrigger[side] \in Halves
      /\ shown.IndexTrigger[side] \in {0, helper.IndexTrigger[setup.dominant]}
      /\ shown.HandTrigger[side] = 0
      /\ shown.ThumbstickNoDeadzone[side] = <<0, 0>>
  BY EmulatedFacts
<1> HIDE DEF shown
<1>2. over = [Buttons |-> kept \cup (state.Buttons \cap home) \cup own,
              Touches |-> felt,
              IndexTrigger |-> [state.IndexTrigger EXCEPT
                                  ![side] = shown.IndexTrigger[side]],
              HandTrigger |-> [state.HandTrigger EXCEPT
                                 ![side] = shown.HandTrigger[side]],
              ThumbstickNoDeadzone |-> [state.ThumbstickNoDeadzone EXCEPT
                                ![side] = shown.ThumbstickNoDeadzone[side]]]
  <2>1. over = [state EXCEPT
          !.Buttons = kept \cup (state.Buttons \cap home) \cup own,
          !.Touches = felt \cup {button \in shown.Touches : button[1] = side},
          !.IndexTrigger[side] = shown.IndexTrigger[side],
          !.HandTrigger[side] = shown.HandTrigger[side],
          !.ThumbstickNoDeadzone[side] = shown.ThumbstickNoDeadzone[side]]
    BY DEF Override, shown
  <2>2. felt \cup {button \in shown.Touches : button[1] = side} = felt
    BY <1>1
  <2>3. over = [state EXCEPT
          !.Buttons = kept \cup (state.Buttons \cap home) \cup own,
          !.Touches = felt,
          !.IndexTrigger[side] = shown.IndexTrigger[side],
          !.HandTrigger[side] = shown.HandTrigger[side],
          !.ThumbstickNoDeadzone[side] = shown.ThumbstickNoDeadzone[side]]
    <3> HIDE DEF over, kept, felt, home, own
    <3> QED BY <2>1, <2>2
  <2> HIDE DEF over, kept, felt, home, own
  <2> QED BY <2>3 DEF InputState
<1> HIDE DEF over
<1>3. /\ state.Buttons \in SUBSET Buttons /\ state.Touches \in SUBSET Buttons
      /\ state.IndexTrigger \in [Hands -> Halves]
      /\ state.HandTrigger \in [Hands -> Halves]
      /\ state.ThumbstickNoDeadzone \in [Hands -> Halves \X Halves]
  BY DEF InputState
<1>4. 0 \in Halves /\ <<0, 0>> \in Halves \X Halves BY DEF Halves
<1>5. /\ over.Buttons = kept \cup (state.Buttons \cap home) \cup own
      /\ over.Touches = felt
      /\ over.IndexTrigger =
           [state.IndexTrigger EXCEPT ![side] = shown.IndexTrigger[side]]
      /\ over.HandTrigger = [state.HandTrigger EXCEPT ![side] = 0]
      /\ over.ThumbstickNoDeadzone =
           [state.ThumbstickNoDeadzone EXCEPT ![side] = <<0, 0>>]
  BY <1>1, <1>2
<1>6. over \in InputState
  <2>1. /\ over.Buttons \in SUBSET Buttons /\ over.Touches \in SUBSET Buttons
    BY <1>5, <1>3, <1>1
  <2>2. over.IndexTrigger \in [Hands -> Halves] BY <1>5, <1>3, <1>1
  <2>3. over.HandTrigger \in [Hands -> Halves] BY <1>5, <1>3, <1>4
  <2>4. over.ThumbstickNoDeadzone \in [Hands -> Halves \X Halves]
    BY <1>5, <1>3, <1>4
  <2> QED BY <1>2, <1>5, <2>1, <2>2, <2>3, <2>4 DEF InputState
<1>7. \A button \in over.Buttons :
         \/ /\ button \in state.Buttons
            /\ button[1] # side \/ button = Home
         \/ /\ button[1] = side
            /\ button = Menu /\ Menu \in helper.Buttons
  BY <1>5, <1>1
<1>8. \A button \in over.Touches : button \in state.Touches /\ button[1] # side
  BY <1>5
<1>9. \A other \in Hands \ {side} :
         /\ over.IndexTrigger[other] = state.IndexTrigger[other]
         /\ over.HandTrigger[other] = state.HandTrigger[other]
         /\ over.ThumbstickNoDeadzone[other] = state.ThumbstickNoDeadzone[other]
  BY <1>5, <1>3
<1>10. /\ over.IndexTrigger[side] = shown.IndexTrigger[side]
       /\ over.HandTrigger[side] = 0
       /\ over.ThumbstickNoDeadzone[side] = <<0, 0>>
  BY <1>5, <1>3
<1>11. over.IndexTrigger[side] \in {0, helper.IndexTrigger[setup.dominant]}
  BY <1>1, <1>10
<1> QED BY <1>6, <1>7, <1>8, <1>9, <1>10, <1>11 DEF over

LEMMA BodyFacts ==
    /\ NoBody \in Bodies
    /\ \A body \in Bodies, side \in Hands : body.pinch[side] \in 0 .. 2
BY DEF NoBody, Bodies

(* Gestures press Y or B, of a palm that is touched, and pull the trigger  *)
(* of their hand.                                                          *)
LEMMA GestureFacts ==
    ASSUME TypeOK, NEW state \in InputState, NEW side \in Hands
    PROVE  LET after == processHandGestures(state, side)
               body == m_cachedBodyState IN
           /\ after \in InputState
           /\ \A button \in after.Buttons :
                 \/ button \in state.Buttons
                 \/ /\ button[1] = side
                    /\ button[2] \in {"y", "b"}
                    /\ side \in body.touched
           /\ after.IndexTrigger[side] \in
                {state.IndexTrigger[side], body.pinch[side]}
           /\ \A other \in Hands \ {side} :
                after.IndexTrigger[other] = state.IndexTrigger[other]
           /\ after.Touches = state.Touches
           /\ after.HandTrigger = state.HandTrigger
           /\ after.ThumbstickNoDeadzone = state.ThumbstickNoDeadzone
<1> DEFINE body == m_cachedBodyState
           after == processHandGestures(state, side)
           tracked == side \in body.active \/ Right \in body.active
           pressed == IF side \in body.active \cap body.touched
                      THEN {<<side, IF side = Left THEN "y" ELSE "b">>} ELSE {}
           pull == Larger(state.IndexTrigger[side], body.pinch[side])
<1>1. CASE ~tracked
  <2>1. after = state BY <1>1 DEF processHandGestures
  <2> QED BY <2>1
<1>2. CASE tracked
  <2>1. after = [state EXCEPT
               !.IndexTrigger[side] = Larger(@, body.pinch[side]),
               !.Buttons = @ \cup pressed]
    BY <1>2 DEF processHandGestures
  <2>2. after = [Buttons |-> state.Buttons \cup pressed,
                 Touches |-> state.Touches,
                 IndexTrigger |-> [state.IndexTrigger EXCEPT ![side] = pull],
                 HandTrigger |-> state.HandTrigger,
                 ThumbstickNoDeadzone |-> state.ThumbstickNoDeadzone]
    BY <2>1 DEF InputState
  <2>3. pull \in Halves
    <3>1. body.pinch[side] \in 0 .. 2 BY BodyFacts DEF TypeOK
    <3>2. state.IndexTrigger[side] \in Halves BY DEF InputState
    <3> QED BY <3>1, <3>2 DEF Larger, Halves
  <2>4. pressed \in SUBSET Buttons
    <3>1. <<side, "y">> \in Buttons /\ <<side, "b">> \in Buttons
      BY DEF Buttons
    <3> QED BY <3>1
  <2>5. \A button \in pressed : /\ button[1] = side
                                /\ button[2] \in {"y", "b"}
                                /\ side \in body.touched
    OBVIOUS
  <2>6. pull \in {state.IndexTrigger[side], body.pinch[side]} BY DEF Larger
  <2> HIDE DEF pressed, pull, after
  <2>7. [state.IndexTrigger EXCEPT ![side] = pull] \in [Hands -> Halves]
    BY <2>3 DEF InputState
  <2>8. after \in InputState
    <3>1. state.Buttons \cup pressed \in SUBSET Buttons
      BY <2>4 DEF InputState
    <3> QED BY <2>2, <2>7, <3>1 DEF InputState
  <2>9. /\ after.Buttons = state.Buttons \cup pressed
        /\ after.Touches = state.Touches
        /\ after.IndexTrigger = [state.IndexTrigger EXCEPT ![side] = pull]
        /\ after.HandTrigger = state.HandTrigger
        /\ after.ThumbstickNoDeadzone = state.ThumbstickNoDeadzone
    BY <2>2
  <2>10. /\ after.IndexTrigger[side] = pull
         /\ \A other \in Hands \ {side} :
              after.IndexTrigger[other] = state.IndexTrigger[other]
    BY <2>9 DEF InputState
  <2> QED BY <2>5, <2>6, <2>8, <2>9, <2>10 DEF after
<1> QED BY <1>1, <1>2

(* What EmulatedHidesPhysical says of one copy and one hand.               *)
Hidden(state, side, helper, body) ==
    /\ \A button \in state.Touches : button[1] # side
    /\ \A button \in state.Buttons : button[1] = side =>
         \/ button = Home
         \/ button = Menu /\ Menu \in helper.Buttons
         \/ button[2] \in {"y", "b"} /\ side \in body.touched
    /\ state.IndexTrigger[side] \in
         {0, helper.IndexTrigger[setup.dominant], body.pinch[side]}
    /\ state.HandTrigger[side] = 0
    /\ state.ThumbstickNoDeadzone[side] = <<0, 0>>
HiddenNow(state, side) ==
    Hidden(state, side, m_controllerInputState, m_cachedBodyState)

LEMMA HiddenMeans ==
    EmulatedHidesPhysical <=>
        \A set \in ActionSets :
            \A side \in setup.emulated \cap synced[set].sides :
                Hidden(cachedInputState[set], side, synced[set].helper,
                       synced[set].body)
BY DEF EmulatedHidesPhysical, Hidden

(* Sampling a hand hides its own controller when it is emulated, and shows *)
(* nothing of another that is hidden.                                      *)
LEMMA SampledFacts ==
    ASSUME TypeOK, NEW state \in InputState, NEW side \in Hands
    PROVE  /\ Sampled(state, side) \in InputState
           /\ side \in setup.emulated => HiddenNow(Sampled(state, side), side)
           /\ \A other \in Hands \ {side} :
                HiddenNow(state, other) =>
                HiddenNow(Sampled(state, side), other)
<1> DEFINE helper == m_controllerInputState
           body == m_cachedBodyState
           over == Override(state, side)
           shows == IF side \in setup.emulated THEN over ELSE state
           after == processHandGestures(shows, side)
<1>1. /\ over \in InputState
      /\ \A button \in over.Touches :
            button \in state.Touches /\ button[1] # side
      /\ \A button \in over.Buttons :
            \/ /\ button \in state.Buttons
               /\ button[1] # side \/ button = Home
            \/ /\ button[1] = side
               /\ button = Menu /\ Menu \in helper.Buttons
      /\ over.IndexTrigger[side] \in {0, helper.IndexTrigger[setup.dominant]}
      /\ over.HandTrigger[side] = 0
      /\ over.ThumbstickNoDeadzone[side] = <<0, 0>>
      /\ \A other \in Hands \ {side} :
            /\ over.IndexTrigger[other] = state.IndexTrigger[other]
            /\ over.HandTrigger[other] = state.HandTrigger[other]
            /\ over.ThumbstickNoDeadzone[other] =
                 state.ThumbstickNoDeadzone[other]
  BY OverrideFacts
<1>2. shows \in InputState BY <1>1
<1>3. Sampled(state, side) = after BY DEF Sampled
<1> HIDE DEF over, after
<1>4. /\ after \in InputState
      /\ \A button \in after.Buttons :
            \/ button \in shows.Buttons
            \/ /\ button[1] = side
               /\ button[2] \in {"y", "b"}
               /\ side \in body.touched
      /\ after.IndexTrigger[side] \in
           {shows.IndexTrigger[side], body.pinch[side]}
      /\ \A other \in Hands \ {side} :
           after.IndexTrigger[other] = shows.IndexTrigger[other]
      /\ after.Touches = shows.Touches
      /\ after.HandTrigger = shows.HandTrigger
      /\ after.ThumbstickNoDeadzone = shows.ThumbstickNoDeadzone
  <2> HIDE DEF shows
  <2> QED BY <1>2, GestureFacts DEF after
<1>5. ASSUME side \in setup.emulated PROVE HiddenNow(after, side)
  <2>1. shows = over BY <1>5
  <2>2. \A button \in after.Buttons : button[1] = side =>
           \/ button = Home
           \/ button = Menu /\ Menu \in helper.Buttons
           \/ button[2] \in {"y", "b"} /\ side \in body.touched
    BY <2>1, <1>4, <1>1
  <2>3. after.IndexTrigger[side] \in
          {0, helper.IndexTrigger[setup.dominant], body.pinch[side]}
    BY <2>1, <1>4, <1>1
  <2>4. /\ \A button \in after.Touches : button[1] # side
        /\ after.HandTrigger[side] = 0
        /\ after.ThumbstickNoDeadzone[side] = <<0, 0>>
    BY <2>1, <1>4, <1>1
  <2> QED BY <2>2, <2>3, <2>4 DEF HiddenNow, Hidden
<1>6. ASSUME NEW other \in Hands \ {side}, HiddenNow(state, other)
      PROVE  HiddenNow(after, other)
  <2>0. /\ \A button \in state.Touches : button[1] # other
        /\ \A button \in state.Buttons : button[1] = other =>
             \/ button = Home
             \/ button = Menu /\ Menu \in helper.Buttons
             \/ button[2] \in {"y", "b"} /\ other \in body.touched
        /\ state.IndexTrigger[other] \in
             {0, helper.IndexTrigger[setup.dominant], body.pinch[other]}
        /\ state.HandTrigger[other] = 0
        /\ state.ThumbstickNoDeadzone[other] = <<0, 0>>
    BY <1>6 DEF HiddenNow, Hidden
  <2>1. CASE side \in setup.emulated
    <3>1. shows = over BY <2>1
    <3>2. \A button \in after.Touches : button[1] # other
      BY <3>1, <1>4, <1>1, <2>0
    <3>3. \A button \in after.Buttons : button[1] = other =>
             \/ button = Home
             \/ button = Menu /\ Menu \in helper.Buttons
             \/ button[2] \in {"y", "b"} /\ other \in body.touched
      <4> SUFFICES ASSUME NEW button \in after.Buttons, button[1] = other
                   PROVE  \/ button = Home
                          \/ button = Menu /\ Menu \in helper.Buttons
                          \/ /\ button[2] \in {"y", "b"}
                             /\ other \in body.touched
        OBVIOUS
      <4>1. button \in over.Buttons BY <3>1, <1>4
      <4>2. button \in state.Buttons BY <4>1, <1>1
      <4> QED BY <4>2, <2>0
    <3>4. /\ after.HandTrigger[other] = 0
          /\ after.ThumbstickNoDeadzone[other] = <<0, 0>>
          /\ after.IndexTrigger[other] = state.IndexTrigger[other]
      BY <3>1, <1>4, <1>1, <2>0
    <3> QED BY <3>2, <3>3, <3>4, <2>0 DEF HiddenNow, Hidden
  <2>2. CASE side \notin setup.emulated
    <3>1. shows = state BY <2>2
    <3>2. \A button \in after.Buttons :
             button[1] = other => button \in state.Buttons
      BY <3>1, <1>4
    <3>3. /\ after.Touches = state.Touches
          /\ after.HandTrigger[other] = state.HandTrigger[other]
          /\ after.ThumbstickNoDeadzone[other] =
               state.ThumbstickNoDeadzone[other]
          /\ after.IndexTrigger[other] = state.IndexTrigger[other]
      BY <3>1, <1>4
    <3> QED BY <3>2, <3>3, <2>0 DEF HiddenNow, Hidden
  <2> QED BY <2>1, <2>2
<1> QED BY <1>3, <1>4, <1>5, <1>6

LEMMA LatchedFacts ==
    ASSUME TypeOK, NEW sides \in SUBSET Hands
    PROVE  /\ Latched(sides) \in InputState
           /\ \A side \in setup.emulated \cap sides :
                 HiddenNow(Latched(sides), side)
<1> DEFINE left == IF Left \in sides THEN Sampled(ovrInputState, Left)
                   ELSE ovrInputState
           both == IF Right \in sides THEN Sampled(left, Right) ELSE left
<1>1. Latched(sides) = both BY DEF Latched
<1>2. ovrInputState \in InputState /\ Left \in Hands /\ Right \in Hands
  BY DEF TypeOK, Hands
<1>3. left \in InputState
  BY <1>2, SampledFacts
<1>4. Left \in setup.emulated \cap sides => HiddenNow(left, Left)
  BY <1>2, SampledFacts
<1> HIDE DEF left
<1>5. both \in InputState BY <1>2, <1>3, SampledFacts
<1>6. Right \in setup.emulated \cap sides => HiddenNow(both, Right)
  BY <1>2, <1>3, SampledFacts
<1>7. Left \in setup.emulated \cap sides => HiddenNow(both, Left)
  <2>1. Left \in Hands \ {Right} BY HandsFacts, <1>2
  <2>2. HiddenNow(left, Left) => HiddenNow(Sampled(left, Right), Left)
    BY <2>1, <1>2, <1>3, SampledFacts
  <2> QED BY <2>2, <1>4
<1>8. \A side \in Hands : side \in {Left, Right} BY DEF Hands
<1> HIDE DEF both
<1> QED BY <1>1, <1>5, <1>6, <1>7, <1>8

-----------------------------------------------------------------------------
(* The types, and what holds of the bindings, the motors and the copies.   *)

Basics == TypeOK /\ HandsInv /\ VibInv /\ EmulatedHidesPhysical

LEMMA BasicsInit == Init => Basics
<1> SUFFICES ASSUME Init PROVE Basics OBVIOUS
<1> USE DEF Init
<1>1. setup \in Setups /\ Setup(setup) BY InputAssumption
<1>2. setup.maxGeneration \in Nat BY <1>1 DEF Setup
<1>3. TypeOK
  <2>1. ovrInputState \in InputState BY AtRestFacts
  <2>2. cachedInputState \in [ActionSets -> InputState] BY AtRestFacts
  <2>3. generation \in [ActionSets -> 0 .. setup.maxGeneration] BY <1>2
  <2>4. m_currentVibration \in [Hands -> {"none", "playing", "over"}]
    OBVIOUS
  <2>5. AtRest \in InputState /\ NoBody \in Bodies BY AtRestFacts, BodyFacts
  <2>6. synced \in [ActionSets -> [sides : SUBSET Hands, helper : InputState,
                                   body : Bodies]]
    <3> HIDE DEF Init
    <3>1. [sides |-> {}, helper |-> AtRest, body |-> NoBody] \in
             [sides : SUBSET Hands, helper : InputState, body : Bodies]
      BY <2>5
    <3>2. synced = [set \in ActionSets |->
                      [sides |-> {}, helper |-> AtRest, body |-> NoBody]]
      BY DEF Init
    <3> QED BY <3>1, <3>2
  <2>7. asked \in [Hands -> {"no", "yes", "unheard"}] OBVIOUS
  <2>8. m_controllerInputState \in InputState /\ m_cachedBodyState \in Bodies
    BY <2>5
  <2> QED BY <2>1, <2>2, <2>3, <2>4, <2>6, <2>7, <2>8 DEF TypeOK
<1>5. HandsInv BY DEF HandsInv
<1>6. VibInv BY DEF VibInv
<1>7. EmulatedHidesPhysical
  <2>1. \A set \in ActionSets : synced[set].sides = {} OBVIOUS
  <2> QED BY <2>1 DEF EmulatedHidesPhysical
<1> QED BY <1>3, <1>5, <1>6, <1>7 DEF Basics

(* The variables that the bindings and the copies are in.                  *)
copies == <<m_activeActionSets, m_isControllerActive, actionSources,
            cachedInputState, generation, synced>>

LEMMA SameBasics ==
    ASSUME Basics, setup' = setup, UNCHANGED copies,
           connected' \subseteq Hands, ovrInputState' \in InputState,
           m_cachedBodyState' \in Bodies, m_controllerInputState' \in InputState,
           followGaze' \subseteq Hands,
           focused' \in BOOLEAN, attached' \in BOOLEAN,
           m_currentVibration' \in [Hands -> {"none", "playing", "over"}],
           motor' \subseteq Hands, asked' \in [Hands -> {"no", "yes", "unheard"}],
           VibInv'
    PROVE  Basics'
<1>1. /\ Actions' = Actions /\ ActionSets' = ActionSets
  BY DEF Actions, ActionSets
<1>2. TypeOK' BY <1>1 DEF Basics, TypeOK, copies
<1>3. HandsInv' BY <1>1 DEF Basics, HandsInv, copies
<1>4. EmulatedHidesPhysical'
  BY <1>1 DEF Basics, EmulatedHidesPhysical, copies
<1> QED BY <1>2, <1>3, <1>4 DEF Basics

LEMMA BoundSide ==
    ASSUME NEW action, NEW side, NEW source \in Bound(action, side)
    PROVE  source.path[1] = side
BY DEF Bound

LEMMA OutputsAreHands ==
    ASSUME HandsInv, NEW action \in Actions, NEW query
    PROVE  Outputs(action, query) \subseteq Hands
BY DEF HandsInv, Outputs

(* Pulses that start or stop.                                              *)
LEMMA SetVibrationFacts ==
    ASSUME TypeOK, VibInv, HandsInv, NEW action \in Actions, NEW query,
           NEW pulse \in {"playing", "none"},
           SetVibration(action, query, pulse), setup' = setup
    PROVE  /\ VibInv'
           /\ m_currentVibration' \in [Hands -> {"none", "playing", "over"}]
           /\ motor' \subseteq Hands
           /\ asked' \in [Hands -> {"no", "yes", "unheard"}]
<1> DEFINE sides == Outputs(action, query)
<1>0. sides \subseteq Hands BY OutputsAreHands
<1>1. /\ m_currentVibration' =
            [side \in Hands |->
               IF side \in sides THEN pulse ELSE m_currentVibration[side]]
      /\ motor' = IF pulse = "none" THEN motor \ (sides \ setup.emulated)
                  ELSE motor \cup (sides \ setup.emulated)
      /\ \E said \in [Hands -> {"no", "yes", "unheard"}] :
            asked' = [side \in Hands |->
                        IF side \in Meant(action, query) THEN said[side]
                        ELSE asked[side]]
  <2> DEFINE said == [side \in Hands |-> IF pulse # "none" THEN "yes"
                        ELSE IF side \in m_isControllerActive THEN "no"
                        ELSE "unheard"]
  <2>1. said \in [Hands -> {"no", "yes", "unheard"}] OBVIOUS
  <2>2. asked' = [side \in Hands |->
                    IF side \in Meant(action, query) THEN said[side]
                    ELSE asked[side]]
    BY DEF SetVibration
  <2> QED BY <2>1, <2>2 DEF SetVibration
<1> HIDE DEF sides
<1>2. m_currentVibration' \in [Hands -> {"none", "playing", "over"}]
  BY <1>1 DEF TypeOK
<1>3. motor' \subseteq Hands BY <1>0, <1>1 DEF TypeOK
<1>4. asked' \in [Hands -> {"no", "yes", "unheard"}] BY <1>1 DEF TypeOK
<1>5. motor' \cap setup'.emulated = {} BY <1>1 DEF VibInv
<1>6. \A side \in motor' : m_currentVibration'[side] # "none"
  BY <1>1, <1>3 DEF VibInv
<1> QED BY <1>2, <1>3, <1>4, <1>5, <1>6 DEF VibInv

LEMMA ReassertFacts ==
    ASSUME TypeOK, VibInv, ReassertHaptics, setup' = setup
    PROVE  /\ VibInv'
           /\ m_currentVibration' \in [Hands -> {"none", "playing", "over"}]
           /\ motor' \subseteq Hands /\ asked' = asked
<1> USE DEF ReassertHaptics
<1>1. m_currentVibration' \in [Hands -> {"none", "playing", "over"}]
  BY DEF TypeOK
<1>2. motor' \subseteq Hands BY DEF TypeOK
<1>3. motor' \cap setup'.emulated = {} BY DEF VibInv
<1>4. \A side \in motor' : m_currentVibration'[side] # "none"
  <2> SUFFICES ASSUME NEW side \in motor'
               PROVE  m_currentVibration'[side] # "none"
    OBVIOUS
  <2>1. side \in Hands BY <1>2
  <2>2. CASE m_currentVibration[side] = "playing" BY <2>1, <2>2
  <2>3. CASE /\ m_currentVibration[side] # "playing"
             /\ side \in motor
             /\ side \in setup.emulated \/ m_currentVibration[side] # "over"
    <3>1. m_currentVibration[side] # "none" /\ side \notin setup.emulated
      BY <2>3 DEF VibInv
    <3> QED BY <2>1, <2>3, <3>1
  <2> QED BY <2>1, <2>2, <2>3
<1> QED BY <1>1, <1>2, <1>3, <1>4 DEF VibInv

LEMMA SyncBasics ==
    ASSUME Basics, NEW sets \in SUBSET ActionSets, NEW sides \in SUBSET Hands,
           xrSyncActions(sets, sides)
    PROVE  Basics'
<1> USE DEF xrSyncActions
<1>1. /\ setup' = setup /\ attached' = attached /\ focused' = focused
      /\ UNCHANGED devices /\ m_activeActionSets' = sets
  OBVIOUS
<1>2. /\ Actions' = Actions /\ ActionSets' = ActionSets
  BY <1>1 DEF Actions, ActionSets
<1>4. CASE ~focused
  <2>1. UNCHANGED <<m_isControllerActive, cachedInputState, generation,
                    synced, actionSources, haptics>>
    BY <1>4
  <2>2. TypeOK' BY <1>1, <1>2, <2>1 DEF Basics, TypeOK, devices, haptics
  <2>3. HandsInv' BY <1>2, <2>1 DEF Basics, HandsInv
  <2>4. VibInv' BY <1>1, <2>1 DEF Basics, VibInv, haptics
  <2>5. EmulatedHidesPhysical'
    BY <1>1, <1>2, <2>1 DEF Basics, EmulatedHidesPhysical
  <2> QED BY <2>2, <2>3, <2>4, <2>5 DEF Basics
<1>5. CASE focused
  <2> PICK gone \in SUBSET sides : Synced(sets, sides, gone) BY <1>5
  <2> DEFINE seen == sides \cap (connected \cup setup.emulated)
             active == (m_isControllerActive \cup seen) \ gone
             changed == {side \in Hands :
                      (side \in active) # (side \in m_isControllerActive)}
  <2>1. /\ m_isControllerActive' = active
        /\ actionSources' = rebindControllerActions(changed, active)
        /\ cachedInputState' =
             [set \in ActionSets |->
                IF set \in sets THEN Latched(seen) ELSE cachedInputState[set]]
        /\ generation' =
             [set \in ActionSets |->
                generation[set] + IF set \in sets THEN 1 ELSE 0]
        /\ synced' =
             [set \in ActionSets |->
                IF set \in sets
                THEN [sides |-> sides, helper |-> m_controllerInputState,
                      body |-> m_cachedBodyState]
                ELSE synced[set]]
        /\ ReassertHaptics
        /\ \A set \in sets : generation[set] < setup.maxGeneration
    BY DEF Synced
  <2>2. /\ VibInv'
        /\ m_currentVibration' \in [Hands -> {"none", "playing", "over"}]
        /\ motor' \subseteq Hands
        /\ asked' \in [Hands -> {"no", "yes", "unheard"}]
    BY <1>1, <2>1, ReassertFacts DEF Basics, TypeOK
  <2>3. seen \in SUBSET Hands OBVIOUS
  <2>4. m_isControllerActive' \subseteq Hands
    BY <2>1, <2>3 DEF Basics, TypeOK
  <2>5. /\ Latched(seen) \in InputState
        /\ \A side \in setup.emulated \cap seen : HiddenNow(Latched(seen), side)
    BY <2>3, LatchedFacts DEF Basics
  <2> HIDE DEF seen, active, changed
  <2>6. cachedInputState' \in [ActionSets -> InputState]
    BY <2>1, <2>5 DEF Basics, TypeOK
  <2>7. generation' \in [ActionSets -> 0 .. setup.maxGeneration]
    <3> SUFFICES ASSUME NEW set \in ActionSets
                 PROVE  generation[set] + (IF set \in sets THEN 1 ELSE 0)
                          \in 0 .. setup.maxGeneration
      BY <2>1
    <3>1. generation[set] \in 0 .. setup.maxGeneration BY DEF Basics, TypeOK
    <3>2. setup.maxGeneration \in Nat BY SetupFacts DEF Basics
    <3>3. CASE set \in sets BY <3>1, <3>2, <3>3, <2>1
    <3>4. CASE set \notin sets BY <3>1, <3>4, <3>2
    <3> QED BY <3>3, <3>4
  <2>8. synced' \in [ActionSets -> [sides : SUBSET Hands, helper : InputState,
                                    body : Bodies]]
    <3>1. [sides |-> sides, helper |-> m_controllerInputState,
           body |-> m_cachedBodyState] \in
             [sides : SUBSET Hands, helper : InputState, body : Bodies]
      BY DEF Basics, TypeOK
    <3>2. synced \in [ActionSets -> [sides : SUBSET Hands, helper : InputState,
                                     body : Bodies]]
      BY DEF Basics, TypeOK
    <3> QED BY <2>1, <3>1, <3>2
  <2>9. HandsInv'
    <3>1. DOMAIN actionSources' = Actions
      BY <2>1 DEF rebindControllerActions
    <3>2. ASSUME NEW action \in Actions, NEW source \in actionSources'[action]
          PROVE  source.path[1] \in Hands
      <4>1. actionSources'[action] =
              {s \in actionSources[action] : s.path[1] \notin changed}
                \cup IF m_suggestedBindings[1] \in Mapped
                     THEN UNION {Bound(action, side) :
                                   side \in changed \cap active}
                     ELSE {}
        BY <2>1 DEF rebindControllerActions
      <4>2. CASE source \in actionSources[action]
        BY <4>2 DEF Basics, HandsInv
      <4>3. CASE \E side \in changed \cap active :
                    source \in Bound(action, side)
        BY <4>3, BoundSide DEF changed
      <4> QED BY <3>2, <4>1, <4>2, <4>3
    <3> QED BY <1>2, <3>1, <3>2 DEF HandsInv
  <2>10. TypeOK'
    <3>1. DOMAIN actionSources' = Actions' BY <2>9 DEF HandsInv
    <3> QED BY <1>1, <1>2, <2>2, <2>4, <2>6, <2>7, <2>8, <3>1
        DEF Basics, TypeOK, devices
  <2>11. EmulatedHidesPhysical'
    <3> SUFFICES ASSUME NEW set \in ActionSets,
                        NEW side \in setup.emulated \cap synced'[set].sides
                 PROVE  Hidden(cachedInputState'[set], side,
                               synced'[set].helper, synced'[set].body)
      BY <1>1, <1>2 DEF EmulatedHidesPhysical, Hidden
    <3>1. CASE set \in sets
      <4>1. /\ synced'[set].sides = sides
            /\ synced'[set].helper = m_controllerInputState
            /\ synced'[set].body = m_cachedBodyState
            /\ cachedInputState'[set] = Latched(seen)
        BY <2>1, <3>1
      <4>2. side \in setup.emulated \cap seen BY <4>1 DEF seen
      <4> QED BY <4>1, <4>2, <2>5 DEF HiddenNow
    <3>2. CASE set \notin sets
      <4>1. synced'[set] = synced[set]
        BY <2>1, <3>2
      <4>2. cachedInputState'[set] = cachedInputState[set] BY <2>1, <3>2
      <4>3. Hidden(cachedInputState[set], side, synced[set].helper,
                   synced[set].body)
        BY <4>1, HiddenMeans DEF Basics
      <4> QED BY <4>1, <4>2, <4>3
    <3> QED BY <3>1, <3>2
  <2> QED BY <2>2, <2>9, <2>10, <2>11 DEF Basics
<1> QED BY <1>4, <1>5

LEMMA BasicsStep == Basics /\ [Next]_vars => Basics'
<1> SUFFICES ASSUME Basics, [Next]_vars PROVE Basics' OBVIOUS
<1>0. /\ TypeOK /\ HandsInv /\ VibInv BY DEF Basics
<1>1. ASSUME WorldChanges PROVE Basics'
  <2>1. /\ setup' = setup /\ UNCHANGED copies /\ UNCHANGED haptics
        /\ focused' = focused /\ attached' = attached
    BY <1>1 DEF WorldChanges, copies, inputs, bindingVars
  <2>2. VibInv' BY <1>0, <2>1 DEF VibInv, haptics
  <2>3. /\ connected' \subseteq Hands /\ ovrInputState' \in InputState
        /\ m_cachedBodyState' \in Bodies /\ m_controllerInputState' \in InputState
        /\ followGaze' \subseteq Hands
    <3>1. CASE ControllerChanges
      BY <1>0, <3>1, SetupFacts DEF ControllerChanges, TypeOK
    <3>2. CASE BodyMoves BY <1>0, <3>2, SetupFacts DEF BodyMoves, TypeOK
    <3>3. CASE HelperPolls BY <1>0, <3>3, SetupFacts DEF HelperPolls, TypeOK
    <3>4. CASE HelperTurns
      <4>1. \E pressed \in SUBSET Hands :
               followGaze' = IF pressed # {} THEN pressed
                             ELSE IF setup.dominant \in followGaze
                                  THEN {setup.dominant} ELSE followGaze
        BY <3>4 DEF HelperTurns
      <4>2. followGaze' \subseteq Hands BY <1>0, <4>1 DEF TypeOK
      <4> QED BY <1>0, <3>4, <4>2 DEF HelperTurns, TypeOK
    <3> QED BY <1>1, <3>1, <3>2, <3>3, <3>4 DEF WorldChanges
  <2> QED BY <1>0, <2>1, <2>2, <2>3, SameBasics DEF TypeOK, haptics
<1>2. ASSUME FocusChanges PROVE Basics'
  <2>1. /\ setup' = setup /\ UNCHANGED copies /\ UNCHANGED haptics
        /\ UNCHANGED devices /\ focused' = ~focused /\ attached' = attached
    BY <1>2 DEF FocusChanges, copies, inputs, bindingVars
  <2>2. VibInv' BY <1>0, <2>1 DEF VibInv, haptics
  <2> QED BY <1>0, <2>1, <2>2, SameBasics DEF TypeOK, haptics, devices
<1>3. ASSUME PulseEnds PROVE Basics'
  <2>1. /\ setup' = setup /\ UNCHANGED copies /\ UNCHANGED devices
        /\ focused' = focused /\ attached' = attached
        /\ motor' = motor /\ asked' = asked
    BY <1>3 DEF PulseEnds, copies, inputs, bindingVars
  <2>2. PICK side \in Hands :
          /\ m_currentVibration[side] = "playing"
          /\ m_currentVibration' = [m_currentVibration EXCEPT ![side] = "over"]
    BY <1>3 DEF PulseEnds
  <2>3. m_currentVibration' \in [Hands -> {"none", "playing", "over"}]
    BY <1>0, <2>2 DEF TypeOK
  <2>4. VibInv' BY <1>0, <2>1, <2>2 DEF VibInv, TypeOK
  <2> QED BY <1>0, <2>1, <2>3, <2>4, SameBasics DEF TypeOK, devices
<1>4. ASSUME Suggest \/ xrAttachSessionActionSets PROVE Basics'
  <2>1. /\ setup' = setup /\ UNCHANGED copies /\ UNCHANGED devices
        /\ focused' = focused /\ attached' \in BOOLEAN /\ UNCHANGED haptics
    BY <1>0, <1>4 DEF Suggest, xrSuggestInteractionProfileBindings,
       xrAttachSessionActionSets, copies, inputs, TypeOK
  <2>2. VibInv' BY <1>0, <2>1 DEF VibInv, haptics
  <2> QED BY <1>0, <2>1, <2>2, SameBasics DEF TypeOK, haptics, devices
<1>5. ASSUME Sync PROVE Basics'
  <2> PICK sets \in SUBSET ActionSets, sides \in setup.syncs :
         xrSyncActions(sets, IF sets = {} THEN {} ELSE sides)
    BY <1>5 DEF Sync
  <2>1. (IF sets = {} THEN {} ELSE sides) \in SUBSET Hands
    BY <1>0, SetupFacts
  <2> QED BY <2>1, SyncBasics
<1>6. ASSUME NEW action \in Actions, NEW query \in setup.queries,
             GetActionState(action, query)
      PROVE  Basics'
  <2>1. /\ setup' = setup /\ UNCHANGED copies /\ UNCHANGED devices
        /\ focused' = focused /\ attached' = attached /\ UNCHANGED haptics
    BY <1>6 DEF GetActionState, copies, inputs, bindingVars
  <2>2. VibInv' BY <1>0, <2>1 DEF VibInv, haptics
  <2> QED BY <1>0, <2>1, <2>2, SameBasics DEF TypeOK, haptics, devices
<1>7. ASSUME NEW action \in Actions, NEW query \in setup.queries,
             \/ xrApplyHapticFeedback(action, query)
             \/ xrStopHapticFeedback(action, query)
      PROVE  Basics'
  <2>1. /\ setup' = setup /\ UNCHANGED copies /\ UNCHANGED devices
        /\ focused' = focused /\ attached' = attached
    BY <1>7 DEF xrApplyHapticFeedback, xrStopHapticFeedback, copies, inputs,
       bindingVars
  <2>2. PICK pulse \in {"playing", "none"} : SetVibration(action, query, pulse)
    BY <1>7 DEF xrApplyHapticFeedback, xrStopHapticFeedback
  <2>3. /\ VibInv'
        /\ m_currentVibration' \in [Hands -> {"none", "playing", "over"}]
        /\ motor' \subseteq Hands
        /\ asked' \in [Hands -> {"no", "yes", "unheard"}]
    BY <1>0, <2>1, <2>2, SetVibrationFacts
  <2> QED BY <1>0, <2>1, <2>3, SameBasics DEF TypeOK, devices
<1>8. ASSUME UNCHANGED vars PROVE Basics'
  <2>1. /\ setup' = setup /\ UNCHANGED copies /\ UNCHANGED devices
        /\ focused' = focused /\ attached' = attached /\ UNCHANGED haptics
    BY <1>8 DEF vars, copies, inputs, bindingVars
  <2>2. VibInv' BY <1>0, <2>1 DEF VibInv, haptics
  <2> QED BY <1>0, <2>1, <2>2, SameBasics DEF TypeOK, haptics, devices
<1> QED BY <1>1, <1>2, <1>3, <1>4, <1>5, <1>6, <1>7, <1>8 DEF Next, Ask

-----------------------------------------------------------------------------
(* What the application is told.                                           *)

LEMMA SlotFacts ==
    ASSUME TypeOK, NEW query \in setup.queries
    PROVE  /\ Slot(query) \in Hands
           /\ \A other \in setup.queries :
                 other # query /\ Slot(other) = Slot(query) =>
                    {None, Left} \subseteq setup.queries
BY SetupFacts DEF Slot, Hands

LEMMA GenerationFacts ==
    ASSUME TypeOK, NEW action \in Actions
    PROVE  /\ setup.set[action] \in ActionSets
           /\ generation[setup.set[action]] \in Nat
<1>1. setup.set[action] \in ActionSets BY DEF ActionSets
<1> QED BY <1>1 DEF TypeOK

LEMMA ToldInit == Init => ToldInv
<1> SUFFICES ASSUME Init PROVE ToldInv OBVIOUS
<1>0. TypeOK BY BasicsInit DEF Basics
<1>1. /\ DOMAIN last = Actions /\ DOMAIN told = Actions
      /\ \A action \in Actions : /\ DOMAIN last[action] = Hands
                                 /\ DOMAIN told[action] = setup.queries
  BY DEF Init
<1>2. ASSUME NEW action \in Actions, NEW query \in setup.queries
      PROVE  ToldOf(told[action][query], last[action][Slot(query)],
                    generation[setup.set[action]])
  <2>1. told[action][query] = None BY DEF Init
  <2>2. last[action][Slot(query)].generation = 0
    BY <1>0, SlotFacts DEF Init
  <2>3. generation[setup.set[action]] = 0
    BY <1>0, GenerationFacts DEF Init
  <2> QED BY <2>1, <2>2, <2>3 DEF ToldOf
<1> QED BY <1>1, <1>2 DEF ToldInv

(* Nothing is told: a set may have been synced.                            *)
LEMMA SameAnswers ==
    ASSUME TypeOK, ToldInv, setup' = setup, UNCHANGED answers,
           \A set \in ActionSets : /\ generation'[set] \in Nat
                                   /\ generation[set] <= generation'[set]
    PROVE  ToldInv'
<1>1. Actions' = Actions BY DEF Actions
<1>2. /\ last' = last /\ told' = told
  BY DEF answers
<1>3. ASSUME NEW action \in Actions, NEW query \in setup.queries,
             setup.type[action] \in States
      PROVE  ToldOf(told[action][query], last[action][Slot(query)],
                    generation'[setup.set[action]])
  <2>1. ToldOf(told[action][query], last[action][Slot(query)],
               generation[setup.set[action]])
    BY <1>3 DEF ToldInv
  <2>2. /\ generation'[setup.set[action]] \in Nat
        /\ generation[setup.set[action]] \in Nat
        /\ generation[setup.set[action]] <= generation'[setup.set[action]]
    BY GenerationFacts
  <2> HIDE DEF ToldInv
  <2>3. \A state, kept : ToldOf(state, kept, generation[setup.set[action]]) =>
                         ToldOf(state, kept, generation'[setup.set[action]])
    BY <2>2 DEF ToldOf
  <2> QED BY <2>1, <2>3
<1> QED BY <1>1, <1>2, <1>3 DEF ToldInv, Slot

(* What ChangesToldOnce says of one action and one query.                  *)
Once(before, now) ==
    before # None /\ now # before =>
        (now.changed <=>
            \/ now.value # before.value
            \/ now.generation = before.generation /\ before.changed)

LEMMA TellStep ==
    ASSUME TypeOK, ToldInv, OneAsker(setup),
           NEW action \in Actions, NEW query \in setup.queries, NEW value,
           setup.type[action] \in States,
           Tell(action, query, value),
           setup' = setup, generation' = generation
    PROVE  /\ ToldInv'
           /\ \A a \in Actions : \A q \in setup.queries :
                 Once(told[a][q], told'[a][q])
<1> DEFINE slot == Slot(query)
           was == last[action][slot]
           now == generation[setup.set[action]]
           changed == was.generation = now \/ was.value # value
           before == told[action][query]
           state == [value |-> value, changed |-> changed, generation |-> now]
           kept == IF changed THEN [value |-> value, generation |-> now]
                   ELSE was
<1>1. /\ told' = [told EXCEPT ![action][query] = state]
      /\ last' = IF changed
                 THEN [last EXCEPT ![action][slot] =
                         [value |-> value, generation |-> now]]
                 ELSE last
  BY DEF Tell
<1>2. /\ DOMAIN last = Actions /\ DOMAIN told = Actions
      /\ \A a \in Actions : /\ DOMAIN last[a] = Hands
                            /\ DOMAIN told[a] = setup.queries
  BY DEF ToldInv
<1>3. slot \in Hands BY SlotFacts
<1>4. now \in Nat BY GenerationFacts
<1>5. ToldOf(before, was, now) BY DEF ToldInv
<1>6. state.value = value /\ state.changed = changed /\ state.generation = now
  OBVIOUS
<1>7. ToldOf(state, kept, now)
  <2>1. /\ kept.value = value /\ kept.generation \in Nat
        /\ kept.generation <= now
        /\ changed => kept.generation = now
        /\ ~changed => kept.generation # now
    <3>1. CASE changed
      <4>1. kept.value = value /\ kept.generation = now BY <3>1
      <4> HIDE DEF kept, changed
      <4> QED BY <4>1, <3>1, <1>4
    <3>2. CASE ~changed
      <4>1. kept = was /\ was.generation # now /\ was.value = value BY <3>2
      <4>2. was.generation \in Nat /\ was.generation <= now BY <1>5 DEF ToldOf
      <4> HIDE DEF kept, was, changed
      <4> QED BY <4>1, <4>2, <3>2, <1>4
    <3> QED BY <3>1, <3>2
  <2>2. changed \in BOOLEAN OBVIOUS
  <2> HIDE DEF kept, was, changed, state, now
  <2>3. state.changed \in BOOLEAN /\ (state.changed <=> changed)
    BY <2>2, <1>6
  <2>4. state.changed <=> kept.generation = state.generation
    <3>1. changed <=> kept.generation = now BY <2>1
    <3> QED BY <3>1, <2>3, <1>6
  <2>5. /\ state.value = kept.value /\ state.generation \in Nat
        /\ kept.generation <= state.generation
        /\ state.generation <= now
    BY <2>1, <1>6, <1>4
  <2> QED BY <2>1, <2>3, <2>4, <2>5 DEF ToldOf
<1>8. Once(before, state)
  <2> SUFFICES ASSUME before # None
               PROVE  changed <=> \/ value # before.value
                                  \/ now = before.generation /\ before.changed
    BY <1>6 DEF Once
  <2>1. /\ before.value = was.value
        /\ before.changed <=> was.generation = before.generation
        /\ was.generation <= before.generation
        /\ before.generation <= now
        /\ was.generation \in Nat /\ before.generation \in Nat
    BY <1>5 DEF ToldOf
  <2>2. was.generation = now <=> now = before.generation /\ before.changed
    <3>1. was.generation = now => before.generation = now BY <2>1, <1>4
    <3> QED BY <3>1, <2>1
  <2> QED BY <2>1, <2>2
<1> HIDE DEF state, kept, changed, was, now, before, slot
<1>9. told'[action][query] = state
  BY <1>1, <1>2
<1>10. last'[action][slot] = kept
  BY <1>1, <1>2, <1>3 DEF kept, was
<1>11. ASSUME NEW a \in Actions, NEW q \in setup.queries,
              a # action \/ q # query
       PROVE  told'[a][q] = told[a][q]
  BY <1>1, <1>2, <1>11
<1>12. ASSUME NEW a \in Actions, NEW s \in Hands, a # action \/ s # slot
       PROVE  last'[a][s] = last[a][s]
  BY <1>1, <1>2, <1>12
<1>13. /\ DOMAIN last' = Actions /\ DOMAIN told' = Actions
       /\ \A a \in Actions : /\ DOMAIN last'[a] = Hands
                             /\ DOMAIN told'[a] = setup.queries
  BY <1>1, <1>2
<1>14. ASSUME NEW a \in Actions, NEW q \in setup.queries,
              setup.type[a] \in States
       PROVE  ToldOf(told'[a][q], last'[a][Slot(q)], generation[setup.set[a]])
  <2>1. CASE a = action /\ q = query
    BY <2>1, <1>7, <1>9, <1>10 DEF slot, now
  <2>2. CASE a # action \/ q # query
    <3>1. a # action \/ Slot(q) # slot
      <4>1. OneAsker(setup) => ~({None, Left} \subseteq setup.queries)
        BY DEF OneAsker, Actions
      <4> QED BY <2>2, <4>1, SlotFacts DEF slot
    <3>2. last'[a][Slot(q)] = last[a][Slot(q)]
      BY <3>1, <1>12, SlotFacts
    <3>3. told'[a][q] = told[a][q] BY <2>2, <1>11
    <3>4. ToldOf(told[a][q], last[a][Slot(q)], generation[setup.set[a]])
      BY <1>14 DEF ToldInv
    <3> QED BY <3>2, <3>3, <3>4
  <2> QED BY <2>1, <2>2
<1>15. ToldInv'
  <2>1. Actions' = Actions BY DEF Actions
  <2> QED BY <2>1, <1>13, <1>14 DEF ToldInv, Slot
<1>16. ASSUME NEW a \in Actions, NEW q \in setup.queries
       PROVE  Once(told[a][q], told'[a][q])
  <2>1. CASE a = action /\ q = query BY <2>1, <1>8, <1>9 DEF before
  <2>2. CASE a # action \/ q # query BY <2>2, <1>11 DEF Once
  <2> QED BY <2>1, <2>2
<1> QED BY <1>15, <1>16

LEMMA ToldStep ==
    ASSUME Basics, ToldInv, OneAsker(setup), [Next]_vars
    PROVE  /\ ToldInv'
           /\ \A a \in Actions : \A q \in setup.queries :
                 Once(told[a][q], told'[a][q])
<1>0. TypeOK BY DEF Basics
<1>1. ASSUME setup' = setup, UNCHANGED answers,
             \A set \in ActionSets : /\ generation'[set] \in Nat
                                     /\ generation[set] <= generation'[set]
      PROVE  /\ ToldInv'
             /\ \A a \in Actions : \A q \in setup.queries :
                   Once(told[a][q], told'[a][q])
  <2>1. told' = told BY <1>1 DEF answers
  <2> QED BY <2>1, <1>0, <1>1, SameAnswers DEF Once
<1>2. \A set \in ActionSets : generation[set] \in Nat BY <1>0 DEF TypeOK
<1>3. ASSUME NEW action \in Actions, NEW query \in setup.queries,
             GetActionState(action, query)
      PROVE  /\ ToldInv'
             /\ \A a \in Actions : \A q \in setup.queries :
                   Once(told[a][q], told'[a][q])
  <2>1. setup' = setup /\ generation' = generation
    BY <1>3 DEF GetActionState, inputs
  <2>2. /\ setup.type[action] \in States
        /\ \E value : Tell(action, query, value)
    BY <1>3 DEF GetActionState, States, xrGetActionStateBoolean,
       xrGetActionStateFloat, xrGetActionStateVector2f
  <2> QED BY <1>0, <2>1, <2>2, TellStep
<1>4. ASSUME NEW sets, NEW sides, xrSyncActions(sets, sides)
      PROVE  /\ setup' = setup /\ UNCHANGED answers
             /\ \A set \in ActionSets : /\ generation'[set] \in Nat
                                        /\ generation[set] <= generation'[set]
  <2>1. setup' = setup /\ UNCHANGED answers BY <1>4 DEF xrSyncActions
  <2>2. CASE ~focused
    <3>1. generation' = generation BY <1>4, <2>2 DEF xrSyncActions
    <3> QED BY <2>1, <3>1, <1>2
  <2>3. CASE focused
    <3>1. generation' = [set \in ActionSets |->
                           generation[set] + IF set \in sets THEN 1 ELSE 0]
      BY <1>4, <2>3 DEF xrSyncActions, Synced
    <3> QED BY <2>1, <3>1, <1>2
  <2> QED BY <2>2, <2>3
<1>5. ASSUME ~ \E action \in Actions, query \in setup.queries :
                  GetActionState(action, query)
      PROVE  /\ setup' = setup /\ UNCHANGED answers
             /\ \A set \in ActionSets : /\ generation'[set] \in Nat
                                        /\ generation[set] <= generation'[set]
  <2>1. CASE Sync BY <2>1, <1>4 DEF Sync
  <2>2. CASE ~Sync
    <3>1. setup' = setup /\ UNCHANGED answers /\ generation' = generation
      BY <2>2, <1>5 DEF Next, Ask, vars, inputs, WorldChanges, FocusChanges,
         PulseEnds, Suggest, xrSuggestInteractionProfileBindings,
         xrAttachSessionActionSets, xrApplyHapticFeedback, xrStopHapticFeedback
    <3> QED BY <3>1, <1>2
  <2> QED BY <2>1, <2>2
<1> QED BY <1>1, <1>3, <1>5

-----------------------------------------------------------------------------
(* What is bound reads what it is called: the tables.                      *)

(* The control that an index of the sources' priorities is of.             *)
Indexed(index) ==
    CASE index = <<"squeeze", "value">> -> <<"squeeze", "grip">>
      [] index = <<"trigger", "value">> -> <<"trigger", "pull">>
      [] index = <<"thumbstick", Bare>> -> <<"thumbstick", "move">>
      [] OTHER -> index

(* What a source reads is what its name says.                              *)
Matches(control, name, type) ==
    /\ name # None
    /\ control[1] = name[1]
    /\ \/ control[2] = name[2]
       \/ control[2] = "pull" /\ name[2] = "press"
       \/ control[2] = "grip" /\ name[2] = "force"
       \/ control[2] = "press" /\ type = "boolean"

(* No two controls have one index, but for poses.                          *)
IndexTells(index, control) ==
    index # Invalid =>
        \/ index[2] = "pose" /\ control[2] = "pose"
        \/ index[2] # "pose" /\ control = Indexed(index)

(* A Touch controller's path that reads something has a name, and reads the*)
(* control that it names.                                                  *)
LEMMA SourceFacts ==
    ASSUME NEW type, NEW hand \in Hands, NEW input, NEW component,
           NEW bound,
           bound.realPath = <<hand, input, component>>,
           bound.source =
             mapPathToTouchControllerInputState(type, bound.realPath),
           bound.source # None,
           input \in {"palm_ext", "grip_surface"} =>
              <<input, component>> \in Palm \cup GripSurface
    PROVE  /\ Matches(Control(bound),
                      getTouchControllerLocalizedSourceName(bound.realPath),
                      type)
           /\ bound.source.reads \in Maps => bound.source.at[1] = hand
           /\ Control(bound)[1] = input
           /\ IndexTells(bound.source.sourceIndex, Control(bound))
<1> DEFINE path == <<hand, input, component>>
           pressed == {"click"} \cup (IF type = "boolean" THEN {Bare} ELSE {})
           name == getTouchControllerLocalizedSourceName(path)
           read == mapPathToTouchControllerInputState(type, path)
           control == Control(bound)
           Holds == /\ Matches(control, name, type)
                    /\ bound.source.reads \in Maps => bound.source.at[1] = hand
                    /\ control[1] = input
                    /\ IndexTells(bound.source.sourceIndex, control)
<1> USE DEF Hands, Left, Right, Face, Click, Bare, Value, Axes, Pose
<1>a. bound.source = read /\ read # None OBVIOUS
<1>n. /\ \A i \in {"x", "y", "a", "b", "menu", "system"} : <<i, "press">> # None
      /\ \A i \in {"x", "y", "a", "b"} : <<i, "touch">> # None
      /\ <<"squeeze", "grip">> # None /\ <<"squeeze", "force">> # None
      /\ <<"trigger", "press">> # None /\ <<"trigger", "pull">> # None
      /\ <<"trigger", "touch">> # None
      /\ <<"thumbstick", "move">> # None /\ <<"thumbstick", "press">> # None
      /\ <<"thumbstick", "touch">> # None
      /\ <<"thumbstick", "x">> # None /\ <<"thumbstick", "y">> # None
      /\ <<"thumbrest", "touch">> # None /\ <<"haptic", "vibrate">> # None
      /\ \A i \in {"grip", "aim", "palm_ext", "grip_surface"} :
            <<i, "pose">> # None
  BY MappingsAssumption DEF Inputs10, Components, Pad
<1>p. ASSUME NEW at, NEW index, bound.source = Source("Buttons", at, index)
      PROVE  /\ control = <<at[2], "press">>
             /\ bound.source.at = at /\ bound.source.sourceIndex = index
  BY <1>p DEF Control, Source
<1>t. ASSUME NEW at, NEW index, bound.source = Source("Touches", at, index)
      PROVE  /\ control = <<at[2], "touch">>
             /\ bound.source.at = at /\ bound.source.sourceIndex = index
  BY <1>t DEF Control, Source
<1>e. ASSUME NEW index, bound.source = Source("nothing", None, index)
      PROVE  /\ control = <<input, IF <<input, component>> = Haptic
                                   THEN "vibrate" ELSE "pose">>
             /\ bound.source.reads = "nothing"
             /\ bound.source.sourceIndex = index
  BY <1>e DEF Control, Source
<1> HIDE DEF path, name, read, control
<1> USE DEF Matches, IndexTells, Indexed
<1>1. ASSUME input \in Face(hand) /\ component \in Click
       PROVE  Holds
  <2>1. name = <<input, "press">>
    BY <1>1 DEF getTouchControllerLocalizedSourceName, name, path, Haptic,
       Palm, GripSurface
  <2>2. read = Source("Buttons", <<hand, input>>, <<input, "press">>)
    BY <1>1 DEF mapPathToTouchControllerInputState, read, path, Haptic
  <2> QED BY <1>1, <1>a, <1>n, <1>p, <2>1, <2>2
<1>2. ASSUME input \in Face(hand) /\ component = "touch"
       PROVE  Holds
  <2>1. name = <<input, "touch">>
    BY <1>2 DEF getTouchControllerLocalizedSourceName, name, path, Haptic,
       Palm, GripSurface
  <2>2. read = Source("Touches", <<hand, input>>, <<input, "touch">>)
    BY <1>2 DEF mapPathToTouchControllerInputState, read, path, Haptic
  <2> QED BY <1>2, <1>a, <1>n, <1>t, <2>1, <2>2
<1>3. ASSUME hand = Left /\ input = "menu" /\ component = "click"
       PROVE  Holds
  <2>1. name = <<"menu", "press">>
    BY <1>3 DEF getTouchControllerLocalizedSourceName, name, path, Haptic,
       Palm, GripSurface
  <2>2. read = Source("Buttons", <<hand, input>>, <<"menu", "press">>)
    BY <1>3 DEF mapPathToTouchControllerInputState, read, path, Haptic
  <2> QED BY <1>3, <1>a, <1>n, <1>p, <2>1, <2>2
<1>4. ASSUME hand = Right /\ input = "system" /\ component \in Click
       PROVE  Holds
  <2>1. name = <<"system", "press">>
    BY <1>4 DEF getTouchControllerLocalizedSourceName, name, path, Haptic,
       Palm, GripSurface
  <2>2. read = Source("Buttons", <<hand, input>>, Invalid)
    BY <1>4 DEF mapPathToTouchControllerInputState, read, path, Haptic
  <2> QED BY <1>4, <1>a, <1>n, <1>p, <2>1, <2>2
<1>5. ASSUME input = "squeeze" /\ component \in Value \cup {"force"}
       PROVE  Holds
  <2>1. name = <<"squeeze", IF component = "force" THEN "force" ELSE "grip">>
    BY <1>5 DEF getTouchControllerLocalizedSourceName, name, path, Haptic,
       Palm, GripSurface
  <2>2. read = Source("HandTrigger", None, <<"squeeze", "value">>)
    BY <1>5 DEF mapPathToTouchControllerInputState, read, path, Haptic
  <2>3. /\ control = <<"squeeze", "grip">>
        /\ bound.source.reads = "HandTrigger"
        /\ bound.source.sourceIndex = <<"squeeze", "value">>
    BY <1>a, <2>2 DEF Control, Source, control
  <2> QED BY <1>5, <1>n, <2>1, <2>3 DEF Maps
<1>6. ASSUME input = "trigger" /\ component \in Value
       PROVE  Holds
  <2>1. name = <<"trigger", IF component = "click" THEN "press" ELSE "pull">>
    BY <1>6 DEF getTouchControllerLocalizedSourceName, name, path, Haptic,
       Palm, GripSurface
  <2>2. read = Source("IndexTrigger", None, <<"trigger", "value">>)
    BY <1>6 DEF mapPathToTouchControllerInputState, read, path, Haptic
  <2>3. /\ control = <<"trigger", "pull">>
        /\ bound.source.reads = "IndexTrigger"
        /\ bound.source.sourceIndex = <<"trigger", "value">>
    BY <1>a, <2>2 DEF Control, Source, control
  <2> QED BY <1>6, <1>n, <2>1, <2>3 DEF Maps
<1>7. ASSUME input \in {"trigger", "thumbstick", "thumbrest"}
           /\ component = "touch"
       PROVE  Holds
  <2>1. name = <<input, "touch">>
    BY <1>7 DEF getTouchControllerLocalizedSourceName, name, path, Haptic,
       Palm, GripSurface
  <2>2. read = Source("Touches", <<hand, input>>, <<input, "touch">>)
    BY <1>7 DEF mapPathToTouchControllerInputState, read, path, Haptic
  <2> QED BY <1>7, <1>a, <1>n, <1>t, <2>1, <2>2
<1>8. ASSUME input = "thumbstick" /\ component \in pressed
       PROVE  Holds
  <2>1. name = <<"thumbstick", IF component = "click" THEN "press" ELSE "move">>
    BY <1>8 DEF getTouchControllerLocalizedSourceName, name, path, Haptic,
       Palm, GripSurface
  <2>2. read = Source("Buttons", <<hand, input>>, <<"thumbstick", "press">>)
    BY <1>8 DEF mapPathToTouchControllerInputState, read, path, Haptic
  <2>3. component = "click" \/ type = "boolean" BY <1>8
  <2> QED BY <1>8, <1>a, <1>n, <1>p, <2>1, <2>2, <2>3
<1>9. ASSUME input = "thumbstick" /\ component \in Axes \ pressed
       PROVE  Holds
  <2>1. name = <<"thumbstick", IF component = Bare THEN "move" ELSE component>>
    BY <1>9 DEF getTouchControllerLocalizedSourceName, name, path, Haptic,
       Palm, GripSurface
  <2>2. read = Source("ThumbstickNoDeadzone", <<"axis", component>>,
                      <<"thumbstick", component>>)
    BY <1>9 DEF mapPathToTouchControllerInputState, read, path, Haptic
  <2>3. /\ control = <<"thumbstick",
                       IF component = Bare THEN "move" ELSE component>>
        /\ bound.source.reads = "ThumbstickNoDeadzone"
        /\ bound.source.sourceIndex = <<"thumbstick", component>>
    BY <1>a, <2>2 DEF Control, Source, control
  <2> QED BY <1>9, <1>n, <2>1, <2>3 DEF Maps
<1>10. ASSUME input = "thumbrest" /\ component = Bare
       PROVE  Holds
  <2>1. name = <<"thumbrest", "touch">>
    BY <1>10 DEF getTouchControllerLocalizedSourceName, name, path, Haptic,
       Palm, GripSurface
  <2>2. read = Source("Touches", <<hand, input>>, <<input, "touch">>)
    BY <1>10 DEF mapPathToTouchControllerInputState, read, path, Haptic
  <2> QED BY <1>10, <1>a, <1>n, <1>t, <2>1, <2>2
<1>11. ASSUME input \in {"grip", "aim"} /\ component \in Pose
       PROVE  Holds
  <2>1. name = <<input, "pose">>
    BY <1>11 DEF getTouchControllerLocalizedSourceName, name, path, Haptic,
       Palm, GripSurface
  <2>2. read = Source("nothing", None, <<input, "pose">>)
    BY <1>11 DEF mapPathToTouchControllerInputState, read, path, Haptic
  <2> QED BY <1>11, <1>a, <1>n, <1>e, <2>1, <2>2 DEF Maps, Haptic
<1>12. ASSUME input \in {"palm_ext", "grip_surface"} /\ component \in Pose
       PROVE  Holds
  <2>1. name = <<input, "pose">>
    BY <1>12 DEF getTouchControllerLocalizedSourceName, name, path, Haptic,
       Palm, GripSurface
  <2>2. read = Source("nothing", None, <<"palm", "pose">>)
    BY <1>12 DEF mapPathToTouchControllerInputState, read, path, Haptic
  <2> QED BY <1>12, <1>a, <1>n, <1>e, <2>1, <2>2 DEF Maps, Haptic
<1>13. ASSUME input = "haptic" /\ component = Bare
       PROVE  Holds
  <2>1. name = <<"haptic", "vibrate">>
    BY <1>13 DEF getTouchControllerLocalizedSourceName, name, path, Haptic,
       Palm, GripSurface
  <2>2. read = Source("nothing", None, Invalid)
    BY <1>13 DEF mapPathToTouchControllerInputState, read, path, Haptic
  <2> QED BY <1>13, <1>a, <1>n, <1>e, <2>1, <2>2 DEF Maps, Haptic
<1>14. \/ input \in Face(hand) /\ component \in Click
       \/ input \in Face(hand) /\ component = "touch"
       \/ hand = Left /\ input = "menu" /\ component = "click"
       \/ hand = Right /\ input = "system" /\ component \in Click
       \/ input = "squeeze" /\ component \in Value \cup {"force"}
       \/ input = "trigger" /\ component \in Value
       \/ input \in {"trigger", "thumbstick", "thumbrest"}
          /\ component = "touch"
       \/ input = "thumbstick" /\ component \in pressed
       \/ input = "thumbstick" /\ component \in Axes \ pressed
       \/ input = "thumbrest" /\ component = Bare
       \/ input \in {"grip", "aim"} /\ component \in Pose
       \/ input \in {"palm_ext", "grip_surface"} /\ component \in Pose
       \/ input = "haptic" /\ component = Bare
  BY <1>a DEF mapPathToTouchControllerInputState, read, path, Haptic
<1>15. Holds
  <2> HIDE DEF Holds
  <2> QED BY <1>1, <1>2, <1>3, <1>4, <1>5, <1>6, <1>7, <1>8, <1>9, <1>10,
             <1>11, <1>12, <1>13, <1>14
<1> QED BY <1>15 DEF name, path, control

(* The input of a profile that a Touch controller's stands for.            *)
Original(profile, hand, input) ==
    IF profile = "simple_controller" /\ input = "trigger" THEN "select"
    ELSE IF /\ profile \in {"simple_controller", "motion_controller",
                            "vive_controller"}
            /\ hand = Right /\ input = "a" THEN "menu"
    ELSE IF profile = "vive_controller" /\ input = "thumbstick" THEN "trackpad"
    ELSE IF profile = "index_controller" /\ input = "thumbrest" THEN "trackpad"
    ELSE IF profile = "index_controller" /\ hand = Left /\ input = "x" THEN "a"
    ELSE IF profile = "index_controller" /\ hand = Left /\ input = "y" THEN "b"
    ELSE input

(* A path stands for one of a Touch controller, of the same hand.          *)
Stands(profile, path, real) ==
    /\ real = <<path[1], real[2], path[3]>>
    /\ path[2] = Original(profile, path[1], real[2])
    /\ real[2] \in {"palm_ext", "grip_surface"} =>
          <<real[2], real[3]>> \in Palm \cup GripSurface

(* The remappings keep hand and component, and take no two inputs of a hand*)
(* to one.                                                                 *)
LEMMA RemappedFacts ==
    ASSUME NEW profile \in Mapped, NEW hand \in Hands, NEW input, NEW component,
           IsValidPath(profile, <<hand, input, component>>),
           Remapped(profile, <<hand, input, component>>) # None
    PROVE  Stands(profile, <<hand, input, component>>,
                  Remapped(profile, <<hand, input, component>>))
<1> DEFINE path == <<hand, input, component>>
           real == Remapped(profile, path)
<1> USE DEF Hands, Left, Right
<1>0. path[1] = hand /\ path[2] = input /\ path[3] = component OBVIOUS
<1>1. ASSUME NEW to, real = <<hand, to, component>>,
             input = Original(profile, hand, to),
             to \in {"palm_ext", "grip_surface"} =>
                <<to, component>> \in Palm \cup GripSurface
      PROVE  Stands(profile, path, real)
  <2> HIDE DEF real
  <2> QED BY <1>1 DEF Stands
<1>2. ASSUME input \in {"palm_ext", "grip_surface"},
             profile # "touch_controller"
      PROVE  <<input, component>> \in Palm \cup GripSurface
  <2>1. \/ profile = "simple_controller" /\ simple_controller(path)
        \/ profile = "vive_controller" /\ vive_controller(path)
        \/ profile = "index_controller" /\ index_controller(path)
        \/ profile = "motion_controller" /\ motion_controller(path)
    BY <1>2 DEF IsValidPath, Mapped
  <2>2. <<input, component>> \in Common
    BY <1>2, <2>1 DEF simple_controller, vive_controller, index_controller,
       motion_controller, Ends
  <2> QED BY <1>2, <2>2 DEF Common, Haptic, Poses
<1>3. ASSUME profile = "touch_controller" PROVE Stands(profile, path, real)
  <2>1. real = path BY <1>3 DEF Remapped
  <2>2. getTouchControllerLocalizedSourceName(path) # None
    BY <1>3 DEF IsValidPath, touch_controller
  <2>3. input \in {"palm_ext", "grip_surface"} =>
           <<input, component>> \in Palm \cup GripSurface
    BY <2>2 DEF getTouchControllerLocalizedSourceName, Face, Haptic
  <2>4. Original(profile, hand, input) = input BY <1>3 DEF Original
  <2> HIDE DEF real
  <2> QED BY <1>1, <2>1, <2>3, <2>4
<1>4. ASSUME profile = "simple_controller" PROVE Stands(profile, path, real)
  <2>1. real = remapSimpleControllerToTouchController(path)
    BY <1>4 DEF Remapped
  <2>2. PICK to :
           /\ real = <<hand, to, component>>
           /\ \/ to = "trigger" /\ input = "select"
              \/ to = "a" /\ hand = Right /\ input = "menu"
              \/ /\ to = input
                 /\ \/ hand = Left /\ input = "menu"
                    \/ input \in {"grip", "aim", "palm_ext", "grip_surface",
                                  "haptic"}
    BY <2>1, <1>0 DEF remapSimpleControllerToTouchController, At, IsAt, Ends,
       Kept, Haptic
  <2> HIDE DEF real
  <2>3. input = Original(profile, hand, to) BY <1>4, <2>2 DEF Original
  <2> QED BY <1>1, <1>2, <1>4, <2>2, <2>3
<1>5. ASSUME profile = "motion_controller" PROVE Stands(profile, path, real)
  <2>1. real = remapMicrosoftMotionControllerToTouchController(path)
    BY <1>5 DEF Remapped
  <2>2. PICK to :
           /\ real = <<hand, to, component>>
           /\ \/ to = "a" /\ hand = Right /\ input = "menu"
              \/ /\ to = input
                 /\ \/ hand = Left /\ input = "menu"
                    \/ input \in {"grip", "aim", "palm_ext", "grip_surface",
                                  "haptic", "squeeze", "trigger", "thumbstick",
                                  "trackpad"}
    BY <2>1, <1>0 DEF remapMicrosoftMotionControllerToTouchController, At,
       IsAt, Ends, Kept, Haptic, Squeezed
  <2> HIDE DEF real
  <2>3. input = Original(profile, hand, to) BY <1>5, <2>2 DEF Original
  <2> QED BY <1>1, <1>2, <1>5, <2>2, <2>3
<1>6. ASSUME profile = "vive_controller" PROVE Stands(profile, path, real)
  <2>1. real = remapViveControllerToTouchController(path)
    BY <1>6 DEF Remapped
  <2>2. PICK to :
           /\ real = <<hand, to, component>>
           /\ \/ to = "a" /\ hand = Right /\ input = "menu"
              \/ to = "thumbstick" /\ input = "trackpad"
              \/ /\ to = input
                 /\ \/ hand = Left /\ input = "menu"
                    \/ input \in {"grip", "aim", "palm_ext", "grip_surface",
                                  "haptic", "squeeze", "trigger", "system"}
    BY <2>1, <1>0 DEF remapViveControllerToTouchController, At, IsAt, Ends,
       Kept, Haptic
  <2> HIDE DEF real
  <2>3. input = Original(profile, hand, to) BY <1>6, <2>2 DEF Original
  <2> QED BY <1>1, <1>2, <1>6, <2>2, <2>3
<1>7. ASSUME profile = "index_controller" PROVE Stands(profile, path, real)
  <2>1. real = remapIndexControllerToTouchController(path)
    BY <1>7 DEF Remapped
  <2>2. PICK to :
           /\ real = <<hand, to, component>>
           /\ \/ to = "x" /\ hand = Left /\ input = "a"
              \/ to = "y" /\ hand = Left /\ input = "b"
              \/ to = "thumbrest" /\ input = "trackpad"
              \/ /\ to = input
                 /\ \/ hand = Right /\ input \in {"a", "b"}
                    \/ input \in {"grip", "aim", "palm_ext", "grip_surface",
                                  "haptic", "squeeze", "trigger", "thumbstick",
                                  "system"}
    BY <2>1, <1>0 DEF remapIndexControllerToTouchController, At, IsAt, Ends,
       Kept, Haptic, Squeezed
  <2> HIDE DEF real
  <2>3. input = Original(profile, hand, to) BY <1>7, <2>2 DEF Original
  <2> QED BY <1>1, <1>2, <1>7, <2>2, <2>3
<1> QED BY <1>3, <1>4, <1>5, <1>6, <1>7 DEF Mapped

LEMMA PathsFacts ==
    ASSUME NEW path \in Paths
    PROVE  path = <<path[1], path[2], path[3]>>
<1>1. CASE path \in Users \X (Inputs10 \cup Inputs11) \X Components BY <1>1
<1>2. CASE path \in HeadPaths BY <1>2 DEF HeadPaths
<1>3. CASE path \in GamepadPaths BY <1>3 DEF GamepadPaths
<1> QED BY <1>1, <1>2, <1>3 DEF Paths

(* Sources are those of what was suggested, all of it before the sets were *)
(* attached, and accepted.                                                 *)
SuggestedInv ==
    /\ ~attached => \A action \in Actions : actionSources[action] = {}
    /\ \A binding \in m_suggestedBindings[2] :
         /\ binding = <<binding[1], binding[2]>>
         /\ binding[2] \in Paths
         /\ IsValidPath(m_suggestedBindings[1], binding[2])
    /\ \A action \in Actions : \A bound \in actionSources[action] :
         /\ m_suggestedBindings[1] \in Mapped
         /\ \E side \in Hands : bound \in Bound(action, side)

(* What is asked of a single source.                                       *)
Sound(action, bound) ==
    LET name == getTouchControllerLocalizedSourceName(bound.realPath)
        control == Control(bound)
    IN /\ Matches(control, name, setup.type[action])
       /\ bound.realPath[1] = bound.path[1]
       /\ bound.source.reads \in Maps => bound.source.at[1] = bound.path[1]
       /\ bound.path[2] =
            Original(m_suggestedBindings[1], bound.path[1], control[1])
       /\ IndexTells(bound.source.sourceIndex, control)

LEMMA BoundIsSound ==
    ASSUME SuggestedInv, m_suggestedBindings[1] \in Mapped,
           NEW action \in Actions, NEW side \in Hands,
           NEW bound \in Bound(action, side)
    PROVE  Sound(action, bound)
<1> DEFINE profile == m_suggestedBindings[1]
           real(path) == Remapped(profile, path)
           source(path) ==
             mapPathToTouchControllerInputState(setup.type[action], real(path))
<1>1. PICK binding \in m_suggestedBindings[2] :
         /\ binding[2][1] = side
         /\ real(binding[2]) # None
         /\ source(binding[2]) # None
         /\ bound = [path |-> binding[2], realPath |-> real(binding[2]),
                     source |-> source(binding[2])]
  BY DEF Bound
<1> DEFINE path == binding[2]
           input == path[2]
           component == path[3]
           to == bound.realPath[2]
<1>2. /\ bound.path = path /\ bound.realPath = real(path)
      /\ bound.source = source(path)
  BY <1>1
<1>3. path = <<side, input, component>>
  BY <1>1, PathsFacts DEF SuggestedInv
<1>4. IsValidPath(profile, <<side, input, component>>)
  <2>1. IsValidPath(profile, path) BY DEF SuggestedInv
  <2> QED BY <2>1, <1>3
<1>5. Remapped(profile, <<side, input, component>>) # None
  <2>1. Remapped(profile, path) # None BY <1>1
  <2> QED BY <2>1, <1>3
<1> HIDE DEF profile, path, input, component
<1>6. Stands(profile, <<side, input, component>>,
             Remapped(profile, <<side, input, component>>))
  BY <1>4, <1>5, RemappedFacts DEF profile
<1>7. bound.realPath = Remapped(profile, <<side, input, component>>)
  BY <1>2, <1>3
<1>8. /\ bound.realPath = <<side, to, component>>
      /\ input = Original(profile, side, to)
      /\ to \in {"palm_ext", "grip_surface"} =>
            <<to, component>> \in Palm \cup GripSurface
  <2>1. Stands(profile, <<side, input, component>>, bound.realPath)
    BY <1>6, <1>7
  <2>2. /\ bound.realPath = <<side, to, component>>
        /\ input = Original(profile, side, to)
        /\ to \in {"palm_ext", "grip_surface"} =>
              <<to, bound.realPath[3]>> \in Palm \cup GripSurface
    BY <2>1 DEF Stands
  <2> HIDE DEF to
  <2> QED BY <2>2
<1>9. /\ bound.source = mapPathToTouchControllerInputState(setup.type[action],
                                                           bound.realPath)
      /\ bound.source # None
  BY <1>1, <1>2 DEF path
<1> HIDE DEF to
<1>10. /\ Matches(Control(bound),
                  getTouchControllerLocalizedSourceName(bound.realPath),
                  setup.type[action])
       /\ bound.source.reads \in Maps => bound.source.at[1] = side
       /\ Control(bound)[1] = to
       /\ IndexTells(bound.source.sourceIndex, Control(bound))
  <2> DEFINE type == setup.type[action]
  <2>1. /\ bound.realPath = <<side, to, component>>
        /\ bound.source =
             mapPathToTouchControllerInputState(type, bound.realPath)
        /\ bound.source # None
        /\ to \in {"palm_ext", "grip_surface"} =>
              <<to, component>> \in Palm \cup GripSurface
    BY <1>8, <1>9
  <2> HIDE DEF type
  <2>2. side \in Hands OBVIOUS
  <2>3. /\ Matches(Control(bound),
                   getTouchControllerLocalizedSourceName(bound.realPath), type)
        /\ bound.source.reads \in Maps => bound.source.at[1] = side
        /\ Control(bound)[1] = to
        /\ IndexTells(bound.source.sourceIndex, Control(bound))
    BY ONLY <2>1, <2>2, SourceFacts
  <2> QED BY <2>3 DEF type
<1>11. bound.path[1] = side /\ bound.path[2] = input /\ bound.realPath[1] = side
  BY <1>2, <1>3, <1>8
<1> QED BY <1>8, <1>10, <1>11 DEF Sound, profile

LEMMA SoundMatches ==
    ASSUME SuggestedInv
    PROVE  SourcesMatchTheirNames
<1>1. \A action \in Actions : \A bound \in actionSources[action] :
         Sound(action, bound)
  BY BoundIsSound DEF SuggestedInv
<1> SUFFICES ASSUME NEW action \in Actions, NEW bound \in actionSources[action]
             PROVE
        LET name == getTouchControllerLocalizedSourceName(bound.realPath)
            control == Control(bound)
        IN /\ name # None
           /\ bound.realPath[1] = bound.path[1]
           /\ bound.source.reads \in Maps => bound.source.at[1] = bound.path[1]
           /\ control[1] = name[1]
           /\ \/ control[2] = name[2]
              \/ control[2] = "pull" /\ name[2] = "press"
              \/ control[2] = "grip" /\ name[2] = "force"
              \/ control[2] = "press" /\ setup.type[action] = "boolean"
           /\ \A action2 \in Actions : \A other \in actionSources[action2] :
                /\ /\ other.source.sourceIndex # Invalid
                   /\ other.source.sourceIndex = bound.source.sourceIndex
                   => \/ Control(other) = control
                      \/ {Control(other)[2], control[2]} = {"pose"}
                /\ /\ other.path[1] = bound.path[1]
                   /\ Control(other)[1] = control[1]
                   => other.path[2] = bound.path[2]
  BY DEF SourcesMatchTheirNames
<1>2. Sound(action, bound) BY <1>1
<1>3. ASSUME NEW action2 \in Actions, NEW other \in actionSources[action2],
             other.source.sourceIndex # Invalid,
             other.source.sourceIndex = bound.source.sourceIndex
      PROVE  \/ Control(other) = Control(bound)
             \/ {Control(other)[2], Control(bound)[2]} = {"pose"}
  <2>1. Sound(action2, other) BY <1>1
  <2> QED BY <1>2, <1>3, <2>1 DEF Sound, IndexTells
<1>4. ASSUME NEW action2 \in Actions, NEW other \in actionSources[action2],
             other.path[1] = bound.path[1],
             Control(other)[1] = Control(bound)[1]
      PROVE  other.path[2] = bound.path[2]
  <2>1. Sound(action2, other) BY <1>1
  <2> QED BY <1>2, <1>4, <2>1 DEF Sound
<1>5. /\ getTouchControllerLocalizedSourceName(bound.realPath) # None
      /\ bound.realPath[1] = bound.path[1]
      /\ bound.source.reads \in Maps => bound.source.at[1] = bound.path[1]
      /\ LET name == getTouchControllerLocalizedSourceName(bound.realPath)
             control == Control(bound)
         IN /\ control[1] = name[1]
            /\ \/ control[2] = name[2]
               \/ control[2] = "pull" /\ name[2] = "press"
               \/ control[2] = "grip" /\ name[2] = "force"
               \/ control[2] = "press" /\ setup.type[action] = "boolean"
  BY <1>2 DEF Sound, Matches
<1> QED BY <1>3, <1>4, <1>5

LEMMA SuggestedInit == Init => SuggestedInv
BY DEF Init, SuggestedInv, NoSuggestion

LEMMA SameSuggestion ==
    ASSUME SuggestedInv, setup' = setup, actionSources' = actionSources,
           m_suggestedBindings' = m_suggestedBindings, attached => attached'
    PROVE  SuggestedInv'
<1>1. Actions' = Actions BY DEF Actions
<1>2. \A action, side : Bound(action, side)' = Bound(action, side) BY DEF Bound
<1> QED BY <1>1, <1>2 DEF SuggestedInv

LEMMA SuggestedStep ==
    ASSUME SuggestedInv, TypeOK, [Next]_vars
    PROVE  SuggestedInv'
<1>1. CASE /\ setup' = setup /\ actionSources' = actionSources
           /\ m_suggestedBindings' = m_suggestedBindings
           /\ attached => attached'
  BY <1>1, SameSuggestion
<1>2. ASSUME Suggest PROVE SuggestedInv'
  <2>1. PICK profile, suggested :
           /\ xrSuggestInteractionProfileBindings(profile, suggested)
           /\ \A binding \in suggested : /\ binding = <<binding[1], binding[2]>>
                                         /\ binding[2] \in Paths
    <3>1. CASE \E suggestion \in setup.suggestions :
                  xrSuggestInteractionProfileBindings(suggestion[1],
                                                      suggestion[2])
      <4>1. PICK suggestion \in setup.suggestions :
                  xrSuggestInteractionProfileBindings(suggestion[1],
                                                      suggestion[2])
        BY <3>1
      <4>2. Setup(setup) BY InputAssumption DEF TypeOK
      <4>3. suggestion[2] \subseteq (DOMAIN setup.type) \X Paths
        BY <4>2 DEF Setup
      <4>4. \A binding \in suggestion[2] :
               binding = <<binding[1], binding[2]>> /\ binding[2] \in Paths
        BY <4>3
      <4> QED BY <4>1, <4>4
    <3>2. CASE \E user \in setup.users, profile \in InteractionProfiles :
            LET all == {p \in Paths : p[1] = user /\ IsValidPath(profile, p)}
            IN xrSuggestInteractionProfileBindings(profile, Actions \X all)
      <4>1. PICK user, profile, all :
               /\ all = {p \in Paths : p[1] = user /\ IsValidPath(profile, p)}
               /\ xrSuggestInteractionProfileBindings(profile, Actions \X all)
        BY <3>2
      <4>2. \A binding \in Actions \X all :
               binding = <<binding[1], binding[2]>> /\ binding[2] \in Paths
        BY <4>1
      <4> QED BY <4>1, <4>2
    <3> QED BY <1>2, <3>1, <3>2 DEF Suggest
  <2>2. /\ ~attached /\ attached' = attached /\ setup' = setup
        /\ actionSources' = actionSources
        /\ m_suggestedBindings' = <<profile, suggested>>
        /\ \A binding \in suggested : IsValidPath(profile, binding[2])
    BY <2>1 DEF xrSuggestInteractionProfileBindings
  <2>3. \A action \in Actions : actionSources'[action] = {}
    BY <2>2 DEF SuggestedInv
  <2>4. Actions' = Actions BY <2>2 DEF Actions
  <2> QED BY <2>1, <2>2, <2>3, <2>4 DEF SuggestedInv
<1>3. ASSUME NEW sets, NEW sides, xrSyncActions(sets, sides), focused
      PROVE  SuggestedInv'
  <2>1. /\ attached /\ attached' = attached /\ setup' = setup
        /\ m_suggestedBindings' = m_suggestedBindings
        /\ \E gone \in SUBSET sides : Synced(sets, sides, gone)
    BY <1>3 DEF xrSyncActions
  <2>2. PICK changed, active :
           /\ actionSources' = rebindControllerActions(changed, active)
           /\ changed \subseteq Hands
    <3> PICK gone \in SUBSET sides : Synced(sets, sides, gone) BY <2>1
    <3> DEFINE seen == sides \cap (connected \cup setup.emulated)
               active == (m_isControllerActive \cup seen) \ gone
               changed == {side \in Hands :
                      (side \in active) # (side \in m_isControllerActive)}
    <3>1. actionSources' = rebindControllerActions(changed, active)
      BY DEF Synced
    <3>2. changed \subseteq Hands OBVIOUS
    <3> HIDE DEF active, changed
    <3> QED BY <3>1, <3>2
  <2>3. ASSUME NEW action \in Actions, NEW bound \in actionSources'[action]
        PROVE  /\ m_suggestedBindings[1] \in Mapped
               /\ \E side \in Hands : bound \in Bound(action, side)
    <3>1. \/ bound \in actionSources[action]
          \/ /\ m_suggestedBindings[1] \in Mapped
             /\ \E side \in changed : bound \in Bound(action, side)
      BY <2>2, <2>3 DEF rebindControllerActions
    <3> QED BY <2>2, <3>1 DEF SuggestedInv
  <2>4. Actions' = Actions BY <2>1 DEF Actions
  <2>5. \A action, side : Bound(action, side)' = Bound(action, side)
    BY <2>1 DEF Bound
  <2> QED BY <2>1, <2>3, <2>4, <2>5 DEF SuggestedInv
<1>4. CASE Sync
  <2>1. PICK sets, sides : xrSyncActions(sets, sides) BY <1>4 DEF Sync
  <2>2. CASE ~focused
    <3>1. /\ setup' = setup /\ actionSources' = actionSources
          /\ m_suggestedBindings' = m_suggestedBindings /\ attached' = attached
      BY <2>1, <2>2 DEF xrSyncActions
    <3> QED BY <1>1, <3>1
  <2> QED BY <2>1, <2>2, <1>3
<1>5. CASE ~Suggest /\ ~Sync
  <2>1. /\ setup' = setup /\ actionSources' = actionSources
        /\ m_suggestedBindings' = m_suggestedBindings
        /\ attached => attached'
    BY <1>5 DEF Next, Ask, vars, bindingVars, WorldChanges, FocusChanges,
       PulseEnds, xrAttachSessionActionSets, GetActionState,
       xrApplyHapticFeedback, xrStopHapticFeedback
  <2> QED BY <1>1, <2>1
<1> QED BY <1>2, <1>4, <1>5

-----------------------------------------------------------------------------
(* Motors that are on are heard of.                                        *)

(* A vibration that is suggested for a hand is bound to its controller.    *)
Drives(side) ==
    LET profile == m_suggestedBindings[1]
        path == <<side, Haptic[1], Haptic[2]>>
    IN /\ profile \in Mapped
       /\ Remapped(profile, path) # None
       /\ mapPathToTouchControllerInputState("vibration",
                                             Remapped(profile, path)) # None

(* All that is suggested for a controller is bound while it is there; a    *)
(* pulse is of a controller that can vibrate, and not of one whose         *)
(* vibration was stopped while it was there.                               *)
HeardInv ==
    /\ ~attached => /\ m_isControllerActive = {}
                    /\ \A side \in Hands : m_currentVibration[side] = "none"
    /\ m_suggestedBindings[1] \in Mapped =>
         \A action \in Actions : \A side \in m_isControllerActive :
            Bound(action, side) \subseteq actionSources[action]
    /\ \A side \in Hands : m_currentVibration[side] # "none" =>
         asked[side] # "no" /\ Drives(side)

LEMMA HeardInit == Init => HeardInv
BY DEF Init, HeardInv

(* The bindings and the haptics are as they were, or pulses end.           *)
LEMMA SameHeard ==
    ASSUME HeardInv, setup' = setup, UNCHANGED bindingVars,
           m_isControllerActive' = m_isControllerActive, asked' = asked,
           \A side \in Hands : m_currentVibration[side] = "none" =>
                               m_currentVibration'[side] = "none"
    PROVE  HeardInv'
<1>1. /\ Actions' = Actions /\ attached' = attached
      /\ actionSources' = actionSources
      /\ m_suggestedBindings' = m_suggestedBindings
  BY DEF Actions, bindingVars
<1>2. /\ \A action, side : Bound(action, side)' = Bound(action, side)
      /\ \A side : Drives(side)' = Drives(side)
  BY <1>1 DEF Bound, Drives
<1> QED BY <1>1, <1>2 DEF HeardInv

(* A hand that an action has vibrate was meant to be and can be, and one   *)
(* that was meant to be and is there is one that the action has.           *)
LEMMA OutputsFacts ==
    ASSUME TypeOK, SuggestedInv, HeardInv, NEW action \in Actions, NEW query,
           setup.type[action] = "vibration"
    PROVE  /\ \A side \in Outputs(action, query) :
                side \in Meant(action, query) /\ Drives(side)
           /\ \A side \in Meant(action, query) :
                side \in m_isControllerActive /\ Drives(side) =>
                side \in Outputs(action, query)
<1> DEFINE profile == m_suggestedBindings[1]
           real(path) == Remapped(profile, path)
           source(path) == mapPathToTouchControllerInputState("vibration",
                                                              real(path))
           haptic(side) == <<side, Haptic[1], Haptic[2]>>
<1>1. ASSUME NEW side \in Outputs(action, query)
      PROVE  side \in Meant(action, query) /\ Drives(side)
  <2>1. PICK s \in actionSources[action] :
           /\ s.path[1] = side
           /\ query = None \/ s.path[1] = query
           /\ <<s.path[2], s.path[3]>> = Haptic
    BY <1>1 DEF Outputs, IsFor
  <2>2. PICK hand \in Hands : s \in Bound(action, hand)
    BY DEF SuggestedInv
  <2>3. profile \in Mapped BY DEF SuggestedInv
  <2>4. PICK binding \in m_suggestedBindings[2] :
           /\ binding[1] = action
           /\ binding[2][1] = hand
           /\ real(binding[2]) # None /\ source(binding[2]) # None
           /\ s.path = binding[2]
    BY <2>2 DEF Bound
  <2>5. binding[2] = <<binding[2][1], binding[2][2], binding[2][3]>>
    BY PathsFacts DEF SuggestedInv
  <2>6. binding[2] = haptic(side) /\ side \in Hands
    BY <2>1, <2>4, <2>5 DEF Haptic
  <2>7. binding = <<action, haptic(side)>>
    BY <2>4, <2>6 DEF SuggestedInv
  <2>8. side \in Meant(action, query) BY <2>1, <2>6, <2>7 DEF Meant
  <2>9. real(haptic(side)) # None /\ source(haptic(side)) # None
    BY <2>4, <2>6
  <2> QED BY <2>3, <2>8, <2>9 DEF Drives
<1>2. ASSUME NEW side \in Meant(action, query), side \in m_isControllerActive,
             Drives(side)
      PROVE  side \in Outputs(action, query)
  <2>1. /\ side \in Hands
        /\ query = None \/ side = query
        /\ <<action, haptic(side)>> \in m_suggestedBindings[2]
    BY <1>2 DEF Meant
  <2>2. profile \in Mapped /\ real(haptic(side)) # None
        /\ source(haptic(side)) # None
    BY <1>2 DEF Drives
  <2> DEFINE s == [path |-> haptic(side), realPath |-> real(haptic(side)),
                   source |-> source(haptic(side))]
  <2>3. s \in Bound(action, side)
    <3>1. <<action, haptic(side)>>[1] = action
          /\ <<action, haptic(side)>>[2] = haptic(side)
          /\ haptic(side)[1] = side
      OBVIOUS
    <3> HIDE DEF profile
    <3> QED BY <2>1, <2>2, <3>1 DEF Bound, profile
  <2>4. s \in actionSources[action]
    BY <1>2, <2>2, <2>3 DEF HeardInv
  <2>5. s.path[1] = side /\ <<s.path[2], s.path[3]>> = Haptic BY DEF Haptic
  <2> HIDE DEF s
  <2> QED BY <2>1, <2>4, <2>5 DEF Outputs, IsFor
<1> QED BY <1>1, <1>2

LEMMA HeardVibration ==
    ASSUME TypeOK, SuggestedInv, HeardInv,
           NEW action \in Actions, NEW query, NEW pulse \in {"playing", "none"},
           setup.type[action] = "vibration", attached,
           SetVibration(action, query, pulse), setup' = setup,
           UNCHANGED bindingVars, m_isControllerActive' = m_isControllerActive
    PROVE  HeardInv'
<1>1. /\ Actions' = Actions /\ attached' = attached
      /\ actionSources' = actionSources
      /\ m_suggestedBindings' = m_suggestedBindings
  BY DEF Actions, bindingVars
<1>2. /\ \A a, side : Bound(a, side)' = Bound(a, side)
      /\ \A side : Drives(side)' = Drives(side)
  BY <1>1 DEF Bound, Drives
<1>3. ASSUME NEW side \in Hands, m_currentVibration'[side] # "none"
      PROVE  asked'[side] # "no" /\ Drives(side)
  <2>1. m_currentVibration'[side] = IF side \in Outputs(action, query)
                                    THEN pulse ELSE m_currentVibration[side]
    BY DEF SetVibration
  <2>2. asked'[side] = IF side \in Meant(action, query)
                       THEN IF pulse # "none" THEN "yes"
                            ELSE IF side \in m_isControllerActive THEN "no"
                                 ELSE "unheard"
                       ELSE asked[side]
    BY DEF SetVibration
  <2>3. CASE side \in Outputs(action, query)
    <3>1. side \in Meant(action, query) /\ Drives(side) BY <2>3, OutputsFacts
    <3>2. pulse # "none" BY <1>3, <2>1, <2>3
    <3> QED BY <2>2, <3>1, <3>2
  <2>4. CASE side \notin Outputs(action, query)
    <3>1. m_currentVibration[side] # "none" BY <1>3, <2>1, <2>4
    <3>2. asked[side] # "no" /\ Drives(side) BY <3>1 DEF HeardInv
    <3>3. ~(side \in Meant(action, query) /\ side \in m_isControllerActive)
      BY <2>4, <3>2, OutputsFacts
    <3> QED BY <2>2, <3>2, <3>3
  <2> QED BY <2>3, <2>4
<1> QED BY <1>1, <1>2, <1>3 DEF HeardInv

LEMMA HeardSync ==
    ASSUME TypeOK, SuggestedInv, HeardInv, NEW sets, NEW sides \in SUBSET Hands,
           xrSyncActions(sets, sides), focused
    PROVE  HeardInv'
<1>1. /\ setup' = setup /\ attached /\ attached' = attached
      /\ m_suggestedBindings' = m_suggestedBindings
      /\ \E gone \in SUBSET sides : Synced(sets, sides, gone)
  BY DEF xrSyncActions
<1>2. PICK active, changed :
         /\ active \subseteq Hands
         /\ m_isControllerActive' = active
         /\ actionSources' = rebindControllerActions(changed, active)
         /\ \A side \in active :
               side \in changed \/ side \in m_isControllerActive
  <2> PICK gone \in SUBSET sides : Synced(sets, sides, gone) BY <1>1
  <2> DEFINE seen == sides \cap (connected \cup setup.emulated)
             active == (m_isControllerActive \cup seen) \ gone
             changed == {side \in Hands :
                      (side \in active) # (side \in m_isControllerActive)}
  <2>1. /\ m_isControllerActive' = active
        /\ actionSources' = rebindControllerActions(changed, active)
    BY DEF Synced
  <2>2. active \subseteq Hands BY DEF TypeOK
  <2> HIDE DEF active
  <2>3. \A side \in active : side \in changed \/ side \in m_isControllerActive
    BY <2>2
  <2> HIDE DEF changed
  <2> QED BY <2>1, <2>2, <2>3
<1>3. /\ asked' = asked
      /\ \A side \in Hands : m_currentVibration[side] = "none" =>
                              m_currentVibration'[side] = "none"
  BY <1>1 DEF Synced, ReassertHaptics
<1>4. /\ Actions' = Actions
      /\ \A a, side : Bound(a, side)' = Bound(a, side)
      /\ \A side : Drives(side)' = Drives(side)
  BY <1>1 DEF Actions, Bound, Drives
<1>5. ASSUME NEW action \in Actions, NEW side \in active,
             m_suggestedBindings[1] \in Mapped
      PROVE  Bound(action, side) \subseteq actionSources'[action]
  <2>1. actionSources'[action] =
          {s \in actionSources[action] : s.path[1] \notin changed}
            \cup UNION {Bound(action, hand) : hand \in changed \cap active}
    BY <1>2, <1>5 DEF rebindControllerActions
  <2>2. CASE side \in changed BY <2>1, <2>2
  <2>3. CASE side \notin changed
    <3>1. Bound(action, side) \subseteq actionSources[action]
      BY <1>2, <1>5, <2>3 DEF HeardInv
    <3> QED BY <2>1, <2>3, <3>1, BoundSide
  <2> QED BY <2>2, <2>3
<1> QED BY <1>1, <1>2, <1>3, <1>4, <1>5 DEF HeardInv

LEMMA HeardStep ==
    ASSUME TypeOK, SuggestedInv, HeardInv, [Next]_vars
    PROVE  HeardInv'
<1>1. ASSUME Suggest PROVE HeardInv'
  <2>1. /\ ~attached /\ attached' = attached /\ UNCHANGED haptics
        /\ m_isControllerActive' = m_isControllerActive
    BY <1>1 DEF Suggest, xrSuggestInteractionProfileBindings, inputs
  <2> QED BY <2>1 DEF HeardInv, haptics
<1>2. ASSUME xrAttachSessionActionSets PROVE HeardInv'
  <2>1. /\ attached' /\ UNCHANGED haptics /\ setup' = setup
        /\ actionSources' = actionSources
        /\ m_suggestedBindings' = m_suggestedBindings
        /\ m_isControllerActive' = m_isControllerActive
    BY <1>2 DEF xrAttachSessionActionSets, inputs
  <2>2. /\ Actions' = Actions
        /\ \A a, side : Bound(a, side)' = Bound(a, side)
        /\ \A side : Drives(side)' = Drives(side)
    BY <2>1 DEF Actions, Bound, Drives
  <2> QED BY <2>1, <2>2 DEF HeardInv, haptics
<1>3. CASE Sync
  <2>1. PICK sets \in SUBSET ActionSets, chosen \in setup.syncs :
           xrSyncActions(sets, IF sets = {} THEN {} ELSE chosen)
    BY <1>3 DEF Sync
  <2> DEFINE sides == IF sets = {} THEN {} ELSE chosen
  <2>2. sides \in SUBSET Hands BY SetupFacts
  <2>3. xrSyncActions(sets, sides) BY <2>1
  <2> HIDE DEF sides
  <2>4. CASE ~focused
    <3>1. /\ setup' = setup /\ attached' = attached
          /\ m_suggestedBindings' = m_suggestedBindings
          /\ UNCHANGED <<m_isControllerActive, cachedInputState, generation,
                         synced, actionSources, haptics>>
      BY <2>3, <2>4 DEF xrSyncActions
    <3>2. /\ UNCHANGED bindingVars /\ asked' = asked
          /\ m_currentVibration' = m_currentVibration
          /\ m_isControllerActive' = m_isControllerActive
      BY <3>1 DEF bindingVars, haptics
    <3> QED BY <3>1, <3>2, SameHeard
  <2> QED BY <2>2, <2>3, <2>4, HeardSync
<1>4. ASSUME NEW action \in Actions, NEW query \in setup.queries,
             \/ xrApplyHapticFeedback(action, query)
             \/ xrStopHapticFeedback(action, query)
      PROVE  HeardInv'
  <2>1. /\ setup' = setup /\ UNCHANGED bindingVars /\ attached
        /\ m_isControllerActive' = m_isControllerActive
        /\ setup.type[action] = "vibration"
    BY <1>4 DEF xrApplyHapticFeedback, xrStopHapticFeedback, inputs
  <2>2. PICK pulse \in {"playing", "none"} : SetVibration(action, query, pulse)
    BY <1>4 DEF xrApplyHapticFeedback, xrStopHapticFeedback
  <2> QED BY <2>1, <2>2, HeardVibration
<1>5. ASSUME PulseEnds PROVE HeardInv'
  <2>1. /\ setup' = setup /\ UNCHANGED bindingVars /\ asked' = asked
        /\ m_isControllerActive' = m_isControllerActive
    BY <1>5 DEF PulseEnds, inputs
  <2>2. \A side \in Hands : m_currentVibration[side] = "none" =>
                            m_currentVibration'[side] = "none"
    BY <1>5 DEF PulseEnds, TypeOK
  <2> QED BY <2>1, <2>2, SameHeard
<1>6. ASSUME \/ WorldChanges \/ FocusChanges \/ UNCHANGED vars
             \/ \E action \in Actions, query \in setup.queries :
                   GetActionState(action, query)
      PROVE  HeardInv'
  <2>1. /\ setup' = setup /\ UNCHANGED bindingVars /\ UNCHANGED haptics
        /\ m_isControllerActive' = m_isControllerActive
    BY <1>6 DEF WorldChanges, FocusChanges, GetActionState, vars, inputs
  <2> QED BY <2>1, SameHeard DEF haptics
<1> QED BY <1>1, <1>2, <1>3, <1>4, <1>5, <1>6 DEF Next, Ask

-----------------------------------------------------------------------------
(* Theorems.                                                               *)

(* The variables have their types.                                         *)
THEOREM TypeCorrect == Spec => []TypeOK
<1>1. Basics => TypeOK BY DEF Basics
<1> QED BY BasicsInit, BasicsStep, <1>1, PTL DEF Spec

(* A motor is on only while the runtime knows of a pulse of that           *)
(* controller, and not after the application has stopped it, bound or not, *)
(* while the controller was there (action.cpp:1587, 1614). A stop that is  *)
(* given when it is not is lost: see StoppedIsStopped.                     *)
THEOREM VibrationIsAskedHolds == Spec => []VibrationIsAsked
<1> DEFINE Inv == Basics /\ SuggestedInv /\ HeardInv
<1>1. Init => Inv BY BasicsInit, SuggestedInit, HeardInit
<1>2. Inv /\ [Next]_vars => Inv'
  BY BasicsStep, SuggestedStep, HeardStep DEF Basics
<1>3. Inv => VibrationIsAsked
  BY DEF Basics, TypeOK, VibInv, HeardInv, VibrationIsAsked
<1> QED BY <1>1, <1>2, <1>3, PTL DEF Spec

(* Of a controller that the helper emulates, a set that was last synced for*)
(* its side has no button, touch, trigger, grip or stick of the physical   *)
(* one but the system button (action.cpp:1127): its trigger is what the    *)
(* helper had polled, or the strength of a pinch, or at rest, and its      *)
(* buttons are the helper's menu button and those of a palm that is        *)
(* touched, all as they were at that time.                                 *)
THEOREM EmulatedHidesPhysicalHolds == Spec => []EmulatedHidesPhysical
<1>1. Basics => EmulatedHidesPhysical BY DEF Basics
<1> QED BY BasicsInit, BasicsStep, <1>1, PTL DEF Spec

(* What is bound reads the control that its name tells the user, on the    *)
(* hand it was suggested for, whatever the profile; no two inputs of one   *)
(* profile share a control, and no two controls a priority                 *)
(* (mappings.cpp:657, 779, 952; action.cpp:1091).                          *)
THEOREM SourcesMatchTheirNamesHolds == Spec => []SourcesMatchTheirNames
<1>1. Init => Basics /\ SuggestedInv BY BasicsInit, SuggestedInit
<1>2. Basics /\ SuggestedInv /\ [Next]_vars => (Basics /\ SuggestedInv)'
  BY BasicsStep, SuggestedStep DEF Basics
<1>3. Basics /\ SuggestedInv => SourcesMatchTheirNames BY SoundMatches
<1> QED BY <1>1, <1>2, <1>3, PTL DEF Spec

(* Whoever asks for the state of an action sees a change if and only if the*)
(* value is not the one it saw before, until the next xrSyncActions and    *)
(* however often it asks (action.cpp:639). Of the applications this speaks *)
(* of none asks both for an action as a whole and for its left hand: these *)
(* have one last value, so that one of them would be told of no change that*)
(* the other has seen.                                                     *)
THEOREM ChangesToldOnceHolds ==
    ASSUME \A chosen \in Setups : OneAsker(chosen)
    PROVE  Spec => ChangesToldOnce
<1> DEFINE Inv == Basics /\ ToldInv
           Asked == \A a \in Actions : \A q \in setup.queries :
                       Once(told[a][q], told'[a][q])
<1>1. Init => Inv BY BasicsInit, ToldInit
<1>2. Inv => OneAsker(setup) BY DEF Basics, TypeOK
<1>3. Inv /\ [Next]_vars => Inv' /\ Asked
  <2> SUFFICES ASSUME Inv, [Next]_vars PROVE Inv' /\ Asked OBVIOUS
  <2>1. OneAsker(setup) BY <1>2
  <2>2. Basics' BY BasicsStep
  <2> QED BY <2>1, <2>2, ToldStep
<1>4. Inv /\ [Next]_vars =>
        [\A action \in Actions : \A query \in setup.queries :
         LET before == told[action][query]
             now == told'[action][query]
         IN before # None /\ now # before =>
              now.changed <=>
                \/ now.value # before.value
                \/ now.generation = before.generation /\ before.changed]_vars
  BY <1>3 DEF Once
<1> HIDE DEF Inv, Asked
<1>5. Init /\ [][Next]_vars => []Inv BY <1>1, <1>3, PTL
<1> QED BY <1>4, <1>5, PTL DEF Spec, ChangesToldOnce
=============================================================================
