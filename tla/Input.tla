-------------------------------- MODULE Input --------------------------------
(***************************************************************************)
(* From a controller to what the application is told of its actions, and   *)
(* back to the controller's motors (action.cpp, mappings.cpp).             *)
(*                                                                         *)
(* The paths the application suggests are bound, when a controller comes   *)
(* or goes, to what Mappings says they read.  xrSyncActions takes the      *)
(* state of both controllers, puts the accessibility helper's in its place *)
(* for a controller that is emulated, adds what the hands' gestures press, *)
(* and gives each action set that it names a copy.  xrGetActionState...    *)
(* combines what an action's sources read there, and tells what changed    *)
(* from what was told last.  A haptic pulse is on until it is stopped, or  *)
(* until an xrSyncActions finds that its time is over.                     *)
(*                                                                         *)
(* The calls hold m_actionsAndSpacesMutex throughout: each is one step.    *)
(* All sets have one priority here, so no source is taken from a set by    *)
(* another: see Actions for those that are, for the life of the handles,   *)
(* and for the choice of a profile among several.                          *)
(*                                                                         *)
(* Analog values are in halves: 2 is a trigger pulled all the way.         *)
(***************************************************************************)
EXTENDS Mappings, Integers, FiniteSets

CONSTANTS
    Setups          \* applications and their users: see Setup

ActionTypes == {"boolean", "float", "vector", "pose", "vibration"}
Buttons == Hands \X {"x", "y", "a", "b", "menu", "system", "trigger",
                     "thumbstick", "thumbrest"}
Halves == -2 .. 2
\* ovrInputState, as far as a path reads it.
InputState ==
    [Buttons : SUBSET Buttons, Touches : SUBSET Buttons,
     IndexTrigger : [Hands -> Halves], HandTrigger : [Hands -> Halves],
     ThumbstickNoDeadzone : [Hands -> Halves \X Halves]]
AtRest ==
    [Buttons |-> {}, Touches |-> {},
     IndexTrigger |-> [side \in Hands |-> 0],
     HandTrigger |-> [side \in Hands |-> 0],
     ThumbstickNoDeadzone |-> [side \in Hands |-> <<0, 0>>]]
\* m_cachedBodyState: hands that are tracked, the strength of each one's pinch,
\* and the palms that the other hand's index finger touches.
Bodies == [active : SUBSET Hands, pinch : [Hands -> 0 .. 2],
           touched : SUBSET Hands]

\* What an application does and its user has.
Setup(chosen) ==
    /\ chosen.type \in [DOMAIN chosen.type -> ActionTypes]
    /\ DOMAIN chosen.set = DOMAIN chosen.type
    /\ \A pair \in chosen.suggestions :      \* a profile and its bindings
         /\ pair[1] \in InteractionProfiles
         /\ pair[2] \subseteq (DOMAIN chosen.type) \X Paths
    /\ chosen.users \subseteq Users     \* or all paths of one of these
    /\ chosen.connects \subseteq SUBSET Hands       \* the controllers there are
    /\ chosen.queries \subseteq Hands \cup {None}   \* subaction paths
    /\ chosen.syncs \subseteq SUBSET Hands          \* and those of its sets
    /\ chosen.states \subseteq InputState           \* of the controllers
    /\ chosen.bodies \subseteq Bodies
    /\ chosen.emulated \subseteq Hands              \* by the helper,
    /\ chosen.dominant \in Hands
    /\ chosen.polled \subseteq InputState           \* from a game pad, or,
    /\ chosen.touchButtons \in BOOLEAN              \* to debug, a controller
    /\ chosen.maxGeneration \in Nat     \* bound: how often a set is synced

ASSUME InputAssumption ==
    /\ \A chosen \in Setups : Setup(chosen)
    /\ None \notin Hands

VARIABLES
    setup,          \* the application, and its user
    connected,      \* the controllers LibOVR has
    ovrInputState,  \* and what they are doing
    m_cachedBodyState,
    m_controllerInputState, \* the helper's own: what its thread has polled
    followGaze,     \* the controllers the helper shows now
    focused,        \* m_sessionState is XR_SESSION_STATE_FOCUSED
    m_suggestedBindings,    \* of one profile, and that profile
    attached,       \* m_attachedActionSets is not empty
    m_activeActionSets,
    m_isControllerActive,   \* and m_cachedControllerType is not empty
    actionSources,  \* Action::actionSources
    cachedInputState,       \* ActionSet::cachedInputState
    generation,     \* ActionSet::generation
    last,           \* Action::last...Value and Action::lastChangedGeneration
    m_currentVibration,     \* a pulse: "none", "playing" or "over"
    motor,          \* the controllers LibOVR has vibrate
    told,           \* history: the last state told for each query
    asked,          \* history: if the application has each controller vibrate:
                    \* "unheard" if it stopped it when it was not there
    synced          \* history: the hands each set was synced for last, and
                    \* what the helper and the hands were doing then

devices == <<connected, ovrInputState, m_cachedBodyState,
             m_controllerInputState, followGaze>>
bindingVars == <<m_suggestedBindings, attached, actionSources>>
inputs == <<m_activeActionSets, m_isControllerActive, cachedInputState,
            generation, synced>>
answers == <<last, told>>
haptics == <<m_currentVibration, motor, asked>>
vars == <<setup, devices, focused, bindingVars, inputs, answers, haptics>>

Actions == DOMAIN setup.type
ActionSets == {setup.set[action] : action \in Actions}
Rest(type) ==
    CASE type = "boolean" -> FALSE
      [] type = "vector" -> <<0, 0>>
      [] OTHER -> 0

NoSuggestion == <<None, {}>>
NoBody == [active |-> {}, pinch |-> [side \in Hands |-> 0], touched |-> {}]

Init ==
    /\ setup \in Setups
    /\ connected = {}
    /\ ovrInputState = AtRest
    /\ m_cachedBodyState = NoBody
    /\ m_controllerInputState = AtRest
    /\ followGaze = {}
    /\ focused = FALSE
    /\ m_suggestedBindings = NoSuggestion
    /\ attached = FALSE
    /\ m_activeActionSets = {}
    /\ m_isControllerActive = {}
    /\ actionSources = [action \in Actions |-> {}]
    /\ cachedInputState = [set \in ActionSets |-> AtRest]
    /\ generation = [set \in ActionSets |-> 0]
    /\ last = [action \in Actions |->
                 [side \in Hands |-> [value |-> Rest(setup.type[action]),
                                      generation |-> 0]]]
    /\ m_currentVibration = [side \in Hands |-> "none"]
    /\ motor = {}
    /\ told = [action \in Actions |-> [query \in setup.queries |-> None]]
    /\ asked = [side \in Hands |-> "no"]
    /\ synced = [set \in ActionSets |->
                   [sides |-> {}, helper |-> AtRest, body |-> NoBody]]

-----------------------------------------------------------------------------
(* What happens to the runtime: the user and LibOVR, the helper's thread,  *)
(* and the session's state.                                                *)

ControllerChanges ==
    /\ connected' \in setup.connects
    /\ ovrInputState' \in setup.states
    /\ UNCHANGED <<m_cachedBodyState, m_controllerInputState, followGaze>>

BodyMoves ==
    /\ m_cachedBodyState' \in setup.bodies
    /\ UNCHANGED <<connected, ovrInputState, m_controllerInputState, followGaze>>

\* InputThread() runs if a controller is emulated. It polls without a lock, so
\* half of what it writes may be read with half of what was there before: the
\* readings in setup.polled have all combinations of what is read.
HelperPolls ==
    /\ setup.emulated # {}
    /\ m_controllerInputState' \in IF setup.touchButtons THEN {ovrInputState}
                                   ELSE setup.polled
    /\ UNCHANGED <<connected, ovrInputState, m_cachedBodyState, followGaze>>

\* Two buttons next to the dominant thumb choose the controllers that follow the
\* gaze: with neither pressed, at most one of those that did still does.
HelperTurns ==
    LET button(side) == IF setup.dominant = Left
                        THEN <<Left, IF side = Left THEN "x" ELSE "y">>
                        ELSE <<Right, IF side = Left THEN "a" ELSE "b">>
        pressed == {side \in Hands :
                      button(side) \in m_controllerInputState.Buttons}
    IN /\ setup.emulated # {}
       /\ followGaze' = IF pressed # {} THEN pressed
                        ELSE IF setup.dominant \in followGaze
                             THEN {setup.dominant} ELSE followGaze
       /\ UNCHANGED <<connected, ovrInputState, m_cachedBodyState,
                      m_controllerInputState>>

WorldChanges ==
    /\ ControllerChanges \/ BodyMoves \/ HelperPolls \/ HelperTurns
    /\ UNCHANGED <<setup, focused, bindingVars, inputs, answers, haptics>>

FocusChanges ==
    /\ focused' = ~focused
    /\ UNCHANGED <<setup, devices, bindingVars, inputs, answers, haptics>>

\* The time of a pulse is over, which nothing notices yet.
PulseEnds ==
    /\ \E side \in Hands :
         /\ m_currentVibration[side] = "playing"
         /\ m_currentVibration' = [m_currentVibration EXCEPT ![side] = "over"]
    /\ UNCHANGED <<setup, devices, focused, bindingVars, inputs, answers, motor,
                   asked>>

-----------------------------------------------------------------------------
(* Bindings.                                                               *)

\* The call is refused for a profile that is not known, and for all its paths
\* when one of them is not.
xrSuggestInteractionProfileBindings(profile, suggested) ==
    /\ ~attached
    /\ Known(profile)
    /\ \A binding \in suggested : IsValidPath(profile, binding[2])
    /\ m_suggestedBindings' = <<profile, suggested>>
    /\ UNCHANGED <<setup, devices, focused, attached, actionSources, inputs,
                   answers, haptics>>

xrAttachSessionActionSets ==
    /\ ~attached
    /\ attached' = TRUE
    /\ UNCHANGED <<setup, devices, focused, m_suggestedBindings, actionSources,
                   inputs, answers, haptics>>

\* The sources of an action on a side, from what is suggested.
Bound(action, side) ==
    LET profile == m_suggestedBindings[1]
        type == setup.type[action]
        paths == {binding[2] : binding \in
                    {b \in m_suggestedBindings[2] : b[1] = action}}
        real(path) == Remapped(profile, path)
        source(path) == mapPathToTouchControllerInputState(type, real(path))
        mapped == {path \in paths : /\ path[1] = side
                                    /\ real(path) # None
                                    /\ source(path) # None}
    IN {[path |-> path, realPath |-> real(path), source |-> source(path)] :
          path \in mapped}

\* Controllers on these sides came or went: theirs are the sources that change.
rebindControllerActions(sides, active) ==
    [action \in Actions |->
       {source \in actionSources[action] : source.path[1] \notin sides}
         \cup IF m_suggestedBindings[1] \in Mapped
              THEN UNION {Bound(action, side) : side \in sides \cap active}
              ELSE {}]

-----------------------------------------------------------------------------
(* Inputs.                                                                 *)

Larger(a, b) == IF a >= b THEN a ELSE b

Menu == <<Left, "menu">>
Home == <<Right, "system">>

\* What the helper shows of an emulated controller: the trigger of the dominant
\* hand and the menu button, of what its thread polled last; or nothing.
GetEmulatedInputState(side) ==
    IF side \notin followGaze THEN AtRest
    ELSE [AtRest EXCEPT
            !.IndexTrigger[side] =
               m_controllerInputState.IndexTrigger[setup.dominant],
            !.Buttons = m_controllerInputState.Buttons \cap {Menu}]

\* Mutant: the physical trigger is left in for a controller that is not shown.
Mutant_Override(state, side) ==
    LET shown == GetEmulatedInputState(side)
        others(map) == {button \in map : button[1] # side}
        own(map) == {button \in map : button[1] = side}
    IN [state EXCEPT
          !.Buttons = others(@) \cup (@ \cap {Home}) \cup own(shown.Buttons),
          !.Touches = others(@) \cup own(shown.Touches),
          !.IndexTrigger[side] =
             IF side \in followGaze THEN shown.IndexTrigger[side] ELSE @,
          !.HandTrigger[side] = shown.HandTrigger[side],
          !.ThumbstickNoDeadzone[side] = shown.ThumbstickNoDeadzone[side]]

\* The masks of a side's buttons have the menu button with the left one's, and
\* the system button with neither.
Override(state, side) ==
    LET shown == GetEmulatedInputState(side)
        others(map) == {button \in map : button[1] # side}
        own(map) == {button \in map : button[1] = side}
    IN [state EXCEPT
          !.Buttons = others(@) \cup (@ \cap {Home}) \cup own(shown.Buttons),
          !.Touches = others(@) \cup own(shown.Touches),
          !.IndexTrigger[side] = shown.IndexTrigger[side],
          !.HandTrigger[side] = shown.HandTrigger[side],
          !.ThumbstickNoDeadzone[side] = shown.ThumbstickNoDeadzone[side]]

\* A pinch pulls the trigger, and a touched palm presses Y or B. For the left
\* hand the right one's being tracked will do, and a palm may be touched by a
\* hand that is not tracked.
processHandGestures(state, side) ==
    LET body == m_cachedBodyState
        tracked == side \in body.active \/ Right \in body.active
        pressed == IF side \in body.active \cap body.touched
                   THEN {<<side, IF side = Left THEN "y" ELSE "b">>} ELSE {}
    IN IF ~tracked THEN state
       ELSE [state EXCEPT
               !.IndexTrigger[side] = Larger(@, body.pinch[side]),
               !.Buttons = @ \cup pressed]

\* The state of one side, when its controller is there.
Sampled(state, side) ==
    processHandGestures(
        IF side \in setup.emulated THEN Override(state, side) ELSE state, side)

Latched(sides) ==
    LET left == IF Left \in sides THEN Sampled(ovrInputState, Left)
                ELSE ovrInputState
    IN IF Right \in sides THEN Sampled(left, Right) ELSE left

\* Pulses whose time is over end, the others are asserted again. The helper does
\* not pass on those of the controllers it emulates.
ReassertHaptics ==
    LET pulse(side) == m_currentVibration[side]
        driven(state) ==
            {side \in Hands \ setup.emulated : pulse(side) = state}
    IN /\ m_currentVibration' =
            [side \in Hands |->
               IF pulse(side) = "over" THEN "none" ELSE pulse(side)]
       /\ motor' = (motor \ driven("over")) \cup driven("playing")
       /\ UNCHANGED asked

\* The application names these sets, for these hands. A controller that is not
\* seen stays for a while; "gone" are those that did not.
Synced(sets, sides, gone) ==
    LET seen == sides \cap (connected \cup setup.emulated)
        active == (m_isControllerActive \cup seen) \ gone
        changed == {side \in Hands :
                      (side \in active) # (side \in m_isControllerActive)}
    IN /\ gone \subseteq sides \ seen
       /\ \A set \in sets : generation[set] < setup.maxGeneration
       /\ m_isControllerActive' = active
       /\ actionSources' = rebindControllerActions(changed, active)
       /\ cachedInputState' =
            [set \in ActionSets |->
               IF set \in sets THEN Latched(seen) ELSE cachedInputState[set]]
       /\ generation' =
            [set \in ActionSets |->
               generation[set] + IF set \in sets THEN 1 ELSE 0]
       /\ synced' =
            [set \in ActionSets |->
               IF set \in sets
               THEN [sides |-> sides, helper |-> m_controllerInputState,
                     body |-> m_cachedBodyState]
               ELSE synced[set]]
       /\ ReassertHaptics

xrSyncActions(sets, sides) ==
    /\ sets \subseteq ActionSets
    /\ attached
    /\ m_activeActionSets' = sets
    /\ IF focused THEN \E gone \in SUBSET sides : Synced(sets, sides, gone)
       ELSE UNCHANGED <<m_isControllerActive, cachedInputState, generation,
                        synced, actionSources, haptics>>
    /\ UNCHANGED <<setup, devices, focused, m_suggestedBindings, attached,
                   answers>>

-----------------------------------------------------------------------------
(* What the application is told.                                           *)

IsFor(query, source) == query = None \/ source.path[1] = query

\* The sources of an action that are read, of these kinds.
Read(action, query, maps) ==
    {source \in actionSources[action] :
       /\ setup.set[action] \in m_activeActionSets
       /\ IsFor(query, source)
       /\ source.source.reads \in maps
       /\ source.path[1] \in m_isControllerActive}

Triggers == {"IndexTrigger", "HandTrigger"}
Maps == {"Buttons", "Touches"}
Sticks == {"ThumbstickNoDeadzone"}

\* What a source reads in its set's copy, and where.
Copy(action) == cachedInputState[setup.set[action]]
IsDown(action, source) ==
    source.source.at \in Copy(action)[source.source.reads]
Analog(action, source) == Copy(action)[source.source.reads][source.path[1]]

\* A button is down if any is, and a trigger if it is more than half way.
CombinedBoolean(action, query) ==
    \/ \E source \in Read(action, query, Maps) : IsDown(action, source)
    \/ \E source \in Read(action, query, Triggers) : Analog(action, source) > 1

Axis(action, source) ==
    Analog(action, source)[IF source.source.at[2] = "x" THEN 1 ELSE 2]

\* The values of the sources of a float: all of a trigger, a button or an axis.
Floats(action, query) ==
    {Analog(action, source) : source \in Read(action, query, Triggers)}
      \cup {IF IsDown(action, source) THEN 2 ELSE 0 :
              source \in Read(action, query, Maps)}
      \cup {Axis(action, source) : source \in
              {s \in Read(action, query, Sticks) : s.source.at[2] # Bare}}

Maximum(values) == CHOOSE x \in values : \A y \in values : x >= y

\* The longest vector, and the right hand's of two that are as long: the sources
\* are in the order of their paths.
CombinedVector2f(action, query) ==
    LET of(side) == Copy(action).ThumbstickNoDeadzone[side]
        length(side) == of(side)[1] * of(side)[1] + of(side)[2] * of(side)[2]
        sides == {s.path[1] : s \in Read(action, query, Sticks)}
    IN IF Right \in sides /\ (Left \in sides => length(Right) >= length(Left))
       THEN of(Right) ELSE of(Left)

\* Subaction paths share the last value with the hand they are of: an action as
\* a whole with its left hand.
Slot(query) == IF query = Right THEN Right ELSE Left

\* Mutant: the generation of the last change is not kept.
Mutant_Tell(action, query, value) ==
    LET was == last[action][Slot(query)]
        now == generation[setup.set[action]]
        changed == was.generation = now \/ was.value # value
    IN /\ told' = [told EXCEPT ![action][query] =
                     [value |-> value, changed |-> changed, generation |-> now]]
       /\ last' = IF changed
                  THEN [last EXCEPT ![action][Slot(query)].value = value]
                  ELSE last

Tell(action, query, value) ==
    LET was == last[action][Slot(query)]
        now == generation[setup.set[action]]
        changed == was.generation = now \/ was.value # value
    IN /\ told' = [told EXCEPT ![action][query] =
                     [value |-> value, changed |-> changed, generation |-> now]]
       /\ last' = IF changed
                  THEN [last EXCEPT ![action][Slot(query)] =
                          [value |-> value, generation |-> now]]
                  ELSE last

\* An action none of whose sources is read is told not to be active, and that is
\* not kept.
xrGetActionStateBoolean(action, query) ==
    /\ setup.type[action] = "boolean"
    /\ Read(action, query, Maps \cup Triggers) # {}
    /\ Tell(action, query, CombinedBoolean(action, query))

xrGetActionStateFloat(action, query) ==
    /\ setup.type[action] = "float"
    /\ Floats(action, query) # {}
    /\ Tell(action, query, Maximum(Floats(action, query)))

xrGetActionStateVector2f(action, query) ==
    /\ setup.type[action] = "vector"
    /\ Read(action, query, Sticks) # {}
    /\ Tell(action, query, CombinedVector2f(action, query))

GetActionState(action, query) ==
    /\ attached
    /\ \/ xrGetActionStateBoolean(action, query)
       \/ xrGetActionStateFloat(action, query)
       \/ xrGetActionStateVector2f(action, query)
    /\ UNCHANGED <<setup, devices, focused, bindingVars, inputs, haptics>>

-----------------------------------------------------------------------------
(* Haptics.                                                                *)

\* The hands whose vibration an action has.
Outputs(action, query) ==
    {source.path[1] : source \in
       {s \in actionSources[action] :
          IsFor(query, s) /\ <<s.path[2], s.path[3]>> = Haptic}}

\* The hands whose vibration an application has asked for with an action, bound
\* or not: it is told of no bindings.
Meant(action, query) ==
    LET path(side) == <<side, Haptic[1], Haptic[2]>>
    IN {side \in Hands : /\ query \in {None, side}
                         /\ <<action, path(side)>> \in m_suggestedBindings[2]}

SetVibration(action, query, pulse) ==
    LET sides == Outputs(action, query)
        driven == sides \ setup.emulated
        word(side) == IF pulse # "none" THEN "yes"
                      ELSE IF side \in m_isControllerActive THEN "no"
                      ELSE "unheard"
    IN /\ m_currentVibration' =
            [side \in Hands |->
               IF side \in sides THEN pulse ELSE m_currentVibration[side]]
       /\ motor' = IF pulse = "none" THEN motor \ driven ELSE motor \cup driven
       /\ asked' = [side \in Hands |-> IF side \in Meant(action, query)
                                       THEN word(side) ELSE asked[side]]

\* A pulse without amplitude stops the one before.
xrApplyHapticFeedback(action, query) ==
    /\ setup.type[action] = "vibration"
    /\ attached
    /\ focused
    /\ \E pulse \in {"playing", "none"} : SetVibration(action, query, pulse)
    /\ UNCHANGED <<setup, devices, focused, bindingVars, inputs, answers>>

\* Mutant: the call is refused first when the session has lost focus.
Mutant_xrStopHapticFeedback(action, query) ==
    /\ setup.type[action] = "vibration"
    /\ attached
    /\ IF focused THEN SetVibration(action, query, "none")
       ELSE /\ asked' = [side \in Hands |->
                           IF side \in Outputs(action, query) THEN "no"
                           ELSE asked[side]]
            /\ UNCHANGED <<m_currentVibration, motor>>
    /\ UNCHANGED <<setup, devices, focused, bindingVars, inputs, answers>>

xrStopHapticFeedback(action, query) ==
    /\ setup.type[action] = "vibration"
    /\ attached
    /\ SetVibration(action, query, "none")
    /\ UNCHANGED <<setup, devices, focused, bindingVars, inputs, answers>>

-----------------------------------------------------------------------------
\* Bound: the application suggests for one profile.
Suggest ==
    /\ m_suggestedBindings = NoSuggestion
    /\ \/ \E suggestion \in setup.suggestions :
            xrSuggestInteractionProfileBindings(suggestion[1], suggestion[2])
       \/ \E user \in setup.users, profile \in InteractionProfiles :
            LET all == {p \in Paths : p[1] = user /\ IsValidPath(profile, p)}
            IN xrSuggestInteractionProfileBindings(profile, Actions \X all)
Sync ==
    \E sets \in SUBSET ActionSets, sides \in setup.syncs :
       xrSyncActions(sets, IF sets = {} THEN {} ELSE sides)
Ask ==
    \E action \in Actions, query \in setup.queries :
       \/ GetActionState(action, query)
       \/ xrApplyHapticFeedback(action, query)
       \/ xrStopHapticFeedback(action, query)

Next ==
    \/ WorldChanges \/ FocusChanges \/ PulseEnds
    \/ Suggest \/ xrAttachSessionActionSets \/ Sync \/ Ask

Spec == Init /\ [][Next]_vars

-----------------------------------------------------------------------------
TypeOK ==
    /\ setup \in Setups
    /\ connected \subseteq Hands /\ ovrInputState \in InputState
    /\ m_controllerInputState \in InputState /\ followGaze \subseteq Hands
    /\ focused \in BOOLEAN /\ attached \in BOOLEAN
    /\ m_activeActionSets \subseteq ActionSets
    /\ m_isControllerActive \subseteq Hands
    /\ DOMAIN actionSources = Actions
    /\ cachedInputState \in [ActionSets -> InputState]
    /\ generation \in [ActionSets -> 0 .. setup.maxGeneration]
    /\ m_currentVibration \in [Hands -> {"none", "playing", "over"}]
    /\ motor \subseteq Hands /\ asked \in [Hands -> {"no", "yes", "unheard"}]
    /\ m_cachedBodyState \in Bodies
    /\ synced \in [ActionSets -> [sides : SUBSET Hands, helper : InputState,
                                  body : Bodies]]

\* The control, and what is done with it, that a source reads.
Control(bound) ==
    LET reads == bound.source.reads
    IN CASE reads = "Buttons" -> <<bound.source.at[2], "press">>
         [] reads = "Touches" -> <<bound.source.at[2], "touch">>
         [] reads = "IndexTrigger" -> <<"trigger", "pull">>
         [] reads = "HandTrigger" -> <<"squeeze", "grip">>
         [] reads = "ThumbstickNoDeadzone" ->
              IF bound.source.at[2] = Bare THEN <<"thumbstick", "move">>
              ELSE <<"thumbstick", bound.source.at[2]>>
         [] OTHER -> <<bound.realPath[2],
                       IF <<bound.realPath[2], bound.realPath[3]>> = Haptic
                       THEN "vibrate" ELSE "pose">>

\* What a source reads is what it is called. The path that
\* xrEnumerateBoundSourcesForAction gives for it (action.cpp:1310), of whatever
\* profile it was suggested, has a name (mappings.cpp:779), which is of the
\* control that the mapping (mappings.cpp:657) has it read, on the hand it was
\* suggested for. A press or the force of a trigger reads how far it is pulled,
\* and a stick that is bound to a button its press. No two inputs of one profile
\* are given the same control (mappings.cpp:952), and no two controls count as
\* one source for the priorities of action sets (action.cpp:1091).
SourcesMatchTheirNames ==
    \A action \in Actions : \A bound \in actionSources[action] :
        LET name == getTouchControllerLocalizedSourceName(bound.realPath)
            control == Control(bound)
        IN /\ name # None
           /\ bound.realPath[1] = bound.path[1]
           /\ bound.source.reads \in Maps => bound.source.at[1] = bound.path[1]
           /\ control[1] = name[1]
           /\ \/ control[2] = name[2]
              \/ control[2] = "pull" /\ name[2] = "press"
              \/ control[2] = "grip" /\ name[2] = "force"
              \/ control[2] = "press" /\ setup.type[action] = "boolean"
           /\ \A action2 \in Actions : \A other \in actionSources[action2] :
                /\ /\ other.source.sourceIndex # Invalid
                   /\ other.source.sourceIndex = bound.source.sourceIndex
                   => \/ Control(other) = control
                      \/ {Control(other)[2], control[2]} = {"pose"}
                /\ /\ other.path[1] = bound.path[1]
                   /\ Control(other)[1] = control[1]
                   => other.path[2] = bound.path[2]

\* A change is told once, and always (action.cpp:639): whoever asks sees a value
\* as changed if and only if it is not the one it saw before, and sees it so
\* until the next xrSyncActions, however often it asks.
ChangesToldOnce ==
    [][\A action \in Actions : \A query \in setup.queries :
         LET before == told[action][query]
             now == told'[action][query]
         IN before # None /\ now # before =>
              now.changed <=>
                \/ now.value # before.value
                \/ now.generation = before.generation /\ before.changed]_vars

\* No motor is on without the runtime's knowing, nor for a hand whose vibration
\* the application has stopped while the hand's controller was there, with any of
\* the actions that are for it, and after any controllers came, went and were
\* bound again; not even when it stopped it without the focus (action.cpp:1614).
VibrationIsAsked ==
    \A side \in motor : m_currentVibration[side] # "none" /\ asked[side] # "no"

\* xrStopHapticFeedback answers that there is no focus only at its end, "to avoid
\* any haptics to continue infinitely" (action.cpp:1614). But it looks for hands
\* among the bindings there are (1587), and those of a controller that has gone
\* were erased (1637): the pulse is kept, and goes on when it comes back (1251).
StoppedIsStopped ==
    \A side \in motor \cap connected : asked[side] = "yes"

\* Nothing that the physical controller feels is told of one that the helper
\* emulates (action.cpp:1127), if the set was last synced for that side: neither
\* as it is now nor as it was, whether the helper shows it or not, but for the
\* right one's system button, which is not overridden. The trigger is the
\* helper's own at that time, or a pinch, or at rest, and the menu button its own.
EmulatedHidesPhysical ==
    \A set \in ActionSets : \A side \in setup.emulated \cap synced[set].sides :
        LET state == cachedInputState[set]
            helper == synced[set].helper
            body == synced[set].body
        IN /\ \A button \in state.Touches : button[1] # side
           /\ \A button \in state.Buttons : button[1] = side =>
                \/ button = Home
                \/ button = Menu /\ Menu \in helper.Buttons
                \/ button[2] \in {"y", "b"} /\ side \in body.touched
           /\ state.IndexTrigger[side] \in
                {0, helper.IndexTrigger[setup.dominant], body.pinch[side]}
           /\ state.HandTrigger[side] = 0
           /\ state.ThumbstickNoDeadzone[side] = <<0, 0>>

\* The comment at action.cpp:740 says "Per spec, the combined state is the
\* absolute maximum of all values." The code takes the maximum of signed values,
\* so that a stick that is pushed to its negative end loses to any other input.
FloatIsAbsoluteMaximum ==
    \A action \in Actions : \A query \in setup.queries :
        LET values == Floats(action, query)
            size(x) == IF x < 0 THEN -x ELSE x
        IN setup.type[action] = "float" /\ values # {} =>
             \A x \in values : size(x) <= size(Maximum(values))
=============================================================================
