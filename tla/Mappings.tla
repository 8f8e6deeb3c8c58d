------------------------------ MODULE Mappings ------------------------------
(***************************************************************************)
(* Which paths the runtime accepts for an interaction profile, and what    *)
(* each of them reads from a Touch controller (mappings.cpp).              *)
(*                                                                         *)
(* A path is <<user, input, component>>; the bare path of an input has no  *)
(* component.  The haptic output counts as an input.                       *)
(*                                                                         *)
(* The code matches most paths by their end, so the tables below say what  *)
(* comes after the user, and hold for any.  Where the code names a whole   *)
(* path the table does.  Ten profiles mistype their right-hand A, B and    *)
(* System ("/user/hand/left/right/a"): these inputs' bare paths are not    *)
(* among what they accept.                                                 *)
(***************************************************************************)
EXTENDS Naturals

CONSTANTS
    ApiMinor,       \* m_apiMinor: the minor version of OpenXR asked for
    Extensions,     \* what has_XR_... say was asked for
    None

Left == "left"
Right == "right"
Hands == {Left, Right}
Users == Hands \cup {"head", "gamepad"}

Bare == "bare"
Click == {"click", Bare}
Pose == {"pose", Bare}
Value == {"click", "value", Bare}
Axes == {"x", "y", Bare}
Pad == Axes \cup {"click", "force", "touch"}

Palm == IF "XR_EXT_palm_pose" \in Extensions
        THEN {"palm_ext"} \X Pose ELSE {}
Maintenance1 == "XR_KHR_maintenance1" \in Extensions \/ ApiMinor >= 1
GripSurface == IF Maintenance1 THEN {"grip_surface"} \X Pose ELSE {}

\* The poses that nearly every profile has, and its vibration.
Poses == ({"grip", "aim"} \X Pose) \cup Palm \cup GripSurface
Haptic == <<"haptic", Bare>>
Common == Poses \cup {Haptic}

\* The face buttons: X and Y are the left hand's, A and B the right's.
Face(hand) == IF hand = Left THEN {"x", "y"} ELSE {"a", "b"}
TypedFace(components) ==
    ({Left} \X Face(Left) \X (components \cup {Bare}))
        \cup ({Right} \X Face(Right) \X components)
LeftMenu == {Left} \X {"menu"} \X Click
RightSystem == {<<Right, "system", "click">>}

Ends(path, ends) == <<path[2], path[3]>> \in ends

-----------------------------------------------------------------------------
(* What is accepted for the profiles of OpenXR 1.0.                        *)

simple_controller(path) == Ends(path, ({"select", "menu"} \X Click) \cup Common)

vive_controller(path) == Ends(path,
    ({"system", "menu"} \X Click) \cup ({"squeeze"} \X {"click", "force", Bare})
        \cup ({"trigger"} \X Value) \cup ({"trackpad"} \X Pad)
        \cup (Common \ {<<"aim", Bare>>}))

index_controller(path) == Ends(path,
    ({"system", "a", "b"} \X {"click", "touch", Bare})
        \cup ({"squeeze"} \X (Value \cup {"force"}))
        \cup ({"trigger"} \X (Value \cup {"touch"}))
        \cup ({"thumbstick"} \X (Pad \ {"force"}))
        \cup ({"trackpad"} \X (Pad \ {"click"})) \cup Common)

\* The Odyssey controller, of OpenXR 1.1, has the same paths.
motion_controller(path) == Ends(path,
    ({"menu"} \X Click) \cup ({"squeeze"} \X (Value \cup {"force"}))
        \cup ({"trigger"} \X Value) \cup ({"thumbstick", "trackpad"} \X Pad)
        \cup Common)

daydream_controller(path) == Ends(path,
    ({"select"} \X Click) \cup ({"trackpad"} \X Pad) \cup Poses)

HeadPaths == {"head"} \X {"system", "volume_up", "volume_down", "mute_mic"}
                 \X Click
vive_pro(path) == path \in HeadPaths

GamepadPaths ==
    LET Gamepad(inputs, components) == {"gamepad"} \X inputs \X components
    IN UNION {
        Gamepad({"menu", "view", "a", "b", "x", "y", "dpad_down", "dpad_right",
                 "dpad_up", "dpad_left", "shoulder_left", "shoulder_right"},
                Click),
        Gamepad({"trigger_left", "trigger_right"}, Value \cup {"force"}),
        Gamepad({"thumbstick_left", "thumbstick_right"}, Pad \ {"touch"}),
        Gamepad({"haptic_left", "haptic_right", "haptic_left_trigger",
                 "haptic_right_trigger"}, {Bare})}
xbox_controller(path) == path \in GamepadPaths

go_controller(path) == Ends(path,
    ({"system", "trigger", "back"} \X Click) \cup ({"trackpad"} \X Pad)
        \cup Poses)

-----------------------------------------------------------------------------
(* What is accepted for the profiles that came with OpenXR 1.1.            *)

Squeezed == {"squeeze"} \X (Value \cup {"force"})
Touched == {"trigger"} \X (Value \cup {"touch"})

mixed_reality_controller(path) ==
    \/ path \in TypedFace({"click"})
    \/ Ends(path,
        ({"menu"} \X Click) \cup Squeezed \cup ({"trigger"} \X Value)
            \cup ({"thumbstick"} \X Pad) \cup Common)

pico_neo3_controller(path) ==
    \/ path \in TypedFace({"click", "touch"})
    \/ Ends(path,
        ({"menu", "system"} \X Click) \cup Squeezed \cup Touched
            \cup ({"thumbstick"} \X Pad) \cup Common)

pico4_controller(path) ==
    \/ path \in TypedFace({"click", "touch"}) \cup LeftMenu
    \/ Ends(path,
        ({"system"} \X Click) \cup Squeezed \cup Touched
            \cup ({"thumbstick"} \X Pad) \cup Common)

pico_g3_controller(path) == Ends(path,
    ({"menu"} \X Click) \cup ({"trigger"} \X Value)
        \cup ({"thumbstick"} \X (Pad \ {"touch"})) \cup Common)

vive_cosmos_controller(path) ==
    \/ path \in TypedFace({"click"}) \cup LeftMenu \cup RightSystem
    \/ Ends(path,
        ({"squeeze", "shoulder"} \X Click) \cup ({"trigger"} \X Value)
            \cup ({"thumbstick"} \X Pad) \cup Common)

vive_focus3_controller(path) ==
    \/ path \in TypedFace({"click"}) \cup LeftMenu \cup RightSystem
    \/ Ends(path,
        ({"squeeze", "trigger"} \X (Value \cup {"touch"}))
            \cup ({"shoulder"} \X Click) \cup ({"thumbstick"} \X Pad)
            \cup ({"thumbrest"} \X {"touch", "force", Bare}) \cup Common)

ml2_controller(path) == Ends(path,
    ({"menu", "home", "shoulder"} \X Click) \cup ({"trigger"} \X Value)
        \cup ({"trackpad"} \X Pad) \cup Common)

\* What the Touch controllers of OpenXR 1.1 have in common.
Resting == {"thumb_resting_surfaces"} \X {"proximity", Bare}
AnyTouch(path) ==
    \/ path \in TypedFace({"click", "touch"}) \cup LeftMenu \cup RightSystem
    \/ Ends(path,
        Squeezed \cup ({"trigger"} \X (Value \cup {"touch", "proximity"}))
            \cup ({"thumbstick"} \X Pad) \cup Resting \cup Common)
Sliding == ({"trigger_curl", "trigger_slide"} \X {"value", Bare})
               \cup ({"haptic_trigger", "haptic_thumb"} \X {Bare})
Thumbrest == {"thumbrest"} \X {"touch", "force", Bare}

touch_pro_controller(path) == AnyTouch(path) \/ Ends(path,
    Thumbrest \cup Sliding \cup ({"stylus"} \X {"force", Bare}))
touch_plus_controller(path) == AnyTouch(path) \/ Ends(path,
    Thumbrest \cup Sliding \cup {<<"trigger", "force">>})
touch_controller_rift_cv1(path) == AnyTouch(path) \/ Ends(path, Thumbrest)
touch_controller_quest_1_rift_s(path) == AnyTouch(path)
touch_controller_quest_2(path) == AnyTouch(path) \/ Ends(path,
    {"thumbrest"} \X {"touch", Bare})

-----------------------------------------------------------------------------
(* The name of a component of a Touch controller: the control a user would *)
(* look for, and what to do with it.  What has no name is not accepted.    *)

getTouchControllerLocalizedSourceName(path) ==
    LET hand == path[1]
        input == path[2]
        component == path[3]
        Is(inputs, components) == input \in inputs /\ component \in components
        Held(inputs, components) == hand \in Hands /\ Is(inputs, components)
    IN CASE Held(Face(hand), Click) -> <<input, "press">>
         [] Held(Face(hand), {"touch"}) -> <<input, "touch">>
         [] hand = Left /\ Is({"menu"}, Click) -> <<"menu", "press">>
         [] hand = Right /\ Is({"system"}, Click) -> <<"system", "press">>
         [] Is({"squeeze"}, Value) -> <<"squeeze", "grip">>
         [] Is({"squeeze"}, {"force"}) -> <<"squeeze", "force">>
         [] Is({"trigger"}, {"click"}) -> <<"trigger", "press">>
         [] Is({"trigger"}, {"value", Bare}) -> <<"trigger", "pull">>
         [] Is({"trigger"}, {"touch"}) -> <<"trigger", "touch">>
         [] Is({"thumbstick"}, {Bare}) -> <<"thumbstick", "move">>
         [] Is({"thumbstick"}, {"x", "y"}) -> <<"thumbstick", component>>
         [] Is({"thumbstick"}, {"click"}) -> <<"thumbstick", "press">>
         [] Is({"thumbstick"}, {"touch"}) -> <<"thumbstick", "touch">>
         [] Is({"thumbrest"}, {"touch", Bare}) -> <<"thumbrest", "touch">>
         [] Is({"grip", "aim"}, Pose) -> <<input, "pose">>
         [] /\ ApiMinor >= 1
            /\ Is({"thumb_resting_surfaces"}, {"proximity", Bare}) ->
              <<input, "proximity">>
         [] ApiMinor >= 1 /\ Is({"trigger"}, {"proximity"}) ->
              <<"trigger", "proximity">>
         [] <<input, component>> \in Palm \cup GripSurface -> <<input, "pose">>
         [] <<input, component>> = Haptic -> <<"haptic", "vibrate">>
         [] OTHER -> None

\* A tracker has its poses, its vibration, and a controller's buttons.
ViveTrackerEnds ==
    ({"system", "menu"} \X Click) \cup ({"squeeze"} \X {"click", "force", Bare})
        \cup ({"trigger"} \X Value) \cup ({"trackpad"} \X Pad)
        \cup {<<"grip", "pose">>, Haptic} \cup Palm \cup GripSurface
getViveTrackerLocalizedSourceName(path) ==
    IF <<path[2], path[3]>> \in ViveTrackerEnds
    THEN <<path[2], path[3]>> ELSE None

-----------------------------------------------------------------------------
(* m_controllerValidPathsTable and m_controllerMappingTable.               *)

\* Every path that some table or name speaks of.
Inputs10 == {"a", "aim", "b", "back", "grip", "grip_surface", "haptic", "menu",
             "palm_ext", "select", "squeeze", "system", "thumbrest",
             "thumbstick", "trackpad", "trigger", "x", "y"}
Inputs11 == {"haptic_thumb", "haptic_trigger", "home", "shoulder", "stylus",
             "thumb_resting_surfaces", "trigger_curl", "trigger_slide"}
Components == Pad \cup {"pose", "proximity", "value"}
Paths == (Users \X (Inputs10 \cup Inputs11) \X Components)
             \cup HeadPaths \cup GamepadPaths

touch_controller(path) == getTouchControllerLocalizedSourceName(path) # None
vive_tracker_htcx(path) == getViveTrackerLocalizedSourceName(path) # None

Profiles10 == {"touch_controller", "simple_controller", "vive_controller",
               "index_controller", "motion_controller", "daydream_controller",
               "vive_pro", "xbox_controller", "go_controller"}
Profiles11 == {"mixed_reality_controller", "odyssey_controller",
               "pico_neo3_controller", "pico4_controller",
               "pico_g3_controller", "touch_pro_controller",
               "vive_cosmos_controller", "vive_focus3_controller",
               "touch_plus_controller", "ml2_controller",
               "touch_controller_rift_cv1", "touch_controller_quest_1_rift_s",
               "touch_controller_quest_2"}
InteractionProfiles == Profiles10 \cup Profiles11 \cup {"vive_tracker_htcx"}

\* What has no name has none of the names there are.
ASSUME MappingsAssumption ==
    \A control \in Inputs10 \cup Inputs11 :
        \A use \in Components \cup {"press", "pull", "grip", "move", "vibrate"} :
            <<control, use>> # None

\* The profiles the application may suggest bindings for.
Known(profile) ==
    \/ profile \in Profiles10
    \/ profile \in Profiles11 /\ ApiMinor >= 1
    \/ /\ profile = "vive_tracker_htcx"
       /\ "XR_HTCX_vive_tracker_interaction" \in Extensions

IsValidPath(profile, path) ==
    CASE profile = "touch_controller" -> touch_controller(path)
      [] profile = "simple_controller" -> simple_controller(path)
      [] profile = "vive_controller" -> vive_controller(path)
      [] profile = "index_controller" -> index_controller(path)
      [] profile = "motion_controller" -> motion_controller(path)
      [] profile = "daydream_controller" -> daydream_controller(path)
      [] profile = "vive_pro" -> vive_pro(path)
      [] profile = "xbox_controller" -> xbox_controller(path)
      [] profile = "go_controller" -> go_controller(path)
      [] profile = "mixed_reality_controller" -> mixed_reality_controller(path)
      [] profile = "odyssey_controller" -> motion_controller(path)
      [] profile = "pico_neo3_controller" -> pico_neo3_controller(path)
      [] profile = "pico4_controller" -> pico4_controller(path)
      [] profile = "pico_g3_controller" -> pico_g3_controller(path)
      [] profile = "touch_pro_controller" -> touch_pro_controller(path)
      [] profile = "vive_cosmos_controller" -> vive_cosmos_controller(path)
      [] profile = "vive_focus3_controller" -> vive_focus3_controller(path)
      [] profile = "touch_plus_controller" -> touch_plus_controller(path)
      [] profile = "ml2_controller" -> ml2_controller(path)
      [] profile = "touch_controller_rift_cv1" ->
           touch_controller_rift_cv1(path)
      [] profile = "touch_controller_quest_1_rift_s" ->
           touch_controller_quest_1_rift_s(path)
      [] profile = "touch_controller_quest_2" -> touch_controller_quest_2(path)
      [] profile = "vive_tracker_htcx" -> vive_tracker_htcx(path)

-----------------------------------------------------------------------------
(* The paths of a Touch controller that stand for those of another one.    *)

At(path, input) == <<path[1], input, path[3]>>
IsAt(path, hand, input) == path[1] = hand /\ Ends(path, {input} \X Click)

\* These remappers keep palm poses whether the extension is on or not.
Kept == ({"grip", "aim", "palm_ext", "grip_surface"} \X Pose) \cup {Haptic}

remapSimpleControllerToTouchController(path) ==
    CASE Ends(path, {"select"} \X Click) -> At(path, "trigger")
      [] IsAt(path, Right, "menu") -> At(path, "a")
      [] IsAt(path, Left, "menu") \/ Ends(path, Kept) -> path
      [] OTHER -> None

remapMicrosoftMotionControllerToTouchController(path) ==
    CASE IsAt(path, Right, "menu") -> At(path, "a")
      [] \/ IsAt(path, Left, "menu")
         \/ Ends(path, Kept \cup Squeezed \cup ({"trigger"} \X Value))
         \/ Ends(path, {"thumbstick"} \X (Pad \ {"force"}))
         \/ Ends(path, {<<"trackpad", Bare>>}) -> path
      [] OTHER -> None

remapViveControllerToTouchController(path) ==
    CASE IsAt(path, Right, "menu") -> At(path, "a")
      [] Ends(path, {"trackpad"} \X Pad) -> At(path, "thumbstick")
      [] \/ IsAt(path, Right, "system") \/ IsAt(path, Left, "menu")
         \/ Ends(path, Kept \cup ({"squeeze"} \X {"click", "force", Bare}))
         \/ Ends(path, {"trigger"} \X Value) -> path
      [] OTHER -> None

\* Mutant: the left B is taken for the X as well.
Mutant_remapIndexControllerToTouchController(path) ==
    CASE path[1] = Left /\ path[2] \in {"a", "b"} -> At(path, "x")
      [] path[2] = "trackpad" -> At(path, "thumbrest")
      [] OTHER -> path

remapIndexControllerToTouchController(path) ==
    LET buttons == {"click", "touch", Bare}
    IN CASE path[1] = Left /\ Ends(path, {"a"} \X buttons) -> At(path, "x")
         [] path[1] = Left /\ Ends(path, {"b"} \X buttons) -> At(path, "y")
         [] Ends(path, {<<"trackpad", "touch">>}) -> At(path, "thumbrest")
         [] \/ path[1] = Right /\ Ends(path, {"a", "b"} \X buttons)
            \/ IsAt(path, Right, "system")
            \/ Ends(path, Kept \cup Squeezed \cup ({"trigger"} \X Value))
            \/ Ends(path, {"thumbstick"} \X (Pad \ {"force"})) -> path
         [] OTHER -> None

-----------------------------------------------------------------------------
(* What a Touch controller's path reads from the state of the inputs: a    *)
(* bit of a button map, a value of each hand, or a stick's axes.           *)

Source(reads, at, index) == [reads |-> reads, at |-> at, sourceIndex |-> index]
Invalid == None

\* The bare path of the menu button is mistyped: it reads nothing.
mapPathToTouchControllerInputState(type, path) ==
    LET hand == path[1]
        input == path[2]
        component == path[3]
        Is(inputs, components) == input \in inputs /\ component \in components
        Held(inputs, components) == hand \in Hands /\ Is(inputs, components)
        pressed == {"click"} \cup (IF type = "boolean" THEN {Bare} ELSE {})
        Button(index) == Source("Buttons", <<hand, input>>, index)
        Touch == Source("Touches", <<hand, input>>, <<input, "touch">>)
    IN CASE Held(Face(hand), Click) -> Button(<<input, "press">>)
         [] Held(Face(hand), {"touch"}) -> Touch
         [] hand = Left /\ Is({"menu"}, {"click"}) ->
              Button(<<"menu", "press">>)
         [] hand = Right /\ Is({"system"}, Click) -> Button(Invalid)
         [] Is({"squeeze"}, Value \cup {"force"}) ->
              Source("HandTrigger", None, <<"squeeze", "value">>)
         [] Is({"trigger"}, Value) ->
              Source("IndexTrigger", None, <<"trigger", "value">>)
         [] Held({"trigger"}, {"touch"}) -> Touch
         [] Held({"thumbstick"}, pressed) ->
              Button(<<"thumbstick", "press">>)
         [] Is({"thumbstick"}, Axes \ pressed) ->
              Source("ThumbstickNoDeadzone", <<"axis", component>>,
                     <<"thumbstick", component>>)
         [] Held({"thumbstick", "thumbrest"}, {"touch"}) -> Touch
         [] Held({"thumbrest"}, {Bare}) -> Touch
         [] Is({"grip", "aim"}, Pose) ->
              Source("nothing", None, <<input, "pose">>)
         [] Is({"palm_ext", "grip_surface"}, Pose) ->
              Source("nothing", None, <<"palm", "pose">>)
         [] <<input, component>> = Haptic -> Source("nothing", None, Invalid)
         [] OTHER -> None

\* The profiles that can be mapped to a Touch controller.
Mapped == {"touch_controller", "index_controller", "vive_controller",
           "motion_controller", "simple_controller"}

Remapped(profile, path) ==
    CASE profile = "touch_controller" -> path
      [] profile = "index_controller" ->
           remapIndexControllerToTouchController(path)
      [] profile = "vive_controller" ->
           remapViveControllerToTouchController(path)
      [] profile = "motion_controller" ->
           remapMicrosoftMotionControllerToTouchController(path)
      [] profile = "simple_controller" ->
           remapSimpleControllerToTouchController(path)
=============================================================================
