------------------------------- MODULE MCInput -------------------------------
(* Small instances of Input. *)
EXTENDS Input

\* An application of one action set: it syncs for both hands, and asks of each.
App(type, suggestions) ==
    [type |-> type, set |-> [action \in DOMAIN type |-> "set"],
     suggestions |-> suggestions, users |-> {}, queries |-> Hands,
     connects |-> {{}, {Left}, Hands}, syncs |-> {Hands},
     states |-> {AtRest}, bodies |-> {}, emulated |-> {},
     dominant |-> Right, polled |-> {}, touchButtons |-> FALSE,
     maxGeneration |-> 2]

Touching(bindings) == {<<"touch_controller", bindings>>}
Bind(action, hands, input, component) ==
    {<<action, <<hand, input, component>>>> : hand \in hands}

\* All paths of any profile.
AllPaths ==
    [App([press |-> "boolean", pull |-> "float"], {})
       EXCEPT !.users = Users, !.connects = {Hands}, !.queries = {},
              !.maxGeneration = 1]

\* Triggers, a button and a touch, with gestures or through the helper.
Pull(left, right) ==
    [AtRest EXCEPT !.IndexTrigger = [side \in Hands |->
                                       IF side = Left THEN left ELSE right]]
Hold == [AtRest EXCEPT !.Buttons = {<<Left, "y">>, <<Left, "menu">>},
                       !.Touches = {<<Left, "y">>}]
Pinch == [active |-> {Right}, pinch |-> [side \in Hands |-> 2],
          touched |-> {Right}]
Pressing ==
    [App([press |-> "boolean"],
         Touching(Bind("press", Hands, "trigger", "value")
                    \cup Bind("press", {Left}, "y", "click")))
       EXCEPT !.states = {AtRest, Pull(2, 1), Hold}, !.bodies = {Pinch}]
AsAWhole == [Pressing EXCEPT !.queries = {None}, !.bodies = {}]
\* The helper's game pad: the trigger, the menu, and a button that has the hand's
\* controller follow the gaze.
GamePad(button) ==
    {[Pull(0, pull) EXCEPT !.Buttons = pressed] :
       pull \in {0, 1}, pressed \in {{}, {<<Left, "menu">>}, {<<Right, button>>}}}
Emulated(side, button) ==
    [App([press |-> "boolean", pull |-> "float"],
         Touching(Bind("press", {Left}, "y", "touch")
                    \cup Bind("pull", {side}, "trigger", Bare)))
       EXCEPT !.states = {Pull(2, 2), Hold}, !.emulated = {side},
              !.polled = GamePad(button), !.queries = {side},
              !.syncs = {Hands, {Left}, {Right}}, !.maxGeneration = 1]
Debugged == [Emulated(Left, "a") EXCEPT !.touchButtons = TRUE,
                                        !.bodies = {Pinch}]

\* Two sets, that are not always synced together.
TwoSets ==
    [App([press |-> "boolean", pull |-> "float"],
         Touching(Bind("press", Hands, "trigger", "click")
                    \cup Bind("pull", Hands, "trigger", "value")))
       EXCEPT !.set = [press |-> "menus", pull |-> "game"],
              !.states = {Pull(0, 2), Pull(1, 1)}, !.queries = {Right}]

\* Sticks, one of them with an action of its own for an axis.
Push(left, right) ==
    [AtRest EXCEPT !.ThumbstickNoDeadzone =
       [side \in Hands |-> IF side = Left THEN left ELSE right]]
Moving(queries) ==
    [App([move |-> "vector", turn |-> "float"],
         Touching(Bind("move", Hands, "thumbstick", Bare)
                    \cup Bind("turn", Hands, "thumbstick", "x")))
       EXCEPT !.queries = queries,
              !.states = {Push(<<-2, 0>>, <<0, 1>>),
                          Push(<<-1, 1>>, <<1, 1>>)}]

Buzzing(emulated) ==
    [App([buzz |-> "vibration"],
         Touching(Bind("buzz", Hands, "haptic", Bare)))
       EXCEPT !.queries = Hands \cup {None}, !.emulated = emulated]

MCSetups ==
    {AllPaths, Pressing, AsAWhole, TwoSets, Emulated(Left, "a"),
     Emulated(Right, "b"), Debugged, Moving(Hands), Moving({None}), Buzzing({}),
     Buzzing({Left})}
MCBuzzing == {Buzzing({})}
MCMoving == {Moving({None})}
MCExtensions == {"XR_EXT_palm_pose"}
=============================================================================
