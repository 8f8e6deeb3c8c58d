----------------------------- MODULE MCTracking -----------------------------
(* Small instances of Tracking. *)
EXTENDS Tracking

Space(kind, side, offset) ==
    [kind |-> kind, side |-> side, poseInSpace |-> offset]

\* Reference spaces; views only; controllers; eyes; the body.
References == {Space("view", Left, 0), Space("local", Left, 0),
               Space("stage", Left, 0), Space("localFloor", Left, 1)}
Views == {Space("view", Left, 0), Space("stage", Left, 1)}
Controllers == {Space("grip", Left, 0), Space("grip", Left, 1),
                Space("grip", Right, 0), Space("aim", Left, 0),
                Space("stage", Left, 1)}
Gazes == {Space("gaze", Left, 0), Space("view", Left, 1)}
Bodies == {Space("tracker", Left, 0), Space("local", Left, 1)}

\* The eye height is 0, or 2, or the user switches between the two: with the
\* reference spaces the last, with the others one or the other.
MCSetups ==
    LET Chosen(spaces, levels, floors, hands, same, simulated, scales) ==
            [spaces : {spaces}, hands : {hands}, floorLevel : levels,
             eyeHeights : floors, samePoseForTime : same,
             optical : {TRUE}, simulated : simulated, scales : {scales}]
        No == {FALSE}
        Switches == {{0, 2}}
        Stays == {{0}, {2}}
        ButStage == {s \in References : s.kind # "stage"}
    IN UNION {Chosen(References, BOOLEAN, Switches, {}, No, No, {}),
              Chosen(ButStage, BOOLEAN, Switches, {}, {TRUE}, No, {}),
              Chosen(Views, BOOLEAN, Switches, {}, No, No, {1, 2}),
              Chosen(Controllers, No, Stays, {}, No, No, {}),
              Chosen({Space("local", Left, 1)}, BOOLEAN, Stays, Sides, No,
                     BOOLEAN, {}),
              Chosen(Gazes, BOOLEAN, Stays, {}, No, No, {}),
              Chosen(Bodies, BOOLEAN, Stays, {}, No, No, {})}
=============================================================================
