------------------------------ MODULE MCActions ------------------------------
(***************************************************************************)
(* Instances of Actions for TLC: jumping and firing, each in a set of its   *)
(* own.                                                                     *)
(***************************************************************************)
EXTENDS Actions, TLC

CONSTANTS gameplay, overlay, jump, fire

MCSetOf == (jump :> gameplay) @@ (fire :> overlay)
(* One priority, until a call lowers either set's by overriding it. *)
MCPriority == (gameplay :> 1) @@ (overlay :> 1)

(* "simple" comes after "touch" in order of preference; its select is read  *)
(* from the trigger.                                                        *)
MCPreference == <<"touch", "simple">>
MCMapped ==
    [touch |-> [value |-> "value", click |-> "click", system |-> "system"],
     simple |-> [click |-> "click", select |-> "value"]]
(* The trigger's value and its click are one index.  The system button has  *)
(* none: every set that is bound to it has it.                              *)
MCIndexed == [value |-> "Trigger", click |-> "Trigger"]

(* Both actions on one trigger, one of them by two components and with the  *)
(* system button as well; or a trigger in each hand.                        *)
OneTrigger == {<<jump, "right", "value">>, <<jump, "right", "click">>,
               <<jump, "right", "system">>, <<fire, "right", "click">>}
EachHand == {<<jump, "left", "value">>, <<fire, "right", "value">>}
Simple == {<<jump, "right", "click">>, <<jump, "right", "select">>,
           <<fire, "right", "click">>}

MCOneTrigger == [touch |-> {OneTrigger}, simple |-> {}]
MCEachHand == [touch |-> {EachHand}, simple |-> {}]
MCTwoProfiles == [touch |-> {OneTrigger}, simple |-> {Simple}]
=============================================================================
