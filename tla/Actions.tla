------------------------------- MODULE Actions -------------------------------
(***************************************************************************)
(* Action sets, actions, suggested bindings and their synchronisation       *)
(* (action.cpp).                                                            *)
(*                                                                         *)
(* The application suggests, for interaction profiles it knows, which       *)
(* component of a controller drives which action; attaches action sets to   *)
(* its session; and calls xrSyncActions every frame, naming the sets it     *)
(* wants.  The runtime notices there that a controller came or went, binds  *)
(* the actions to the inputs LibOVR really has, and copies the inputs into  *)
(* the sets that were named.  Where two sets are bound to the same input    *)
(* the one of higher priority has it.                                       *)
(*                                                                         *)
(* All these calls hold m_actionsAndSpacesMutex from their checks to their  *)
(* end, so each is one step.  refreshSettings(), which the registry's       *)
(* watcher calls from a thread of its own, takes no lock: it may come in    *)
(* between two reads of the controller's type in one xrSyncActions.         *)
(*                                                                         *)
(* An action never gets the handle of another one (the memory is kept until *)
(* the instance goes), but an action set may be given the handle of one     *)
(* that was destroyed.                                                      *)
(***************************************************************************)
EXTENDS Integers, Sequences

CONSTANTS
    ActionSets,     (* the handles action sets may have                      *)
    Handles,        (* the actions the application may create                *)
    SetOf,          (* Action::actionSet: the set each one is created in     *)
    MaxPriority,    (* the highest priority a set is given                   *)
    Priority,       (* ActionSet::priority                                   *)
    Overriding,     (* the priorities the application overrides them with    *)
    Sides,          (* xr::Side                                              *)
    Profiles,       (* the interaction profiles the runtime accepts          *)
    Preference,     (* those it can map, in the order in which it tries them *)
    Inputs,         (* ActionSource::realPath, less the side: the components *)
                    (* of a Touch controller                                 *)
    Mapped,         (* for each profile that can be mapped, the input of     *)
                    (* each of its components that has one                   *)
    Indexed,        (* ActionSourceIndex of the inputs that have one; what   *)
                    (* reads one trigger or stick has one index              *)
    Types,          (* the controller types: touch_controller, knuckles      *)
    Suggestions     (* the bindings the application may suggest for a        *)
                    (* profile: sets of <<action, side, component>>          *)

NoProfile == "no profile"
NoType == "no controller"
Mappable == {Preference[i] : i \in DOMAIN Preference}
Components == UNION {DOMAIN Mapped[p] : p \in Mappable}
Indices == {Indexed[i] : i \in DOMAIN Indexed}
Sources == Sides \X Inputs
Priorities == 0 .. MaxPriority

ASSUME SetsAssumption ==
    /\ SetOf \in [Handles -> ActionSets]
    /\ MaxPriority \in Nat /\ Overriding \subseteq Priorities
    /\ Priority \in [ActionSets -> Priorities]
ASSUME ProfilesAssumption ==
    /\ Preference \in Seq(Profiles) /\ NoProfile \notin Profiles
    /\ NoType \notin Types
    /\ DOMAIN Mapped = Mappable
    /\ \A p \in Mappable : \A c \in DOMAIN Mapped[p] : Mapped[p][c] \in Inputs
    /\ DOMAIN Indexed \subseteq Inputs
    /\ Suggestions \in [Profiles -> SUBSET SUBSET (Handles \X Sides \X Components)]

VARIABLES
    session,        (* m_sessionCreated                                      *)
    actionSets,     (* m_actionSets                                          *)
    actions,        (* m_actions                                             *)
    created,        (* m_actionsForCleanup                                   *)
    suggested,      (* m_suggestedBindings                                   *)
    attached,       (* m_attachedActionSets                                  *)
    active,         (* m_activeActionSets                                    *)
    effective,      (* ActionSet::effectivePriority                          *)
    copied,         (* ActionSet::cachedInputState was written               *)
    sourcePriority, (* m_actionSourcePriority                                *)
    sources,        (* Action::actionSources                                 *)
    controllerType, (* m_cachedControllerType                                *)
    controllerActive,   (* m_isControllerActive                              *)
    profile,        (* m_currentInteractionProfile                           *)
    profileDirty,   (* m_currentInteractionProfileDirty                      *)
    (* History, read by no guard: *)
    sync,           (* the session's last xrSyncActions: none or refused,    *)
                    (* XR_SESSION_NOT_FOCUSED, or complete with or without   *)
                    (* a change of bindings                                  *)
    told,           (* the profiles the application last asked for           *)
    late            (* bindings were suggested while others were in use      *)

handleVars == <<actionSets, actions, created>>
syncVars == <<active, effective, sourcePriority>>
bindingVars == <<sources, controllerType, controllerActive, profile>>
vars == <<handleVars, session, suggested, attached, syncVars, copied,
          bindingVars, profileDirty, sync, told, late>>

SyncResults == {"refused", "unfocused", "rebound", "synced"}

(* The types of the variables. *)
TypeOK ==
    /\ session \in BOOLEAN
    /\ actionSets \subseteq ActionSets
    /\ created \subseteq Handles /\ actions \subseteq created
    /\ DOMAIN suggested \subseteq Profiles
    /\ \A p \in DOMAIN suggested : suggested[p] \in Suggestions[p]
    /\ attached \subseteq ActionSets /\ active \subseteq ActionSets
    /\ effective \in [ActionSets -> Priorities]
    /\ copied \in [ActionSets -> BOOLEAN]
    /\ sourcePriority \in [Indices -> Priorities]
    /\ sources \in [Handles -> SUBSET Sources]
    /\ controllerType \in [Sides -> Types \cup {NoType}]
    /\ controllerActive \in [Sides -> BOOLEAN]
    /\ profile \in [Sides -> Mappable \cup {NoProfile}]
    /\ profileDirty \in BOOLEAN
    /\ sync \in SyncResults
    /\ told \in [Sides -> Mappable \cup {NoProfile}]
    /\ late \in BOOLEAN

Init ==
    /\ session = FALSE
    /\ actionSets = {} /\ actions = {} /\ created = {}
    /\ suggested = [p \in {} |-> {}]
    /\ attached = {} /\ active = {}
    /\ effective = Priority
    /\ copied = [s \in ActionSets |-> FALSE]
    /\ sourcePriority = [i \in Indices |-> 0]
    /\ sources = [a \in Handles |-> {}]
    /\ controllerType = [d \in Sides |-> NoType]
    /\ controllerActive = [d \in Sides |-> FALSE]
    /\ profile = [d \in Sides |-> NoProfile]
    /\ profileDirty = FALSE
    /\ sync = "refused"
    /\ told = [d \in Sides |-> NoProfile]
    /\ late = FALSE

------------------------------------------------------------------------------
(* The instance's objects.                                                  *)

(* xrCreateActionSet: a new ActionSet, whose cachedInputState is not set. *)
CreateActionSet(s) ==
    /\ s \notin actionSets
    /\ actionSets' = actionSets \cup {s}
    /\ effective' = [effective EXCEPT ![s] = Priority[s]]
    /\ copied' = [copied EXCEPT ![s] = FALSE]
    /\ UNCHANGED <<actions, created, session, suggested, attached, active,
                   sourcePriority, bindingVars, profileDirty, sync, told, late>>

ActionsLeft(s) == {a \in actions : SetOf[a] # s}

(* xrDestroyActionSet: m_activeActionSets may still hold it.  What its      *)
(* memory held is gone.                                                     *)
DestroyActionSet(s) ==
    /\ s \in actionSets
    /\ actions' = ActionsLeft(s)
    /\ actionSets' = actionSets \ {s}
    /\ attached' = attached \ {s}
    /\ effective' = [effective EXCEPT ![s] = Priority[s]]
    /\ copied' = [copied EXCEPT ![s] = FALSE]
    /\ UNCHANGED <<created, session, suggested, active, sourcePriority,
                   bindingVars, profileDirty, sync, told, late>>

(* xrCreateAction *)
CreateAction(a) ==
    /\ a \notin created
    /\ SetOf[a] \in actionSets
    /\ SetOf[a] \notin attached
    /\ actions' = actions \cup {a}
    /\ created' = created \cup {a}
    /\ UNCHANGED <<actionSets, session, suggested, attached, syncVars, copied,
                   bindingVars, profileDirty, sync, told, late>>

(* xrDestroyAction *)
DestroyAction(a) ==
    /\ a \in actions
    /\ actions' = actions \ {a}
    /\ UNCHANGED <<actionSets, created, session, suggested, attached, syncVars,
                   copied, bindingVars, profileDirty, sync, told, late>>

(* xrSuggestInteractionProfileBindings for a profile of hand controllers. *)
SuggestBindings(p, bindings) ==
    /\ attached = {}
    /\ bindings # {}
    /\ \A b \in bindings : b[1] \in created
    /\ suggested' = [q \in DOMAIN suggested \cup {p} |->
                        IF q = p THEN bindings ELSE suggested[q]]
    /\ late' = (late \/ (session /\ \E d \in Sides : profile[d] # NoProfile))
    /\ UNCHANGED <<handleVars, session, attached, syncVars, copied, bindingVars,
                   profileDirty, sync, told>>

------------------------------------------------------------------------------
(* Bindings.                                                                *)

(* The profile whose bindings are used: the first the application made a    *)
(* suggestion for, in the runtime's order of preference.                    *)
Suggested(i) == Preference[i] \in DOMAIN suggested
UsedProfile ==
    IF \E i \in DOMAIN Preference : Suggested(i)
    THEN Preference[CHOOSE i \in DOMAIN Preference :
                        /\ Suggested(i)
                        /\ \A j \in DOMAIN Preference : Suggested(j) => i <= j]
    ELSE NoProfile

(* The inputs of side d that profile p binds to action a.  Components that  *)
(* map to the same input are bound once, those that map to none are not.    *)
BoundBy(p, a, d) ==
    IF p = NoProfile THEN {}
    ELSE {<<d, Mapped[p][c]>> :
            c \in {k \in DOMAIN Mapped[p] : <<a, d, k>> \in suggested[p]}}

Mutant_SourcesAfter(a, D, newProfile) ==
    IF a \notin actions THEN sources[a]
    ELSE sources[a] \cup UNION {BoundBy(newProfile[d], a, d) : d \in D}

(* rebindControllerActions(): what is bound to action a when the sides D    *)
(* are given the profiles of newProfile.                                    *)
SourcesAfter(a, D, newProfile) ==
    IF a \notin actions THEN sources[a]
    ELSE {x \in sources[a] : x[1] \notin D}
            \cup UNION {BoundBy(newProfile[d], a, d) : d \in D}

(* Forgets that an earlier change was not announced yet. *)
Mutant_ProfileDirtyAfter(newProfile) ==
    attached # {} /\ \E d \in Sides : newProfile[d] # profile[d]

ProfileDirtyAfter(newProfile) ==
    profileDirty \/ (attached # {} /\ \E d \in Sides : newProfile[d] # profile[d])

------------------------------------------------------------------------------
(* Sessions.                                                                *)

(* xrCreateSession *)
CreateSession ==
    /\ ~session
    /\ session' = TRUE
    /\ controllerActive' = [d \in Sides |-> FALSE]
    /\ controllerType' = [d \in Sides |-> NoType]
    /\ profile' = [d \in Sides |-> NoProfile]
    /\ sources' = [a \in Handles |-> SourcesAfter(a, Sides, profile')]
    /\ attached' = {} /\ active' = {}
    /\ UNCHANGED <<handleVars, suggested, effective, sourcePriority, copied,
                   profileDirty, sync, told, late>>

(* xrDestroySession leaves the actions as they are. *)
DestroySession ==
    /\ session
    /\ session' = FALSE
    /\ sync' = "refused"
    /\ told' = [d \in Sides |-> NoProfile]
    /\ late' = FALSE
    /\ UNCHANGED <<handleVars, suggested, attached, syncVars, copied, bindingVars,
                   profileDirty>>

(* refreshSettings(): the pose offsets changed. *)
ForgetType(d) ==
    /\ controllerType' = [controllerType EXCEPT ![d] = NoType]
    /\ UNCHANGED <<handleVars, session, suggested, attached, syncVars, copied,
                   sources, controllerActive, profile, profileDirty, sync, told, late>>

(* xrAttachSessionActionSets; the application asks for the profiles. *)
AttachActionSets(S) ==
    /\ session
    /\ attached = {}
    /\ S # {} /\ S \subseteq actionSets
    /\ attached' = S
    /\ told' = profile
    /\ UNCHANGED <<handleVars, session, suggested, syncVars, copied, bindingVars,
                   profileDirty, sync, late>>

(* xrPollEvent gives INTERACTION_PROFILE_CHANGED, and the application calls *)
(* xrGetCurrentInteractionProfile.                                          *)
PollProfileChanged ==
    /\ profileDirty
    /\ profileDirty' = FALSE
    /\ told' = IF session THEN profile ELSE told
    /\ UNCHANGED <<handleVars, session, suggested, attached, syncVars, copied,
                   bindingVars, sync, late>>

------------------------------------------------------------------------------
(* xrSyncActions.  The application names the sets it wants (`want`), may     *)
(* override the priority of some of them (`override`,                       *)
(* XR_EXT_active_action_set_priority), and names, through the subaction     *)
(* paths, the sides to look at.  Which subaction paths a set accepts is not *)
(* modelled, and whether the session is FOCUSED is Session's subject: here  *)
(* it may be or not in any call.                                            *)

Overrides(want) == UNION {[S -> Overriding] : S \in SUBSET want}

EffectiveAfter(want, override) ==
    [s \in ActionSets |->
        IF s \in DOMAIN override THEN override[s]
        ELSE IF s \in want THEN Priority[s] ELSE effective[s]]

(* What the call does before it looks at the session's state. *)
Activate(want, override) ==
    /\ active' = want
    /\ effective' = EffectiveAfter(want, override)

Highest(S) == CHOOSE p \in S : \A q \in S : q <= p

(* Also counts the sets that are not synced. *)
Mutant_Wanting(i, want) ==
    {s \in actionSets : \E a \in actions :
        /\ SetOf[a] = s
        /\ \E x \in sources[a] : x[2] \in DOMAIN Indexed /\ Indexed[x[2]] = i}

(* The sets that want the inputs of index i, by the bindings as they are    *)
(* before controllers that came or went are noticed.                        *)
Wanting(i, want) ==
    {s \in want : \E a \in actions :
        /\ SetOf[a] = s
        /\ \E x \in sources[a] : x[2] \in DOMAIN Indexed /\ Indexed[x[2]] = i}

(* Forgets the sets whose priority is not overridden. *)
Mutant_PrioritiesSeen(want, override) ==
    IF DOMAIN override # {} THEN {override[s] : s \in DOMAIN override}
    ELSE {Priority[s] : s \in want}

(* The priorities seen while the sets and then the overrides were read. *)
PrioritiesSeen(want, override) ==
    {Priority[s] : s \in want} \cup {override[s] : s \in DOMAIN override}

(* m_actionSourcePriority: when all sets have one priority the bindings are *)
(* not looked at.                                                           *)
SourcePriorityAfter(want, override) ==
    [i \in Indices |->
        IF \E p \in Priorities : PrioritiesSeen(want, override) = {p}
        THEN Highest(PrioritiesSeen(want, override))
        ELSE Highest({0} \cup {EffectiveAfter(want, override)[s] : s \in Wanting(i, want)})]

(* A set that is not attached, or a subaction path it does not have: the    *)
(* sets named before it stay active.                                        *)
SyncRefused(kept) ==
    /\ session
    /\ kept \subseteq attached
    /\ Activate(kept, [s \in {} |-> 0])
    /\ sync' = "refused"
    /\ UNCHANGED <<handleVars, session, suggested, attached, sourcePriority,
                   copied, bindingVars, profileDirty, told, late>>

(* XR_SESSION_NOT_FOCUSED *)
SyncUnfocused(want, override) ==
    /\ session
    /\ want \subseteq attached
    /\ Activate(want, override)
    /\ sync' = "unfocused"
    /\ UNCHANGED <<handleVars, session, suggested, attached, sourcePriority,
                   copied, bindingVars, profileDirty, told, late>>

(* ovr_GetInputState fails, and the call with it. *)
SyncFails(want, override) ==
    /\ session
    /\ want \subseteq attached
    /\ Activate(want, override)
    /\ sourcePriority' = SourcePriorityAfter(want, override)
    /\ sync' = "refused"
    /\ UNCHANGED <<handleVars, session, suggested, attached, copied, bindingVars,
                   profileDirty, told, late>>

(* A side that is looked at finds a controller of some type, connected or   *)
(* emulated; or one seen shortly before; or none.                           *)
Findings == Types \cup {"lingering", NoType}

Found(d, found) == IF found[d] = "lingering" THEN controllerType[d] ELSE found[d]
ActiveAfter(d, found) ==
    IF found[d] = "lingering" THEN controllerActive[d] ELSE found[d] # NoType

(* When refreshSettings() forgets a side's type: not while the call runs,   *)
(* before the type is compared with what it was, or before it is rebound.   *)
Cuts == {"none", "compare", "rebind"}
Compared(d, found, cut) == IF cut[d] = "compare" THEN NoType ELSE Found(d, found)
RebindSides(D, found, cut) == {d \in D : Compared(d, found, cut) # controllerType[d]}
TypeAfter(d, found, cut) == IF cut[d] = "none" THEN Found(d, found) ELSE NoType
ProfileAfter(D, found, cut) ==
    [d \in Sides |->
        IF d \notin RebindSides(D, found, cut) THEN profile[d]
        ELSE IF TypeAfter(d, found, cut) = NoType THEN NoProfile ELSE UsedProfile]

(* Copies before the call's sets are known. *)
Mutant_CopiedAfter(want) == [s \in ActionSets |-> s \in active \/ copied[s]]

(* The sets whose cachedInputState is a copy of the input after the call. *)
CopiedAfter(want) == [s \in ActionSets |-> s \in want \/ copied[s]]

SyncFocused(want, override, D, found, cut) ==
    /\ session
    /\ want \subseteq attached
    /\ Activate(want, override)
    /\ sourcePriority' = SourcePriorityAfter(want, override)
    /\ controllerType' = [d \in Sides |->
            IF d \in D THEN TypeAfter(d, found, cut) ELSE controllerType[d]]
    /\ controllerActive' = [d \in Sides |->
            IF d \in D THEN ActiveAfter(d, found) ELSE controllerActive[d]]
    /\ profile' = ProfileAfter(D, found, cut)
    /\ sources' = [a \in Handles |->
            SourcesAfter(a, RebindSides(D, found, cut), profile')]
    /\ profileDirty' = ProfileDirtyAfter(profile')
    /\ copied' = CopiedAfter(want)
    /\ sync' = IF RebindSides(D, found, cut) = {} THEN "synced" ELSE "rebound"
    /\ UNCHANGED <<handleVars, session, suggested, attached, told, late>>

Sync ==
    \/ \E kept \in SUBSET attached : SyncRefused(kept)
    \/ \E want \in SUBSET attached : \E override \in Overrides(want) :
        \/ SyncUnfocused(want, override)
        \/ SyncFails(want, override)
        \/ \E D \in SUBSET (IF want = {} THEN {} ELSE Sides) :
            \E found \in [D -> Findings], cut \in [D -> Cuts] :
                SyncFocused(want, override, D, found, cut)

Next ==
    \/ \E s \in ActionSets : CreateActionSet(s) \/ DestroyActionSet(s)
    \/ \E a \in Handles : CreateAction(a) \/ DestroyAction(a)
    \/ \E p \in Profiles : \E bindings \in Suggestions[p] : SuggestBindings(p, bindings)
    \/ CreateSession \/ DestroySession
    \/ \E d \in Sides : ForgetType(d)
    \/ \E S \in SUBSET actionSets : AttachActionSets(S)
    \/ PollProfileChanged
    \/ Sync

Spec == Init /\ [][Next]_vars

------------------------------------------------------------------------------
(* What the application reads.                                              *)

(* xrGetActionStateBoolean, Float, Vector2f: action a is active, and its    *)
(* state is that of input x in its set's cachedInputState.                  *)
Read(a, x) ==
    /\ session
    /\ a \in actions /\ SetOf[a] \in attached
    /\ SetOf[a] \in active
    /\ x \in sources[a]
    /\ x[2] \in DOMAIN Indexed =>
            sourcePriority[Indexed[x[2]]] = effective[SetOf[a]]
    /\ controllerActive[x[1]]

(* The action's set is one of those that are active, and it is bound to x. *)
Wanted(a, x) ==
    /\ a \in actions /\ SetOf[a] \in active /\ x \in sources[a]

(* Sources x and y are given by the priority of one index. *)
SameIndex(x, y) ==
    {x[2], y[2]} \subseteq DOMAIN Indexed /\ Indexed[x[2]] = Indexed[y[2]]

(* No handle that is live leads to an action set that was deleted: neither  *)
(* an action's actionSet, which is where its sources point, nor             *)
(* m_attachedActionSets.  xrDestroyActionSet must take out both.            *)
NothingDangles ==
    /\ \A a \in actions : SetOf[a] \in actionSets
    /\ attached \subseteq actionSets

(* The bindings in use are those that were suggested for the profile the    *)
(* application is told is in use, completely, for every action that is      *)
(* left, and there are none where no profile is in use: through sessions,   *)
(* destroyed actions, controllers that come, go or linger, and settings     *)
(* that change within a call.  (An application that has destroyed all its   *)
(* attached sets may suggest again; that takes effect with the next         *)
(* controller only.)                                                        *)
SourcesMatchProfile ==
    session /\ ~late =>
        \A a \in actions, d \in Sides :
            {x \in sources[a] : x[1] = d} = BoundBy(profile[d], a, d)

(* A change of profile is never kept from the application: it knows the     *)
(* profile of either hand, or an event is waiting.                          *)
ProfileAnnounced ==
    session /\ attached # {} /\ ~profileDirty => told = profile

(* After a complete xrSyncActions no set is given an input that a set of    *)
(* higher priority wants, by the same component or another one of the same  *)
(* index, whatever was destroyed since, and with overrides that lower a     *)
(* priority as well as raise it.                                            *)
HigherSetWins ==
    sync = "synced" =>
        \A a, b \in actions, x, y \in Sources :
            Read(a, x) /\ Wanted(b, y) /\ SameIndex(x, y) =>
                effective[SetOf[b]] <= effective[SetOf[a]]

(* After a xrSyncActions that went through, whatever is read is a copy of   *)
(* the input: sets created in the place of others, or that were left out of *)
(* earlier calls, included.                                                 *)
SyncedStateIsACopy ==
    sync \in {"synced", "rebound"} =>
        \A a \in actions, x \in Sources : Read(a, x) => copied[SetOf[a]]

(* A complete xrSyncActions leaves no input that is wanted to nobody: the   *)
(* priority of its index is that of one of the actions bound to it, which   *)
(* was there when the call was made.                                        *)
NoInputLost ==
    sync = "synced" /\ active \subseteq attached =>
        \A a \in actions, x \in Sources :
            Wanted(a, x) /\ x[2] \in DOMAIN Indexed =>
                \E b \in created : \E y \in sources[b] :
                    /\ SameIndex(x, y)
                    /\ SetOf[b] \in active
                    /\ sourcePriority[Indexed[x[2]]] = effective[SetOf[b]]

(* The comment at runtime.h:438 says of cachedInputState "A copy of the     *)
(* input state. This is to handle when xrSyncActions() does not update all  *)
(* actionsets at once."  So after a xrSyncActions that returned a success   *)
(* what is read should be such a copy.                                      *)
StateIsACopy ==
    sync # "refused" =>
        \A a \in actions, x \in Sources : Read(a, x) => copied[SetOf[a]]

(* The comment at action.cpp:1084 says "Determine highest actionset         *)
(* priority for each action's bound source."  So after a complete           *)
(* xrSyncActions an action whose source no active set of higher priority is *)
(* bound to, in the same hand and by the same index, can be read.           *)
UncontestedIsRead ==
    sync = "synced" /\ active \subseteq attached =>
        \A a \in actions, x \in Sources :
            /\ session /\ SetOf[a] \in attached /\ Wanted(a, x)
            /\ controllerActive[x[1]]
            /\ \A b \in created :
                /\ SetOf[b] \in active
                /\ \E y \in sources[b] :
                    y[1] = x[1] /\ (y[2] = x[2] \/ SameIndex(x, y))
                => effective[SetOf[b]] <= effective[SetOf[a]]
            => Read(a, x)

=============================================================================
