---------------------------- MODULE Actions_proof ----------------------------
(***************************************************************************)
(* Theorems about Actions, for any action sets, actions, sides, inputs,     *)
(* profiles, suggestions and priorities.                                    *)
(***************************************************************************)
EXTENDS Actions, WellFoundedInduction, TLAPS

(***************************************************************************)
(* Numbers: a set of them has a least one, and a greatest one if it is      *)
(* bounded.  The order on Nat is well founded; the relation is spelled out  *)
(* because the provers do not look into OpToRel.                            *)
(***************************************************************************)
Below == {ss \in Nat \X Nat : ss[1] < ss[2]}

LEMMA LeastNumber ==
    ASSUME NEW S \in SUBSET Nat, S # {}
    PROVE  \E i \in S : \A j \in S : i <= j
<1>1. OpToRel(<, Nat) = Below
  BY DEF OpToRel, Below
<1>2. IsWellFoundedOn(Below, Nat)
  BY <1>1, NatLessThanWellFounded
<1>3. PICK i \in S : \A j \in S : ~(<<j, i>> \in Below)
  BY <1>2, WFMin
<1>4. ASSUME NEW j \in S PROVE i <= j
  <2>1. i \in Nat /\ j \in Nat
    OBVIOUS
  <2>2. j < i => <<j, i>> \in Below
    BY <2>1 DEF Below
  <2> QED
    BY <1>3, <2>1, <2>2
<1> QED
  BY <1>4

LEMMA GreatestNumber ==
    ASSUME NEW M \in Nat, NEW S \in SUBSET (0 .. M), S # {}
    PROVE  \E i \in S : \A j \in S : j <= i
<1> DEFINE C == {M - s : s \in S}
<1>1. C \in SUBSET Nat
  OBVIOUS
<1>2. C # {}
  OBVIOUS
<1>3. PICK c \in C : \A d \in C : c <= d
  BY <1>1, <1>2, LeastNumber
<1>4. PICK i \in S : c = M - i
  BY <1>3
<1>5. \A j \in S : M - j \in C
  OBVIOUS
<1>6. ASSUME NEW j \in S PROVE j <= i
  <2>1. M - i <= M - j
    BY <1>3, <1>4, <1>5
  <2> QED
    BY <2>1
<1> QED
  BY <1>6

(***************************************************************************)
(* The operators of Actions.                                                *)
(***************************************************************************)

(* Highest() finds the highest of a set of priorities. *)
LEMMA HighestProperty ==
    ASSUME NEW S \in SUBSET Priorities, S # {}
    PROVE  Highest(S) \in S /\ \A q \in S : q <= Highest(S)
<1>1. \E p \in S : \A q \in S : q <= p
  BY GreatestNumber, SetsAssumption DEF Priorities
<1> QED
  BY <1>1 DEF Highest

(* The profile rebindControllerActions() uses is one it can map and has a   *)
(* suggestion for, or none.                                                 *)
LEMMA UsedProfileProperty ==
    UsedProfile \in (Mappable \cap DOMAIN suggested) \cup {NoProfile}
<1> DEFINE S == {i \in DOMAIN Preference : Suggested(i)}
<1>1. S \in SUBSET Nat
  BY ProfilesAssumption
<1>2. CASE S = {}
  BY <1>2 DEF UsedProfile
<1>3. CASE S # {}
  <2>1. \E i \in S : \A j \in S : i <= j
    BY <1>1, <1>3, LeastNumber
  <2>2. \E i \in DOMAIN Preference :
            /\ Suggested(i)
            /\ \A j \in DOMAIN Preference : Suggested(j) => i <= j
    BY <2>1
  <2> QED
    BY <2>2, <1>3 DEF UsedProfile, Suggested, Mappable
<1> QED
  BY <1>2, <1>3

(* A binding leads to an input of the side it is for. *)
LEMMA BoundByProperty ==
    ASSUME NEW p \in (Mappable \cap DOMAIN suggested) \cup {NoProfile},
           NEW a, NEW d \in Sides
    PROVE  /\ BoundBy(p, a, d) \subseteq Sources
           /\ \A x \in BoundBy(p, a, d) : x[1] = d
<1>1. CASE p = NoProfile
  BY <1>1 DEF BoundBy
<1>2. CASE p # NoProfile
  <2>1. p \in Mappable
    BY <1>2
  <2>2. \A c \in DOMAIN Mapped[p] : Mapped[p][c] \in Inputs
    BY <2>1, ProfilesAssumption
  <2>3. ASSUME NEW x \in BoundBy(p, a, d)
        PROVE  x \in Sources /\ x[1] = d
    <3>1. PICK c \in DOMAIN Mapped[p] : x = <<d, Mapped[p][c]>>
      BY <1>2, <2>3 DEF BoundBy
    <3>2. x \in Sources
      BY <2>2, <3>1 DEF Sources
    <3> QED
      BY <3>1, <3>2
  <2> QED
    BY <2>3
<1> QED
  BY <1>1, <1>2

(* What an action is bound to after rebindControllerActions(): a set of     *)
(* sources, and none if it had none and no binding names it.                *)
LEMMA SourcesAfterType ==
    ASSUME TypeOK, NEW a \in Handles, NEW D \in SUBSET Sides, NEW new,
           \A d \in D : new[d] \in (Mappable \cap DOMAIN suggested) \cup {NoProfile}
    PROVE  SourcesAfter(a, D, new) \in SUBSET Sources
<1>1. sources[a] \subseteq Sources
  BY DEF TypeOK
<1>2. \A d \in D : BoundBy(new[d], a, d) \subseteq Sources
  BY BoundByProperty
<1> QED
  BY <1>1, <1>2 DEF SourcesAfter

(* The profiles that xrSyncActions may choose.                              *)
LEMMA ProfileAfterProperty ==
    ASSUME TypeOK, NEW D \in SUBSET Sides, NEW found, NEW cut
    PROVE  /\ RebindSides(D, found, cut) \subseteq Sides
           /\ \A d \in RebindSides(D, found, cut) :
                ProfileAfter(D, found, cut)[d]
                    \in (Mappable \cap DOMAIN suggested) \cup {NoProfile}
           /\ ProfileAfter(D, found, cut) \in [Sides -> Mappable \cup {NoProfile}]
<1>1. RebindSides(D, found, cut) \subseteq Sides
  BY DEF RebindSides
<1>2. ASSUME NEW d \in RebindSides(D, found, cut)
      PROVE  ProfileAfter(D, found, cut)[d]
                \in (Mappable \cap DOMAIN suggested) \cup {NoProfile}
  BY <1>1, UsedProfileProperty DEF ProfileAfter
<1>3. ASSUME NEW d \in Sides
      PROVE  ProfileAfter(D, found, cut)[d] \in Mappable \cup {NoProfile}
  <2>1. CASE d \in RebindSides(D, found, cut)
    BY <1>2, <2>1
  <2>2. CASE d \notin RebindSides(D, found, cut)
    BY <2>2 DEF ProfileAfter, TypeOK
  <2> QED
    BY <2>1, <2>2
<1>4. ProfileAfter(D, found, cut) = [d \in Sides |-> ProfileAfter(D, found, cut)[d]]
  BY DEF ProfileAfter
<1> QED
  BY <1>1, <1>2, <1>3, <1>4

(* Priorities: of the sets, and of the inputs.                              *)
LEMMA PrioritiesProperty ==
    ASSUME TypeOK, NEW want \in SUBSET attached, NEW override \in Overrides(want)
    PROVE  /\ DOMAIN override \subseteq want
           /\ \A s \in DOMAIN override : override[s] \in Priorities
           /\ EffectiveAfter(want, override) \in [ActionSets -> Priorities]
           /\ PrioritiesSeen(want, override) \subseteq Priorities
           /\ SourcePriorityAfter(want, override) \in [Indices -> Priorities]
<1>1. PICK S \in SUBSET want : override \in [S -> Overriding]
  BY DEF Overrides
<1>2. /\ DOMAIN override \subseteq want
      /\ \A s \in DOMAIN override : override[s] \in Priorities
  BY <1>1, SetsAssumption
<1>3. want \subseteq ActionSets
  BY DEF TypeOK
<1>4. EffectiveAfter(want, override) \in [ActionSets -> Priorities]
  BY <1>2, SetsAssumption DEF EffectiveAfter, TypeOK
<1>5. PrioritiesSeen(want, override) \subseteq Priorities
  BY <1>2, <1>3, SetsAssumption DEF PrioritiesSeen
<1>6. ASSUME NEW i \in Indices
      PROVE  SourcePriorityAfter(want, override)[i] \in Priorities
  <2> DEFINE Wants == {0} \cup {EffectiveAfter(want, override)[s] : s \in Wanting(i, want)}
  <2>1. Wants \subseteq Priorities /\ Wants # {}
    BY <1>3, <1>4, SetsAssumption DEF Wanting, Priorities
  <2>2. Highest(Wants) \in Priorities
    BY <2>1, HighestProperty
  <2>3. CASE \E p \in Priorities : PrioritiesSeen(want, override) = {p}
    <3>1. Highest(PrioritiesSeen(want, override)) \in Priorities
      BY <1>5, <2>3, HighestProperty
    <3> QED
      BY <2>3, <3>1 DEF SourcePriorityAfter
  <2>4. CASE ~\E p \in Priorities : PrioritiesSeen(want, override) = {p}
    BY <2>2, <2>4 DEF SourcePriorityAfter
  <2> QED
    BY <2>3, <2>4
<1>7. SourcePriorityAfter(want, override) \in [Indices -> Priorities]
  <2>1. SourcePriorityAfter(want, override) =
            [i \in Indices |-> SourcePriorityAfter(want, override)[i]]
    BY DEF SourcePriorityAfter
  <2> QED
    BY <1>6, <2>1
<1> QED
  BY <1>2, <1>4, <1>5, <1>7

------------------------------------------------------------------------------
(* The types.                                                               *)

LEMMA InitType ==
    ASSUME Init
    PROVE  TypeOK
<1>1. DOMAIN suggested = {}
  BY DEF Init
<1>2. effective \in [ActionSets -> Priorities] /\ sourcePriority \in [Indices -> Priorities]
  BY SetsAssumption DEF Init, Priorities
<1>3. /\ session \in BOOLEAN /\ profileDirty \in BOOLEAN /\ late \in BOOLEAN
      /\ actionSets = {} /\ created = {} /\ actions = {} /\ attached = {} /\ active = {}
      /\ sync \in SyncResults
  BY DEF Init, SyncResults
<1>4. /\ copied \in [ActionSets -> BOOLEAN]
      /\ sources \in [Handles -> SUBSET Sources]
      /\ controllerType \in [Sides -> Types \cup {NoType}]
      /\ controllerActive \in [Sides -> BOOLEAN]
  BY DEF Init
<1>5. /\ profile \in [Sides -> Mappable \cup {NoProfile}]
      /\ told \in [Sides -> Mappable \cup {NoProfile}]
  BY DEF Init
<1> QED
  BY <1>1, <1>2, <1>3, <1>4, <1>5 DEF TypeOK

(* A sync that goes through assigns values of the types.                    *)
LEMMA SyncFocusedType ==
    ASSUME TypeOK, NEW want \in SUBSET attached, NEW override \in Overrides(want),
           NEW D \in SUBSET Sides, NEW found \in [D -> Findings], NEW cut \in [D -> Cuts],
           SyncFocused(want, override, D, found, cut)
    PROVE  TypeOK'
<1>1. effective' \in [ActionSets -> Priorities] /\ sourcePriority' \in [Indices -> Priorities]
  BY PrioritiesProperty DEF SyncFocused, Activate
<1>2. ASSUME NEW d \in D
      PROVE  Found(d, found) \in Types \cup {NoType} /\ ActiveAfter(d, found) \in BOOLEAN
  <2>1. found[d] \in Findings
    OBVIOUS
  <2>2. controllerType[d] \in Types \cup {NoType} /\ controllerActive[d] \in BOOLEAN
    BY DEF TypeOK
  <2> QED
    BY <2>1, <2>2 DEF Found, ActiveAfter, Findings
<1>3. controllerType' \in [Sides -> Types \cup {NoType}]
  BY <1>2 DEF SyncFocused, TypeAfter, TypeOK
<1>4. controllerActive' \in [Sides -> BOOLEAN]
  BY <1>2 DEF SyncFocused, TypeOK
<1>5. profile' \in [Sides -> Mappable \cup {NoProfile}]
  BY ProfileAfterProperty DEF SyncFocused
<1>6. sources' \in [Handles -> SUBSET Sources]
  <2>1. ASSUME NEW a \in Handles
        PROVE  SourcesAfter(a, RebindSides(D, found, cut), ProfileAfter(D, found, cut))
                    \in SUBSET Sources
    BY ProfileAfterProperty, SourcesAfterType
  <2> QED
    BY <2>1 DEF SyncFocused
<1>7. profileDirty' \in BOOLEAN /\ sync' \in SyncResults
  BY DEF SyncFocused, ProfileDirtyAfter, SyncResults, TypeOK
<1>8. copied' \in [ActionSets -> BOOLEAN]
  BY DEF SyncFocused, CopiedAfter, TypeOK
<1>9. active' \subseteq ActionSets
  BY DEF SyncFocused, Activate, TypeOK
<1>10. UNCHANGED <<actionSets, actions, created, session, suggested, attached, told, late>>
  BY DEF SyncFocused, handleVars
<1> QED
  BY <1>1, <1>3, <1>4, <1>5, <1>6, <1>7, <1>8, <1>9, <1>10 DEF TypeOK

LEMMA SyncType ==
    ASSUME TypeOK, Sync
    PROVE  TypeOK'
<1>1. ASSUME NEW kept \in SUBSET attached, SyncRefused(kept)
      PROVE  TypeOK'
  <2>1. EffectiveAfter(kept, [s \in {} |-> 0]) \in [ActionSets -> Priorities]
    BY SetsAssumption DEF EffectiveAfter, TypeOK
  <2> QED
    BY <1>1, <2>1
    DEF SyncRefused, Activate, SyncResults, handleVars, bindingVars, TypeOK
<1>2. ASSUME NEW want \in SUBSET attached, NEW override \in Overrides(want),
             SyncUnfocused(want, override)
      PROVE  TypeOK'
  BY <1>2, PrioritiesProperty
  DEF SyncUnfocused, Activate, SyncResults, handleVars, bindingVars, TypeOK
<1>3. ASSUME NEW want \in SUBSET attached, NEW override \in Overrides(want),
             SyncFails(want, override)
      PROVE  TypeOK'
  BY <1>3, PrioritiesProperty
  DEF SyncFails, Activate, SyncResults, handleVars, bindingVars, TypeOK
<1>4. ASSUME NEW want \in SUBSET attached, NEW override \in Overrides(want),
             NEW D \in SUBSET Sides, NEW found \in [D -> Findings], NEW cut \in [D -> Cuts],
             SyncFocused(want, override, D, found, cut)
      PROVE  TypeOK'
  BY <1>4, SyncFocusedType
<1> QED
  BY <1>1, <1>2, <1>3, <1>4 DEF Sync

LEMMA NextType ==
    ASSUME TypeOK, [Next]_vars
    PROVE  TypeOK'
<1>1. ASSUME NEW s \in ActionSets, CreateActionSet(s)
      PROVE  TypeOK'
  BY <1>1, SetsAssumption DEF CreateActionSet, bindingVars, TypeOK
<1>2. ASSUME NEW s \in ActionSets, DestroyActionSet(s)
      PROVE  TypeOK'
  BY <1>2, SetsAssumption DEF DestroyActionSet, ActionsLeft, bindingVars, TypeOK
<1>3. ASSUME NEW a \in Handles, CreateAction(a)
      PROVE  TypeOK'
  BY <1>3 DEF CreateAction, syncVars, bindingVars, TypeOK
<1>4. ASSUME NEW a \in Handles, DestroyAction(a)
      PROVE  TypeOK'
  BY <1>4 DEF DestroyAction, syncVars, bindingVars, TypeOK
<1>5. ASSUME NEW p \in Profiles, NEW bindings \in Suggestions[p], SuggestBindings(p, bindings)
      PROVE  TypeOK'
  BY <1>5 DEF SuggestBindings, handleVars, syncVars, bindingVars, TypeOK
<1>6. CASE CreateSession
  <2>1. \A a \in Handles : SourcesAfter(a, Sides, [d \in Sides |-> NoProfile]) \in SUBSET Sources
    BY SourcesAfterType
  <2> QED
    BY <1>6, <2>1 DEF CreateSession, handleVars, TypeOK
<1>7. CASE DestroySession
  BY <1>7 DEF DestroySession, handleVars, syncVars, bindingVars, SyncResults, TypeOK
<1>8. ASSUME NEW d \in Sides, ForgetType(d)
      PROVE  TypeOK'
  BY <1>8 DEF ForgetType, handleVars, syncVars, TypeOK
<1>9. ASSUME NEW S \in SUBSET actionSets, AttachActionSets(S)
      PROVE  TypeOK'
  BY <1>9 DEF AttachActionSets, handleVars, syncVars, bindingVars, TypeOK
<1>10. CASE PollProfileChanged
  BY <1>10 DEF PollProfileChanged, handleVars, syncVars, bindingVars, TypeOK
<1>11. CASE Sync
  BY <1>11, SyncType
<1>12. CASE UNCHANGED vars
  BY <1>12 DEF vars, handleVars, syncVars, bindingVars, TypeOK
<1> QED
  BY <1>1, <1>2, <1>3, <1>4, <1>5, <1>6, <1>7, <1>8, <1>9, <1>10, <1>11, <1>12 DEF Next

(* The variables have their types.                                          *)
THEOREM TypeCorrect == Spec => []TypeOK
<1>1. Init => TypeOK
  BY InitType
<1>2. TypeOK /\ [Next]_vars => TypeOK'
  BY NextType
<1> QED
  BY <1>1, <1>2, PTL DEF Spec

------------------------------------------------------------------------------
(* Handles.                                                                 *)

(* What is suggested, in use or bound is of actions that were created and   *)
(* of profiles that were suggested.                                         *)
BindingsKnown ==
    /\ \A p \in DOMAIN suggested : \A b \in suggested[p] : b[1] \in created
    /\ \A d \in Sides : profile[d] \in DOMAIN suggested \cup {NoProfile}
    /\ \A a \in Handles \ created : sources[a] = {}

LEMMA BindingsKnownStep ==
    ASSUME TypeOK, BindingsKnown, [Next]_vars
    PROVE  BindingsKnown'
<1>1. CASE UNCHANGED <<suggested, profile, sources>> /\ created \subseteq created'
  BY <1>1 DEF BindingsKnown
<1>2. ASSUME NEW p \in Profiles, NEW bindings \in Suggestions[p], SuggestBindings(p, bindings)
      PROVE  BindingsKnown'
  <2>1. DOMAIN suggested' = DOMAIN suggested \cup {p}
    BY <1>2 DEF SuggestBindings
  <2>2. \A q \in DOMAIN suggested' :
            suggested'[q] = IF q = p THEN bindings ELSE suggested[q]
    BY <1>2 DEF SuggestBindings
  <2>3. \A q \in DOMAIN suggested' : \A b \in suggested'[q] : b[1] \in created
    BY <1>2, <2>1, <2>2 DEF SuggestBindings, BindingsKnown
  <2> QED
    BY <1>2, <2>1, <2>3 DEF SuggestBindings, handleVars, bindingVars, BindingsKnown
<1>3. CASE CreateSession
  <2>1. \A a \in Handles \ created : sources'[a] = {}
    BY <1>3 DEF CreateSession, SourcesAfter, BindingsKnown, TypeOK
  <2>2. \A d \in Sides : profile'[d] = NoProfile
    BY <1>3 DEF CreateSession
  <2> QED
    BY <1>3, <2>1, <2>2 DEF CreateSession, handleVars, BindingsKnown
<1>4. ASSUME NEW want \in SUBSET attached, NEW override \in Overrides(want),
             NEW D \in SUBSET Sides, NEW found \in [D -> Findings], NEW cut \in [D -> Cuts],
             SyncFocused(want, override, D, found, cut)
      PROVE  BindingsKnown'
  <2>1. \A a \in Handles \ created : sources'[a] = {}
    BY <1>4 DEF SyncFocused, SourcesAfter, BindingsKnown, TypeOK
  <2>2. ASSUME NEW d \in Sides
        PROVE  profile'[d] \in DOMAIN suggested \cup {NoProfile}
    <3>1. CASE d \in RebindSides(D, found, cut)
      BY <1>4, <3>1, ProfileAfterProperty DEF SyncFocused
    <3>2. CASE d \notin RebindSides(D, found, cut)
      BY <1>4, <3>2 DEF SyncFocused, ProfileAfter, BindingsKnown
    <3> QED
      BY <3>1, <3>2
  <2> QED
    BY <1>4, <2>1, <2>2 DEF SyncFocused, handleVars, BindingsKnown
<1>5. ASSUME NEW a \in Handles, CreateAction(a)
      PROVE  BindingsKnown'
  BY <1>5 DEF CreateAction, bindingVars, BindingsKnown
<1> QED
  BY <1>1, <1>2, <1>3, <1>4, <1>5
  DEF Next, CreateActionSet, DestroyActionSet, DestroyAction, DestroySession, ForgetType,
      AttachActionSets, PollProfileChanged, Sync, SyncRefused, SyncUnfocused, SyncFails,
      vars, handleVars, bindingVars

LEMMA NothingDanglesStep ==
    ASSUME TypeOK, NothingDangles, [Next]_vars
    PROVE  NothingDangles'
<1>1. CASE UNCHANGED <<actionSets, actions, attached>>
  BY <1>1 DEF NothingDangles
<1>2. ASSUME NEW s \in ActionSets, CreateActionSet(s)
      PROVE  NothingDangles'
  BY <1>2 DEF CreateActionSet, NothingDangles
<1>3. ASSUME NEW s \in ActionSets, DestroyActionSet(s)
      PROVE  NothingDangles'
  BY <1>3 DEF DestroyActionSet, ActionsLeft, NothingDangles
<1>4. ASSUME NEW a \in Handles, CreateAction(a)
      PROVE  NothingDangles'
  BY <1>4 DEF CreateAction, NothingDangles
<1>5. ASSUME NEW a \in Handles, DestroyAction(a)
      PROVE  NothingDangles'
  BY <1>5 DEF DestroyAction, NothingDangles
<1>6. CASE CreateSession
  BY <1>6 DEF CreateSession, handleVars, NothingDangles
<1>7. ASSUME NEW S \in SUBSET actionSets, AttachActionSets(S)
      PROVE  NothingDangles'
  BY <1>7 DEF AttachActionSets, handleVars, NothingDangles
<1>8. CASE Sync
  <2>1. UNCHANGED <<actionSets, actions, attached>>
    BY <1>8 DEF Sync, SyncRefused, SyncUnfocused, SyncFails, SyncFocused, handleVars
  <2> QED
    BY <1>1, <2>1
<1> QED
  BY <1>1, <1>2, <1>3, <1>4, <1>5, <1>6, <1>7, <1>8
  DEF Next, SuggestBindings, DestroySession, ForgetType, PollProfileChanged,
      vars, handleVars

(* No live handle leads to an action set that was deleted.                  *)
THEOREM NothingDanglesHolds == Spec => []NothingDangles
<1>1. Init => NothingDangles
  BY DEF Init, NothingDangles
<1>2. TypeOK /\ NothingDangles /\ [Next]_vars => NothingDangles'
  BY NothingDanglesStep
<1> QED
  BY <1>1, <1>2, TypeCorrect, PTL DEF Spec

(* Bindings lead to actions and profiles that are known.                    *)
THEOREM BindingsKnownHolds == Spec => []BindingsKnown
<1>1. Init => BindingsKnown
  BY DEF Init, BindingsKnown
<1>2. TypeOK /\ BindingsKnown /\ [Next]_vars => BindingsKnown'
  BY BindingsKnownStep
<1> QED
  BY <1>1, <1>2, TypeCorrect, PTL DEF Spec

------------------------------------------------------------------------------
(* Profiles and their bindings.                                             *)

(* The bindings of side d match the profile.                                *)
Matches(a, d) == {x \in sources[a] : x[1] = d} = BoundBy(profile[d], a, d)

LEMMA SourcesMatchProfileStep ==
    ASSUME TypeOK, BindingsKnown, SourcesMatchProfile, [Next]_vars
    PROVE  SourcesMatchProfile'
<1>1. CASE /\ UNCHANGED <<session, suggested, sources, profile, late>>
           /\ actions' \subseteq actions
  <2> SUFFICES ASSUME session, ~late, NEW a \in actions, NEW d \in Sides
               PROVE  Matches(a, d)'
    BY <1>1 DEF SourcesMatchProfile, Matches
  <2>1. Matches(a, d)
    BY DEF SourcesMatchProfile, Matches
  <2>2. BoundBy(profile[d], a, d)' = BoundBy(profile[d], a, d)
    BY <1>1 DEF BoundBy
  <2> QED
    BY <1>1, <2>1, <2>2 DEF Matches
<1>2. ASSUME NEW a \in Handles, CreateAction(a)
      PROVE  SourcesMatchProfile'
  <2>1. ASSUME NEW d \in Sides
        PROVE  sources[a] = {} /\ BoundBy(profile[d], a, d) = {}
    BY <1>2 DEF CreateAction, BindingsKnown, BoundBy
  <2> SUFFICES ASSUME session, ~late, NEW b \in actions \cup {a}, NEW d \in Sides
               PROVE  Matches(b, d)'
    BY <1>2 DEF CreateAction, handleVars, SourcesMatchProfile, Matches
  <2>2. BoundBy(profile[d], b, d)' = BoundBy(profile[d], b, d)
    BY <1>2 DEF CreateAction, bindingVars, BoundBy
  <2>3. Matches(b, d)
    BY <2>1 DEF SourcesMatchProfile, Matches
  <2> QED
    BY <1>2, <2>2, <2>3 DEF CreateAction, bindingVars, Matches
<1>3. ASSUME NEW p \in Profiles, NEW bindings \in Suggestions[p], SuggestBindings(p, bindings)
      PROVE  SourcesMatchProfile'
  <2> SUFFICES ASSUME session, ~late', NEW a \in actions, NEW d \in Sides
               PROVE  Matches(a, d)'
    BY <1>3 DEF SuggestBindings, handleVars, SourcesMatchProfile, Matches
  <2>1. profile[d] = NoProfile /\ ~late
    BY <1>3 DEF SuggestBindings
  <2>2. Matches(a, d)
    BY <2>1 DEF SourcesMatchProfile, Matches
  <2>3. BoundBy(profile[d], a, d)' = {} /\ BoundBy(profile[d], a, d) = {}
    BY <1>3, <2>1 DEF SuggestBindings, bindingVars, BoundBy
  <2> QED
    BY <1>3, <2>2, <2>3 DEF SuggestBindings, bindingVars, Matches
<1>4. CASE CreateSession
  <2> SUFFICES ASSUME NEW a \in actions, NEW d \in Sides
               PROVE  Matches(a, d)'
    BY <1>4 DEF CreateSession, handleVars, SourcesMatchProfile, Matches
  <2>1. \A e \in Sides : profile'[e] = NoProfile
    BY <1>4 DEF CreateSession
  <2>2. sources'[a] = {}
    <3>1. a \in Handles /\ sources[a] \subseteq Sources
      BY DEF TypeOK
    <3>2. \A e \in Sides : BoundBy(profile'[e], a, e) = {}
      BY <2>1 DEF BoundBy
    <3>3. {x \in sources[a] : x[1] \notin Sides} = {}
      BY <3>1 DEF Sources
    <3> QED
      BY <1>4, <3>1, <3>2, <3>3 DEF CreateSession, SourcesAfter
  <2> QED
    BY <2>1, <2>2 DEF Matches, BoundBy
<1>5. CASE DestroySession
  BY <1>5 DEF DestroySession, SourcesMatchProfile
<1>6. ASSUME NEW want \in SUBSET attached, NEW override \in Overrides(want),
             NEW D \in SUBSET Sides, NEW found \in [D -> Findings], NEW cut \in [D -> Cuts],
             SyncFocused(want, override, D, found, cut)
      PROVE  SourcesMatchProfile'
  <2> DEFINE R == RebindSides(D, found, cut)
  <2> SUFFICES ASSUME ~late, NEW a \in actions, NEW d \in Sides
               PROVE  Matches(a, d)'
    BY <1>6 DEF SyncFocused, handleVars, SourcesMatchProfile, Matches
  <2>1. Matches(a, d)
    BY <1>6 DEF SyncFocused, SourcesMatchProfile, Matches
  <2>2. sources'[a] = {x \in sources[a] : x[1] \notin R}
                        \cup UNION {BoundBy(profile'[e], a, e) : e \in R}
    BY <1>6 DEF SyncFocused, SourcesAfter, TypeOK
  <2>3. R \subseteq Sides /\ \A e \in R : \A x \in BoundBy(profile'[e], a, e) : x[1] = e
    <3>1. ASSUME NEW e \in R
          PROVE  \A x \in BoundBy(profile'[e], a, e) : x[1] = e
      BY <1>6, ProfileAfterProperty, BoundByProperty DEF SyncFocused
    <3> QED
      BY <3>1, ProfileAfterProperty
  <2>4. BoundBy(profile[d], a, d)' = BoundBy(profile'[d], a, d)
    BY <1>6 DEF SyncFocused, BoundBy
  <2>5. CASE d \in R
    <3>1. {x \in sources'[a] : x[1] = d} = BoundBy(profile'[d], a, d)
      BY <2>2, <2>3, <2>5
    <3> QED
      BY <2>4, <3>1 DEF Matches
  <2>6. CASE d \notin R
    <3>1. {x \in sources'[a] : x[1] = d} = {x \in sources[a] : x[1] = d}
      BY <2>2, <2>3, <2>6
    <3>2. profile'[d] = profile[d]
      BY <1>6, <2>6 DEF SyncFocused, ProfileAfter
    <3> QED
      BY <2>1, <2>4, <3>1, <3>2 DEF Matches
  <2> QED
    BY <2>5, <2>6
<1>7. ASSUME NEW s \in ActionSets, DestroyActionSet(s)
      PROVE  SourcesMatchProfile'
  BY <1>1, <1>7 DEF DestroyActionSet, ActionsLeft, bindingVars
<1>8. ASSUME NEW a \in Handles, DestroyAction(a)
      PROVE  SourcesMatchProfile'
  BY <1>1, <1>8 DEF DestroyAction, bindingVars
<1> QED
  BY <1>1, <1>2, <1>3, <1>4, <1>5, <1>6, <1>7, <1>8
  DEF Next, CreateActionSet, ForgetType, AttachActionSets, PollProfileChanged,
      Sync, SyncRefused, SyncUnfocused, SyncFails, vars, handleVars, bindingVars

(* The bindings in use are those of the profile in use.                     *)
THEOREM SourcesMatchProfileHolds == Spec => []SourcesMatchProfile
<1>1. Init => SourcesMatchProfile
  BY DEF Init, SourcesMatchProfile
<1>2. TypeOK /\ BindingsKnown /\ SourcesMatchProfile /\ [Next]_vars => SourcesMatchProfile'
  BY SourcesMatchProfileStep
<1> QED
  BY <1>1, <1>2, TypeCorrect, BindingsKnownHolds, PTL DEF Spec

LEMMA ProfileAnnouncedStep ==
    ASSUME TypeOK, ProfileAnnounced, [Next]_vars
    PROVE  ProfileAnnounced'
<1>1. CASE UNCHANGED <<session, profile, profileDirty, told>> /\ attached' \subseteq attached
  BY <1>1 DEF ProfileAnnounced
<1>2. CASE CreateSession
  BY <1>2 DEF CreateSession, ProfileAnnounced
<1>3. CASE DestroySession
  BY <1>3 DEF DestroySession, ProfileAnnounced
<1>4. ASSUME NEW S \in SUBSET actionSets, AttachActionSets(S)
      PROVE  ProfileAnnounced'
  BY <1>4 DEF AttachActionSets, bindingVars, ProfileAnnounced
<1>5. CASE PollProfileChanged
  BY <1>5 DEF PollProfileChanged, bindingVars, ProfileAnnounced
<1>6. ASSUME NEW want \in SUBSET attached, NEW override \in Overrides(want),
             NEW D \in SUBSET Sides, NEW found \in [D -> Findings], NEW cut \in [D -> Cuts],
             SyncFocused(want, override, D, found, cut)
      PROVE  ProfileAnnounced'
  <2> SUFFICES ASSUME attached # {}, ~profileDirty'
               PROVE  told = profile'
    BY <1>6 DEF SyncFocused, ProfileAnnounced
  <2>1. ~profileDirty /\ \A d \in Sides : profile'[d] = profile[d]
    BY <1>6 DEF SyncFocused, ProfileDirtyAfter
  <2>2. profile' = [d \in Sides |-> profile'[d]] /\ profile = [d \in Sides |-> profile[d]]
    BY <1>6 DEF SyncFocused, ProfileAfter, TypeOK
  <2>3. profile' = profile
    BY <2>1, <2>2
  <2>4. told = profile
    BY <1>6, <2>1 DEF SyncFocused, ProfileAnnounced
  <2> QED
    BY <2>3, <2>4
<1>7. ASSUME NEW s \in ActionSets, DestroyActionSet(s)
      PROVE  ProfileAnnounced'
  BY <1>1, <1>7 DEF DestroyActionSet, bindingVars
<1> QED
  BY <1>1, <1>2, <1>3, <1>4, <1>5, <1>6, <1>7
  DEF Next, CreateActionSet, CreateAction, DestroyAction, SuggestBindings, ForgetType,
      Sync, SyncRefused, SyncUnfocused, SyncFails, vars, bindingVars

(* A change of profile is never kept from the application.                  *)
THEOREM ProfileAnnouncedHolds == Spec => []ProfileAnnounced
<1>1. Init => ProfileAnnounced
  BY DEF Init, ProfileAnnounced
<1>2. TypeOK /\ ProfileAnnounced /\ [Next]_vars => ProfileAnnounced'
  BY ProfileAnnouncedStep
<1> QED
  BY <1>1, <1>2, TypeCorrect, PTL DEF Spec

------------------------------------------------------------------------------
(* What a sync leaves.                                                      *)

(* An action of an active set is bound only if its set is attached still:   *)
(* a set that takes the handle of one that was active has unbound actions.  *)
ActiveSourcesInv ==
    \A a \in actions : SetOf[a] \in active /\ sources[a] # {} => SetOf[a] \in attached

(* Every set a complete sync can make readable was given a copy.            *)
CopyInv ==
    sync \in {"synced", "rebound"} =>
        \A a \in actions :
            SetOf[a] \in active /\ sources[a] # {} => copied[SetOf[a]]

(* No active set that is bound to an input is above the input's priority.   *)
PriorityInv ==
    sync = "synced" =>
        \A b \in actions : \A x \in sources[b] :
            SetOf[b] \in active /\ x[2] \in DOMAIN Indexed =>
                effective[SetOf[b]] <= sourcePriority[Indexed[x[2]]]

(* A new session's actions are bound to nothing.                            *)
LEMMA CreateSessionUnbinds ==
    ASSUME TypeOK, CreateSession
    PROVE  \A a \in actions : sources'[a] = {}
<1> SUFFICES ASSUME NEW a \in actions
             PROVE  sources'[a] = {}
  OBVIOUS
<1>1. a \in Handles /\ sources[a] \subseteq Sources
  BY DEF TypeOK
<1>2. \A e \in Sides : BoundBy(profile'[e], a, e) = {}
  BY DEF CreateSession, BoundBy
<1>3. {x \in sources[a] : x[1] \notin Sides} = {}
  BY <1>1 DEF Sources
<1> QED
  BY <1>1, <1>2, <1>3 DEF CreateSession, SourcesAfter

LEMMA ActiveSourcesStep ==
    ASSUME TypeOK, BindingsKnown, ActiveSourcesInv, [Next]_vars
    PROVE  ActiveSourcesInv'
<1>1. CASE /\ UNCHANGED <<active, sources>> /\ actions' \subseteq actions
           /\ attached \subseteq attached'
  BY <1>1 DEF ActiveSourcesInv
<1>2. ASSUME NEW s \in ActionSets, DestroyActionSet(s)
      PROVE  ActiveSourcesInv'
  BY <1>2 DEF DestroyActionSet, ActionsLeft, bindingVars, ActiveSourcesInv
<1>3. ASSUME NEW a \in Handles, CreateAction(a)
      PROVE  ActiveSourcesInv'
  BY <1>3 DEF CreateAction, BindingsKnown, syncVars, bindingVars, ActiveSourcesInv
<1>4. CASE CreateSession
  BY <1>4, CreateSessionUnbinds DEF CreateSession, handleVars, ActiveSourcesInv
<1>5. CASE Sync
  BY <1>5 DEF Sync, SyncRefused, SyncUnfocused, SyncFails, SyncFocused, Activate,
              handleVars, ActiveSourcesInv
<1>6. ASSUME NEW s \in ActionSets, CreateActionSet(s)
      PROVE  ActiveSourcesInv'
  BY <1>1, <1>6 DEF CreateActionSet, bindingVars
<1>7. ASSUME NEW a \in Handles, DestroyAction(a)
      PROVE  ActiveSourcesInv'
  BY <1>1, <1>7 DEF DestroyAction, syncVars, bindingVars
<1>8. ASSUME NEW S \in SUBSET actionSets, AttachActionSets(S)
      PROVE  ActiveSourcesInv'
  BY <1>1, <1>8 DEF AttachActionSets, handleVars, syncVars, bindingVars
<1>9. CASE UNCHANGED <<actions, attached, active, sources>>
  BY <1>1, <1>9
<1> QED
  BY <1>2, <1>3, <1>4, <1>5, <1>6, <1>7, <1>8, <1>9
  DEF Next, SuggestBindings, DestroySession, ForgetType, PollProfileChanged,
      vars, handleVars, syncVars, bindingVars

LEMMA CopyStep ==
    ASSUME TypeOK, NothingDangles, BindingsKnown, CopyInv, [Next]_vars
    PROVE  CopyInv'
<1>1. CASE /\ UNCHANGED <<active, sources, copied, sync>> /\ actions' \subseteq actions
  BY <1>1 DEF CopyInv
<1>2. CASE sync' \notin {"synced", "rebound"}
  BY <1>2 DEF CopyInv
<1>3. ASSUME NEW s \in ActionSets, CreateActionSet(s)
      PROVE  CopyInv'
  <2>1. \A a \in actions : SetOf[a] \in ActionSets /\ SetOf[a] # s
    BY <1>3, SetsAssumption DEF CreateActionSet, NothingDangles, TypeOK
  <2> QED
    BY <1>3, <2>1 DEF CreateActionSet, bindingVars, CopyInv, TypeOK
<1>4. ASSUME NEW s \in ActionSets, DestroyActionSet(s)
      PROVE  CopyInv'
  <2>1. \A a \in actions' : a \in actions /\ SetOf[a] \in ActionSets /\ SetOf[a] # s
    BY <1>4, SetsAssumption DEF DestroyActionSet, ActionsLeft, TypeOK
  <2> QED
    BY <1>4, <2>1 DEF DestroyActionSet, bindingVars, CopyInv, TypeOK
<1>5. ASSUME NEW a \in Handles, CreateAction(a)
      PROVE  CopyInv'
  BY <1>5 DEF CreateAction, BindingsKnown, syncVars, bindingVars, CopyInv
<1>6. CASE CreateSession
  BY <1>6, CreateSessionUnbinds DEF CreateSession, handleVars, CopyInv
<1>7. ASSUME NEW want \in SUBSET attached, NEW override \in Overrides(want),
             NEW D \in SUBSET Sides, NEW found \in [D -> Findings], NEW cut \in [D -> Cuts],
             SyncFocused(want, override, D, found, cut)
      PROVE  CopyInv'
  <2>1. \A s \in want : copied'[s]
    BY <1>7 DEF SyncFocused, CopiedAfter, TypeOK
  <2> QED
    BY <1>7, <2>1 DEF SyncFocused, Activate, CopyInv
<1>8. ASSUME NEW a \in Handles, DestroyAction(a)
      PROVE  CopyInv'
  BY <1>1, <1>8 DEF DestroyAction, syncVars, bindingVars
<1> QED
  BY <1>1, <1>2, <1>3, <1>4, <1>5, <1>6, <1>7, <1>8
  DEF Next, SuggestBindings, DestroySession, ForgetType, AttachActionSets,
      PollProfileChanged, Sync, SyncRefused, SyncUnfocused, SyncFails,
      vars, handleVars, syncVars, bindingVars

(* The priority a sync gives to an input is not below that of any set it    *)
(* makes active that wants it ...                                           *)
LEMMA SourcePriorityBounds ==
    ASSUME TypeOK, NEW want \in SUBSET attached, NEW override \in Overrides(want),
           NEW i \in Indices, NEW s \in Wanting(i, want)
    PROVE  EffectiveAfter(want, override)[s] <= SourcePriorityAfter(want, override)[i]
<1> DEFINE Seen == PrioritiesSeen(want, override)
           Wants == {0} \cup {EffectiveAfter(want, override)[t] : t \in Wanting(i, want)}
<1>1. s \in want /\ s \in ActionSets
  BY DEF Wanting, TypeOK
<1>2. EffectiveAfter(want, override)[s] \in Seen
  BY <1>1 DEF EffectiveAfter, PrioritiesSeen
<1>3. CASE \E p \in Priorities : Seen = {p}
  <2>1. \A q \in Seen : q <= Highest(Seen)
    BY <1>3, HighestProperty
  <2> QED
    BY <1>2, <1>3, <2>1 DEF SourcePriorityAfter
<1>4. CASE ~\E p \in Priorities : Seen = {p}
  <2>1. Wants \subseteq Priorities /\ Wants # {}
    BY PrioritiesProperty, SetsAssumption DEF Wanting, Priorities, TypeOK
  <2>2. \A q \in Wants : q <= Highest(Wants)
    BY <2>1, HighestProperty
  <2> QED
    BY <1>4, <2>2 DEF SourcePriorityAfter
<1> QED
  BY <1>3, <1>4

(* ... and is that of one of them.                                          *)
LEMMA SourcePriorityReached ==
    ASSUME TypeOK, NEW want \in SUBSET attached, NEW override \in Overrides(want),
           NEW i \in Indices, Wanting(i, want) # {}
    PROVE  \E s \in Wanting(i, want) :
                SourcePriorityAfter(want, override)[i] = EffectiveAfter(want, override)[s]
<1> DEFINE Seen == PrioritiesSeen(want, override)
           Wants == {0} \cup {EffectiveAfter(want, override)[t] : t \in Wanting(i, want)}
<1>1. PICK s \in Wanting(i, want) : TRUE
  OBVIOUS
<1>2. s \in want /\ s \in ActionSets
  BY DEF Wanting, TypeOK
<1>3. EffectiveAfter(want, override)[s] \in Seen
  BY <1>2 DEF EffectiveAfter, PrioritiesSeen
<1>4. EffectiveAfter(want, override)[s] \in Nat
  BY <1>2, PrioritiesProperty, SetsAssumption DEF Priorities
<1>5. CASE \E p \in Priorities : Seen = {p}
  <2>1. Highest(Seen) \in Seen
    BY <1>5, HighestProperty
  <2> QED
    BY <1>3, <1>5, <2>1 DEF SourcePriorityAfter
<1>6. CASE ~\E p \in Priorities : Seen = {p}
  <2>1. Wants \subseteq Priorities /\ Wants # {}
    BY PrioritiesProperty, SetsAssumption DEF Wanting, Priorities, TypeOK
  <2>2. Highest(Wants) \in Wants /\ \A q \in Wants : q <= Highest(Wants)
    BY <2>1, HighestProperty
  <2>3. SourcePriorityAfter(want, override)[i] = Highest(Wants)
    BY <1>6 DEF SourcePriorityAfter
  <2>4. CASE Highest(Wants) = 0
    BY <1>4, <2>2, <2>3, <2>4
  <2>5. CASE Highest(Wants) # 0
    BY <2>2, <2>3, <2>5
  <2> QED
    BY <2>4, <2>5
<1> QED
  BY <1>5, <1>6

(* A complete sync without a change of bindings.                            *)
LEMMA SyncedKeepsSources ==
    ASSUME TypeOK, NEW want, NEW override, NEW D, NEW found, NEW cut,
           SyncFocused(want, override, D, found, cut), sync' = "synced"
    PROVE  \A a \in Handles : sources'[a] = sources[a]
<1>1. RebindSides(D, found, cut) = {}
  BY DEF SyncFocused
<1>2. \A a \in Handles : SourcesAfter(a, {}, profile') = sources[a]
  BY DEF SourcesAfter
<1> QED
  BY <1>1, <1>2 DEF SyncFocused

(* An action of an active set that is bound to an indexed input is why its  *)
(* set wants that index.                                                    *)
LEMMA WantingWitness ==
    ASSUME TypeOK, NEW want, NEW b \in actions, SetOf[b] \in want,
           NEW x \in sources[b], x[2] \in DOMAIN Indexed
    PROVE  /\ Indexed[x[2]] \in Indices
           /\ SetOf[b] \in Wanting(Indexed[x[2]], want)
BY DEF Indices, Wanting

LEMMA PriorityStep ==
    ASSUME TypeOK, NothingDangles, BindingsKnown, PriorityInv, [Next]_vars
    PROVE  PriorityInv'
<1>1. CASE /\ UNCHANGED <<active, effective, sourcePriority, sources, sync>>
           /\ actions' \subseteq actions
  BY <1>1 DEF PriorityInv
<1>2. CASE sync' # "synced"
  BY <1>2 DEF PriorityInv
<1>3. ASSUME NEW s \in ActionSets, CreateActionSet(s)
      PROVE  PriorityInv'
  <2>1. \A a \in actions : SetOf[a] \in ActionSets /\ SetOf[a] # s
    BY <1>3, SetsAssumption DEF CreateActionSet, NothingDangles, TypeOK
  <2>2. \A t \in ActionSets : t # s => effective'[t] = effective[t]
    BY <1>3 DEF CreateActionSet, TypeOK
  <2> QED
    BY <1>3, <2>1, <2>2 DEF CreateActionSet, bindingVars, PriorityInv
<1>4. ASSUME NEW s \in ActionSets, DestroyActionSet(s)
      PROVE  PriorityInv'
  <2>1. \A a \in actions' : a \in actions /\ SetOf[a] \in ActionSets /\ SetOf[a] # s
    BY <1>4, SetsAssumption DEF DestroyActionSet, ActionsLeft, TypeOK
  <2>2. \A t \in ActionSets : t # s => effective'[t] = effective[t]
    BY <1>4 DEF DestroyActionSet, TypeOK
  <2> QED
    BY <1>4, <2>1, <2>2 DEF DestroyActionSet, bindingVars, PriorityInv
<1>5. ASSUME NEW a \in Handles, CreateAction(a)
      PROVE  PriorityInv'
  BY <1>5 DEF CreateAction, BindingsKnown, syncVars, bindingVars, PriorityInv
<1>6. CASE CreateSession
  BY <1>6, CreateSessionUnbinds DEF CreateSession, handleVars, PriorityInv
<1>7. ASSUME NEW want \in SUBSET attached, NEW override \in Overrides(want),
             NEW D \in SUBSET Sides, NEW found \in [D -> Findings], NEW cut \in [D -> Cuts],
             SyncFocused(want, override, D, found, cut), sync' = "synced"
      PROVE  PriorityInv'
  <2>1. /\ actions' = actions /\ active' = want
        /\ effective' = EffectiveAfter(want, override)
        /\ sourcePriority' = SourcePriorityAfter(want, override)
    BY <1>7 DEF SyncFocused, Activate, handleVars
  <2>2. ASSUME NEW b \in actions, NEW x \in sources[b], SetOf[b] \in want,
               x[2] \in DOMAIN Indexed
        PROVE  effective'[SetOf[b]] <= sourcePriority'[Indexed[x[2]]]
    BY <2>1, <2>2, WantingWitness, SourcePriorityBounds
  <2>3. \A b \in actions : sources'[b] = sources[b]
    BY <1>7, SyncedKeepsSources DEF TypeOK
  <2> QED
    BY <2>1, <2>2, <2>3 DEF PriorityInv
<1>8. ASSUME NEW a \in Handles, DestroyAction(a)
      PROVE  PriorityInv'
  BY <1>1, <1>8 DEF DestroyAction, syncVars, bindingVars
<1> QED
  BY <1>1, <1>2, <1>3, <1>4, <1>5, <1>6, <1>7, <1>8
  DEF Next, SuggestBindings, DestroySession, ForgetType, AttachActionSets,
      PollProfileChanged, Sync, SyncRefused, SyncUnfocused, SyncFails,
      vars, handleVars, syncVars, bindingVars

(* Action b is bound to the index of x, and has it.                         *)
HasIndex(b, x) ==
    /\ SetOf[b] \in active
    /\ sourcePriority[Indexed[x[2]]] = effective[SetOf[b]]
    /\ \E y \in sources[b] : SameIndex(x, y)

LEMMA NoInputLostStep ==
    ASSUME TypeOK, NothingDangles, BindingsKnown, ActiveSourcesInv, NoInputLost, [Next]_vars
    PROVE  NoInputLost'
<1>1. CASE /\ UNCHANGED <<active, effective, sourcePriority, sources, sync, attached>>
           /\ actions' \subseteq actions /\ created' = created
  BY <1>1 DEF NoInputLost, Wanted
<1>2. CASE sync' # "synced"
  BY <1>2 DEF NoInputLost
<1>3. ASSUME NEW s \in ActionSets, CreateActionSet(s)
      PROVE  NoInputLost'
  <2> SUFFICES ASSUME active \subseteq attached, sync = "synced", NEW a \in actions,
                      NEW x \in Sources, Wanted(a, x), x[2] \in DOMAIN Indexed
               PROVE  \E b \in created : HasIndex(b, x)'
    BY <1>3 DEF CreateActionSet, bindingVars, NoInputLost, Wanted, HasIndex
  <2>1. PICK b \in created : HasIndex(b, x)
    BY DEF NoInputLost, HasIndex
  <2>2. SetOf[b] # s /\ SetOf[b] \in ActionSets
    BY <1>3, <2>1 DEF CreateActionSet, HasIndex, NothingDangles, TypeOK
  <2>3. effective'[SetOf[b]] = effective[SetOf[b]]
    BY <1>3, <2>2 DEF CreateActionSet, TypeOK
  <2> QED
    BY <1>3, <2>1, <2>3 DEF CreateActionSet, bindingVars, HasIndex
<1>4. ASSUME NEW s \in ActionSets, DestroyActionSet(s)
      PROVE  NoInputLost'
  <2> SUFFICES ASSUME active \subseteq attached \ {s}, sync = "synced", NEW a \in actions,
                      NEW x \in Sources, Wanted(a, x), x[2] \in DOMAIN Indexed
               PROVE  \E b \in created : HasIndex(b, x)'
    BY <1>4 DEF DestroyActionSet, ActionsLeft, bindingVars, NoInputLost, Wanted, HasIndex
  <2>1. PICK b \in created : HasIndex(b, x)
    BY DEF NoInputLost, HasIndex
  <2>2. SetOf[b] # s /\ SetOf[b] \in ActionSets
    BY <2>1 DEF HasIndex, TypeOK
  <2>3. effective'[SetOf[b]] = effective[SetOf[b]]
    BY <1>4, <2>2 DEF DestroyActionSet, TypeOK
  <2> QED
    BY <1>4, <2>1, <2>3 DEF DestroyActionSet, bindingVars, HasIndex
<1>5. ASSUME NEW c \in Handles, CreateAction(c)
      PROVE  NoInputLost'
  <2> SUFFICES ASSUME active \subseteq attached, sync = "synced", NEW a \in actions \cup {c},
                      NEW x \in Sources, a \in actions' /\ SetOf[a] \in active /\ x \in sources[a],
                      x[2] \in DOMAIN Indexed
               PROVE  \E b \in created \cup {c} : HasIndex(b, x)
    BY <1>5 DEF CreateAction, syncVars, bindingVars, NoInputLost, Wanted, HasIndex
  <2>1. a \in actions
    BY <1>5 DEF CreateAction, BindingsKnown
  <2> QED
    BY <2>1 DEF NoInputLost, Wanted, HasIndex
<1>6. CASE CreateSession
  BY <1>6, CreateSessionUnbinds DEF CreateSession, handleVars, NoInputLost, Wanted
<1>7. ASSUME NEW S \in SUBSET actionSets, AttachActionSets(S)
      PROVE  NoInputLost'
  <2>1. \A a \in actions, x \in Sources : ~Wanted(a, x)
    BY <1>7 DEF AttachActionSets, ActiveSourcesInv, Wanted
  <2> QED
    BY <1>7, <2>1 DEF AttachActionSets, handleVars, syncVars, bindingVars, NoInputLost, Wanted
<1>8. ASSUME NEW want \in SUBSET attached, NEW override \in Overrides(want),
             NEW D \in SUBSET Sides, NEW found \in [D -> Findings], NEW cut \in [D -> Cuts],
             SyncFocused(want, override, D, found, cut), sync' = "synced"
      PROVE  NoInputLost'
  <2>1. /\ actions' = actions /\ created' = created /\ active' = want
        /\ effective' = EffectiveAfter(want, override)
        /\ sourcePriority' = SourcePriorityAfter(want, override)
    BY <1>8 DEF SyncFocused, Activate, handleVars
  <2>2. \A b \in actions : b \in created /\ sources'[b] = sources[b]
    BY <1>8, SyncedKeepsSources DEF TypeOK
  <2> SUFFICES ASSUME NEW a \in actions, NEW x \in sources[a], SetOf[a] \in want,
                      x[2] \in DOMAIN Indexed
               PROVE  \E b \in created : HasIndex(b, x)'
    BY <2>1, <2>2 DEF NoInputLost, Wanted, HasIndex
  <2>3. PICK s \in Wanting(Indexed[x[2]], want) :
            SourcePriorityAfter(want, override)[Indexed[x[2]]]
                = EffectiveAfter(want, override)[s]
    BY WantingWitness, SourcePriorityReached
  <2>4. PICK b \in actions : /\ SetOf[b] = s
                             /\ \E y \in sources[b] : /\ y[2] \in DOMAIN Indexed
                                                      /\ Indexed[y[2]] = Indexed[x[2]]
    BY DEF Wanting
  <2>5. s \in want
    BY DEF Wanting
  <2>6. HasIndex(b, x)'
    BY <2>1, <2>2, <2>3, <2>4, <2>5 DEF HasIndex, SameIndex
  <2> QED
    BY <2>2, <2>6
<1>9. ASSUME NEW a \in Handles, DestroyAction(a)
      PROVE  NoInputLost'
  BY <1>1, <1>9 DEF DestroyAction, syncVars, bindingVars
<1> QED
  BY <1>1, <1>2, <1>3, <1>4, <1>5, <1>6, <1>7, <1>8, <1>9
  DEF Next, SuggestBindings, DestroySession, ForgetType,
      PollProfileChanged, Sync, SyncRefused, SyncUnfocused, SyncFails,
      vars, handleVars, syncVars, bindingVars

(* Whatever a complete sync lets the application read is a copy.            *)
THEOREM SyncedStateIsACopyHolds == Spec => []SyncedStateIsACopy
<1>1. Init => CopyInv
  BY DEF Init, CopyInv
<1>2. TypeOK /\ NothingDangles /\ BindingsKnown /\ CopyInv /\ [Next]_vars => CopyInv'
  BY CopyStep
<1>3. CopyInv => SyncedStateIsACopy
  BY DEF CopyInv, SyncedStateIsACopy, Read
<1> QED
  BY <1>1, <1>2, <1>3, TypeCorrect, NothingDanglesHolds, BindingsKnownHolds, PTL DEF Spec

(* No set reads an input that one of higher priority wants.                 *)
THEOREM HigherSetWinsHolds == Spec => []HigherSetWins
<1>1. Init => PriorityInv
  BY DEF Init, PriorityInv
<1>2. TypeOK /\ NothingDangles /\ BindingsKnown /\ PriorityInv /\ [Next]_vars => PriorityInv'
  BY PriorityStep
<1>3. PriorityInv => HigherSetWins
  BY DEF PriorityInv, HigherSetWins, Read, Wanted, SameIndex
<1> QED
  BY <1>1, <1>2, <1>3, TypeCorrect, NothingDanglesHolds, BindingsKnownHolds, PTL DEF Spec

(* No input that is wanted is lost to all.                                  *)
THEOREM NoInputLostHolds == Spec => []NoInputLost
<1>1. Init => ActiveSourcesInv /\ NoInputLost
  BY DEF Init, ActiveSourcesInv, NoInputLost
<1>2. TypeOK /\ BindingsKnown /\ ActiveSourcesInv /\ [Next]_vars => ActiveSourcesInv'
  BY ActiveSourcesStep
<1>3. /\ TypeOK /\ NothingDangles /\ BindingsKnown /\ ActiveSourcesInv
      /\ NoInputLost /\ [Next]_vars
      => NoInputLost'
  BY NoInputLostStep
<1> QED
  BY <1>1, <1>2, <1>3, TypeCorrect, NothingDanglesHolds, BindingsKnownHolds, PTL DEF Spec
=============================================================================
