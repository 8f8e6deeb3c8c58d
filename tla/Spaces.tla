------------------------------- MODULE Spaces -------------------------------
(***************************************************************************)
(* The handles whose lifetime is a session's: spaces, and hand, eye, face  *)
(* and body trackers.  A handle is the address of an object on the heap.   *)
(* The runtime keeps one std::set of handles per kind, looks a handle up   *)
(* in it under a reader/writer lock and dereferences it while it holds the *)
(* lock.  Application threads call concurrently; the body state watcher    *)
(* takes the lock of the data the trackers read.                           *)
(*                                                                         *)
(* The application keeps OpenXR's rule of external synchronisation: a      *)
(* handle is not destroyed, nor is the session, while a call uses it.      *)
(***************************************************************************)
EXTENDS Naturals, Sequences, FiniteSets

CONSTANTS
    Threads,        \* the application's threads
    Makers,         \* those of them that create and destroy
    Addresses,      \* what the heap can allocate, and allocate again
    Null,
    Extensions,     \* sets of tracker kinds an instance may have enabled
    MaxSessions,    \* bound: sessions created
    NestedEyeGaze   \* whether xrGetEyeGazesFB is given action spaces as base

SpaceKinds == {"reference", "actionSpace"}
TrackerKinds == {"hand", "eye", "face", "face2", "body"}
Kinds == SpaceKinds \cup TrackerKinds
Locks == {"actionsAndSpaces", "handTrackers", "bodyTrackers", "bodyState"}
Watcher == "watcher"
Processes == Threads \cup {Watcher}
Handles == Addresses \cup {Null}

ASSUME SpacesAssumption ==
    /\ Makers \subseteq Threads
    /\ MaxSessions \in Nat
    /\ Extensions \subseteq SUBSET TrackerKinds
    /\ NestedEyeGaze \in BOOLEAN
    /\ Null \notin Addresses \cup Kinds
    /\ Null \notin Processes
    /\ Watcher \notin Threads

VARIABLES
    enabled,        \* tracker kinds whose extension is enabled and supported
    m_sessionCreated,
    session,        \* history: how many sessions have been created
    heap,           \* what lives at each address: a kind, or Null
    bornIn,         \* history: the session an address was last allocated in
    registered,     \* m_spaces (two kinds of it), m_handTrackers, ...
    setAlive,       \* there is an action set with a pose action in it
    orphans,        \* action spaces whose action is in a deleted set
    call,           \* what each thread is doing
    shared,         \* who holds each lock shared,
    exclusive,      \* who holds it exclusively,
    queued,         \* and who waits to do so
    watcher         \* bodyStateWatcherThread(): "off", "idle" or "copying"

locks == <<shared, exclusive, queued>>
objects == <<heap, bornIn, registered>>
sets == <<setAlive, orphans>>
vars == <<enabled, m_sessionCreated, session, heap, bornIn, registered,
          setAlive, orphans, call, shared, exclusive, queued, watcher>>

\* The lock under which a registry is read and changed.
LockOf(kind) == IF kind \in SpaceKinds THEN "actionsAndSpaces"
                ELSE IF kind = "hand" THEN "handTrackers"
                ELSE "bodyTrackers"

\* m_spaces holds both kinds of space.
Registries(kind) == IF kind \in SpaceKinds THEN SpaceKinds ELSE {kind}

Spaces == registered["reference"] \cup registered["actionSpace"]

\* A step of a call: take a lock (shared or exclusively) or drop one.
Share(l) == [does |-> "share", lock |-> l]
Own(l) == [does |-> "own", lock |-> l]
Drop(l) == [does |-> "drop", lock |-> l]
Steps == [does : {"share", "own", "drop"}, lock : Locks]

Idle == [op |-> "none", kind |-> "reference", h |-> Null, base |-> Null,
         phase |-> "idle", todo |-> <<>>]

Init ==
    /\ enabled \in Extensions
    /\ m_sessionCreated = FALSE
    /\ session = 0
    /\ heap = [a \in Addresses |-> Null]
    /\ bornIn = [a \in Addresses |-> 0]
    /\ registered = [k \in Kinds |-> {}]
    /\ setAlive = TRUE
    /\ orphans = {}
    /\ call = [t \in Threads |-> Idle]
    /\ shared = [l \in Locks |-> {}]
    /\ exclusive = [l \in Locks |-> Null]
    /\ queued = [l \in Locks |-> {}]
    /\ watcher = "off"

-----------------------------------------------------------------------------
(* Entering a call: the checks made before any lock is taken, then the     *)
(* locks of the registries, in the order of the code.                      *)

\* No call in progress names the handle, and none in progress destroys it.
Unused(h) == \A t \in Threads : call[t].h # h /\ call[t].base # h
NotDying(h) == \A t \in Threads : ~(call[t].op = "destroy" /\ call[t].h = h)

Enter(t, op, kind, h, base, todo) ==
    /\ call[t].phase = "idle"
    /\ kind \in SpaceKinds \cup enabled
    /\ NotDying(h) /\ NotDying(base)
    /\ call' = [call EXCEPT ![t] = [op |-> op, kind |-> kind, h |-> h,
                                    base |-> base, phase |-> "lookup",
                                    todo |-> todo]]
    /\ UNCHANGED <<enabled, m_sessionCreated, session, objects, sets, locks,
                   watcher>>

xrCreateReferenceSpace(t) ==
    /\ m_sessionCreated
    /\ Enter(t, "create", "reference", Null, Null, <<Own("actionsAndSpaces")>>)

xrCreateActionSpace(t) ==
    /\ m_sessionCreated
    /\ Enter(t, "create", "actionSpace", Null, Null,
             <<Own("actionsAndSpaces")>>)

xrDestroySpace(t, h) ==
    /\ Unused(h)
    /\ Enter(t, "destroy", "reference", h, Null, <<Own("actionsAndSpaces")>>)

xrCreateHandTrackerEXT(t) ==
    /\ m_sessionCreated
    /\ Enter(t, "create", "hand", Null, Null, <<Own("handTrackers")>>)

xrDestroyHandTrackerEXT(t, h) ==
    /\ Unused(h)
    /\ Enter(t, "destroy", "hand", h, Null, <<Own("handTrackers")>>)

xrCreateEyeTrackerFB(t) ==
    /\ m_sessionCreated
    /\ Enter(t, "create", "eye", Null, Null, <<Own("bodyTrackers")>>)

xrDestroyEyeTrackerFB(t, h) ==
    /\ Unused(h)
    /\ Enter(t, "destroy", "eye", h, Null, <<Own("bodyTrackers")>>)

xrCreateFaceTrackerFB(t) ==
    /\ m_sessionCreated
    /\ Enter(t, "create", "face", Null, Null, <<Own("bodyTrackers")>>)

xrDestroyFaceTrackerFB(t, h) ==
    /\ Unused(h)
    /\ Enter(t, "destroy", "face", h, Null, <<Own("bodyTrackers")>>)

xrCreateFaceTracker2FB(t) ==
    /\ m_sessionCreated
    /\ Enter(t, "create", "face2", Null, Null, <<Own("bodyTrackers")>>)

xrDestroyFaceTracker2FB(t, h) ==
    /\ Unused(h)
    /\ Enter(t, "destroy", "face2", h, Null, <<Own("bodyTrackers")>>)

xrCreateBodyTrackerFB(t) ==
    /\ m_sessionCreated
    /\ Enter(t, "create", "body", Null, Null, <<Own("bodyTrackers")>>)

xrDestroyBodyTrackerFB(t, h) ==
    /\ Unused(h)
    /\ Enter(t, "destroy", "body", h, Null, <<Own("bodyTrackers")>>)

\* xrLocateSpace() and, with the runtime's own VIEW space as h, xrLocateViews().
xrLocateSpace(t, h, base) ==
    Enter(t, "locate", "reference", h, base, <<Share("actionsAndSpaces")>>)

xrLocateHandJointsEXT(t, h, base) ==
    Enter(t, "read", "hand", h, base,
          <<Share("handTrackers"), Share("actionsAndSpaces")>>)

xrLocateBodyJointsFB(t, h, base) ==
    Enter(t, "read", "body", h, base,
          <<Share("bodyTrackers"), Share("actionsAndSpaces")>>)

xrGetEyeGazesFB(t, h, base) ==
    /\ NestedEyeGaze \/ base \in registered["reference"]
    /\ Enter(t, "read", "eye", h, base,
             <<Share("bodyTrackers"), Share("actionsAndSpaces")>>)

xrGetFaceExpressionWeightsFB(t, h) ==
    Enter(t, "read", "face", h, Null, <<Share("bodyTrackers")>>)

xrGetFaceExpressionWeights2FB(t, h) ==
    Enter(t, "read", "face2", h, Null, <<Share("bodyTrackers")>>)

\* The bones of a body at rest: nothing that is located.
xrGetBodySkeletonFB(t, h) ==
    Enter(t, "skeleton", "body", h, Null, <<Share("bodyTrackers")>>)

\* xrSyncActions() reads the hands' data for gestures, under the exclusive lock.
xrSyncActions(t) ==
    /\ m_sessionCreated
    /\ Enter(t, "sync", "reference", Null, Null, <<Own("actionsAndSpaces")>>)

\* xrDestroyActionSet() deletes the set; the actions in it are kept, because
\* action spaces refer to them.
xrDestroyActionSet(t) ==
    Enter(t, "destroySet", "reference", Null, Null, <<Own("actionsAndSpaces")>>)

\* Another set, and another pose action in it.
xrCreateActionSet(t) ==
    /\ ~setAlive
    /\ Enter(t, "createSet", "reference", Null, Null,
             <<Own("actionsAndSpaces")>>)

-----------------------------------------------------------------------------
(* The reader/writer locks: SRW locks, in which a waiting writer holds up  *)
(* the readers that come after it.                                         *)

CanShare(l) == exclusive[l] = Null /\ queued[l] = {}
CanOwn(l) == exclusive[l] = Null /\ shared[l] = {}

Step(t) == Head(call[t].todo)
Advance(t) == call' = [call EXCEPT ![t].todo = Tail(@)]
Doing(t, what) == call[t].todo # <<>> /\ Step(t).does = what

Queue(t) ==
    /\ Doing(t, "own") /\ t \notin queued[Step(t).lock]
    /\ queued' = [queued EXCEPT ![Step(t).lock] = @ \cup {t}]
    /\ UNCHANGED <<enabled, m_sessionCreated, session, objects, sets, call,
                   shared, exclusive, watcher>>

LockExclusive(t) ==
    /\ Doing(t, "own") /\ t \in queued[Step(t).lock] /\ CanOwn(Step(t).lock)
    /\ queued' = [queued EXCEPT ![Step(t).lock] = @ \ {t}]
    /\ exclusive' = [exclusive EXCEPT ![Step(t).lock] = t]
    /\ Advance(t)
    /\ UNCHANGED <<enabled, m_sessionCreated, session, objects, sets, shared,
                   watcher>>

LockShared(t) ==
    /\ Doing(t, "share") /\ CanShare(Step(t).lock)
    /\ shared' = [shared EXCEPT ![Step(t).lock] = @ \cup {t}]
    /\ Advance(t)
    /\ UNCHANGED <<enabled, m_sessionCreated, session, objects, sets, exclusive,
                   queued, watcher>>

UnlockShared(t) ==
    /\ Doing(t, "drop")
    /\ shared' = [shared EXCEPT ![Step(t).lock] = @ \ {t}]
    /\ Advance(t)
    /\ UNCHANGED <<enabled, m_sessionCreated, session, objects, sets, exclusive,
                   queued, watcher>>

\* The call returns: every lock goes with its scope.
Leave(t) ==
    /\ call' = [call EXCEPT ![t] = Idle]
    /\ shared' = [l \in Locks |-> shared[l] \ {t}]
    /\ exclusive' = [l \in Locks |->
                        IF exclusive[l] = t THEN Null ELSE exclusive[l]]
    /\ UNCHANGED <<enabled, m_sessionCreated, session, queued, watcher>>

-----------------------------------------------------------------------------
(* The body of a call, under the registry locks.                           *)

\* Mutant: the base space of a read is not looked up.
Mutant_Known(c) ==
    CASE c.op = "create" -> c.kind = "actionSpace" => setAlive
      [] c.op = "destroy" -> \E k \in Registries(c.kind) : c.h \in registered[k]
      [] c.op = "createSet" -> TRUE
      [] c.op = "locate" -> c.h \in Spaces /\ c.base \in Spaces
      [] c.op \in {"read", "skeleton"} -> c.h \in registered[c.kind]
      [] OTHER -> setAlive

Known(c) ==
    CASE c.op = "create" -> c.kind = "actionSpace" => setAlive
      [] c.op = "destroy" -> \E k \in Registries(c.kind) : c.h \in registered[k]
      [] c.op = "createSet" -> TRUE
      [] c.op = "locate" -> c.h \in Spaces /\ c.base \in Spaces
      [] c.op = "read" ->
            /\ c.h \in registered[c.kind]
            /\ c.kind \in {"hand", "body", "eye"} => c.base \in Spaces
      [] c.op = "skeleton" -> c.h \in registered[c.kind]
      [] OTHER -> setAlive

\* Locating an action space reads pinch, gaze or body joints.
Touch(h) == IF h \in registered["actionSpace"]
            THEN <<Share("bodyState"), Drop("bodyState")>> ELSE <<>>

\* Mutant: the base is located while the lock of the joints is held.
Mutant_DataLocks(c) ==
    CASE c.op = "locate" -> Touch(c.h) \o Touch(c.base)
      [] c.op = "read" /\ c.kind \in {"hand", "body"} ->
            <<Share("bodyState")>> \o Touch(c.base)
      [] c.op \in {"read", "skeleton", "sync"} -> <<Share("bodyState")>>
      [] OTHER -> <<>>

\* The locks a call takes once its handles are known to be good.
DataLocks(c) ==
    CASE c.op = "locate" -> Touch(c.h) \o Touch(c.base)
      [] c.op = "read" /\ c.kind \in {"hand", "body"} ->
            Touch(c.base) \o <<Share("bodyState")>>
      [] c.op = "read" /\ c.kind = "eye" ->
            IF c.base \in registered["actionSpace"]
            THEN <<Share("bodyState"), Share("bodyState")>>
            ELSE <<Share("bodyState")>>
      [] c.op = "read" /\ c.kind \in {"face", "face2"} -> <<Share("bodyState")>>
      [] c.op \in {"skeleton", "sync"} -> <<Share("bodyState")>>
      [] OTHER -> <<>>

AtLookup(t) == call[t].phase = "lookup" /\ call[t].todo = <<>>

\* XR_ERROR_HANDLE_INVALID.
Refuse(t) ==
    /\ AtLookup(t)
    /\ ~Known(call[t])
    /\ Leave(t)
    /\ UNCHANGED <<objects, sets>>

Proceed(t) ==
    /\ AtLookup(t)
    /\ Known(call[t])
    /\ call' = [call EXCEPT ![t].phase = "use", ![t].todo = DataLocks(call[t])]
    /\ UNCHANGED <<enabled, m_sessionCreated, session, objects, sets, locks,
                   watcher>>

AtUse(t, op) == call[t].phase = "use" /\ call[t].todo = <<>> /\ call[t].op = op

\* new, and insert() into the registry of its kind.
FinishCreate(t) ==
    /\ AtUse(t, "create")
    /\ \E a \in Addresses :
        /\ heap[a] = Null
        /\ heap' = [heap EXCEPT ![a] = call[t].kind]
        /\ bornIn' = [bornIn EXCEPT ![a] = session]
        /\ registered' = [registered EXCEPT ![call[t].kind] = @ \cup {a}]
    /\ Leave(t)
    /\ UNCHANGED sets

\* Mutant: delete without erase().
Mutant_FinishDestroy(t) ==
    /\ AtUse(t, "destroy")
    /\ heap' = [heap EXCEPT ![call[t].h] = Null]
    /\ orphans' = orphans \ {call[t].h}
    /\ Leave(t)
    /\ bornIn' = [bornIn EXCEPT ![call[t].h] = 0]
    /\ UNCHANGED <<registered, setAlive>>

\* delete and erase().
FinishDestroy(t) ==
    /\ AtUse(t, "destroy")
    /\ heap' = [heap EXCEPT ![call[t].h] = Null]
    /\ registered' = [k \in Kinds |-> IF k \in Registries(call[t].kind)
                                    THEN registered[k] \ {call[t].h}
                                    ELSE registered[k]]
    /\ orphans' = orphans \ {call[t].h}
    /\ Leave(t)
    /\ bornIn' = [bornIn EXCEPT ![call[t].h] = 0]
    /\ UNCHANGED setAlive

FinishRead(t) ==
    /\ AtUse(t, "locate") \/ AtUse(t, "read") \/ AtUse(t, "skeleton")
       \/ AtUse(t, "sync")
    /\ Leave(t)
    /\ UNCHANGED <<objects, sets>>

FinishDestroySet(t) ==
    /\ AtUse(t, "destroySet")
    /\ setAlive' = FALSE
    /\ orphans' = orphans \cup registered["actionSpace"]
    /\ Leave(t)
    /\ UNCHANGED objects

FinishCreateSet(t) ==
    /\ AtUse(t, "createSet")
    /\ setAlive' = TRUE
    /\ Leave(t)
    /\ UNCHANGED <<objects, orphans>>

-----------------------------------------------------------------------------
(* The session and the watcher.                                            *)

Quiet == \A t \in Threads : call[t].phase = "idle"

xrCreateSession ==
    /\ ~m_sessionCreated /\ session < MaxSessions
    /\ m_sessionCreated' = TRUE
    /\ session' = session + 1
    /\ UNCHANGED <<enabled, objects, sets, call, locks, watcher>>

xrBeginSession ==
    /\ m_sessionCreated /\ watcher = "off"
    /\ watcher' = "idle"
    /\ UNCHANGED <<enabled, m_sessionCreated, session, objects, sets, call,
                   locks>>

\* Mutant: face trackers are forgotten, as those of the second extension are.
Mutant_TiedKinds == {"reference", "actionSpace", "hand", "eye"}

\* What dies with the session. There is no such loop for m_faceTrackers2 and
\* m_bodyTrackers.
TiedKinds == {"reference", "actionSpace", "hand", "eye", "face"}
Tied == UNION {registered[k] : k \in TiedKinds}

\* Joins the watcher, then deletes the objects, without taking their locks.
xrDestroySession ==
    /\ m_sessionCreated /\ Quiet
    /\ watcher \in {"off", "idle"} /\ Watcher \notin queued["bodyState"]
    /\ watcher' = "off"
    /\ heap' = [a \in Addresses |-> IF a \in Tied THEN Null ELSE heap[a]]
    /\ bornIn' = [a \in Addresses |-> IF a \in Tied THEN 0 ELSE bornIn[a]]
    /\ registered' = [k \in Kinds |->
                         IF k \in TiedKinds THEN {} ELSE registered[k]]
    /\ orphans' = orphans \ Tied
    /\ m_sessionCreated' = FALSE
    /\ UNCHANGED <<enabled, session, setAlive, call, locks>>

\* bodyStateWatcherThread(): new data, one copy under the exclusive lock.
WatcherQueues ==
    /\ watcher = "idle" /\ Watcher \notin queued["bodyState"]
    /\ queued' = [queued EXCEPT !["bodyState"] = @ \cup {Watcher}]
    /\ UNCHANGED <<enabled, m_sessionCreated, session, objects, sets, call,
                   shared, exclusive, watcher>>

WatcherCopies ==
    /\ Watcher \in queued["bodyState"] /\ CanOwn("bodyState")
    /\ queued' = [queued EXCEPT !["bodyState"] = @ \ {Watcher}]
    /\ exclusive' = [exclusive EXCEPT !["bodyState"] = Watcher]
    /\ watcher' = "copying"
    /\ UNCHANGED <<enabled, m_sessionCreated, session, objects, sets, call,
                   shared>>

WatcherSleeps ==
    /\ watcher = "copying"
    /\ exclusive' = [exclusive EXCEPT !["bodyState"] = Null]
    /\ watcher' = "idle"
    /\ UNCHANGED <<enabled, m_sessionCreated, session, objects, sets, call,
                   shared, queued>>

-----------------------------------------------------------------------------
\* Bound: the application creates no more than the heap of the model can hold.
HasRoom ==
    Cardinality({a \in Addresses : heap[a] # Null})
      + Cardinality({u \in Threads : call[u].op = "create"})
      < Cardinality(Addresses)

Create(t) ==
    /\ HasRoom
    /\ \/ xrCreateReferenceSpace(t) \/ xrCreateActionSpace(t)
       \/ xrCreateHandTrackerEXT(t) \/ xrCreateEyeTrackerFB(t)
       \/ xrCreateFaceTrackerFB(t) \/ xrCreateFaceTracker2FB(t)
       \/ xrCreateBodyTrackerFB(t)

Destroy(t) == \E h \in Addresses :
    \/ xrDestroySpace(t, h) \/ xrDestroyHandTrackerEXT(t, h)
    \/ xrDestroyEyeTrackerFB(t, h) \/ xrDestroyFaceTrackerFB(t, h)
    \/ xrDestroyFaceTracker2FB(t, h) \/ xrDestroyBodyTrackerFB(t, h)

Use(t) ==
    \/ \E h, base \in Addresses :
         \/ xrLocateSpace(t, h, base) \/ xrLocateHandJointsEXT(t, h, base)
         \/ xrLocateBodyJointsFB(t, h, base) \/ xrGetEyeGazesFB(t, h, base)
    \/ \E h \in Addresses :
         \/ xrGetFaceExpressionWeightsFB(t, h)
         \/ xrGetFaceExpressionWeights2FB(t, h)
         \/ xrGetBodySkeletonFB(t, h)

UseActions(t) ==
    \/ xrSyncActions(t) \/ xrDestroyActionSet(t) \/ xrCreateActionSet(t)

Lock(t) == Queue(t) \/ LockExclusive(t) \/ LockShared(t) \/ UnlockShared(t)

Finish(t) ==
    \/ Refuse(t) \/ Proceed(t)
    \/ FinishCreate(t) \/ FinishDestroy(t) \/ FinishRead(t)
    \/ FinishDestroySet(t) \/ FinishCreateSet(t)

WatcherStep == WatcherQueues \/ WatcherCopies \/ WatcherSleeps

Next ==
    \/ \E t \in Makers : Create(t) \/ Destroy(t) \/ UseActions(t)
    \/ \E t \in Threads : Use(t) \/ Lock(t) \/ Finish(t)
    \/ xrCreateSession \/ xrBeginSession \/ xrDestroySession
    \/ WatcherStep

Spec == Init /\ [][Next]_vars

-----------------------------------------------------------------------------
(* Properties.                                                             *)

CallRecords == [op : {"none", "create", "destroy", "locate", "read",
                      "skeleton", "sync", "destroySet", "createSet"},
                kind : Kinds, h : Handles, base : Handles,
                phase : {"idle", "lookup", "use"}, todo : Seq(Steps)]

\* Types of the variables.
TypeOK ==
    /\ enabled \subseteq TrackerKinds
    /\ m_sessionCreated \in BOOLEAN
    /\ session \in Nat
    /\ heap \in [Addresses -> Kinds \cup {Null}]
    /\ bornIn \in [Addresses -> Nat]
    /\ registered \in [Kinds -> SUBSET Addresses]
    /\ setAlive \in BOOLEAN
    /\ orphans \subseteq Addresses
    /\ call \in [Threads -> CallRecords]
    /\ shared \in [Locks -> SUBSET Threads]
    /\ exclusive \in [Locks -> Processes \cup {Null}]
    /\ queued \in [Locks -> SUBSET Processes]
    /\ watcher \in {"off", "idle", "copying"}

\* A registry lists exactly the objects of its kind that are allocated:
\* whatever sequence of calls and sessions, nothing is deleted twice, and no
\* registry keeps the address of a deleted object, which the heap may give to
\* an object of another kind.
RegistriesMatchHeap ==
    \A k \in Kinds, a \in Addresses : a \in registered[k] <=> heap[a] = k

\* A call dereferences its handles (hand_tracking.cpp:301, space.cpp:255)
\* only while the objects are there, and are what it takes them for, although
\* other threads create and destroy, and addresses are used again.
NoUseAfterFree ==
    \A t \in Threads : call[t].phase = "use" =>
        /\ call[t].op = "locate" => {call[t].h, call[t].base} \subseteq Spaces
        /\ call[t].op \in {"read", "skeleton"} => heap[call[t].h] = call[t].kind
        /\ call[t].op = "read" /\ call[t].kind \in {"hand", "body", "eye"} =>
              call[t].base \in Spaces

\* Spaces, hand and eye trackers, and the face trackers of the first extension
\* do not survive the session they were created in (session.cpp:251-278).
HandlesTiedToSession ==
    \A k \in SpaceKinds \cup {"hand", "eye", "face"} : \A a \in registered[k] :
        m_sessionCreated /\ bornIn[a] = session

\* What space.cpp:638 dereferences has not been deleted: the reason given for
\* keeping the actions of a destroyed set (action.cpp:211) is that action
\* spaces use them, but what the space uses of its action is the set.
LocateReadsLiveSet ==
    \A t \in Threads : call[t].phase = "use" /\ call[t].op = "locate" =>
        {call[t].h, call[t].base} \cap orphans = {}

\* p cannot have the lock it wants before q lets go of it.
WaitsFor(p, q) == \E l \in Locks :
    \/ /\ p \in queued[l]
       /\ q \in shared[l] \/ q = exclusive[l]
    \/ /\ p \in Threads /\ Doing(p, "share") /\ Step(p).lock = l
       /\ q \in queued[l] \/ q = exclusive[l]

\* No threads hold one another up for ever, whatever locks their calls nest,
\* with the watcher as a writer among them. (They do with NestedEyeGaze:
\* xrGetEyeGazesFB, holding m_bodyStateMutex, takes it again to locate an
\* action space, and the watcher may have come between.)
NoCircularWait ==
    ~ \E S \in SUBSET Processes :
        S # {} /\ \A p \in S : \E q \in S : WaitsFor(p, q)

=============================================================================
