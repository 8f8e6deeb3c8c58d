---------------------------- MODULE Spaces_proof ----------------------------
(***************************************************************************)
(* Theorems about Spaces for any threads, addresses, extensions and number  *)
(* of sessions, checked by TLAPS.                                           *)
(***************************************************************************)
EXTENDS Spaces, SequenceTheorems, TLAPS

-----------------------------------------------------------------------------
(* The rule of external synchronisation, over the steps of a call: what is  *)
(* being destroyed is named by no other call.                               *)
ExternalSync ==
    \A t, u \in Threads :
        call[t].op = "destroy" /\ t # u =>
            call[u].h # call[t].h /\ call[u].base # call[t].h

(* What a call knows on its way: there is a session to create in, and there *)
(* is still what it looked up.                                              *)
CallsInv ==
    \A t \in Threads :
        /\ call[t].phase = "idle" => call[t] = Idle
        /\ call[t].op = "create" => m_sessionCreated
        /\ call[t].op = "destroy" => call[t].h \in Addresses
        /\ call[t].op = "destroy" /\ call[t].phase = "use" =>
              \E k \in Registries(call[t].kind) : call[t].h \in registered[k]

IInv ==
    /\ TypeOK
    /\ ExternalSync
    /\ CallsInv
    /\ RegistriesMatchHeap
    /\ NoUseAfterFree
    /\ HandlesTiedToSession

Ops == {"none", "create", "destroy", "locate", "read",
        "skeleton", "sync", "destroySet", "createSet"}

-----------------------------------------------------------------------------
(* The steps of calls are steps.                                            *)

(* A thread between two calls.                                             *)
LEMMA IdleTyped == Idle \in CallRecords
BY DEF Idle, CallRecords, Handles, Kinds, SpaceKinds

(* The locks at the entry of a call.                                        *)
LEMMA StepsTyped ==
    /\ \A l \in Locks :
          Own(l) \in Steps /\ Share(l) \in Steps /\ Drop(l) \in Steps
    /\ \A l \in Locks : <<Own(l)>> \in Seq(Steps) /\ <<Share(l)>> \in Seq(Steps)
    /\ \A k, l \in Locks : <<Share(k), Share(l)>> \in Seq(Steps)
<1>1. \A l \in Locks :
          Own(l) \in Steps /\ Share(l) \in Steps /\ Drop(l) \in Steps
  BY DEF Own, Share, Drop, Steps
<1> QED BY <1>1

(* The locks a call takes afterwards.                                       *)
LEMMA DataLocksTyped == \A c : DataLocks(c) \in Seq(Steps)
<1> SUFFICES ASSUME NEW c PROVE DataLocks(c) \in Seq(Steps) OBVIOUS
<1>0. "bodyState" \in Locks BY DEF Locks
<1>1. /\ Share("bodyState") \in Steps /\ Drop("bodyState") \in Steps
  BY <1>0, StepsTyped
<1>2. \A h : Touch(h) \in Seq(Steps) BY <1>1 DEF Touch
<1>3. <<Share("bodyState")>> \in Seq(Steps) BY <1>1
<1>4. <<Share("bodyState"), Share("bodyState")>> \in Seq(Steps) BY <1>1
<1>5. Touch(c.h) \o Touch(c.base) \in Seq(Steps) BY <1>2
<1>6. Touch(c.base) \o <<Share("bodyState")>> \in Seq(Steps) BY <1>2, <1>3
<1>7. <<>> \in Seq(Steps) OBVIOUS
<1> QED BY <1>3, <1>4, <1>5, <1>6, <1>7 DEF DataLocks

-----------------------------------------------------------------------------
(* The invariant is inductive.                                              *)

(* Nothing is there at first.                                               *)
LEMMA InitHolds == Init => IInv
<1> SUFFICES ASSUME Init PROVE IInv OBVIOUS
<1>1. TypeOK BY IdleTyped, SpacesAssumption DEF Init, TypeOK
<1>2. ExternalSync BY DEF Init, ExternalSync, Idle
<1>3. CallsInv BY DEF Init, CallsInv, Idle
<1>4. RegistriesMatchHeap
  BY SpacesAssumption DEF Init, RegistriesMatchHeap
<1>5. NoUseAfterFree BY DEF Init, NoUseAfterFree, Idle
<1>6. HandlesTiedToSession
  BY DEF Init, HandlesTiedToSession, SpaceKinds, Kinds, TrackerKinds
<1> QED BY <1>1, <1>2, <1>3, <1>4, <1>5, <1>6 DEF IInv

(* A call that enters names nothing that is being destroyed.                *)
LEMMA EnterHolds ==
    ASSUME IInv, NEW t \in Threads, NEW op \in Ops, NEW kind \in Kinds,
           NEW h \in Handles, NEW base \in Handles, NEW todo \in Seq(Steps),
           op = "create" => m_sessionCreated,
           op = "destroy" => h \in Addresses /\ base = Null /\ Unused(h),
           Enter(t, op, kind, h, base, todo)
    PROVE  IInv'
<1> DEFINE c == [op |-> op, kind |-> kind, h |-> h, base |-> base,
                 phase |-> "lookup", todo |-> todo]
<1>0. TypeOK /\ call \in [Threads -> CallRecords] BY DEF IInv, TypeOK
<1>1. c \in CallRecords BY DEF CallRecords, Ops
<1>2. call' = [call EXCEPT ![t] = c] BY DEF Enter
<1>3. /\ c.op = op /\ c.h = h /\ c.base = base /\ c.phase = "lookup"
  OBVIOUS
<1> HIDE DEF c
<1>4. call'[t] = c /\ \A u \in Threads \ {t} : call'[u] = call[u]
  BY <1>0, <1>2
<1>5. TypeOK' BY <1>0, <1>1, <1>2 DEF TypeOK, Enter, objects, sets, locks
<1>6. ExternalSync'
  <2> SUFFICES ASSUME NEW v \in Threads, NEW u \in Threads,
                      call'[v].op = "destroy", v # u
               PROVE  /\ call'[u].h # call'[v].h
                      /\ call'[u].base # call'[v].h
    BY DEF ExternalSync
  <2>1. CASE v = t BY <1>3, <1>4, <2>1 DEF Unused
  <2>2. CASE u = t
    <3>1. call[v].op = "destroy" /\ call'[v] = call[v] BY <1>4, <2>2
    <3> QED BY <1>3, <1>4, <2>2, <3>1 DEF Enter, NotDying
  <2>3. CASE v # t /\ u # t BY <1>4, <2>3 DEF IInv, ExternalSync
  <2> QED BY <2>1, <2>2, <2>3
<1>7. CallsInv'
  <2>1. m_sessionCreated' = m_sessionCreated /\ registered' = registered
    BY DEF Enter, objects
  <2> QED BY <1>3, <1>4, <2>1 DEF IInv, CallsInv
<1>8. RegistriesMatchHeap'
  BY DEF IInv, RegistriesMatchHeap, Enter, objects
<1>9. NoUseAfterFree'
  <2>1. heap' = heap /\ registered' = registered BY DEF Enter, objects
  <2> QED BY <1>3, <1>4, <2>1 DEF IInv, NoUseAfterFree, Spaces
<1>10. HandlesTiedToSession'
  BY DEF IInv, HandlesTiedToSession, Enter, objects
<1> QED BY <1>5, <1>6, <1>7, <1>8, <1>9, <1>10 DEF IInv

(* Every call enters so.                                                    *)
LEMMA CreateHolds ==
    ASSUME IInv, NEW t \in Threads, Create(t) PROVE IInv'
<1> DEFINE L == <<Own("actionsAndSpaces")>>
           H == <<Own("handTrackers")>>
           B == <<Own("bodyTrackers")>>
<1>1. L \in Seq(Steps) /\ H \in Seq(Steps) /\ B \in Seq(Steps)
  BY StepsTyped DEF Locks
<1>2. "create" \in Ops /\ Null \in Handles BY DEF Ops, Handles
<1>3. /\ "reference" \in Kinds /\ "actionSpace" \in Kinds /\ "hand" \in Kinds
      /\ "eye" \in Kinds /\ "face" \in Kinds /\ "face2" \in Kinds
      /\ "body" \in Kinds
  BY DEF Kinds, SpaceKinds, TrackerKinds
<1>4. m_sessionCreated /\
      \/ Enter(t, "create", "reference", Null, Null, L)
      \/ Enter(t, "create", "actionSpace", Null, Null, L)
      \/ Enter(t, "create", "hand", Null, Null, H)
      \/ \E k \in {"eye", "face", "face2", "body"} :
            Enter(t, "create", k, Null, Null, B)
  BY DEF Create, xrCreateReferenceSpace, xrCreateActionSpace,
         xrCreateHandTrackerEXT, xrCreateEyeTrackerFB, xrCreateFaceTrackerFB,
         xrCreateFaceTracker2FB, xrCreateBodyTrackerFB
<1> HIDE DEF L, H, B
<1> QED BY <1>1, <1>2, <1>3, <1>4, EnterHolds

(* So does one that destroys a handle, which no other call names.           *)
LEMMA DestroyHolds ==
    ASSUME IInv, NEW t \in Threads, Destroy(t) PROVE IInv'
<1> DEFINE L == <<Own("actionsAndSpaces")>>
           H == <<Own("handTrackers")>>
           B == <<Own("bodyTrackers")>>
<1>1. L \in Seq(Steps) /\ H \in Seq(Steps) /\ B \in Seq(Steps)
  BY StepsTyped DEF Locks
<1>2. "destroy" \in Ops /\ Null \in Handles BY DEF Ops, Handles
<1>3. /\ "reference" \in Kinds /\ "hand" \in Kinds
      /\ "eye" \in Kinds /\ "face" \in Kinds /\ "face2" \in Kinds
      /\ "body" \in Kinds
  BY DEF Kinds, SpaceKinds, TrackerKinds
<1>4. PICK h \in Addresses : Unused(h) /\
      \/ Enter(t, "destroy", "reference", h, Null, L)
      \/ Enter(t, "destroy", "hand", h, Null, H)
      \/ \E k \in {"eye", "face", "face2", "body"} :
            Enter(t, "destroy", k, h, Null, B)
  BY DEF Destroy, xrDestroySpace, xrDestroyHandTrackerEXT,
         xrDestroyEyeTrackerFB, xrDestroyFaceTrackerFB,
         xrDestroyFaceTracker2FB, xrDestroyBodyTrackerFB
<1>5. h \in Handles BY DEF Handles
<1> HIDE DEF L, H, B
<1> QED BY <1>1, <1>2, <1>3, <1>4, <1>5, EnterHolds

(* And one that uses handles.                                               *)
LEMMA UseHolds ==
    ASSUME IInv, NEW t \in Threads, Use(t) PROVE IInv'
<1> DEFINE A == "actionsAndSpaces"
           H == "handTrackers"
           B == "bodyTrackers"
<1>1. /\ <<Share(A)>> \in Seq(Steps) /\ <<Share(B)>> \in Seq(Steps)
      /\ <<Share(H), Share(A)>> \in Seq(Steps)
      /\ <<Share(B), Share(A)>> \in Seq(Steps)
  BY StepsTyped DEF Locks
<1>2. /\ "locate" \in Ops /\ "read" \in Ops /\ "skeleton" \in Ops
      /\ Null \in Handles /\ Addresses \subseteq Handles
  BY DEF Ops, Handles
<1>3. /\ "reference" \in Kinds /\ "hand" \in Kinds
      /\ "eye" \in Kinds /\ "face" \in Kinds /\ "face2" \in Kinds
      /\ "body" \in Kinds
  BY DEF Kinds, SpaceKinds, TrackerKinds
<1>4. CASE \E h, base \in Addresses :
              \/ xrLocateSpace(t, h, base)
              \/ xrLocateHandJointsEXT(t, h, base)
              \/ xrLocateBodyJointsFB(t, h, base)
              \/ xrGetEyeGazesFB(t, h, base)
  <2>1. PICK h \in Addresses, base \in Addresses :
            \/ Enter(t, "locate", "reference", h, base, <<Share(A)>>)
            \/ Enter(t, "read", "hand", h, base, <<Share(H), Share(A)>>)
            \/ Enter(t, "read", "body", h, base, <<Share(B), Share(A)>>)
            \/ Enter(t, "read", "eye", h, base, <<Share(B), Share(A)>>)
    BY <1>4 DEF xrLocateSpace, xrLocateHandJointsEXT, xrLocateBodyJointsFB,
                xrGetEyeGazesFB
  <2> HIDE DEF A, H, B
  <2> QED BY <1>1, <1>2, <1>3, <2>1, EnterHolds
<1>5. CASE \E h \in Addresses :
              \/ xrGetFaceExpressionWeightsFB(t, h)
              \/ xrGetFaceExpressionWeights2FB(t, h)
              \/ xrGetBodySkeletonFB(t, h)
  <2>1. PICK h \in Addresses :
            \/ Enter(t, "read", "face", h, Null, <<Share(B)>>)
            \/ Enter(t, "read", "face2", h, Null, <<Share(B)>>)
            \/ Enter(t, "skeleton", "body", h, Null, <<Share(B)>>)
    BY <1>5 DEF xrGetFaceExpressionWeightsFB, xrGetFaceExpressionWeights2FB,
                xrGetBodySkeletonFB
  <2> HIDE DEF A, H, B
  <2> QED BY <1>1, <1>2, <1>3, <2>1, EnterHolds
<1> QED BY <1>4, <1>5 DEF Use

(* And one about actions.                                                   *)
LEMMA UseActionsHolds ==
    ASSUME IInv, NEW t \in Threads, UseActions(t) PROVE IInv'
<1> DEFINE L == <<Own("actionsAndSpaces")>>
<1>1. L \in Seq(Steps) BY StepsTyped DEF Locks
<1>2. /\ "sync" \in Ops /\ "destroySet" \in Ops /\ "createSet" \in Ops
      /\ Null \in Handles /\ "reference" \in Kinds
  BY DEF Ops, Handles, Kinds, SpaceKinds
<1>3. \E op \in {"sync", "destroySet", "createSet"} :
          Enter(t, op, "reference", Null, Null, L)
  BY DEF UseActions, xrSyncActions, xrDestroyActionSet, xrCreateActionSet
<1> HIDE DEF L
<1> QED BY <1>1, <1>2, <1>3, EnterHolds

-----------------------------------------------------------------------------
(* Inside a call.                                                           *)

(* Taking and dropping locks changes what a call has still to do, no more.  *)
LEMMA TodoHolds ==
    ASSUME IInv, NEW t \in Threads, call[t].phase # "idle",
           NEW todo \in Seq(Steps),
           call' = [call EXCEPT ![t].todo = todo],
           shared' \in [Locks -> SUBSET Threads],
           exclusive' \in [Locks -> Processes \cup {Null}],
           queued' \in [Locks -> SUBSET Processes],
           UNCHANGED <<enabled, m_sessionCreated, session, objects, sets,
                       watcher>>
    PROVE  IInv'
<1>0. TypeOK /\ call \in [Threads -> CallRecords] BY DEF IInv, TypeOK
<1>1. /\ call' \in [Threads -> CallRecords]
      /\ \A u \in Threads \ {t} : call'[u] = call[u]
      /\ call'[t] = [call[t] EXCEPT !.todo = todo]
  BY <1>0 DEF CallRecords
<1>2. /\ call'[t].op = call[t].op /\ call'[t].h = call[t].h
      /\ call'[t].base = call[t].base /\ call'[t].phase = call[t].phase
      /\ call'[t].kind = call[t].kind
  BY <1>0, <1>1 DEF CallRecords
<1>3. \A u \in Threads :
          /\ call'[u].op = call[u].op /\ call'[u].h = call[u].h
          /\ call'[u].base = call[u].base /\ call'[u].phase = call[u].phase
          /\ call'[u].kind = call[u].kind
  BY <1>1, <1>2
<1>4. /\ m_sessionCreated' = m_sessionCreated /\ session' = session
      /\ heap' = heap /\ registered' = registered /\ bornIn' = bornIn
  BY DEF objects
<1>5. TypeOK' BY <1>0, <1>1 DEF TypeOK, objects, sets
<1>6. ExternalSync' BY <1>3 DEF IInv, ExternalSync
<1>7. CallsInv'
  <2> SUFFICES ASSUME NEW u \in Threads
               PROVE  /\ call'[u].phase = "idle" => call'[u] = Idle
                      /\ call'[u].op = "create" => m_sessionCreated
                      /\ call'[u].op = "destroy" => call'[u].h \in Addresses
                      /\ call'[u].op = "destroy" /\ call'[u].phase = "use" =>
                            \E k \in Registries(call'[u].kind) :
                                call'[u].h \in registered[k]
    BY <1>4 DEF CallsInv
  <2> QED BY <1>1, <1>3 DEF IInv, CallsInv
<1>8. RegistriesMatchHeap' BY <1>4 DEF IInv, RegistriesMatchHeap
<1>9. NoUseAfterFree' BY <1>3, <1>4 DEF IInv, NoUseAfterFree, Spaces
<1>10. HandlesTiedToSession' BY <1>4 DEF IInv, HandlesTiedToSession
<1> QED BY <1>5, <1>6, <1>7, <1>8, <1>9, <1>10 DEF IInv

(* Waiting for a lock, having it, letting go of it.                         *)
LEMMA LockHolds ==
    ASSUME IInv, NEW t \in Threads, Lock(t) PROVE IInv'
<1>0. TypeOK /\ call[t] \in CallRecords BY DEF IInv, TypeOK
<1>1. call[t].todo \in Seq(Steps) /\ call[t].todo # <<>>
  BY <1>0 DEF CallRecords, Lock, Queue, LockExclusive, LockShared,
              UnlockShared, Doing
<1>2. call[t].phase # "idle" BY <1>1 DEF IInv, CallsInv, Idle
<1>3. Step(t) \in Steps /\ Tail(call[t].todo) \in Seq(Steps)
  BY <1>1 DEF Step
<1>4. Step(t).lock \in Locks BY <1>3 DEF Steps
<1>5. t \in Processes BY DEF Processes
<1>6. /\ shared \in [Locks -> SUBSET Threads]
      /\ exclusive \in [Locks -> Processes \cup {Null}]
      /\ queued \in [Locks -> SUBSET Processes]
  BY <1>0 DEF TypeOK
<1>7. CASE Queue(t)
  <2>1. call \in [Threads -> CallRecords] BY <1>0 DEF TypeOK
  <2>2. call' = [call EXCEPT ![t].todo = call[t].todo]
    BY <1>7, <2>1 DEF Queue, CallRecords
  <2>3. queued' \in [Locks -> SUBSET Processes]
    BY <1>4, <1>5, <1>6, <1>7 DEF Queue
  <2>4. /\ UNCHANGED <<enabled, m_sessionCreated, session, objects, sets,
                       watcher>>
        /\ UNCHANGED <<shared, exclusive>>
    BY <1>7 DEF Queue
  <2> QED BY <1>1, <1>2, <1>6, <2>2, <2>3, <2>4, TodoHolds
<1>8. CASE LockExclusive(t)
  <2>1. queued' \in [Locks -> SUBSET Processes]
    BY <1>6, <1>8 DEF LockExclusive
  <2>2. exclusive' \in [Locks -> Processes \cup {Null}]
    BY <1>5, <1>6, <1>8 DEF LockExclusive
  <2>3. /\ UNCHANGED <<enabled, m_sessionCreated, session, objects, sets,
                       watcher>>
        /\ UNCHANGED shared
        /\ call' = [call EXCEPT ![t].todo = Tail(call[t].todo)]
    BY <1>8 DEF LockExclusive, Advance
  <2> QED BY <1>2, <1>3, <1>6, <2>1, <2>2, <2>3, TodoHolds
<1>9. CASE LockShared(t)
  <2>1. shared' \in [Locks -> SUBSET Threads]
    BY <1>6, <1>9 DEF LockShared
  <2>2. /\ UNCHANGED <<enabled, m_sessionCreated, session, objects, sets,
                       watcher>>
        /\ UNCHANGED <<exclusive, queued>>
        /\ call' = [call EXCEPT ![t].todo = Tail(call[t].todo)]
    BY <1>9 DEF LockShared, Advance
  <2> QED BY <1>2, <1>3, <1>6, <2>1, <2>2, TodoHolds
<1>10. CASE UnlockShared(t)
  <2>1. shared' \in [Locks -> SUBSET Threads]
    BY <1>6, <1>10 DEF UnlockShared
  <2>2. /\ UNCHANGED <<enabled, m_sessionCreated, session, objects, sets,
                       watcher>>
        /\ UNCHANGED <<exclusive, queued>>
        /\ call' = [call EXCEPT ![t].todo = Tail(call[t].todo)]
    BY <1>10 DEF UnlockShared, Advance
  <2> QED BY <1>2, <1>3, <1>6, <2>1, <2>2, TodoHolds
<1> QED BY <1>7, <1>8, <1>9, <1>10 DEF Lock

(* A call that goes on has seen its handles in their registries.            *)
LEMMA ProceedHolds ==
    ASSUME IInv, NEW t \in Threads, Proceed(t) PROVE IInv'
<1> DEFINE c == [call[t] EXCEPT !.phase = "use", !.todo = DataLocks(call[t])]
<1>0. TypeOK /\ call \in [Threads -> CallRecords] BY DEF IInv, TypeOK
<1>1. c \in CallRecords
  BY <1>0, DataLocksTyped DEF CallRecords
<1>2. /\ c.op = call[t].op /\ c.h = call[t].h /\ c.base = call[t].base
      /\ c.kind = call[t].kind /\ c.phase = "use"
  BY <1>0 DEF CallRecords
<1>3. call' = [call EXCEPT ![t] = c] BY <1>0 DEF Proceed, CallRecords
<1> HIDE DEF c
<1>4. call'[t] = c /\ \A u \in Threads \ {t} : call'[u] = call[u]
  BY <1>0, <1>3
<1>5. /\ m_sessionCreated' = m_sessionCreated /\ session' = session
      /\ heap' = heap /\ registered' = registered /\ bornIn' = bornIn
      /\ UNCHANGED <<enabled, sets, locks, watcher>>
  BY DEF Proceed, objects
<1>6. TypeOK' BY <1>0, <1>1, <1>3, <1>5 DEF TypeOK, sets, locks
<1>7. ExternalSync'
  <2>1. \A u \in Threads :
            /\ call'[u].op = call[u].op /\ call'[u].h = call[u].h
            /\ call'[u].base = call[u].base
    BY <1>2, <1>4
  <2> QED BY <2>1 DEF IInv, ExternalSync
<1>8. CallsInv'
  <2>1. call[t].op = "destroy" =>
            \E k \in Registries(call[t].kind) : call[t].h \in registered[k]
    BY DEF Proceed, Known
  <2> QED BY <1>2, <1>4, <1>5, <2>1 DEF IInv, CallsInv
<1>9. RegistriesMatchHeap' BY <1>5 DEF IInv, RegistriesMatchHeap
<1>10. NoUseAfterFree'
  <2>1. /\ call[t].op = "locate" =>
              call[t].h \in Spaces /\ call[t].base \in Spaces
        /\ call[t].op \in {"read", "skeleton"} =>
              call[t].h \in registered[call[t].kind]
        /\ call[t].op = "read" /\ call[t].kind \in {"hand", "body", "eye"} =>
              call[t].base \in Spaces
    BY DEF Proceed, Known
  <2>2. call[t].kind \in Kinds BY <1>0 DEF CallRecords
  <2>3. call[t].op \in {"read", "skeleton"} =>
            heap[call[t].h] = call[t].kind
    BY <1>0, <2>1, <2>2 DEF IInv, RegistriesMatchHeap, TypeOK
  <2> QED BY <1>2, <1>4, <1>5, <2>1, <2>3 DEF IInv, NoUseAfterFree, Spaces
<1>11. HandlesTiedToSession' BY <1>5 DEF IInv, HandlesTiedToSession
<1> QED BY <1>6, <1>7, <1>8, <1>9, <1>10, <1>11 DEF IInv

-----------------------------------------------------------------------------
(* Leaving a call.                                                          *)

(* The types of what Leave changes.                                         *)
LEMMA LeaveTyped ==
    ASSUME TypeOK, NEW t \in Threads, Leave(t)
    PROVE  /\ call' \in [Threads -> CallRecords]
           /\ shared' \in [Locks -> SUBSET Threads]
           /\ exclusive' \in [Locks -> Processes \cup {Null}]
           /\ queued' \in [Locks -> SUBSET Processes]
           /\ enabled' \subseteq TrackerKinds /\ m_sessionCreated' \in BOOLEAN
           /\ session' \in Nat /\ watcher' \in {"off", "idle", "copying"}
           /\ call'[t] = Idle
           /\ \A u \in Threads \ {t} : call'[u] = call[u]
<1>1. call' \in [Threads -> CallRecords] BY IdleTyped DEF TypeOK, Leave
<1>2. /\ shared' \in [Locks -> SUBSET Threads]
      /\ exclusive' \in [Locks -> Processes \cup {Null}]
  BY DEF TypeOK, Leave
<1>3. /\ queued' \in [Locks -> SUBSET Processes]
      /\ enabled' \subseteq TrackerKinds /\ m_sessionCreated' \in BOOLEAN
      /\ session' \in Nat /\ watcher' \in {"off", "idle", "copying"}
  BY DEF TypeOK, Leave
<1>4. call'[t] = Idle /\ \A u \in Threads \ {t} : call'[u] = call[u]
  BY DEF TypeOK, Leave
<1> QED BY <1>1, <1>2, <1>3, <1>4

(* A call that has left names nothing.                                      *)
LEMMA LeaveSyncs ==
    ASSUME IInv, NEW t \in Threads, Leave(t)
    PROVE  ExternalSync'
<1>0. /\ call'[t] = Idle
      /\ \A u \in Threads \ {t} : call'[u] = call[u]
  BY LeaveTyped DEF IInv
<1> SUFFICES ASSUME NEW v \in Threads, NEW u \in Threads,
                    call'[v].op = "destroy", v # u
             PROVE  /\ call'[u].h # call'[v].h
                    /\ call'[u].base # call'[v].h
  BY DEF ExternalSync
<1>1. v # t BY <1>0 DEF Idle
<1>2. call[v].h \in Addresses /\ call'[v] = call[v] /\ call[v].op = "destroy"
  BY <1>0, <1>1 DEF IInv, CallsInv
<1>3. CASE u = t
  <2>1. call'[u].h = Null /\ call'[u].base = Null BY <1>0, <1>3 DEF Idle
  <2> QED BY <1>2, <2>1, SpacesAssumption
<1>4. CASE u # t BY <1>0, <1>2, <1>4 DEF IInv, ExternalSync
<1> QED BY <1>3, <1>4

(* A call that changes no object.                                           *)
LEMMA LeaveHolds ==
    ASSUME IInv, NEW t \in Threads, Leave(t), UNCHANGED objects,
           setAlive' \in BOOLEAN, orphans' \subseteq Addresses
    PROVE  IInv'
<1>0. TypeOK BY DEF IInv
<1>1. /\ call'[t] = Idle
      /\ \A u \in Threads \ {t} : call'[u] = call[u]
  BY <1>0, LeaveTyped
<1>2. /\ heap' = heap /\ registered' = registered /\ bornIn' = bornIn
      /\ m_sessionCreated' = m_sessionCreated /\ session' = session
  BY DEF objects, Leave
<1>3. TypeOK'
  <2>1. /\ heap' \in [Addresses -> Kinds \cup {Null}]
        /\ bornIn' \in [Addresses -> Nat]
        /\ registered' \in [Kinds -> SUBSET Addresses]
    BY <1>0, <1>2 DEF TypeOK
  <2> QED BY <1>0, <2>1, LeaveTyped DEF TypeOK
<1>4. ExternalSync' BY LeaveSyncs
<1>5. CallsInv'
  <2>1. Idle.op = "none" BY DEF Idle
  <2> QED BY <1>1, <1>2, <2>1 DEF IInv, CallsInv
<1>6. RegistriesMatchHeap' BY <1>2 DEF IInv, RegistriesMatchHeap
<1>7. NoUseAfterFree'
  <2>1. Idle.phase = "idle" BY DEF Idle
  <2> QED BY <1>1, <1>2, <2>1 DEF IInv, NoUseAfterFree, Spaces
<1>8. HandlesTiedToSession' BY <1>2 DEF IInv, HandlesTiedToSession
<1> QED BY <1>3, <1>4, <1>5, <1>6, <1>7, <1>8 DEF IInv

(* A new object is at an address no registry has, and no call uses.         *)
LEMMA FinishCreateHolds ==
    ASSUME IInv, NEW t \in Threads, FinishCreate(t) PROVE IInv'
<1>0. TypeOK BY DEF IInv
<1>1. Leave(t) /\ AtUse(t, "create") BY DEF FinishCreate
<1>2. PICK a \in Addresses :
        /\ heap[a] = Null
        /\ heap' = [heap EXCEPT ![a] = call[t].kind]
        /\ bornIn' = [bornIn EXCEPT ![a] = session]
        /\ registered' = [registered EXCEPT ![call[t].kind] = @ \cup {a}]
  BY DEF FinishCreate
<1> DEFINE kind == call[t].kind
<1>3. kind \in Kinds BY <1>0 DEF TypeOK, CallRecords
<1>4. m_sessionCreated /\ m_sessionCreated' = m_sessionCreated
      /\ session' = session
  BY <1>1 DEF IInv, CallsInv, AtUse, Leave
<1>5. /\ call'[t] = Idle
      /\ \A u \in Threads \ {t} : call'[u] = call[u]
  BY <1>0, <1>1, LeaveTyped
<1> HIDE DEF kind
<1>6. /\ heap'[a] = kind
      /\ \A b \in Addresses \ {a} : heap'[b] = heap[b]
      /\ bornIn'[a] = session
      /\ \A b \in Addresses \ {a} : bornIn'[b] = bornIn[b]
      /\ \A k \in Kinds : registered'[k] =
            IF k = kind THEN registered[k] \cup {a} ELSE registered[k]
  BY <1>0, <1>2, <1>3 DEF kind, TypeOK
<1>7. \A k \in Kinds : a \notin registered[k]
  BY <1>2, SpacesAssumption DEF IInv, RegistriesMatchHeap
<1>8. TypeOK'
  <2>1. /\ heap' \in [Addresses -> Kinds \cup {Null}]
        /\ bornIn' \in [Addresses -> Nat]
        /\ registered' \in [Kinds -> SUBSET Addresses]
    BY <1>0, <1>2, <1>3 DEF TypeOK, kind
  <2>2. setAlive' \in BOOLEAN /\ orphans' \subseteq Addresses
    BY <1>0 DEF FinishCreate, sets, TypeOK
  <2> QED BY <1>0, <1>1, <2>1, <2>2, LeaveTyped DEF TypeOK
<1>9. ExternalSync' BY <1>1, LeaveSyncs
<1>10. CallsInv'
  <2>1. Idle.op = "none" BY DEF Idle
  <2>2. \A u \in Threads : call[u].kind \in Kinds
    BY <1>0 DEF TypeOK, CallRecords
  <2>3. \A k \in Kinds : Registries(k) \subseteq Kinds
    BY DEF Registries, Kinds
  <2>4. \A k \in Kinds : registered[k] \subseteq registered'[k] BY <1>6
  <2> QED BY <1>4, <1>5, <2>1, <2>2, <2>3, <2>4 DEF IInv, CallsInv
<1>11. RegistriesMatchHeap'
  <2> SUFFICES ASSUME NEW k \in Kinds, NEW b \in Addresses
               PROVE  b \in registered'[k] <=> heap'[b] = k
    BY DEF RegistriesMatchHeap
  <2>1. b \in registered[k] <=> heap[b] = k BY DEF IInv, RegistriesMatchHeap
  <2> QED BY <1>6, <1>7, <2>1
<1>12. NoUseAfterFree'
  <2> SUFFICES ASSUME NEW u \in Threads, call'[u].phase = "use"
               PROVE  /\ call'[u].op = "locate" =>
                            {call'[u].h, call'[u].base} \subseteq Spaces'
                      /\ call'[u].op \in {"read", "skeleton"} =>
                            heap'[call'[u].h] = call'[u].kind
                      /\ call'[u].op = "read"
                           /\ call'[u].kind \in {"hand", "body", "eye"} =>
                            call'[u].base \in Spaces'
    BY DEF NoUseAfterFree
  <2>1. u # t BY <1>5 DEF Idle
  <2>2. call'[u] = call[u] BY <1>5, <2>1
  <2>3. Spaces \subseteq Spaces'
    BY <1>6 DEF Spaces, Kinds, SpaceKinds
  <2>4. call[u].kind \in Kinds BY <1>0 DEF TypeOK, CallRecords
  <2>5. call[u].h \in Handles BY <1>0 DEF TypeOK, CallRecords
  <2>6. call[u].op \in {"read", "skeleton"} =>
            heap[call[u].h] = call[u].kind
    BY <2>2 DEF IInv, NoUseAfterFree
  <2>7. call[u].op \in {"read", "skeleton"} => call[u].h # a
    BY <1>2, <2>4, <2>6, SpacesAssumption
  <2>8. heap'[call[u].h] = heap[call[u].h] \/ call[u].h = a
    BY <1>0, <1>2 DEF TypeOK
  <2> QED BY <2>2, <2>3, <2>6, <2>7, <2>8 DEF IInv, NoUseAfterFree
<1>13. HandlesTiedToSession'
  BY <1>0, <1>4, <1>6, <1>7
     DEF IInv, HandlesTiedToSession, TypeOK, Kinds, SpaceKinds, TrackerKinds
<1> QED BY <1>8, <1>9, <1>10, <1>11, <1>12, <1>13 DEF IInv

(* A deleted object was named by this call alone, and is in no registry.    *)
LEMMA FinishDestroyHolds ==
    ASSUME IInv, NEW t \in Threads, FinishDestroy(t) PROVE IInv'
<1> DEFINE x == call[t].h
<1>0. TypeOK BY DEF IInv
<1>1. Leave(t) /\ AtUse(t, "destroy") BY DEF FinishDestroy
<1>2. x \in Addresses BY <1>1 DEF IInv, CallsInv, AtUse
<1>3. /\ call'[t] = Idle
      /\ \A u \in Threads \ {t} : call'[u] = call[u]
      /\ m_sessionCreated' = m_sessionCreated /\ session' = session
  BY <1>0, <1>1, LeaveTyped DEF Leave
<1>4. call[t].kind \in Kinds BY <1>0 DEF TypeOK, CallRecords
<1>5. PICK k0 \in Registries(call[t].kind) : x \in registered[k0]
  BY <1>1 DEF IInv, CallsInv, AtUse
<1>6. k0 \in Kinds BY <1>4, <1>5 DEF Registries, Kinds
<1>7. heap[x] = k0
  BY <1>2, <1>5, <1>6 DEF IInv, RegistriesMatchHeap
<1>8. \A k \in Kinds : x \in registered[k] => k = k0
  BY <1>2, <1>7 DEF IInv, RegistriesMatchHeap
<1> HIDE DEF x
<1>9. /\ heap'[x] = Null
      /\ \A b \in Addresses \ {x} : heap'[b] = heap[b] /\ bornIn'[b] = bornIn[b]
      /\ \A k \in Kinds : registered'[k] = registered[k] \ {x}
  <2>1. heap' = [heap EXCEPT ![x] = Null] /\ bornIn' = [bornIn EXCEPT ![x] = 0]
    BY DEF FinishDestroy, x
  <2>2. registered' = [k \in Kinds |-> IF k \in Registries(call[t].kind)
                                       THEN registered[k] \ {x}
                                       ELSE registered[k]]
    BY DEF FinishDestroy, x
  <2>3. \A k \in Kinds : registered'[k] = registered[k] \ {x}
    BY <1>5, <1>8, <2>2
  <2> QED BY <1>0, <1>2, <2>1, <2>3 DEF TypeOK
<1>10. TypeOK'
  <2>1. heap' \in [Addresses -> Kinds \cup {Null}]
    BY <1>0 DEF TypeOK, FinishDestroy
  <2>2. bornIn' \in [Addresses -> Nat] BY <1>0 DEF TypeOK, FinishDestroy
  <2>3. registered' \in [Kinds -> SUBSET Addresses]
    BY <1>0 DEF TypeOK, FinishDestroy
  <2>4. setAlive' \in BOOLEAN /\ orphans' \subseteq Addresses
    BY <1>0 DEF FinishDestroy, TypeOK
  <2> QED BY <1>0, <1>1, <2>1, <2>2, <2>3, <2>4, LeaveTyped DEF TypeOK
<1>11. ExternalSync' BY <1>1, LeaveSyncs
<1>12. \A u \in Threads \ {t} : call[u].h # x /\ call[u].base # x
  BY <1>1 DEF IInv, ExternalSync, AtUse, x
<1>13. CallsInv'
  <2>1. Idle.op = "none" BY DEF Idle
  <2>2. \A u \in Threads : Registries(call[u].kind) \subseteq Kinds
    BY <1>0 DEF TypeOK, CallRecords, Registries, Kinds
  <2> QED BY <1>3, <1>9, <1>12, <2>1, <2>2 DEF IInv, CallsInv
<1>14. RegistriesMatchHeap'
  <2> SUFFICES ASSUME NEW k \in Kinds, NEW b \in Addresses
               PROVE  b \in registered'[k] <=> heap'[b] = k
    BY DEF RegistriesMatchHeap
  <2>1. b \in registered[k] <=> heap[b] = k BY DEF IInv, RegistriesMatchHeap
  <2> QED BY <1>9, <2>1, SpacesAssumption
<1>15. NoUseAfterFree'
  <2> SUFFICES ASSUME NEW u \in Threads, call'[u].phase = "use"
               PROVE  /\ call'[u].op = "locate" =>
                            {call'[u].h, call'[u].base} \subseteq Spaces'
                      /\ call'[u].op \in {"read", "skeleton"} =>
                            heap'[call'[u].h] = call'[u].kind
                      /\ call'[u].op = "read"
                           /\ call'[u].kind \in {"hand", "body", "eye"} =>
                            call'[u].base \in Spaces'
    BY DEF NoUseAfterFree
  <2>1. u # t BY <1>3 DEF Idle
  <2>2. call'[u] = call[u] BY <1>3, <2>1
  <2>3. Spaces' = Spaces \ {x} BY <1>9 DEF Spaces, Kinds, SpaceKinds
  <2>4. heap'[call[u].h] = heap[call[u].h]
    BY <1>0, <1>12, <2>1 DEF TypeOK, FinishDestroy, x
  <2> QED BY <1>12, <2>1, <2>2, <2>3, <2>4 DEF IInv, NoUseAfterFree
<1>16. HandlesTiedToSession'
  <2> SUFFICES ASSUME NEW k \in SpaceKinds \cup {"hand", "eye", "face"},
                      NEW a \in registered'[k]
               PROVE  m_sessionCreated' /\ bornIn'[a] = session'
    BY DEF HandlesTiedToSession
  <2>1. k \in Kinds BY DEF Kinds, SpaceKinds, TrackerKinds
  <2>2. a \in registered[k] /\ a # x /\ a \in Addresses
    BY <1>0, <1>9, <2>1 DEF TypeOK
  <2> QED BY <1>3, <1>9, <2>2 DEF IInv, HandlesTiedToSession
<1> QED BY <1>10, <1>11, <1>13, <1>14, <1>15, <1>16 DEF IInv

(* The ways out of a call.                                                  *)
LEMMA FinishHolds ==
    ASSUME IInv, NEW t \in Threads, Finish(t) PROVE IInv'
<1>0. /\ setAlive \in BOOLEAN /\ orphans \subseteq Addresses
      /\ registered \in [Kinds -> SUBSET Addresses]
  BY DEF IInv, TypeOK
<1>1. CASE Refuse(t)
  BY <1>0, <1>1, LeaveHolds DEF Refuse, sets
<1>2. CASE FinishRead(t)
  BY <1>0, <1>2, LeaveHolds DEF FinishRead, sets
<1>3. CASE FinishDestroySet(t)
  <2>1. orphans' \subseteq Addresses /\ setAlive' \in BOOLEAN
    BY <1>0, <1>3 DEF FinishDestroySet, Kinds, SpaceKinds
  <2> QED BY <1>3, <2>1, LeaveHolds DEF FinishDestroySet
<1>4. CASE FinishCreateSet(t)
  BY <1>0, <1>4, LeaveHolds DEF FinishCreateSet
<1> QED BY <1>1, <1>2, <1>3, <1>4, ProceedHolds, FinishCreateHolds,
           FinishDestroyHolds DEF Finish

-----------------------------------------------------------------------------
(* The session and the watcher.                                             *)

(* A step that leaves objects, calls and the session as they are.           *)
LEMMA AsideHolds ==
    ASSUME IInv, TypeOK', UNCHANGED <<m_sessionCreated, session, objects, call>>
    PROVE  IInv'
<1>1. /\ m_sessionCreated' = m_sessionCreated /\ session' = session
      /\ heap' = heap /\ registered' = registered /\ bornIn' = bornIn
      /\ call' = call
  BY DEF objects
<1>2. ExternalSync' BY <1>1 DEF IInv, ExternalSync
<1>3. CallsInv' BY <1>1 DEF IInv, CallsInv
<1>4. RegistriesMatchHeap' BY <1>1 DEF IInv, RegistriesMatchHeap
<1>5. NoUseAfterFree' BY <1>1 DEF IInv, NoUseAfterFree, Spaces
<1>6. HandlesTiedToSession' BY <1>1 DEF IInv, HandlesTiedToSession
<1> QED BY <1>2, <1>3, <1>4, <1>5, <1>6 DEF IInv

(* The watcher touches only the lock.                                       *)
LEMMA WatcherHolds == ASSUME IInv, WatcherStep PROVE IInv'
<1>0. TypeOK BY DEF IInv
<1>1. CASE WatcherQueues
  <2>1. TypeOK'
    BY <1>0, <1>1
       DEF TypeOK, WatcherQueues, objects, sets, Processes, Watcher
  <2> QED BY <1>1, <2>1, AsideHolds DEF WatcherQueues
<1>2. CASE WatcherCopies
  <2>1. TypeOK'
    BY <1>0, <1>2
       DEF TypeOK, WatcherCopies, objects, sets, Processes, Watcher
  <2> QED BY <1>2, <2>1, AsideHolds DEF WatcherCopies
<1>3. CASE WatcherSleeps
  <2>1. TypeOK' BY <1>0, <1>3 DEF TypeOK, WatcherSleeps, objects, sets
  <2> QED BY <1>3, <2>1, AsideHolds DEF WatcherSleeps
<1> QED BY <1>1, <1>2, <1>3 DEF WatcherStep

(* A session begins with no object of the kinds that are tied to one.       *)
LEMMA CreateSessionHolds == ASSUME IInv, xrCreateSession PROVE IInv'
<1>0. TypeOK BY DEF IInv
<1>1. /\ heap' = heap /\ registered' = registered /\ bornIn' = bornIn
      /\ call' = call /\ ~m_sessionCreated /\ m_sessionCreated'
  BY DEF xrCreateSession, objects
<1>2. TypeOK'
  BY <1>0 DEF TypeOK, xrCreateSession, objects, sets, locks
<1>3. ExternalSync' BY <1>1 DEF IInv, ExternalSync
<1>4. CallsInv' BY <1>1 DEF IInv, CallsInv
<1>5. RegistriesMatchHeap' BY <1>1 DEF IInv, RegistriesMatchHeap
<1>6. NoUseAfterFree' BY <1>1 DEF IInv, NoUseAfterFree, Spaces
<1>7. HandlesTiedToSession' BY <1>1 DEF IInv, HandlesTiedToSession
<1> QED BY <1>2, <1>3, <1>4, <1>5, <1>6, <1>7 DEF IInv

(* It ends while no call is in progress, and takes them along.              *)
LEMMA DestroySessionHolds == ASSUME IInv, xrDestroySession PROVE IInv'
<1>0. TypeOK BY DEF IInv
<1>1. call' = call /\ ~m_sessionCreated'
      /\ \A t \in Threads : call[t] = Idle
  BY DEF xrDestroySession, Quiet, IInv, CallsInv
<1>2. TypeOK'
  <2>1. heap' \in [Addresses -> Kinds \cup {Null}]
    BY <1>0 DEF TypeOK, xrDestroySession
  <2>2. bornIn' \in [Addresses -> Nat] BY <1>0 DEF TypeOK, xrDestroySession
  <2>3. registered' \in [Kinds -> SUBSET Addresses]
    BY <1>0 DEF TypeOK, xrDestroySession
  <2>4. orphans' \subseteq Addresses BY <1>0 DEF TypeOK, xrDestroySession
  <2> QED BY <1>0, <2>1, <2>2, <2>3, <2>4
          DEF TypeOK, xrDestroySession, locks
<1>3. ExternalSync' BY <1>1 DEF ExternalSync, Idle
<1>4. CallsInv' BY <1>1 DEF CallsInv, Idle
<1>5. RegistriesMatchHeap'
  <2> SUFFICES ASSUME NEW k \in Kinds, NEW a \in Addresses
               PROVE  a \in registered'[k] <=> heap'[a] = k
    BY DEF RegistriesMatchHeap
  <2>1. a \in registered[k] <=> heap[a] = k BY DEF IInv, RegistriesMatchHeap
  <2>2. a \in Tied <=> heap[a] \in TiedKinds
    BY DEF Tied, TiedKinds, IInv, RegistriesMatchHeap, Kinds, SpaceKinds,
           TrackerKinds
  <2>3. heap'[a] = IF a \in Tied THEN Null ELSE heap[a]
    BY DEF xrDestroySession
  <2>4. registered'[k] = IF k \in TiedKinds THEN {} ELSE registered[k]
    BY DEF xrDestroySession
  <2>5. Null # k BY SpacesAssumption
  <2> QED BY <2>1, <2>2, <2>3, <2>4, <2>5
<1>6. NoUseAfterFree' BY <1>1 DEF NoUseAfterFree, Idle
<1>7. HandlesTiedToSession'
  <2>1. SpaceKinds \cup {"hand", "eye", "face"} \subseteq TiedKinds \cap Kinds
    BY DEF SpaceKinds, TiedKinds, Kinds, TrackerKinds
  <2>2. \A k \in TiedKinds \cap Kinds : registered'[k] = {}
    BY DEF xrDestroySession
  <2> QED BY <2>1, <2>2 DEF HandlesTiedToSession
<1> QED BY <1>2, <1>3, <1>4, <1>5, <1>6, <1>7 DEF IInv

(* Every step.                                                              *)
LEMMA NextHolds == IInv /\ [Next]_vars => IInv'
<1> SUFFICES ASSUME IInv, [Next]_vars PROVE IInv' OBVIOUS
<1>0. TypeOK BY DEF IInv
<1>1. ASSUME NEW t \in Makers, Create(t) \/ Destroy(t) \/ UseActions(t)
      PROVE  IInv'
  <2>1. t \in Threads BY SpacesAssumption
  <2> QED BY <1>1, <2>1, CreateHolds, DestroyHolds, UseActionsHolds
<1>2. ASSUME NEW t \in Threads, Use(t) \/ Lock(t) \/ Finish(t)
      PROVE  IInv'
  BY <1>2, UseHolds, LockHolds, FinishHolds
<1>3. CASE xrBeginSession
  <2>1. TypeOK'
    BY <1>0, <1>3 DEF TypeOK, xrBeginSession, objects, sets, locks
  <2> QED BY <1>3, <2>1, AsideHolds DEF xrBeginSession
<1>4. CASE UNCHANGED vars
  <2>1. TypeOK' BY <1>0, <1>4 DEF TypeOK, vars
  <2> QED BY <1>4, <2>1, AsideHolds DEF vars, objects
<1> QED BY <1>1, <1>2, <1>3, <1>4, CreateSessionHolds, DestroySessionHolds,
           WatcherHolds DEF Next

(* The invariant holds in every reachable state.                            *)
LEMMA InductiveHolds == Spec => []IInv
BY InitHolds, NextHolds, PTL DEF Spec

-----------------------------------------------------------------------------
(* The theorems.                                                            *)

(* The variables keep their types.                                          *)
THEOREM TypeCorrect == Spec => []TypeOK
<1>1. IInv => TypeOK BY DEF IInv
<1> QED BY <1>1, InductiveHolds, PTL

(* The registries list exactly what is allocated, each object under its     *)
(* kind: nothing is deleted twice, nothing deleted can be looked up.        *)
THEOREM RegistriesMatchHeapHolds == Spec => []RegistriesMatchHeap
<1>1. IInv => RegistriesMatchHeap BY DEF IInv
<1> QED BY <1>1, InductiveHolds, PTL

(* No call dereferences a handle whose object is gone, or is of another     *)
(* kind by now.                                                             *)
THEOREM NoUseAfterFreeHolds == Spec => []NoUseAfterFree
<1>1. IInv => NoUseAfterFree BY DEF IInv
<1> QED BY <1>1, InductiveHolds, PTL

(* Spaces, hand, eye and face trackers die with their session.              *)
THEOREM HandlesTiedToSessionHolds == Spec => []HandlesTiedToSession
<1>1. IInv => HandlesTiedToSession BY DEF IInv
<1> QED BY <1>1, InductiveHolds, PTL

-----------------------------------------------------------------------------
(* No threads wait for one another for ever: the locks that the calls on    *)
(* spaces and trackers nest are taken in one order.                         *)

(* The locks of the trackers come first, that of the spaces second, that of *)
(* the data last.                                                           *)
Front == {"handTrackers", "bodyTrackers"}
Second == "actionsAndSpaces"
Last == "bodyState"

Held(t) == {l \in Locks : t \in shared[l] \/ exclusive[l] = t}
Awaited(t) == {l \in Locks : t \in queued[l]}

(* Looking up takes at most one lock of each of the first two kinds.        *)
LookupSteps(todo) ==
    \A i \in 1 .. Len(todo) :
        /\ todo[i].does \in {"share", "own"}
        /\ todo[i].lock \in Front \cup {Second}
        /\ \A j \in 1 .. Len(todo) : i < j =>
              todo[i].lock \in Front /\ todo[j].lock = Second

(* Using takes the last, shared, and drops it before it takes it again.     *)
UseSteps(todo) ==
    \A i \in 1 .. Len(todo) :
        /\ todo[i].lock = Last
        /\ todo[i].does \in {"share", "drop"}
        /\ todo[i].does = "share" /\ i < Len(todo) => todo[i + 1].does = "drop"

(* What a call holds and waits for, at the point where it is.               *)
InOrder(c, held, awaited) ==
    /\ c.phase = "lookup" => LookupSteps(c.todo)
    /\ c.phase = "use" => UseSteps(c.todo)
    /\ c.phase = "idle" => held = {} /\ c.todo = <<>>
    /\ Last \in held =>
          c.phase = "use" /\ (c.todo = <<>> \/ Head(c.todo).does = "drop")
    /\ Second \in held => c.phase = "use" \/ c.todo = <<>>
    /\ Front \cap held # {} =>
          c.phase = "use" \/ \A i \in 1 .. Len(c.todo) : c.todo[i].lock = Second
    /\ \A l \in awaited : c.todo # <<>> /\ Head(c.todo) = Own(l)

CallLocks == \A t \in Threads : InOrder(call[t], Held(t), Awaited(t))

(* The watcher takes one lock, and no thread takes it as a writer.          *)
WatcherLocks ==
    /\ \A l \in Locks : Watcher \in queued[l] => l = Last
    /\ \A l \in Locks :
          exclusive[l] = Watcher => l = Last /\ watcher = "copying"
    /\ watcher = "copying" => Watcher \notin queued[Last]
    /\ exclusive[Last] \notin Threads

(* xrGetEyeGazesFB locates the headset in a space that needs no data.       *)
EyeBases ==
    \A t \in Threads :
        /\ call[t].phase = "lookup"
        /\ call[t].op = "read" /\ call[t].kind = "eye"
        => call[t].base \in registered["reference"]

LockInv == CallLocks /\ WatcherLocks /\ EyeBases

-----------------------------------------------------------------------------
(* Going through the steps of a call.                                       *)

(* The first of some steps.                                                 *)
LEMMA HeadIs ==
    ASSUME NEW s \in Seq(Steps), s # <<>> PROVE Head(s) = s[1]
OBVIOUS

(* A step of the lookup leaves steps of later kinds.                        *)
LEMMA LookupTail ==
    ASSUME NEW todo \in Seq(Steps), todo # <<>>, LookupSteps(todo)
    PROVE  /\ LookupSteps(Tail(todo))
           /\ Head(todo).does \in {"share", "own"}
           /\ Head(todo).lock \in Front \cup {Second}
           /\ Head(todo).lock = Second => Tail(todo) = <<>>
           /\ \A i \in 1 .. Len(Tail(todo)) : Tail(todo)[i].lock = Second
<1>1. /\ Len(todo) \in Nat \ {0} /\ Head(todo) = todo[1]
      /\ Len(Tail(todo)) = Len(todo) - 1
      /\ \A i \in 1 .. Len(Tail(todo)) : Tail(todo)[i] = todo[i + 1]
  OBVIOUS
<1>2. LookupSteps(Tail(todo)) BY <1>1 DEF LookupSteps
<1>3. ASSUME NEW i \in 1 .. Len(Tail(todo))
      PROVE  Tail(todo)[i].lock = Second
  <2>1. 1 \in 1 .. Len(todo) /\ i + 1 \in 1 .. Len(todo) /\ 1 < i + 1
    BY <1>1
  <2> QED BY <1>1, <2>1 DEF LookupSteps
<1>4. Head(todo).does \in {"share", "own"}
      /\ Head(todo).lock \in Front \cup {Second}
  BY <1>1 DEF LookupSteps
<1>5. ASSUME Head(todo).lock = Second PROVE Tail(todo) = <<>>
  <2>1. Second \notin Front BY DEF Second, Front
  <2>2. ~ (2 \in 1 .. Len(todo))
    <3>1. SUFFICES ASSUME 2 \in 1 .. Len(todo) PROVE FALSE OBVIOUS
    <3>2. 1 \in 1 .. Len(todo) /\ 1 < 2 BY <1>1
    <3>3. todo[1].lock \in Front BY <3>1, <3>2 DEF LookupSteps
    <3> QED BY <1>1, <1>5, <2>1, <3>3
  <2>3. Len(todo) = 1 BY <1>1, <2>2
  <2>4. Len(Tail(todo)) = 0 /\ Tail(todo) \in Seq(Steps)
    BY <1>1, <2>3, HeadTailProperties
  <2> QED BY <2>4, EmptySeq
<1> QED BY <1>2, <1>3, <1>4, <1>5

(* A step of the use that takes the lock is followed by one that drops it.  *)
LEMMA UseTail ==
    ASSUME NEW todo \in Seq(Steps), todo # <<>>, UseSteps(todo)
    PROVE  /\ UseSteps(Tail(todo))
           /\ Head(todo).lock = Last
           /\ Head(todo).does \in {"share", "drop"}
           /\ Head(todo).does = "share" =>
                Tail(todo) = <<>> \/ Head(Tail(todo)).does = "drop"
<1>1. /\ Len(todo) \in Nat \ {0} /\ Head(todo) = todo[1]
      /\ Len(Tail(todo)) = Len(todo) - 1
      /\ \A i \in 1 .. Len(Tail(todo)) : Tail(todo)[i] = todo[i + 1]
  OBVIOUS
<1>2. UseSteps(Tail(todo))
  <2> SUFFICES ASSUME NEW i \in 1 .. Len(Tail(todo))
               PROVE  /\ Tail(todo)[i].lock = Last
                      /\ Tail(todo)[i].does \in {"share", "drop"}
                      /\ Tail(todo)[i].does = "share" /\ i < Len(Tail(todo))
                         => Tail(todo)[i + 1].does = "drop"
    BY DEF UseSteps
  <2>1. i + 1 \in 1 .. Len(todo) /\ Tail(todo)[i] = todo[i + 1] BY <1>1
  <2>2. todo[i + 1].lock = Last /\ todo[i + 1].does \in {"share", "drop"}
    BY <2>1 DEF UseSteps
  <2>3. ASSUME todo[i + 1].does = "share", i < Len(Tail(todo))
        PROVE  Tail(todo)[i + 1].does = "drop"
    <3>1. i + 1 < Len(todo) /\ i + 1 \in 1 .. Len(Tail(todo))
      BY <1>1, <2>3
    <3>2. todo[(i + 1) + 1].does = "drop" BY <2>1, <2>3, <3>1 DEF UseSteps
    <3> QED BY <1>1, <3>1, <3>2
  <2> QED BY <2>1, <2>2, <2>3
<1>3. Head(todo).lock = Last /\ Head(todo).does \in {"share", "drop"}
  BY <1>1 DEF UseSteps
<1>4. ASSUME Head(todo).does = "share", Tail(todo) # <<>>
      PROVE  Head(Tail(todo)).does = "drop"
  <2>1. Len(Tail(todo)) \in Nat \ {0} /\ Tail(todo) \in Seq(Steps)
    BY <1>4, HeadTailProperties, EmptySeq
  <2>2. Head(Tail(todo)) = Tail(todo)[1] BY <1>4, <2>1, HeadIs
  <2>3. 1 \in 1 .. Len(todo) /\ 1 < Len(todo) /\ Tail(todo)[1] = todo[1 + 1]
    BY <1>1, <2>1
  <2>4. todo[1 + 1].does = "drop" BY <1>1, <1>4, <2>3 DEF UseSteps
  <2> QED BY <2>2, <2>3, <2>4
<1> QED BY <1>2, <1>3, <1>4

(* Locating a space comes before what else a call uses.                     *)
LEMMA TouchFirst ==
    ASSUME NEW S \in Steps, NEW D \in Steps, NEW s \in {<<>>, <<S, D>>},
           NEW todo \in Seq(Steps), UseSteps(todo),
           S.lock = Last, D.lock = Last, S.does = "share", D.does = "drop"
    PROVE  UseSteps(s \o todo)
<1>1. CASE s = <<>>
  <2>1. <<>> \o todo = todo BY ConcatEmptySeq
  <2> QED BY <1>1, <2>1
<1>2. CASE s = <<S, D>>
  <2> DEFINE r == s \o todo
  <2>1. s \in Seq(Steps) /\ Len(s) = 2 /\ s[1] = S /\ s[2] = D BY <1>2
  <2>a. Len(todo) \in Nat OBVIOUS
  <2>b. /\ Len(s \o todo) = Len(s) + Len(todo)
        /\ \A i \in 1 .. Len(s) + Len(todo) : (s \o todo)[i] =
              IF i <= Len(s) THEN s[i] ELSE todo[i - Len(s)]
    <3>1. s \in Seq(Steps) BY <2>1
    <3>2. \A a, b \in Seq(Steps) :
            /\ Len(a \o b) = Len(a) + Len(b)
            /\ \A i \in 1 .. Len(a) + Len(b) : (a \o b)[i] =
                  IF i <= Len(a) THEN a[i] ELSE b[i - Len(a)]
      BY ConcatProperties, ZenonT(60)
    <3> QED BY <3>1, <3>2
  <2>2. /\ Len(r) = Len(todo) + 2 /\ Len(todo) \in Nat
        /\ \A i \in 1 .. Len(r) : r[i] = IF i <= 2 THEN s[i] ELSE todo[i - 2]
    BY <2>1, <2>a, <2>b
  <2> HIDE DEF r
  <2> SUFFICES ASSUME NEW i \in 1 .. Len(r)
               PROVE  /\ r[i].lock = Last
                      /\ r[i].does \in {"share", "drop"}
                      /\ r[i].does = "share" /\ i < Len(r) =>
                            r[i + 1].does = "drop"
    BY DEF UseSteps, r
  <2>3. CASE i = 1
    <3>1. 2 \in 1 .. Len(r) /\ r[1] = S /\ r[1 + 1] = D BY <2>1, <2>2, <2>3
    <3> QED BY <2>3, <3>1
  <2>4. CASE i = 2
    <3>1. r[2] = D BY <2>1, <2>2, <2>4
    <3> QED BY <2>4, <3>1
  <2>5. CASE i > 2
    <3>1. i - 2 \in 1 .. Len(todo) /\ r[i] = todo[i - 2] BY <2>2, <2>5
    <3>2. todo[i - 2].lock = Last /\ todo[i - 2].does \in {"share", "drop"}
      BY <3>1 DEF UseSteps
    <3>3. ASSUME i < Len(r)
          PROVE  i - 2 < Len(todo) /\ r[i + 1] = todo[i - 2 + 1]
      BY <2>2, <2>5, <3>3
    <3>4. ASSUME i < Len(r), todo[i - 2].does = "share"
          PROVE  r[i + 1].does = "drop"
      BY <3>1, <3>3, <3>4 DEF UseSteps
    <3> QED BY <3>1, <3>2, <3>4
  <2> QED BY <2>3, <2>4, <2>5
<1> QED BY <1>1, <1>2

(* What a call does once its handles are known is a use, but for an action  *)
(* space as the base of gazes.                                              *)
LEMMA DataLocksUse ==
    ASSUME NEW c,
           c.op = "read" /\ c.kind = "eye" =>
              c.base \notin registered["actionSpace"]
    PROVE  UseSteps(DataLocks(c))
<1> DEFINE S == Share("bodyState")
           D == Drop("bodyState")
<1>1. /\ S.lock = Last /\ D.lock = Last /\ S.does = "share"
      /\ D.does = "drop"
  BY DEF Share, Drop, Last
<1>2. S \in Steps /\ D \in Steps BY StepsTyped DEF Locks
<1> HIDE DEF S, D
<1>3. UseSteps(<<>>) BY DEF UseSteps
<1>4. UseSteps(<<S>>) BY <1>1 DEF UseSteps
<1>5. <<S>> \in Seq(Steps) /\ <<>> \in Seq(Steps) /\ <<S, D>> \in Seq(Steps)
  BY <1>2
<1>6. \A h : Touch(h) \in {<<>>, <<S, D>>} BY DEF Touch, S, D
<1>7. UseSteps(<<S, D>>) BY <1>1 DEF UseSteps
<1>a. ASSUME NEW h, NEW todo \in Seq(Steps), UseSteps(todo)
      PROVE  UseSteps(Touch(h) \o todo)
  <2>1. Touch(h) \in {<<>>, <<S, D>>} BY <1>6
  <2> QED BY <1>1, <1>2, <1>a, <2>1, TouchFirst
<1>8. UseSteps(Touch(c.h) \o Touch(c.base))
  <2>1. UseSteps(Touch(c.base)) /\ Touch(c.base) \in Seq(Steps)
    BY <1>3, <1>5, <1>6, <1>7
  <2> QED BY <1>a, <2>1
<1>9. UseSteps(Touch(c.base) \o <<S>>) BY <1>4, <1>5, <1>a
<1> QED BY <1>3, <1>4, <1>8, <1>9 DEF DataLocks, S

-----------------------------------------------------------------------------
(* The invariant is inductive.                                              *)

(* Nobody holds anything at first.                                          *)
LEMMA LocksAtFirst == Init => LockInv
<1> SUFFICES ASSUME Init PROVE LockInv OBVIOUS
<1>1. \A t \in Threads : Held(t) = {} /\ Awaited(t) = {}
  BY SpacesAssumption DEF Init, Held, Awaited, Processes
<1>2. CallLocks
  BY <1>1 DEF Init, CallLocks, InOrder, Idle
<1>3. WatcherLocks
  BY SpacesAssumption DEF Init, WatcherLocks, Processes, Locks, Last
<1>4. EyeBases BY DEF Init, EyeBases, Idle
<1> QED BY <1>2, <1>3, <1>4 DEF LockInv

(* A thread between two calls holds nothing and waits for nothing.          *)
LEMMA IdleInOrder == InOrder(Idle, {}, {})
BY DEF InOrder, Idle

(* A step of one thread, that leaves the others' locks alone.               *)
LEMMA OneThread ==
    ASSUME CallLocks, NEW t \in Threads,
           InOrder(call'[t], Held(t)', Awaited(t)'),
           \A u \in Threads \ {t} :
              /\ call'[u] = call[u]
              /\ Held(u)' = Held(u) /\ Awaited(u)' = Awaited(u)
    PROVE  CallLocks'
BY DEF CallLocks

(* Entering a call.                                                         *)
LEMMA EnterLocks ==
    ASSUME IInv, LockInv, NEW t \in Threads, NEW op, NEW kind, NEW h, NEW base,
           NEW todo \in Seq(Steps), LookupSteps(todo),
           op = "read" /\ kind = "eye" => base \in registered["reference"],
           Enter(t, op, kind, h, base, todo)
    PROVE  LockInv'
<1> DEFINE c == [op |-> op, kind |-> kind, h |-> h, base |-> base,
                 phase |-> "lookup", todo |-> todo]
<1>1. /\ c.op = op /\ c.kind = kind /\ c.base = base /\ c.phase = "lookup"
      /\ c.todo = todo
  OBVIOUS
<1>2. call' = [call EXCEPT ![t] = c] BY DEF Enter
<1> HIDE DEF c
<1>3. call'[t] = c /\ \A u \in Threads \ {t} : call'[u] = call[u]
  BY <1>2 DEF IInv, TypeOK
<1>4. /\ shared' = shared /\ exclusive' = exclusive /\ queued' = queued
      /\ watcher' = watcher /\ registered' = registered
  BY DEF Enter, locks, objects
<1>5. \A u \in Threads : Held(u)' = Held(u) /\ Awaited(u)' = Awaited(u)
  BY <1>4 DEF Held, Awaited
<1>6. Held(t) = {} /\ Awaited(t) = {}
  <2>1. call[t].phase = "idle" BY DEF Enter
  <2> QED BY <2>1 DEF LockInv, CallLocks, InOrder
<1>7. InOrder(c, {}, {}) BY <1>1 DEF InOrder
<1>8. CallLocks' BY <1>3, <1>5, <1>6, <1>7, OneThread DEF LockInv
<1>9. WatcherLocks' BY <1>4 DEF LockInv, WatcherLocks
<1>10. EyeBases' BY <1>1, <1>3, <1>4 DEF LockInv, EyeBases
<1> QED BY <1>8, <1>9, <1>10 DEF LockInv

(* What the calls look up.                                                  *)
LEMMA LookupsInOrder ==
    /\ \A l \in Locks \ {Last} :
          LookupSteps(<<Own(l)>>) /\ LookupSteps(<<Share(l)>>)
    /\ \A l \in Front : LookupSteps(<<Share(l), Share(Second)>>)
<1>1. \A l : /\ Own(l).does = "own" /\ Own(l).lock = l
             /\ Share(l).does = "share" /\ Share(l).lock = l
  BY DEF Own, Share
<1>2. Locks \ {Last} = Front \cup {Second} BY DEF Locks, Last, Front, Second
<1>3. ASSUME NEW x, x.does \in {"share", "own"}, x.lock \in Front \cup {Second}
      PROVE  LookupSteps(<<x>>)
  BY <1>3 DEF LookupSteps
<1>4. ASSUME NEW l \in Front, NEW x, NEW y, x.does = "share", x.lock = l,
             y.does = "share", y.lock = Second
      PROVE  LookupSteps(<<x, y>>)
  <2>1. Len(<<x, y>>) = 2 /\ 1 .. 2 = {1, 2} OBVIOUS
  <2>2. <<x, y>>[1] = x /\ <<x, y>>[2] = y OBVIOUS
  <2> QED BY <1>4, <2>1, <2>2 DEF LookupSteps
<1>5. \A l \in Locks \ {Last} :
          LookupSteps(<<Own(l)>>) /\ LookupSteps(<<Share(l)>>)
  BY <1>1, <1>2, <1>3
<1>6. \A l \in Front : LookupSteps(<<Share(l), Share(Second)>>)
  BY <1>1, <1>4
<1> QED BY <1>5, <1>6

(* Every call enters so.                                                    *)
LEMMA CallsEnterInOrder ==
    ASSUME IInv, LockInv, ~NestedEyeGaze, NEW t \in Threads,
           Create(t) \/ Destroy(t) \/ Use(t) \/ UseActions(t)
    PROVE  LockInv'
<1> DEFINE Single == {<<Own("actionsAndSpaces")>>, <<Own("handTrackers")>>,
                      <<Own("bodyTrackers")>>, <<Share("actionsAndSpaces")>>,
                      <<Share("bodyTrackers")>>}
           Double == {<<Share("handTrackers"), Share("actionsAndSpaces")>>,
                      <<Share("bodyTrackers"), Share("actionsAndSpaces")>>}
<1>1. \A todo \in Single \cup Double : todo \in Seq(Steps) /\ LookupSteps(todo)
  <2>1. {"actionsAndSpaces", "handTrackers", "bodyTrackers"} \subseteq
          Locks \ {Last}
    BY DEF Locks, Last
  <2>2. \A todo \in Single : LookupSteps(todo) BY <2>1, LookupsInOrder
  <2>3. \A todo \in Double : LookupSteps(todo)
    BY LookupsInOrder DEF Front, Second
  <2>4. \A todo \in Single : todo \in Seq(Steps) BY <2>1, StepsTyped
  <2>5. \A todo \in Double : todo \in Seq(Steps) BY <2>1, StepsTyped
  <2> QED BY <2>2, <2>3, <2>4, <2>5
<1>2. \E op, kind, h, base : \E todo \in Single \cup Double :
        /\ op = "read" /\ kind = "eye" => base \in registered["reference"]
        /\ Enter(t, op, kind, h, base, todo)
  <2> HIDE DEF Enter
  <2>1. CASE Create(t)
    <3>1. PICK kind \in Kinds, todo \in Single :
              Enter(t, "create", kind, Null, Null, todo)
      BY <2>1 DEF Kinds, SpaceKinds, TrackerKinds, Create,
                  xrCreateReferenceSpace, xrCreateActionSpace,
                  xrCreateHandTrackerEXT, xrCreateEyeTrackerFB,
                  xrCreateFaceTrackerFB, xrCreateFaceTracker2FB,
                  xrCreateBodyTrackerFB
    <3> HIDE DEF Single, Double
    <3> QED BY <3>1
  <2>2. CASE Destroy(t)
    <3>1. PICK kind \in Kinds, h \in Addresses, todo \in Single :
              Enter(t, "destroy", kind, h, Null, todo)
      BY <2>2 DEF Kinds, SpaceKinds, TrackerKinds, Destroy, xrDestroySpace,
                  xrDestroyHandTrackerEXT, xrDestroyEyeTrackerFB,
                  xrDestroyFaceTrackerFB,
                  xrDestroyFaceTracker2FB, xrDestroyBodyTrackerFB
    <3> HIDE DEF Single, Double
    <3> QED BY <3>1
  <2>3. CASE UseActions(t)
    <3>1. PICK op \in {"sync", "destroySet", "createSet"}, todo \in Single :
              Enter(t, op, "reference", Null, Null, todo)
      BY <2>3 DEF UseActions, xrSyncActions, xrDestroyActionSet,
                  xrCreateActionSet
    <3> HIDE DEF Single, Double
    <3> QED BY <3>1
  <2>4. CASE \E h, base \in Addresses : xrGetEyeGazesFB(t, h, base)
    <3>1. PICK h \in Addresses, base \in Addresses, todo \in Double :
              /\ base \in registered["reference"]
              /\ Enter(t, "read", "eye", h, base, todo)
      BY <2>4 DEF xrGetEyeGazesFB
    <3> HIDE DEF Single, Double
    <3> QED BY <3>1
  <2>5. CASE \E h, base \in Addresses :
                \/ xrLocateSpace(t, h, base)
                \/ xrLocateHandJointsEXT(t, h, base)
                \/ xrLocateBodyJointsFB(t, h, base)
    <3>1. PICK h \in Addresses, base \in Addresses, op \in {"locate", "read"},
               kind \in {"reference", "hand", "body"},
               todo \in Single \cup Double :
              Enter(t, op, kind, h, base, todo)
      BY <2>5 DEF xrLocateSpace, xrLocateHandJointsEXT, xrLocateBodyJointsFB
    <3> HIDE DEF Single, Double
    <3> QED BY <3>1
  <2>6. CASE \E h \in Addresses :
                \/ xrGetFaceExpressionWeightsFB(t, h)
                \/ xrGetFaceExpressionWeights2FB(t, h)
                \/ xrGetBodySkeletonFB(t, h)
    <3>1. PICK h \in Addresses, op \in {"read", "skeleton"},
               kind \in {"face", "face2", "body"}, todo \in Single :
              Enter(t, op, kind, h, Null, todo)
      BY <2>6 DEF xrGetFaceExpressionWeightsFB, xrGetFaceExpressionWeights2FB,
                  xrGetBodySkeletonFB
    <3> HIDE DEF Single, Double
    <3> QED BY <3>1
  <2> QED BY <2>1, <2>2, <2>3, <2>4, <2>5, <2>6 DEF Use
<1> HIDE DEF Single, Double
<1> QED BY <1>1, <1>2, EnterLocks

(* Taking a lock, and dropping one.                                         *)
LEMMA LocksInOrder ==
    ASSUME IInv, LockInv, NEW t \in Threads, Lock(t)
    PROVE  LockInv'
<1>0. /\ call \in [Threads -> CallRecords]
      /\ shared \in [Locks -> SUBSET Threads]
      /\ exclusive \in [Locks -> Processes \cup {Null}]
      /\ queued \in [Locks -> SUBSET Processes]
  BY DEF IInv, TypeOK
<1> DEFINE todo == call[t].todo
           l == Head(todo).lock
<1>1. todo \in Seq(Steps) /\ todo # <<>>
  BY <1>0 DEF CallRecords, Lock, Queue, LockExclusive, LockShared,
              UnlockShared, Doing
<1>2. Head(todo) \in Steps /\ l \in Locks /\ Step(t) = Head(todo)
  <2>1. Head(todo) \in Steps BY <1>1, HeadTailProperties, Zenon
  <2>2. Step(t) = Head(todo) BY DEF Step
  <2> QED BY <2>1, <2>2 DEF Steps
<1>3. InOrder(call[t], Held(t), Awaited(t)) BY DEF LockInv, CallLocks
<1>4. call[t].phase \in {"lookup", "use"}
  BY <1>0, <1>1, <1>3 DEF InOrder, CallRecords
<1>5. t # Watcher /\ t # Null /\ t \in Processes
  BY SpacesAssumption DEF Processes
<1>6. /\ registered' = registered /\ watcher' = watcher
  BY DEF Lock, Queue, LockExclusive, LockShared, UnlockShared, objects
<1>7. \A k, x \in Locks : (Own(k) = Own(x) => k = x) /\ Own(k).does = "own"
  BY DEF Own
<1> HIDE DEF todo, l
<1>8. CASE Queue(t)
  <2>1. /\ Head(todo).does = "own"
        /\ queued' = [queued EXCEPT ![l] = @ \cup {t}]
        /\ call' = call /\ shared' = shared /\ exclusive' = exclusive
    BY <1>2, <1>8 DEF Queue, Doing, l
  <2>2. Head(todo) = Own(l) BY <1>2, <2>1 DEF Own, Steps, l
  <2>3. Held(t)' = Held(t) /\ Awaited(t)' = Awaited(t) \cup {l}
    BY <1>0, <1>2, <2>1 DEF Held, Awaited
  <2>4. InOrder(call'[t], Held(t)', Awaited(t)')
    BY <1>1, <1>3, <2>1, <2>2, <2>3 DEF InOrder, todo
  <2>5. ASSUME NEW u \in Threads \ {t}
        PROVE  Held(u)' = Held(u) /\ Awaited(u)' = Awaited(u)
    BY <1>0, <1>2, <2>1 DEF Held, Awaited
  <2>6. CallLocks' BY <2>1, <2>4, <2>5, OneThread DEF LockInv
  <2>7. WatcherLocks'
    <3>1. \A k \in Locks : Watcher \in queued'[k] <=> Watcher \in queued[k]
      BY <1>0, <1>2, <1>5, <2>1
    <3> QED BY <1>6, <2>1, <3>1 DEF LockInv, WatcherLocks, Locks, Last
  <2>8. EyeBases' BY <1>6, <2>1 DEF LockInv, EyeBases
  <2> QED BY <2>6, <2>7, <2>8 DEF LockInv
<1> DEFINE c == [call[t] EXCEPT !.todo = Tail(todo)]
<1>9. /\ c.todo = Tail(todo) /\ c.phase = call[t].phase /\ c.op = call[t].op
      /\ c.kind = call[t].kind /\ c.base = call[t].base
  BY <1>0 DEF CallRecords
<1>10. ASSUME Advance(t)
       PROVE  /\ call'[t] = c /\ \A u \in Threads \ {t} : call'[u] = call[u]
              /\ EyeBases'
  <2>1. call' = [call EXCEPT ![t] = c] 
    BY <1>0, <1>10 DEF Advance, todo, CallRecords
  <2> HIDE DEF c
  <2>2. call'[t] = c /\ \A u \in Threads \ {t} : call'[u] = call[u]
    BY <1>0, <2>1
  <2> QED BY <1>6, <1>9, <2>2 DEF LockInv, EyeBases
<1> HIDE DEF c
<1>11. CASE LockExclusive(t)
  <2>1. /\ Head(todo).does = "own" /\ Advance(t) /\ shared' = shared
        /\ queued' = [queued EXCEPT ![l] = @ \ {t}]
        /\ exclusive' = [exclusive EXCEPT ![l] = t]
        /\ exclusive[l] = Null
    BY <1>2, <1>11 DEF LockExclusive, Doing, CanOwn, l
  <2>2. LookupSteps(todo) /\ call[t].phase = "lookup"
    BY <1>1, <1>3, <1>4, <2>1, UseTail DEF InOrder, todo
  <2>3. /\ LookupSteps(Tail(todo)) /\ l \in Front \cup {Second}
        /\ l = Second => Tail(todo) = <<>>
        /\ \A i \in 1 .. Len(Tail(todo)) : Tail(todo)[i].lock = Second
    BY <1>1, <2>2, LookupTail DEF l
  <2>4. Held(t)' = Held(t) \cup {l} /\ Awaited(t)' = Awaited(t) \ {l}
    BY <1>0, <1>2, <2>1 DEF Held, Awaited
  <2>5. Awaited(t)' = {}
    <3>1. \A k \in Awaited(t) : k \in Locks /\ Head(todo) = Own(k)
      BY <1>3 DEF InOrder, Awaited, todo
    <3>2. \A k : Own(k).lock = k BY DEF Own
    <3> QED BY <2>4, <3>1, <3>2 DEF l
  <2>6. l # Last /\ Last \notin Front /\ Second \notin Front /\ Last # Second
    BY <2>3 DEF Front, Second, Last
  <2>7. Last \notin Held(t) /\ (Second \in Held(t) => FALSE)
    BY <1>1, <1>3, <2>2 DEF InOrder, todo
  <2>8. InOrder(c, Held(t)', Awaited(t)')
    BY <1>9, <2>2, <2>3, <2>4, <2>5, <2>6, <2>7 DEF InOrder
  <2>9. ASSUME NEW u \in Threads \ {t}
        PROVE  Held(u)' = Held(u) /\ Awaited(u)' = Awaited(u)
    <3>1. u # Null BY SpacesAssumption DEF Processes
    <3> QED BY <1>0, <1>2, <2>1, <3>1 DEF Held, Awaited
  <2>10. CallLocks' BY <1>10, <2>1, <2>8, <2>9, OneThread DEF LockInv
  <2>11. WatcherLocks'
    <3>1. \A k \in Locks : Watcher \in queued'[k] <=> Watcher \in queued[k]
      BY <1>0, <1>2, <1>5, <2>1
    <3>2. \A k \in Locks : exclusive'[k] = Watcher => exclusive[k] = Watcher
      BY <1>0, <1>2, <1>5, <2>1
    <3>3. exclusive'[Last] = exclusive[Last] BY <1>0, <2>1, <2>6
    <3>4. Last \in Locks BY DEF Locks, Last
    <3> QED BY <1>6, <3>1, <3>2, <3>3, <3>4 DEF LockInv, WatcherLocks
  <2> QED BY <1>10, <2>1, <2>10, <2>11 DEF LockInv
<1>12. CASE LockShared(t) \/ UnlockShared(t)
  <2>1. /\ Head(todo).does \in {"share", "drop"} /\ Advance(t)
        /\ queued' = queued /\ exclusive' = exclusive
        /\ shared' = [shared EXCEPT ![l] = IF Head(todo).does = "share"
                                           THEN @ \cup {t} ELSE @ \ {t}]
    BY <1>2, <1>12 DEF LockShared, UnlockShared, Doing, l
  <2>2. \A k \in Awaited(t) : FALSE
    BY <1>3, <1>7, <2>1 DEF InOrder, Awaited, todo
  <2>3. Awaited(t)' = {} BY <2>1, <2>2 DEF Awaited
  <2>4. Last \notin Front /\ Second \notin Front /\ Last # Second
        /\ Last \in Locks
    BY DEF Front, Second, Last, Locks
  <2>5. ASSUME call[t].phase = "lookup"
        PROVE  InOrder(c, Held(t)', Awaited(t)')
    <3>1. LookupSteps(todo) BY <1>3, <2>5 DEF InOrder, todo
    <3>2. /\ LookupSteps(Tail(todo)) /\ l \in Front \cup {Second}
          /\ l = Second => Tail(todo) = <<>>
          /\ Head(todo).does = "share"
          /\ \A i \in 1 .. Len(Tail(todo)) : Tail(todo)[i].lock = Second
      BY <1>1, <2>1, <3>1, LookupTail DEF l
    <3>3. Held(t)' = Held(t) \cup {l}
      BY <1>0, <1>2, <2>1, <3>2 DEF Held
    <3>4. Last \notin Held(t) /\ Second \notin Held(t)
      BY <1>1, <1>3, <2>5 DEF InOrder, todo
    <3> QED BY <1>9, <2>3, <2>4, <2>5, <3>2, <3>3, <3>4 DEF InOrder
  <2>6. ASSUME call[t].phase = "use"
        PROVE  InOrder(c, Held(t)', Awaited(t)')
    <3>1. UseSteps(todo) BY <1>3, <2>6 DEF InOrder, todo
    <3>2. /\ UseSteps(Tail(todo)) /\ l = Last
          /\ Head(todo).does = "share" =>
                Tail(todo) = <<>> \/ Head(Tail(todo)).does = "drop"
      BY <1>1, <3>1, UseTail DEF l
    <3>3. exclusive[Last] # t BY DEF LockInv, WatcherLocks
    <3>4. Last \in Held(t)' => Head(todo).does = "share"
      BY <1>0, <1>2, <2>1, <2>4, <3>2, <3>3 DEF Held
    <3> QED BY <1>9, <2>3, <2>6, <3>2, <3>4 DEF InOrder
  <2>7. InOrder(c, Held(t)', Awaited(t)') BY <1>4, <2>5, <2>6
  <2>8. ASSUME NEW u \in Threads \ {t}
        PROVE  Held(u)' = Held(u) /\ Awaited(u)' = Awaited(u)
    BY <1>0, <1>2, <2>1 DEF Held, Awaited
  <2>9. CallLocks' BY <1>10, <2>1, <2>7, <2>8, OneThread DEF LockInv
  <2>10. WatcherLocks' BY <1>6, <2>1 DEF LockInv, WatcherLocks
  <2> QED BY <1>10, <2>1, <2>9, <2>10 DEF LockInv
<1> QED BY <1>8, <1>11, <1>12 DEF Lock

(* Once its handles are known, a call goes on to use them: it holds no lock *)
(* of the data yet.                                                         *)
LEMMA ProceedLocks ==
    ASSUME IInv, LockInv, NEW t \in Threads, Proceed(t)
    PROVE  LockInv'
<1>0. call \in [Threads -> CallRecords] BY DEF IInv, TypeOK
<1> DEFINE c == [call[t] EXCEPT !.phase = "use", !.todo = DataLocks(call[t])]
<1>1. c.phase = "use" /\ c.todo = DataLocks(call[t])
  BY <1>0 DEF CallRecords
<1>2. call' = [call EXCEPT ![t] = c] BY <1>0 DEF Proceed, CallRecords
<1> HIDE DEF c
<1>3. call'[t] = c /\ \A u \in Threads \ {t} : call'[u] = call[u]
  BY <1>0, <1>2
<1>4. /\ shared' = shared /\ exclusive' = exclusive /\ queued' = queued
      /\ watcher' = watcher /\ registered' = registered
  BY DEF Proceed, locks, objects
<1>5. \A u \in Threads : Held(u)' = Held(u) /\ Awaited(u)' = Awaited(u)
  BY <1>4 DEF Held, Awaited
<1>6. call[t].phase = "lookup" /\ call[t].todo = <<>>
  BY DEF Proceed, AtLookup
<1>7. InOrder(call[t], Held(t), Awaited(t)) BY DEF LockInv, CallLocks
<1>8. Last \notin Held(t) /\ \A l \in Awaited(t) : FALSE
  BY <1>6, <1>7 DEF InOrder
<1>9. UseSteps(c.todo)
  <2>1. ASSUME call[t].op = "read", call[t].kind = "eye"
        PROVE  call[t].base \notin registered["actionSpace"]
    <3>1. call[t].base \in registered["reference"]
      BY <1>6, <2>1 DEF LockInv, EyeBases
    <3>2. /\ "reference" \in Kinds /\ "actionSpace" \in Kinds
          /\ registered["reference"] \subseteq Addresses
      BY DEF IInv, TypeOK, Kinds, SpaceKinds
    <3> QED BY <3>1, <3>2 DEF IInv, RegistriesMatchHeap
  <2> QED BY <1>1, <2>1, DataLocksUse
<1>10. InOrder(c, Held(t), Awaited(t)) BY <1>1, <1>8, <1>9 DEF InOrder
<1>11. CallLocks' BY <1>3, <1>5, <1>10, OneThread DEF LockInv
<1>12. WatcherLocks' BY <1>4 DEF LockInv, WatcherLocks
<1>13. EyeBases' BY <1>1, <1>3, <1>4 DEF LockInv, EyeBases
<1> QED BY <1>11, <1>12, <1>13 DEF LockInv

(* A call that returns holds nothing, and the spaces that the others name   *)
(* are still there.                                                         *)
LEMMA LeaveLocks ==
    ASSUME IInv, LockInv, NEW t \in Threads, Leave(t), call[t].todo = <<>>,
           \A u \in Threads \ {t} :
              call[u].base \in registered["reference"] =>
                 call[u].base \in registered'["reference"]
    PROVE  LockInv'
<1>0. /\ shared \in [Locks -> SUBSET Threads]
      /\ exclusive \in [Locks -> Processes \cup {Null}]
      /\ queued \in [Locks -> SUBSET Processes]
      /\ TypeOK
  BY DEF IInv, TypeOK
<1>1. call'[t] = Idle /\ \A u \in Threads \ {t} : call'[u] = call[u]
  BY <1>0, LeaveTyped
<1>2. /\ shared' = [l \in Locks |-> shared[l] \ {t}]
      /\ exclusive' = [l \in Locks |->
                          IF exclusive[l] = t THEN Null ELSE exclusive[l]]
      /\ queued' = queued /\ watcher' = watcher
  BY DEF Leave
<1>3. t # Watcher /\ Null # Watcher /\ \A u \in Threads : u # Null
  BY SpacesAssumption DEF Processes
<1>4. Held(t)' = {} BY <1>2, <1>3 DEF Held
<1>5. Awaited(t)' = {}
  <2>1. InOrder(call[t], Held(t), Awaited(t)) BY DEF LockInv, CallLocks
  <2>2. \A l \in Awaited(t) : FALSE BY <2>1 DEF InOrder
  <2> QED BY <1>2, <2>2 DEF Awaited
<1>6. ASSUME NEW u \in Threads \ {t}
      PROVE  Held(u)' = Held(u) /\ Awaited(u)' = Awaited(u)
  BY <1>2, <1>3 DEF Held, Awaited
<1>7. CallLocks' BY <1>1, <1>4, <1>5, <1>6, IdleInOrder, OneThread DEF LockInv
<1>8. WatcherLocks'
  <2>1. \A l \in Locks : exclusive'[l] = Watcher => exclusive[l] = Watcher
    BY <1>2, <1>3
  <2>2. exclusive'[Last] \notin Threads
    BY <1>2, <1>3 DEF LockInv, WatcherLocks, Locks, Last
  <2> QED BY <1>2, <2>1, <2>2 DEF LockInv, WatcherLocks
<1>9. EyeBases' BY <1>1 DEF LockInv, EyeBases, Idle
<1> QED BY <1>7, <1>8, <1>9 DEF LockInv

(* The ways out of a call: only the destruction of a space takes one away,  *)
(* and no other call names that one.                                        *)
LEMMA FinishLocks ==
    ASSUME IInv, LockInv, NEW t \in Threads, Finish(t)
    PROVE  LockInv'
<1>0. /\ registered \in [Kinds -> SUBSET Addresses]
      /\ "reference" \in Kinds
  BY DEF IInv, TypeOK, Kinds, SpaceKinds
<1>1. CASE Refuse(t) \/ FinishRead(t) \/ FinishDestroySet(t)
           \/ FinishCreateSet(t)
  <2>1. Leave(t) /\ registered' = registered /\ call[t].todo = <<>>
    BY <1>1 DEF Refuse, FinishRead, FinishDestroySet, FinishCreateSet, objects,
                AtLookup, AtUse
  <2> QED BY <2>1, LeaveLocks
<1>2. CASE FinishCreate(t)
  <2>1. PICK a \in Addresses :
            registered' = [registered EXCEPT ![call[t].kind] = @ \cup {a}]
    BY <1>2 DEF FinishCreate
  <2>2. registered["reference"] \subseteq registered'["reference"]
    BY <1>0, <2>1
  <2>3. Leave(t) /\ call[t].todo = <<>> BY <1>2 DEF FinishCreate, AtUse
  <2> QED BY <2>2, <2>3, LeaveLocks
<1>3. CASE FinishDestroy(t)
  <2>1. /\ Leave(t) /\ call[t].todo = <<>> /\ call[t].op = "destroy"
        /\ registered' = [k \in Kinds |->
                             IF k \in Registries(call[t].kind)
                             THEN registered[k] \ {call[t].h}
                             ELSE registered[k]]
    BY <1>3 DEF FinishDestroy, AtUse
  <2>2. \A u \in Threads \ {t} : call[u].base # call[t].h
    BY <2>1 DEF IInv, ExternalSync
  <2>3. ASSUME NEW u \in Threads \ {t},
               call[u].base \in registered["reference"]
        PROVE  call[u].base \in registered'["reference"]
    BY <1>0, <2>1, <2>2, <2>3
  <2> QED BY <2>1, <2>3, LeaveLocks
<1> QED BY <1>1, <1>2, <1>3, ProceedLocks DEF Finish

(* The watcher queues, copies and lets go.                                  *)
LEMMA WatcherInOrder == ASSUME IInv, LockInv, WatcherStep PROVE LockInv'
<1>0. /\ exclusive \in [Locks -> Processes \cup {Null}]
      /\ queued \in [Locks -> SUBSET Processes]
      /\ Last \in Locks
  BY DEF IInv, TypeOK, Locks, Last
<1>1. Watcher \notin Threads /\ Null \notin Threads /\ Null # Watcher
  BY SpacesAssumption DEF Processes
<1>2. /\ call' = call /\ registered' = registered /\ shared' = shared
      /\ \A l \in Locks \ {Last} :
            exclusive'[l] = exclusive[l] /\ queued'[l] = queued[l]
      /\ \A t \in Threads : t \in queued'[Last] <=> t \in queued[Last]
      /\ exclusive'[Last] \notin Threads
      /\ exclusive'[Last] = Watcher => watcher' = "copying"
      /\ watcher' = "copying" => Watcher \notin queued'[Last]
  <2>1. exclusive[Last] \notin Threads BY DEF LockInv, WatcherLocks
  <2>2. exclusive[Last] = Watcher => watcher = "copying"
    BY <1>0 DEF LockInv, WatcherLocks
  <2>3. CASE WatcherQueues
    BY <1>0, <1>1, <2>1, <2>2, <2>3 DEF WatcherQueues, objects, Last
  <2>4. CASE WatcherCopies
    BY <1>0, <1>1, <2>1, <2>4 DEF WatcherCopies, objects, Last
  <2>5. CASE WatcherSleeps
    <3>1. Watcher \notin queued[Last]
      BY <2>5 DEF WatcherSleeps, LockInv, WatcherLocks
    <3> QED BY <1>0, <1>1, <2>5, <3>1 DEF WatcherSleeps, objects, Last
  <2> QED BY <2>3, <2>4, <2>5 DEF WatcherStep
<1>3. \A t \in Threads : Held(t)' = Held(t) /\ Awaited(t)' = Awaited(t)
  <2>1. exclusive[Last] \notin Threads BY DEF LockInv, WatcherLocks
  <2> QED BY <1>2, <2>1 DEF Held, Awaited
<1>4. CallLocks' BY <1>2, <1>3 DEF LockInv, CallLocks
<1>5. WatcherLocks' BY <1>2 DEF LockInv, WatcherLocks
<1>6. EyeBases' BY <1>2 DEF LockInv, EyeBases
<1> QED BY <1>4, <1>5, <1>6 DEF LockInv

(* The session comes and goes while no call is in progress.                 *)
LEMMA SessionLocks ==
    ASSUME IInv, LockInv,
           xrCreateSession \/ xrBeginSession \/ xrDestroySession
    PROVE  LockInv'
<1>1. /\ call' = call /\ shared' = shared /\ exclusive' = exclusive
      /\ queued' = queued
  BY DEF xrCreateSession, xrBeginSession, xrDestroySession, locks
<1>2. watcher' = "copying" <=> watcher = "copying"
  BY DEF xrCreateSession, xrBeginSession, xrDestroySession
<1>3. CallLocks' BY <1>1 DEF LockInv, CallLocks, Held, Awaited
<1>4. WatcherLocks' BY <1>1, <1>2 DEF LockInv, WatcherLocks
<1>5. EyeBases'
  <2>1. CASE registered' = registered
    BY <1>1, <2>1 DEF LockInv, EyeBases
  <2>2. CASE Quiet BY <1>1, <2>2 DEF Quiet, EyeBases
  <2> QED BY <2>1, <2>2
          DEF xrCreateSession, xrBeginSession, xrDestroySession, objects
<1> QED BY <1>3, <1>4, <1>5 DEF LockInv

(* Every step.                                                              *)
LEMMA NextLocks ==
    ASSUME ~NestedEyeGaze, IInv, LockInv, [Next]_vars PROVE LockInv'
<1>1. ASSUME NEW t \in Makers, Create(t) \/ Destroy(t) \/ UseActions(t)
      PROVE  LockInv'
  <2>1. t \in Threads BY SpacesAssumption
  <2> QED BY <1>1, <2>1, CallsEnterInOrder
<1>2. ASSUME NEW t \in Threads, Use(t) \/ Lock(t) \/ Finish(t)
      PROVE  LockInv'
  BY <1>2, CallsEnterInOrder, LocksInOrder, FinishLocks
<1>3. CASE UNCHANGED vars
  BY <1>3 DEF vars, LockInv, CallLocks, WatcherLocks, EyeBases, Held, Awaited
<1> QED BY <1>1, <1>2, <1>3, SessionLocks, WatcherInOrder DEF Next

(* The locks are in order in every reachable state.                         *)
LEMMA LocksHold == ASSUME ~NestedEyeGaze PROVE Spec => [](IInv /\ LockInv)
<1>1. Init => IInv /\ LockInv BY InitHolds, LocksAtFirst
<1>2. (IInv /\ LockInv) /\ [Next]_vars => (IInv /\ LockInv)'
  BY NextHolds, NextLocks
<1> QED BY <1>1, <1>2, PTL DEF Spec

-----------------------------------------------------------------------------
(* Who waits for whom.                                                      *)

Holds(q, l) == q \in shared[l] \/ q = exclusive[l]
Wants(p, l) ==
    \/ p \in queued[l]
    \/ p \in Threads /\ Doing(p, "share") /\ Step(p).lock = l

(* A process wants one lock, to share it or to own it, that its next step   *)
(* names.                                                                   *)
LEMMA OneWant ==
    ASSUME IInv, LockInv, NEW p \in Processes, NEW l \in Locks, Wants(p, l)
    PROVE  /\ p = Watcher => l = Last
           /\ p \in Threads =>
                /\ call[p].todo # <<>> /\ Head(call[p].todo).lock = l
                /\ Head(call[p].todo).does \in {"share", "own"}
                /\ p \in queued[l] => Head(call[p].todo).does = "own"
<1>1. ASSUME p = Watcher PROVE l = Last
  BY <1>1, SpacesAssumption DEF Wants, LockInv, WatcherLocks
<1>2. ASSUME p \in Threads, p \in queued[l]
      PROVE  call[p].todo # <<>> /\ Head(call[p].todo) = Own(l)
  BY <1>2 DEF LockInv, CallLocks, InOrder, Awaited
<1>3. Own(l).lock = l /\ Own(l).does = "own" BY DEF Own
<1>4. ASSUME p \in Threads, p \notin queued[l]
      PROVE  /\ call[p].todo # <<>> /\ Head(call[p].todo).lock = l
             /\ Head(call[p].todo).does = "share"
  BY <1>4 DEF Wants, Doing, Step
<1> QED BY <1>1, <1>2, <1>3, <1>4

(* Who holds a lock wants only locks that come after it.                    *)
LEMMA HolderWants ==
    ASSUME IInv, LockInv, NEW q \in Processes, NEW k \in Locks, NEW l \in Locks,
           Holds(q, k), Wants(q, l)
    PROVE  /\ k # Last
           /\ k = Second => l = Last
           /\ k \in Front => l \in {Second, Last}
<1>0. /\ call \in [Threads -> CallRecords]
      /\ shared \in [Locks -> SUBSET Threads]
      /\ Last \in Locks
  BY DEF IInv, TypeOK, Locks, Last
<1>1. q \in Threads
  <2>1. SUFFICES ASSUME q = Watcher PROVE FALSE BY DEF Processes
  <2>2. q \notin Threads BY <2>1, SpacesAssumption
  <2>3. l = Last BY <2>1, OneWant
  <2>4. q \in queued[Last] BY <2>2, <2>3 DEF Wants
  <2>5. exclusive[k] = Watcher BY <1>0, <2>1, <2>2 DEF Holds
  <2>6. watcher = "copying" BY <2>5 DEF LockInv, WatcherLocks
  <2> QED BY <2>1, <2>4, <2>6 DEF LockInv, WatcherLocks
<1> DEFINE todo == call[q].todo
<1>2. /\ todo \in Seq(Steps) /\ todo # <<>>
      /\ Head(todo).lock = l /\ Head(todo).does \in {"share", "own"}
  BY <1>0, <1>1, OneWant DEF CallRecords
<1>3. InOrder(call[q], Held(q), Awaited(q)) /\ k \in Held(q)
  BY <1>1 DEF LockInv, CallLocks, Held, Holds
<1>4. k # Last BY <1>2, <1>3 DEF InOrder
<1>5. ASSUME call[q].phase = "use" PROVE l = Last
  <2>1. UseSteps(todo) BY <1>3, <1>5 DEF InOrder
  <2> HIDE DEF todo
  <2> QED BY <1>2, <2>1, UseTail
<1>6. k = Second => l = Last BY <1>2, <1>3, <1>5 DEF InOrder
<1>7. ASSUME k \in Front, call[q].phase # "use" PROVE l = Second
  <2>1. \A i \in 1 .. Len(todo) : todo[i].lock = Second
    BY <1>3, <1>7 DEF InOrder
  <2> HIDE DEF todo
  <2>2. 1 \in 1 .. Len(todo) /\ Head(todo) = todo[1] BY <1>2
  <2> QED BY <1>2, <2>1, <2>2
<1> QED BY <1>4, <1>5, <1>6, <1>7

(* If those who hold a lock can go on, nobody waits for it.                 *)
LEMMA NobodyWaits ==
    ASSUME IInv, LockInv, NEW S \in SUBSET Processes, NEW k \in Locks,
           \A p \in S : \E q \in S : WaitsFor(p, q),
           \A q \in S : Holds(q, k) => \A l \in Locks : ~Wants(q, l)
    PROVE  \A p \in S : ~Wants(p, k)
<1>1. ASSUME NEW p \in S, Wants(p, k)
      PROVE  \E q \in S :
                \/ Holds(q, k)
                \/ q \in queued[k] /\ p \in Threads /\ Doing(p, "share")
  <2>1. PICK q \in S, l \in Locks :
            \/ p \in queued[l] /\ (q \in shared[l] \/ q = exclusive[l])
            \/ /\ p \in Threads /\ Doing(p, "share") /\ Step(p).lock = l
               /\ q \in queued[l] \/ q = exclusive[l]
    BY DEF WaitsFor
  <2>2. Wants(p, l) BY <2>1 DEF Wants
  <2>3. p \in Processes /\ (p \in Threads \/ p = Watcher) BY DEF Processes
  <2>4. l = k BY <1>1, <2>2, <2>3, OneWant
  <2> QED BY <2>1, <2>4 DEF Holds
<1>2. ASSUME NEW p \in S PROVE \E l \in Locks : Wants(p, l)
  BY DEF WaitsFor, Wants
<1>3. ASSUME NEW p \in S PROVE ~Holds(p, k)
  BY <1>2, <1>3
<1>4. ASSUME NEW q \in S, q \in queued[k] PROVE FALSE
  <2>1. Wants(q, k) /\ q \in Processes BY <1>4 DEF Wants
  <2>2. q \in Threads /\ Doing(q, "share") BY <1>1, <1>3, <2>1
  <2>3. Head(call[q].todo).does = "own" BY <1>4, <2>1, <2>2, OneWant
  <2> QED BY <2>2, <2>3 DEF Doing, Step
<1> QED BY <1>1, <1>3, <1>4

(* The locks in order leave no circle: nobody waits for the last, so nobody *)
(* for the second, so nobody for the first.                                 *)
LEMMA OrderBreaksCircles ==
    ASSUME IInv, LockInv PROVE NoCircularWait
<1> SUFFICES ASSUME NEW S \in SUBSET Processes, S # {},
                    \A p \in S : \E q \in S : WaitsFor(p, q)
             PROVE  FALSE
  BY DEF NoCircularWait
<1>0. Locks = Front \cup {Second, Last} BY DEF Locks, Front, Second, Last
<1>1. \A p \in S : ~Wants(p, Last)
  <2>1. \A q \in S : Holds(q, Last) => \A l \in Locks : ~Wants(q, l)
    BY <1>0, HolderWants
  <2> QED BY <1>0, <2>1, NobodyWaits
<1>2. \A p \in S : ~Wants(p, Second)
  <2>1. \A q \in S : Holds(q, Second) => \A l \in Locks : ~Wants(q, l)
    BY <1>0, <1>1, HolderWants
  <2> QED BY <1>0, <2>1, NobodyWaits
<1>3. ASSUME NEW k \in Front PROVE \A p \in S : ~Wants(p, k)
  <2>1. \A q \in S : Holds(q, k) => \A l \in Locks : ~Wants(q, l)
    BY <1>0, <1>1, <1>2, HolderWants
  <2> QED BY <1>0, <2>1, NobodyWaits
<1>4. PICK p \in S, l \in Locks : Wants(p, l) BY DEF WaitsFor, Wants
<1> QED BY <1>0, <1>1, <1>2, <1>3, <1>4

-----------------------------------------------------------------------------
(* The theorem.                                                             *)

(* As long as no gaze is located in an action space, the threads that call  *)
(* and the watcher never hold one another up for ever, however many there   *)
(* are and whatever locks their calls nest.                                 *)
THEOREM NoCircularWaitHolds ==
    ASSUME ~NestedEyeGaze PROVE Spec => []NoCircularWait
<1>1. IInv /\ LockInv => NoCircularWait BY OrderBreaksCircles
<1> QED BY <1>1, LocksHold, PTL

=============================================================================
