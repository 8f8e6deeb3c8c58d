------------------------------ MODULE Swapchain ------------------------------
(***************************************************************************)
(* One swapchain, between the application and LibOVR (swapchain.cpp,        *)
(* resolveSwapchainImage() of d3d11_native.cpp, the layers of xrEndFrame    *)
(* and preprocessSwapchainImage() of frame.cpp).                            *)
(*                                                                         *)
(* The runtime keeps its own ring of images for the application and makes   *)
(* LibOVR's rings follow it when a frame is composed, slice by slice:       *)
(*   - slice 0 of a "direct" swapchain is LibOVR's own texture, committed   *)
(*     until LibOVR stands where the application stands;                    *)
(*   - any other slice is copied into a ring of its own, every frame.       *)
(* Before a layer is submitted its image may need its alpha corrected,      *)
(* which is done in place and is to be done once.                           *)
(*                                                                         *)
(* xrEndFrame holds m_swapchainsMutex from the first layer to the last, so  *)
(* no other call comes in between; the application enumerates the images    *)
(* before it uses them.                                                     *)
(***************************************************************************)
EXTENDS Integers, Sequences

CONSTANTS
    Length,         (* the length LibOVR gives to a chain that is not static *)
    ArraySize,      (* the slices of the swapchain                           *)
    Kinds,          (* "direct", or "copy": slow path, MSAA or cube          *)
    Statics,        (* whether XR_SWAPCHAIN_CREATE_STATIC_IMAGE_BIT is given *)
    Alphas,         (* whether the swapchain's layers need their alpha       *)
                    (* cleared or premultiplied                              *)
    Upscales,       (* whether a layer goes through upscaler()               *)
    StaticReuse,    (* m_allowStaticSwapchainsReuse                          *)
    MaxLayers       (* bound: layers of a frame that use the swapchain       *)

ASSUME LengthAssumption == Length \in Nat \ {0} /\ ArraySize \in Nat \ {0}
ASSUME KindsAssumption == Kinds \in SUBSET {"direct", "copy"}
ASSUME ModesAssumption ==
    /\ Statics \in SUBSET BOOLEAN /\ Alphas \in SUBSET BOOLEAN
    /\ Upscales \in SUBSET BOOLEAN /\ StaticReuse \in BOOLEAN
ASSUME BoundsAssumption == MaxLayers \in Nat

VARIABLES
    kind, static, alpha,    (* what the swapchain was created for            *)
    pc,             (* where the caller of xrEndFrame is                     *)
    acquired,       (* acquiredIndices                                       *)
    lastWaited,     (* lastWaitedIndex                                       *)
    lastReleased,   (* lastReleasedIndex                                     *)
    nextIndex,      (* nextIndex                                             *)
    frozen,         (* frozen                                                *)
    dirty,          (* dirty                                                 *)
    slots,          (* resolvedSlices.size()                                 *)
    chain,          (* resolvedSlices[s].ovrSwapchain: none, the "app"       *)
                    (* chain, or one of its "own"                            *)
    lastCommitted,  (* resolvedSlices[s].lastCommittedIndex                  *)
    current,        (* LibOVR: the current index of a chain                  *)
    committed,      (* LibOVR: the last index committed to a chain, or -1    *)
    store,          (* what the images of a chain hold                       *)
    resolved,       (* m_precompositor.resolvedSwapchainImages               *)
    use,            (* the layer being handled, <<slice, upscaled>>, if any  *)
    layers,         (* how many layers of the frame resolved an image        *)
    freed,          (* how often a chain was given to                        *)
                    (* ovr_DestroyTextureSwapChain                           *)
    (* History, read by no guard: *)
    ahead,          (* how many images were released since the "app" chain   *)
                    (* last followed, Length standing for more               *)
    uses,           (* the layers handled in the frame being composed        *)
    plain           (* since the last release every frame was submitted and  *)
                    (* used slice 0 in one layer                             *)

kindVars == <<kind, static, alpha>>
appVars == <<acquired, lastWaited, lastReleased, nextIndex, frozen>>
chainVars == <<slots, chain, lastCommitted, current, committed>>
frameVars == <<resolved, use, layers, uses>>

NoUse == <<0, FALSE>>
historyVars == <<ahead, plain>>

vars == <<kindVars, pc, appVars, dirty, chainVars, store, frameVars, freed,
          historyVars>>

Slices == 0 .. ArraySize - 1
Images == 0 .. Length - 1

(* LibOVR's chains: one per slice that needs it, and the application's. *)
AppChain == ArraySize
Chains == 0 .. ArraySize
ChainOf(s) == IF chain[s] = "app" THEN AppChain ELSE s

(* An image holds what the application released last, and its alpha was      *)
(* never, once or more than once corrected; or it is "old": released before, *)
(* or never drawn.                                                           *)
Image == {"raw", "corrected", "overdone", "old"}

(* ovrSwapchainLength *)
Size == IF static THEN 1 ELSE Length

Succ(i) == IF i + 1 >= Size THEN 0 ELSE i + 1

FlagsOK ==
    /\ static \in Statics /\ alpha \in Alphas
    /\ frozen \in BOOLEAN /\ dirty \in BOOLEAN /\ plain \in BOOLEAN

DataOK ==
    /\ kind \in Kinds
    /\ pc \in {"idle", "layers", "resolved", "submit", "destroyed"}
    /\ acquired \in Seq(Images)
    /\ lastWaited \in Images \cup {-1} /\ lastReleased \in Images \cup {-1}
    /\ nextIndex \in Images
    /\ slots \in 0 .. ArraySize
    /\ chain \in [Slices -> {"none", "app", "own"}]
    /\ lastCommitted \in [Slices -> Images \cup {-1}]
    /\ current \in [Chains -> Images]
    /\ committed \in [Chains -> Images \cup {-1}]
    /\ store \in [Chains -> [Images -> Image]]
    /\ resolved \in SUBSET Slices
    /\ use \in Slices \X BOOLEAN /\ uses \in SUBSET (Slices \X BOOLEAN)
    /\ layers \in 0 .. MaxLayers
    /\ freed \in [Chains -> 0 .. 2]
    /\ ahead \in 0 .. Length

TypeOK == FlagsOK /\ DataOK

(* xrCreateSwapchain *)
Init ==
    /\ kind \in Kinds /\ static \in Statics /\ alpha \in Alphas
    /\ pc = "idle"
    /\ acquired = <<>> /\ lastWaited = -1 /\ lastReleased = -1
    /\ nextIndex = 0 /\ frozen = FALSE /\ dirty = FALSE
    /\ slots = 0
    /\ chain = [s \in Slices |-> "none"]
    /\ lastCommitted = [s \in Slices |-> -1]
    /\ current = [c \in Chains |-> 0] /\ committed = [c \in Chains |-> -1]
    /\ store = [c \in Chains |-> [i \in Images |-> "old"]]
    /\ resolved = {} /\ use = NoUse /\ uses = {} /\ layers = 0
    /\ freed = [c \in Chains |-> 0]
    /\ ahead = 0 /\ plain = TRUE

-----------------------------------------------------------------------------
(* The application's side *)

Full == Len(acquired) = Size

AcquireImage ==
    /\ pc = "idle"
    /\ ~Full
    /\ frozen => StaticReuse
    /\ acquired' = Append(acquired, nextIndex)
    /\ nextIndex' = Succ(nextIndex)
    /\ frozen' = static
    /\ UNCHANGED <<kindVars, pc, lastWaited, lastReleased, dirty, chainVars,
                   store, frameVars, freed, historyVars>>

(* acquiredIndices.front() *)
Oldest == Head(acquired)

WaitImage ==
    /\ pc = "idle"
    /\ acquired # <<>> /\ Oldest # lastWaited
    /\ lastWaited' = Oldest
    /\ UNCHANGED <<kindVars, pc, acquired, lastReleased, nextIndex, frozen,
                   dirty, chainVars, store, frameVars, freed, historyVars>>

(* The application has drawn the image it waited for. *)
ReleaseImage ==
    /\ pc = "idle"
    /\ acquired # <<>> /\ Oldest = lastWaited
    /\ store' = [c \in Chains |-> [i \in Images |->
                    IF c = AppChain /\ i = lastWaited THEN "raw" ELSE "old"]]
    /\ lastReleased' = lastWaited
    /\ lastWaited' = -1
    /\ dirty' = TRUE
    /\ acquired' = Tail(acquired)
    /\ ahead' = IF ahead = Length THEN Length ELSE ahead + 1
    /\ plain' = TRUE
    /\ UNCHANGED <<kindVars, pc, nextIndex, frozen, chainVars, frameVars, freed>>

-----------------------------------------------------------------------------
(* xrEndFrame composes the layers *)

StartLayers ==
    /\ pc = "idle"
    /\ pc' = "layers"
    /\ resolved' = {}
    /\ UNCHANGED <<kindVars, appVars, dirty, chainVars, store, use, uses, layers,
                   freed, historyVars>>

(* ensureSwapchainSliceResources() *)
EnsureSlice(s) ==
    /\ slots' = IF slots > s THEN slots ELSE s + 1
    /\ chain' = IF chain[s] # "none" THEN chain
                ELSE [chain EXCEPT ![s] =
                         IF s = 0 /\ slots = 0 /\ kind = "direct" THEN "app"
                                                                  ELSE "own"]

NeedCopy(s) == s > 0 \/ kind = "copy"

(* "let's commit to the swapchain until the last committed image matches the *)
(* last released image index" (d3d11_native.cpp:545)                         *)
Mutant_CommitTo == IF lastReleased = 0 THEN Size - 1 ELSE lastReleased - 1
CommitTo == lastReleased

FollowRelease(c) ==
    LET level == Succ(lastReleased) = current[c]
    IN  /\ committed' = IF level /\ ~(Size = 1 /\ dirty) THEN committed
                        ELSE [committed EXCEPT ![c] = CommitTo]
        /\ current' = [current EXCEPT ![c] = Succ(CommitTo)]

Mutant_CopySource == nextIndex
CopySource == lastReleased

(* What a copy of a slice holds: the correction of an image of the           *)
(* application's reaches its slice 0 only, which is not copied then.         *)
Copied(image) == IF image = "old" THEN "old" ELSE "raw"

CopyRelease(s, upscaled) ==
    /\ store' = [store EXCEPT ![s][current[s]] =
                    Copied(store[AppChain][CopySource])]
    /\ lastCommitted' = [lastCommitted EXCEPT ![s] = current[s]]
    /\ IF upscaled THEN UNCHANGED <<committed, current>>
       ELSE /\ committed' = [committed EXCEPT ![s] = current[s]]
            /\ current' = [current EXCEPT ![s] = Succ(current[s])]

(* A layer uses slice s: resolveSwapchainImage() *)
ResolveImage(s, upscaled) ==
    /\ pc = "layers"
    /\ layers < MaxLayers
    /\ lastReleased # -1
    /\ EnsureSlice(s)
    /\ \/ /\ s \in resolved
          /\ UNCHANGED <<lastCommitted, committed, current, store, ahead>>
       \/ /\ s \notin resolved /\ NeedCopy(s)
          /\ CopyRelease(s, upscaled)
          /\ UNCHANGED ahead
       \/ /\ s \notin resolved /\ ~NeedCopy(s)
          /\ lastCommitted' = [lastCommitted EXCEPT ![s] = lastReleased]
          /\ IF upscaled THEN UNCHANGED <<committed, current, ahead>>
             ELSE /\ FollowRelease(IF chain'[s] = "app" THEN AppChain ELSE s)
                  /\ ahead' = 0
          /\ UNCHANGED store
    /\ resolved' = resolved \cup {s}
    /\ use' = <<s, upscaled>> /\ layers' = layers + 1
    /\ pc' = "resolved"
    /\ UNCHANGED <<kindVars, appVars, dirty, uses, freed, plain>>

Correct(image) ==
    IF image = "old" THEN "old"
    ELSE IF image = "raw" THEN "corrected" ELSE "overdone"

(* The rest of the layer: preprocessSwapchainImage() *)
PreprocessImage ==
    LET s == use[1]
    IN  /\ pc = "resolved"
        /\ store' = IF dirty /\ alpha
                    THEN [store EXCEPT ![ChainOf(s)][lastCommitted[s]] = Correct(@)]
                    ELSE store
        /\ uses' = uses \cup {use}
        /\ plain' = (plain /\ \A u \in uses : u[1] # s)
        /\ pc' = "layers" /\ use' = NoUse
        /\ UNCHANGED <<kindVars, appVars, dirty, chainVars, resolved, layers,
                       freed, ahead>>

(* A layer is invalid, before or after its image is resolved, or a call to   *)
(* LibOVR or Direct3D fails: xrEndFrame returns and marks nothing clean.     *)
LayersFail ==
    /\ pc \in {"layers", "resolved"}
    /\ pc' = "idle" /\ use' = NoUse /\ uses' = {} /\ layers' = 0
    /\ plain' = (plain /\ uses = {})
    /\ UNCHANGED <<kindVars, appVars, dirty, chainVars, store, resolved, freed,
                   ahead>>

(* "Mark all swapchain images as clean (aka already pre-processed)."         *)
(* (frame.cpp:490)                                                           *)
Mutant_DirtyAfter == dirty
DirtyAfter == IF resolved = {} THEN dirty ELSE FALSE

MarkClean ==
    /\ pc = "layers"
    /\ dirty' = DirtyAfter
    /\ plain' = (plain /\ (resolved = {} \/ \E u \in uses : u[1] = 0))
    /\ pc' = "submit"
    /\ UNCHANGED <<kindVars, appVars, chainVars, store, frameVars, freed,
                   ahead>>

(* The layers go to LibOVR. *)
Submit ==
    /\ pc = "submit"
    /\ pc' = "idle" /\ uses' = {} /\ layers' = 0
    /\ UNCHANGED <<kindVars, appVars, dirty, chainVars, store, resolved, use,
                   freed, historyVars>>

-----------------------------------------------------------------------------
(* xrDestroySwapchain *)

Mutant_AppChainFreed == IF slots > 0 /\ kind = "direct" THEN 1 ELSE 0
AppChainFreed ==
    IF slots > 0 /\ kind = "direct" /\ chain[0] # "app" THEN 1 ELSE 0

DestroySwapchain ==
    /\ pc = "idle"
    /\ freed' = [c \in Chains |->
                    IF c = AppChain
                    THEN AppChainFreed + (IF chain[0] = "app" THEN 1 ELSE 0)
                    ELSE IF chain[c] = "own" THEN 1 ELSE 0]
    /\ pc' = "destroyed"
    /\ UNCHANGED <<kindVars, appVars, dirty, chainVars, store, frameVars,
                   historyVars>>

-----------------------------------------------------------------------------
Next ==
    \/ AcquireImage \/ WaitImage \/ ReleaseImage
    \/ StartLayers
    \/ \E s \in Slices, upscaled \in Upscales : ResolveImage(s, upscaled)
    \/ PreprocessImage \/ LayersFail \/ MarkClean \/ Submit
    \/ DestroySwapchain

Spec == Init /\ [][Next]_vars

-----------------------------------------------------------------------------
(* Properties *)

(* What a layer shows: what upscaler() reads, or what LibOVR does. *)
Shown(u) ==
    LET c == ChainOf(u[1])
        i == IF u[2] THEN lastCommitted[u[1]] ELSE committed[c]
    IN  IF i = -1 THEN "old" ELSE store[c][i]

(* The application holds an image once at most.                              *)
NoImageTwice ==
    \A i, j \in 1 .. Len(acquired) : acquired[i] = acquired[j] => i = j

(* Images are waited for and released in the order they were acquired in,    *)
(* one after the other around the ring: the next one to release follows the  *)
(* last one released.                                                        *)
ReleasedInOrder ==
    /\ lastWaited # -1 => acquired # <<>> /\ lastWaited = Head(acquired)
    /\ lastReleased # -1
          => Succ(lastReleased) = IF acquired = <<>> THEN nextIndex
                                                     ELSE Head(acquired)

(* "We assume that our frame timing in xrWaitFrame() guaranteed availability *)
(* of the next image. No wait." (swapchain.cpp:599): an application that     *)
(* releases fewer images than the chain has, less one, between two frames is *)
(* never given the image LibOVR shows.                                       *)
NoTearing ==
    kind = "direct" /\ lastWaited # -1 /\ lastWaited = committed[AppChain]
        => ahead >= Size - 1

(* A layer shows the last image released, whatever was acquired, waited for  *)
(* or released since the last frame, in every kind of swapchain; provided    *)
(* slice 0 was the first slice used, the chain was committed to once, and no *)
(* other layer of the frame upscaled the slice (see LayersShowRelease).      *)
ShownIsLatest ==
    pc = "submit" =>
        \A u \in uses :
            /\ ~NeedCopy(u[1]) => chain[u[1]] = "app"
            /\ u[2] \/ (committed[ChainOf(u[1])] # -1 /\ <<u[1], TRUE>> \notin uses)
            => Shown(u) # "old"

(* The alpha of an image the application draws directly is corrected once,   *)
(* however often it is shown, as long as every frame since its release was   *)
(* submitted and used it in one layer.                                       *)
CorrectedOnce ==
    pc = "submit" /\ uses # {} /\ alpha /\ plain /\ kind = "direct" /\ chain[0] = "app"
        => store[AppChain][lastReleased] = "corrected"

(* If any slice was used, xrDestroySwapchain destroys the application's chain*)
(* and the chains that slices have of their own once each, whatever slices   *)
(* were used and in what order (swapchain.cpp:462). The chains of upscaled   *)
(* copies are not in this module.                                            *)
FreedOnce ==
    pc = "destroyed" /\ slots > 0 =>
        /\ kind = "direct" => freed[AppChain] = 1
        /\ \A s \in Slices : chain[s] = "own" => freed[s] = 1

(* "Mark all swapchain images as clean (aka already pre-processed)."         *)
(* (frame.cpp:490): a clean image needs no correction any more.              *)
CleanIsPreprocessed ==
    pc = "submit" /\ alpha => \A u \in uses : Shown(u) # "raw"

(* "let's commit to the swapchain until the last committed image matches the *)
(* last released image index" (d3d11_native.cpp:545): every layer shows the  *)
(* last image released.                                                      *)
LayersShowRelease ==
    pc = "submit" => \A u \in uses : Shown(u) # "old"
=============================================================================
