--------------------------- MODULE Swapchain_proof ---------------------------
(***************************************************************************)
(* Theorems about Swapchain for rings of any length, any number of slices   *)
(* and of layers, checked by TLAPS.                                         *)
(***************************************************************************)
EXTENDS Swapchain, TLAPS

-----------------------------------------------------------------------------
(* The ring, x images away from image 0, for x no further than one turn. *)
Slot(x) == IF x < 0 THEN x + Size ELSE x

(* The images the application holds are the last ones before nextIndex, and  *)
(* the last one it released is the one before them.                          *)
RingInv ==
    /\ nextIndex < Size /\ Len(acquired) <= Size
    /\ \A j \in 1 .. Len(acquired) :
          acquired[j] = Slot(nextIndex - Len(acquired) + j - 1)
    /\ lastWaited # -1 => acquired # <<>> /\ lastWaited = acquired[1]
    /\ lastReleased # -1
          => /\ lastReleased < Size
             /\ Succ(lastReleased) = Slot(nextIndex - Len(acquired))

(* The image the compositor shows is as many images behind the last one      *)
(* released as were released since it was committed.                         *)
Behind ==
    ahead < Size =>
        lastReleased = IF committed[AppChain] + ahead >= Size
                       THEN committed[AppChain] + ahead - Size
                       ELSE committed[AppChain] + ahead

FollowInv ==
    kind = "direct" /\ committed[AppChain] # -1 =>
        /\ chain[0] = "app"
        /\ lastReleased # -1
        /\ committed[AppChain] < Size
        /\ current[AppChain] = Succ(committed[AppChain])
        /\ Behind

(* Only slice 0 of a direct swapchain is shown from the application's chain. *)
ChainInv ==
    \A s \in Slices : chain[s] = "app" => s = 0 /\ kind = "direct"

(* The image released last is never old, and while a frame is composed the   *)
(* slices it uses hold it.                                                   *)
Committed(s) ==
    \/ committed[ChainOf(s)] = -1
    \/ store[ChainOf(s)][committed[ChainOf(s)]] # "old"

Holds(s) ==
    /\ lastCommitted[s] # -1 /\ chain[s] # "none"
    /\ chain[s] = "app" \/ NeedCopy(s)
          => /\ store[ChainOf(s)][lastCommitted[s]] # "old"
             /\ <<s, TRUE>> \in uses \/ use = <<s, TRUE>> \/ Committed(s)

Composing == pc \in {"layers", "resolved", "submit"}

LatestInv ==
    /\ lastReleased # -1 => store[AppChain][lastReleased] # "old"
    /\ Composing =>
          /\ \A s \in resolved : Holds(s)
          /\ \A u \in uses : u[1] \in resolved
    /\ ~Composing => uses = {}
    /\ pc = "resolved" => use[1] \in resolved
    /\ pc # "resolved" => use = NoUse

(* Since the last release the image is raw until a layer of slice 0 corrects *)
(* it, in the frame that then marks it clean.                                *)
Used0 == \E u \in uses : u[1] = 0
Drawn == store[AppChain][lastReleased]
Tracked == alpha /\ plain /\ kind = "direct" /\ lastReleased # -1

AlphaInv ==
    /\ Tracked /\ dirty /\ ~Used0 => Drawn = "raw"
    /\ Tracked /\ (Used0 \/ ~dirty) /\ chain[0] = "app" => Drawn = "corrected"
    /\ Tracked /\ ~dirty => chain[0] # "none"
    /\ pc = "submit" /\ dirty => uses = {}
    /\ pc = "resolved" \/ uses # {} => lastReleased # -1
    /\ pc \in {"layers", "resolved"} /\ 0 \in resolved /\ kind = "direct"
          => lastCommitted[0] = lastReleased

Inductive ==
    /\ TypeOK /\ RingInv /\ FollowInv /\ ChainInv /\ LatestInv
    /\ AlphaInv /\ FreedOnce

-----------------------------------------------------------------------------
(* The ring of a swapchain has at least one image, and as many for good. *)
LEMMA SizeFacts ==
    ASSUME FlagsOK, DataOK
    PROVE  /\ Size \in 1 .. Length /\ Size \in Nat
           /\ \A i \in Images : Succ(i) \in Images
           /\ \A i \in Images : Succ(i) < Size /\ Succ(i) \in 0 .. Size - 1
           /\ 0 \in Images /\ -1 \notin Images
           /\ AppChain \in Chains /\ Slices \subseteq Chains /\ 0 \in Slices
           /\ AppChain \notin Slices
<1>1. Length \in Nat \ {0} /\ ArraySize \in Nat \ {0} BY LengthAssumption
<1>2. Size \in 1 .. Length
  <2>1. Size = 1 \/ Size = Length BY DEF Size
  <2> QED BY <1>1, <2>1
<1> QED BY <1>1, <1>2 DEF Succ, Images, AppChain, Chains, Slices

LEMMA SizeKept ==
    ASSUME UNCHANGED static
    PROVE  /\ Size' = Size
           /\ \A i : Succ(i)' = Succ(i)
           /\ \A x : Slot(x)' = Slot(x)
BY DEF Size, Succ, Slot

LEMMA RingTypes ==
    ASSUME FlagsOK, DataOK
    PROVE  /\ Size \in Nat \ {0} /\ nextIndex \in Nat
           /\ acquired \in Seq(Images) /\ Len(acquired) \in Nat
           /\ -1 \notin Images /\ \A i \in Images : i \in Nat
<1>1. Length \in Nat \ {0} BY LengthAssumption
<1>2. Size \in Nat \ {0} BY <1>1, SizeFacts
<1>3. \A i \in Images : i \in Nat BY <1>1 DEF Images
<1>4. nextIndex \in Images /\ acquired \in Seq(Images) BY DEF DataOK
<1>5. Len(acquired) \in Nat BY <1>4
<1> QED BY <1>2, <1>3, <1>4, <1>5

LEMMA KindKept ==
    ASSUME [Next]_vars
    PROVE  UNCHANGED kindVars
BY DEF Next, vars, kindVars, AcquireImage, WaitImage, ReleaseImage, StartLayers,
   ResolveImage, PreprocessImage, LayersFail, MarkClean, Submit, DestroySwapchain

-----------------------------------------------------------------------------
(* Types are preserved, one action at a time. *)
LEMMA FlagsStep ==
    ASSUME FlagsOK, DataOK, [Next]_vars
    PROVE  FlagsOK'
<1> USE DEF FlagsOK, vars, kindVars, appVars, frameVars, historyVars
<1>0. static \in BOOLEAN BY ModesAssumption
<1>1. CASE AcquireImage BY <1>0, <1>1 DEF AcquireImage
<1>2. CASE WaitImage BY <1>2 DEF WaitImage
<1>3. CASE ReleaseImage BY <1>3 DEF ReleaseImage
<1>4. CASE StartLayers BY <1>4 DEF StartLayers
<1>5. CASE \E s \in Slices, upscaled \in Upscales : ResolveImage(s, upscaled)
  BY <1>5 DEF ResolveImage
<1>6. CASE PreprocessImage
  <2>1. plain' \in BOOLEAN BY <1>6 DEF PreprocessImage
  <2> QED BY <1>6, <2>1 DEF PreprocessImage
<1>7. CASE LayersFail
  <2>1. plain' \in BOOLEAN BY <1>7 DEF LayersFail
  <2> QED BY <1>7, <2>1 DEF LayersFail
<1>8. CASE MarkClean
  <2>1. plain' \in BOOLEAN BY <1>8 DEF MarkClean
  <2>2. dirty' \in BOOLEAN BY <1>8 DEF MarkClean, DirtyAfter
  <2> QED BY <1>8, <2>1, <2>2 DEF MarkClean
<1>9. CASE Submit BY <1>9 DEF Submit
<1>10. CASE DestroySwapchain BY <1>10 DEF DestroySwapchain
<1>11. CASE UNCHANGED vars BY <1>11
<1> QED BY <1>1, <1>2, <1>3, <1>4, <1>5, <1>6, <1>7, <1>8, <1>9, <1>10, <1>11
      DEF Next

(* What a layer that resolves its image does to LibOVR's chains. *)
LEMMA ResolveTypes ==
    ASSUME FlagsOK, DataOK,
           NEW s \in Slices, NEW upscaled \in BOOLEAN, ResolveImage(s, upscaled)
    PROVE  /\ slots' \in 0 .. ArraySize
           /\ chain' \in [Slices -> {"none", "app", "own"}]
           /\ lastCommitted' \in [Slices -> Images \cup {-1}]
           /\ current' \in [Chains -> Images]
           /\ committed' \in [Chains -> Images \cup {-1}]
           /\ store' \in [Chains -> [Images -> Image]]
           /\ ahead' \in 0 .. Length
<1> USE DEF DataOK
<1>1. s \in Chains /\ AppChain \in Chains /\ lastReleased \in Images
  BY SizeFacts DEF ResolveImage
<1>2. slots' \in 0 .. ArraySize
  BY LengthAssumption DEF ResolveImage, EnsureSlice, Slices
<1>3. chain' \in [Slices -> {"none", "app", "own"}]
  BY DEF ResolveImage, EnsureSlice
<1>4. Length \in Nat /\ ArraySize \in Nat BY LengthAssumption
<1>5. CASE UNCHANGED <<lastCommitted, committed, current, store, ahead>>
  BY <1>2, <1>3, <1>5
<1>6. CASE CopyRelease(s, upscaled) /\ UNCHANGED ahead
  <2>1. current[s] \in Images /\ Succ(current[s]) \in Images
    BY <1>1, SizeFacts
  <2>2. Copied(store[AppChain][CopySource]) \in Image BY DEF Copied, Image
  <2>3. store' \in [Chains -> [Images -> Image]]
    BY <1>1, <1>6, <2>1, <2>2 DEF CopyRelease
  <2>4. lastCommitted' \in [Slices -> Images \cup {-1}]
    BY <1>6, <2>1 DEF CopyRelease
  <2>5. /\ committed' \in [Chains -> Images \cup {-1}]
        /\ current' \in [Chains -> Images]
    BY <1>1, <1>6, <2>1 DEF CopyRelease
  <2> QED BY <1>2, <1>3, <1>6, <2>3, <2>4, <2>5
<1>7. CASE /\ lastCommitted' = [lastCommitted EXCEPT ![s] = lastReleased]
           /\ IF upscaled THEN UNCHANGED <<committed, current, ahead>>
              ELSE /\ FollowRelease(IF chain'[s] = "app" THEN AppChain ELSE s)
                   /\ ahead' = 0
           /\ UNCHANGED store
  <2>1. lastCommitted' \in [Slices -> Images \cup {-1}] BY <1>1, <1>7
  <2>2. Succ(lastReleased) \in Images BY <1>1, SizeFacts
  <2>3. CASE upscaled BY <1>2, <1>3, <1>7, <2>1, <2>3
  <2>4. CASE ~upscaled
    <3>1. PICK c \in Chains : FollowRelease(c) BY <1>1, <1>7, <2>4
    <3>2. current' \in [Chains -> Images]
      BY <2>2, <3>1 DEF FollowRelease, CommitTo
    <3>3. committed' \in [Chains -> Images \cup {-1}]
      BY <1>1, <3>1 DEF FollowRelease, CommitTo
    <3> QED BY <1>2, <1>3, <1>4, <1>7, <2>1, <2>4, <3>2, <3>3
  <2> QED BY <2>3, <2>4
<1> QED BY <1>5, <1>6, <1>7 DEF ResolveImage

LEMMA DataStep ==
    ASSUME FlagsOK, DataOK, [Next]_vars
    PROVE  DataOK'
<1> USE DEF DataOK, vars, kindVars, appVars, chainVars, frameVars, historyVars
<1>0. /\ Length \in Nat /\ ArraySize \in Nat /\ MaxLayers \in Nat
      /\ Upscales \subseteq BOOLEAN /\ NoUse \in Slices \X BOOLEAN
  <2>1. 0 \in Slices BY SizeFacts
  <2>2. Length \in Nat /\ ArraySize \in Nat /\ MaxLayers \in Nat
    BY LengthAssumption, BoundsAssumption
  <2>3. Upscales \subseteq BOOLEAN BY ModesAssumption
  <2> QED BY <2>1, <2>2, <2>3 DEF NoUse
<1>1. CASE AcquireImage
  <2>1. nextIndex' \in Images /\ acquired' \in Seq(Images)
    BY <1>1, SizeFacts DEF AcquireImage
  <2> QED BY <1>1, <2>1 DEF AcquireImage
<1>2. CASE WaitImage BY <1>2 DEF WaitImage, Oldest
<1>3. CASE ReleaseImage
  <2>1. acquired' \in Seq(Images) BY <1>3 DEF ReleaseImage
  <2>2. lastReleased' \in Images \cup {-1} BY <1>3 DEF ReleaseImage
  <2>3. store' \in [Chains -> [Images -> Image]]
    BY <1>3 DEF ReleaseImage, Image
  <2>4. ahead' \in 0 .. Length BY <1>0, <1>3 DEF ReleaseImage
  <2>5. lastWaited' \in Images \cup {-1} BY <1>3 DEF ReleaseImage
  <2> QED BY <1>3, <2>1, <2>2, <2>3, <2>4, <2>5 DEF ReleaseImage
<1>4. CASE StartLayers BY <1>4 DEF StartLayers
<1>5. ASSUME NEW s \in Slices, NEW upscaled \in Upscales,
             ResolveImage(s, upscaled)
      PROVE  DataOK'
  <2>1. upscaled \in BOOLEAN BY <1>0
  <2>2. /\ kind' = kind /\ pc' = "resolved" /\ layers' \in 0 .. MaxLayers
        /\ resolved' = resolved \cup {s} /\ use' = <<s, upscaled>>
        /\ UNCHANGED <<appVars, uses, freed>>
    BY <1>0, <1>5 DEF ResolveImage
  <2>3. use' \in Slices \X BOOLEAN /\ resolved' \in SUBSET Slices
    BY <2>1, <2>2
  <2> HIDE DEF DataOK
  <2>4. /\ slots' \in 0 .. ArraySize
        /\ chain' \in [Slices -> {"none", "app", "own"}]
        /\ lastCommitted' \in [Slices -> Images \cup {-1}]
        /\ current' \in [Chains -> Images]
        /\ committed' \in [Chains -> Images \cup {-1}]
        /\ store' \in [Chains -> [Images -> Image]]
        /\ ahead' \in 0 .. Length
    BY <1>5, <2>1, ResolveTypes
  <2> QED BY <2>2, <2>3, <2>4 DEF DataOK
<1>6. CASE PreprocessImage
  <2>1. store' \in [Chains -> [Images -> Image]]
    <3>1. \A i \in Image : Correct(i) \in Image BY DEF Correct, Image
    <3>2. CASE store' = store BY <3>2
    <3>3. ASSUME NEW c \in Chains, NEW i,
                 store' = [store EXCEPT ![c][i] = Correct(@)]
          PROVE  store' \in [Chains -> [Images -> Image]]
      <4>1. store[c] \in [Images -> Image] OBVIOUS
      <4>2. [store[c] EXCEPT ![i] = Correct(@)] \in [Images -> Image]
        BY <3>1, <4>1
      <4> QED BY <3>3, <4>2
    <3>4. ChainOf(use[1]) \in Chains BY SizeFacts DEF ChainOf
    <3> QED BY <1>6, <3>2, <3>3, <3>4 DEF PreprocessImage
  <2>2. uses' \in SUBSET (Slices \X BOOLEAN) BY <1>6 DEF PreprocessImage
  <2> QED BY <1>0, <1>6, <2>1, <2>2 DEF PreprocessImage
<1>7. CASE LayersFail BY <1>0, <1>7 DEF LayersFail
<1>8. CASE MarkClean BY <1>8 DEF MarkClean
<1>9. CASE Submit BY <1>0, <1>9 DEF Submit
<1>10. CASE DestroySwapchain
  <2>1. freed' \in [Chains -> 0 .. 2]
    BY <1>10 DEF DestroySwapchain, AppChainFreed
  <2> QED BY <1>10, <2>1 DEF DestroySwapchain
<1>11. CASE UNCHANGED vars BY <1>11
<1> QED BY <1>1, <1>2, <1>3, <1>4, <1>5, <1>6, <1>7, <1>8, <1>9, <1>10, <1>11
      DEF Next

LEMMA TypeStep ==
    ASSUME TypeOK, [Next]_vars
    PROVE  TypeOK'
BY FlagsStep, DataStep DEF TypeOK

-----------------------------------------------------------------------------
(* The ring: acquiring, waiting for and releasing an image keep its order;   *)
(* nothing else touches it.                                                  *)
LEMMA RingStep ==
    ASSUME FlagsOK, DataOK, RingInv, [Next]_vars
    PROVE  RingInv'
<1>1. Size' = Size /\ (\A i : Succ(i)' = Succ(i)) /\ \A x : Slot(x)' = Slot(x)
  BY KindKept, SizeKept DEF kindVars
<1>2. /\ Size \in Nat \ {0} /\ nextIndex \in Nat /\ acquired \in Seq(Images)
      /\ Len(acquired) \in Nat /\ -1 \notin Images
  BY RingTypes
<1>3. CASE AcquireImage
  <2>1. /\ acquired' = Append(acquired, nextIndex) /\ nextIndex' = Succ(nextIndex)
        /\ UNCHANGED <<lastWaited, lastReleased>> /\ Len(acquired) # Size
    BY <1>3 DEF AcquireImage, Full
  <2>2. Len(acquired') = Len(acquired) + 1 /\ Len(acquired) < Size
    BY <1>2, <2>1 DEF RingInv
  <2>3. nextIndex' < Size /\ nextIndex' \in Nat
    BY <1>2, <2>1 DEF RingInv, Succ
  <2>4. nextIndex < Size BY DEF RingInv
  <2>5. \A x \in 1 - Size .. 0 : Slot(nextIndex + x) = Slot(nextIndex' + x - 1)
    BY <1>2, <2>1, <2>4 DEF Slot, Succ
  <2>6. \A j \in 1 .. Len(acquired') :
           acquired'[j] = Slot(nextIndex' - Len(acquired') + j - 1)
    <3> SUFFICES ASSUME NEW j \in 1 .. Len(acquired')
                 PROVE  acquired'[j] = Slot(nextIndex' - Len(acquired') + j - 1)
      OBVIOUS
    <3>1. j - Len(acquired) - 1 \in 1 - Size .. 0 BY <1>2, <2>2
    <3>2. Slot(nextIndex + (j - Len(acquired) - 1))
          = Slot(nextIndex' + (j - Len(acquired) - 1) - 1)
      BY <2>5, <3>1
    <3>3. nextIndex' + (j - Len(acquired) - 1) - 1
          = nextIndex' - Len(acquired') + j - 1
      BY <1>2, <2>2, <2>3
    <3>4. nextIndex + (j - Len(acquired) - 1) = nextIndex - Len(acquired) + j - 1
      BY <1>2
    <3>5. CASE j = Len(acquired) + 1
      <4>1. acquired'[j] = nextIndex BY <1>2, <2>1, <3>5
      <4>2. Slot(nextIndex - Len(acquired) + j - 1) = nextIndex
        BY <1>2, <3>5 DEF Slot
      <4> QED BY <3>2, <3>3, <3>4, <4>1, <4>2
    <3>6. CASE j \in 1 .. Len(acquired)
      <4>1. acquired'[j] = acquired[j] BY <1>2, <2>1, <3>6
      <4> QED BY <3>2, <3>3, <3>4, <3>6, <4>1 DEF RingInv
    <3> QED BY <1>2, <2>2, <3>5, <3>6
  <2>7. lastWaited' # -1 => acquired' # <<>> /\ lastWaited' = acquired'[1]
    BY <1>2, <2>1 DEF RingInv
  <2>8. Slot(nextIndex - Len(acquired)) = Slot(nextIndex' - Len(acquired'))
    <3>1. - Len(acquired) \in 1 - Size .. 0 BY <1>2, <2>2
    <3>2. Slot(nextIndex + (- Len(acquired))) = Slot(nextIndex' + (- Len(acquired)) - 1)
      BY <2>5, <3>1
    <3> QED BY <1>2, <2>2, <2>3, <3>2
  <2>9. lastReleased' # -1 => /\ lastReleased' < Size
                              /\ Succ(lastReleased') = Slot(nextIndex' - Len(acquired'))
    BY <2>1, <2>8 DEF RingInv
  <2> QED BY <1>1, <1>2, <2>2, <2>3, <2>6, <2>7, <2>9 DEF RingInv
<1>4. CASE WaitImage
  <2>1. /\ acquired # <<>> /\ lastWaited' = Head(acquired)
        /\ UNCHANGED <<acquired, nextIndex, lastReleased>>
    BY <1>4 DEF WaitImage, Oldest
  <2>2. lastWaited' = acquired[1] BY <1>2, <2>1
  <2> QED BY <1>1, <2>1, <2>2 DEF RingInv
<1>5. CASE ReleaseImage
  <2>1. /\ acquired # <<>> /\ acquired' = Tail(acquired)
        /\ lastReleased' = Head(acquired) /\ lastWaited' = -1
        /\ nextIndex' = nextIndex
    BY <1>5 DEF ReleaseImage, Oldest
  <2>2. /\ Len(acquired') = Len(acquired) - 1 /\ Len(acquired) \geq 1
        /\ Len(acquired) <= Size /\ nextIndex < Size
        /\ \A j \in 1 .. Len(acquired') : acquired'[j] = acquired[j + 1]
    BY <1>2, <2>1 DEF RingInv
  <2>3. \A j \in 1 .. Len(acquired') :
           acquired'[j] = Slot(nextIndex' - Len(acquired') + j - 1)
    <3> SUFFICES ASSUME NEW j \in 1 .. Len(acquired')
                 PROVE  acquired'[j] = Slot(nextIndex' - Len(acquired') + j - 1)
      OBVIOUS
    <3>1. j + 1 \in 1 .. Len(acquired) BY <1>2, <2>2
    <3>2. acquired[j + 1] = Slot(nextIndex - Len(acquired) + (j + 1) - 1)
      BY <3>1 DEF RingInv
    <3>3. nextIndex - Len(acquired) + (j + 1) - 1
          = nextIndex' - Len(acquired') + j - 1
      BY <1>2, <2>1, <2>2
    <3> QED BY <2>2, <3>2, <3>3
  <2>4. lastReleased' = Slot(nextIndex - Len(acquired))
    <3>1. acquired[1] = Slot(nextIndex - Len(acquired) + 1 - 1)
      BY <1>2, <2>2 DEF RingInv
    <3>2. nextIndex - Len(acquired) + 1 - 1 = nextIndex - Len(acquired) BY <1>2
    <3>3. Head(acquired) = acquired[1] BY <1>2, <2>1
    <3> QED BY <2>1, <3>1, <3>2, <3>3
  <2>5. /\ lastReleased' < Size
        /\ Succ(lastReleased') = Slot(nextIndex' - Len(acquired'))
    BY <1>2, <2>1, <2>2, <2>4 DEF Slot, Succ
  <2> QED BY <1>1, <1>2, <2>1, <2>2, <2>3, <2>5 DEF RingInv
<1>6. CASE UNCHANGED appVars BY <1>1, <1>6 DEF RingInv, appVars
<1> QED BY <1>3, <1>4, <1>5, <1>6 DEF Next, vars, StartLayers, ResolveImage,
      PreprocessImage, LayersFail, MarkClean, Submit, DestroySwapchain

(* What the ring's order means to the application. *)
LEMMA RingImplies ==
    ASSUME FlagsOK, DataOK, RingInv
    PROVE  NoImageTwice /\ ReleasedInOrder
<1>1. /\ Size \in Nat \ {0} /\ nextIndex \in Nat /\ acquired \in Seq(Images)
      /\ Len(acquired) \in Nat /\ nextIndex < Size /\ Len(acquired) <= Size
  BY RingTypes DEF RingInv
<1>2. NoImageTwice
  <2> SUFFICES ASSUME NEW i \in 1 .. Len(acquired), NEW j \in 1 .. Len(acquired),
                      acquired[i] = acquired[j]
               PROVE  i = j
    BY DEF NoImageTwice
  <2>1. Slot(nextIndex - Len(acquired) + i - 1)
        = Slot(nextIndex - Len(acquired) + j - 1)
    BY DEF RingInv
  <2> QED BY <1>1, <2>1 DEF Slot
<1>3. acquired # <<>> => Head(acquired) = Slot(nextIndex - Len(acquired))
  <2> SUFFICES ASSUME acquired # <<>>
               PROVE  Head(acquired) = Slot(nextIndex - Len(acquired))
    OBVIOUS
  <2>1. 1 \in 1 .. Len(acquired) /\ Head(acquired) = acquired[1] BY <1>1
  <2>2. acquired[1] = Slot(nextIndex - Len(acquired) + 1 - 1)
    BY <2>1 DEF RingInv
  <2>3. nextIndex - Len(acquired) + 1 - 1 = nextIndex - Len(acquired) BY <1>1
  <2> QED BY <2>1, <2>2, <2>3
<1>4. acquired = <<>> => Slot(nextIndex - Len(acquired)) = nextIndex
  BY <1>1 DEF Slot
<1>5. acquired # <<>> => Head(acquired) = acquired[1] BY <1>1
<1>6. ReleasedInOrder BY <1>3, <1>4, <1>5 DEF ReleasedInOrder, RingInv
<1> QED BY <1>2, <1>6

-----------------------------------------------------------------------------
(* A slice keeps the chain it was given, and is given one when it is used. *)
LEMMA EnsureFacts ==
    ASSUME DataOK, ChainInv, NEW s \in Slices, EnsureSlice(s), UNCHANGED kind
    PROVE  /\ \A t \in Slices : t # s \/ chain[t] # "none" => chain'[t] = chain[t]
           /\ chain'[s] # "none"
           /\ NeedCopy(s) => chain'[s] # "app"
           /\ ChainInv'
<1>1. chain \in [Slices -> {"none", "app", "own"}] BY DEF DataOK
<1>2. CASE chain[s] # "none"
  BY <1>1, <1>2 DEF EnsureSlice, ChainInv, NeedCopy, Slices
<1>3. CASE chain[s] = "none"
  <2>1. PICK a \in {"app", "own"} :
           /\ chain' = [chain EXCEPT ![s] = a]
           /\ a = "app" => s = 0 /\ kind = "direct"
    BY <1>3 DEF EnsureSlice
  <2> QED BY <1>1, <1>3, <2>1 DEF ChainInv, NeedCopy, Slices
<1> QED BY <1>2, <1>3

LEMMA ChainStep ==
    ASSUME FlagsOK, DataOK, ChainInv, [Next]_vars
    PROVE  ChainInv'
<1>1. UNCHANGED kind BY KindKept DEF kindVars
<1>2. ASSUME NEW s \in Slices, NEW upscaled \in Upscales,
             ResolveImage(s, upscaled)
      PROVE  ChainInv'
  BY <1>1, <1>2, EnsureFacts DEF ResolveImage
<1>3. CASE UNCHANGED chainVars BY <1>1, <1>3 DEF ChainInv, chainVars
<1> QED BY <1>2, <1>3 DEF Next, vars, AcquireImage, WaitImage, ReleaseImage,
      StartLayers, PreprocessImage, LayersFail, MarkClean, Submit,
      DestroySwapchain

(* The three things a layer may do to LibOVR's chains. *)
LEMMA ResolveCases ==
    ASSUME FlagsOK, NEW s \in Slices, NEW upscaled \in BOOLEAN,
           ResolveImage(s, upscaled)
    PROVE  \/ /\ s \in resolved
              /\ UNCHANGED <<lastCommitted, committed, current, store, ahead>>
           \/ /\ NeedCopy(s) /\ CopyRelease(s, upscaled) /\ ahead' = ahead
           \/ /\ ~NeedCopy(s) /\ store' = store
              /\ lastCommitted' = [lastCommitted EXCEPT ![s] = lastReleased]
              /\ \/ /\ upscaled = TRUE
                    /\ UNCHANGED <<committed, current, ahead>>
                 \/ /\ upscaled = FALSE /\ ahead' = 0
                    /\ FollowRelease(IF chain'[s] = "app" THEN AppChain ELSE s)
BY DEF ResolveImage

(* LibOVR's ring follows the application's. *)
LEMMA FollowStep ==
    ASSUME FlagsOK, DataOK, RingInv, ChainInv, FollowInv, [Next]_vars
    PROVE  FollowInv'
<1>1. /\ Size' = Size /\ (\A i : Succ(i)' = Succ(i)) /\ kind' = kind
      /\ UNCHANGED kindVars
  BY KindKept, SizeKept DEF kindVars
<1>2. /\ Size \in Nat \ {0} /\ ahead \in Nat /\ Length \in Nat /\ Size <= Length
      /\ -1 \notin Images /\ \A i \in Images : i \in Nat
  <2>1. Length \in Nat BY LengthAssumption
  <2>2. Size <= Length BY <2>1, SizeFacts
  <2>3. ahead \in Nat BY <2>1 DEF DataOK
  <2> QED BY <2>1, <2>2, <2>3, RingTypes
<1>3. /\ AppChain \in Chains /\ 0 \in Slices /\ 0 \in Chains
      /\ AppChain \notin Slices /\ Slices \subseteq Chains
  BY SizeFacts
<1>4. /\ committed \in [Chains -> Images \cup {-1}]
      /\ current \in [Chains -> Images] /\ lastReleased \in Images \cup {-1}
  BY DEF DataOK
<1>5. CASE ReleaseImage
  <2>1. /\ acquired # <<>> /\ lastReleased' = Head(acquired)
        /\ ahead' = IF ahead = Length THEN Length ELSE ahead + 1
        /\ UNCHANGED chainVars
    BY <1>5 DEF ReleaseImage, Oldest
  <2>2. Head(acquired) # -1
    <3>1. Head(acquired) \in Images BY <2>1 DEF DataOK
    <3> QED BY <1>2, <3>1
  <2> SUFFICES ASSUME kind = "direct", committed[AppChain] # -1
               PROVE  /\ lastReleased' # -1 /\ Behind'
    BY <1>1, <2>1 DEF FollowInv, chainVars
  <2>3. committed[AppChain] \in Nat /\ committed[AppChain] < Size
    BY <1>2, <1>3, <1>4 DEF FollowInv
  <2>4. lastReleased' = Succ(lastReleased) /\ lastReleased \in Nat
    <3>1. lastReleased # -1 BY DEF FollowInv
    <3> QED BY <1>2, <1>4, <2>1, <3>1, RingImplies DEF ReleasedInOrder
  <2>5. Behind'
    <3> SUFFICES ASSUME ahead' < Size
                 PROVE  Succ(lastReleased) =
                           IF committed[AppChain] + ahead' >= Size
                           THEN committed[AppChain] + ahead' - Size
                           ELSE committed[AppChain] + ahead'
      BY <1>1, <2>1, <2>4 DEF Behind, chainVars
    <3>1. ahead' = ahead + 1 /\ ahead < Size BY <1>2, <2>1
    <3>2. lastReleased = IF committed[AppChain] + ahead >= Size
                         THEN committed[AppChain] + ahead - Size
                         ELSE committed[AppChain] + ahead
      BY <3>1 DEF FollowInv, Behind
    <3> QED BY <1>2, <2>3, <3>1, <3>2 DEF Succ
  <2> QED BY <2>1, <2>2, <2>5
<1>6. ASSUME NEW s \in Slices, NEW upscaled \in BOOLEAN,
             ResolveImage(s, upscaled)
      PROVE  FollowInv'
  <2>1. /\ EnsureSlice(s) /\ lastReleased' = lastReleased /\ lastReleased # -1
    BY <1>6 DEF ResolveImage, appVars
  <2>2. chain[0] = "app" => chain'[0] = "app"
    BY <1>1, <1>3, <2>1, EnsureFacts
  <2>3. s \in Chains /\ s # AppChain BY <1>3
  <2>4. CASE committed'[AppChain] = committed[AppChain]
             /\ current'[AppChain] = current[AppChain] /\ ahead' = ahead
    BY <1>1, <2>1, <2>2, <2>4 DEF FollowInv, Behind
  <2>5. CASE NeedCopy(s) /\ CopyRelease(s, upscaled) /\ ahead' = ahead
    <3>1. committed'[AppChain] = committed[AppChain]
          /\ current'[AppChain] = current[AppChain]
      BY <1>3, <1>4, <2>3, <2>5 DEF CopyRelease
    <3> QED BY <2>4, <2>5, <3>1
  <2>6. CASE /\ ~NeedCopy(s) /\ ahead' = 0
             /\ FollowRelease(IF chain'[s] = "app" THEN AppChain ELSE s)
    <3>1. s = 0 BY <2>6, LengthAssumption DEF NeedCopy, Slices
    <3>2. CASE chain'[0] = "app"
      <4>1. FollowRelease(AppChain) BY <2>6, <3>1, <3>2
      <4>2. current'[AppChain] = Succ(lastReleased)
        BY <1>3, <1>4, <4>1 DEF FollowRelease, CommitTo
      <4>3. lastReleased \in Nat /\ lastReleased < Size
        BY <1>2, <1>4, <2>1 DEF RingInv
      <4>4. CASE committed'[AppChain] = lastReleased
        <5>1. Behind' BY <1>1, <1>2, <2>1, <2>6, <4>3, <4>4 DEF Behind
        <5> QED BY <1>1, <2>1, <3>2, <4>2, <4>3, <4>4, <5>1 DEF FollowInv
      <4>5. CASE /\ Succ(lastReleased) = current[AppChain]
                 /\ committed'[AppChain] = committed[AppChain]
        <5> SUFFICES ASSUME kind = "direct", committed[AppChain] # -1
                     PROVE  committed'[AppChain] = lastReleased
          BY <1>1, <4>4, <4>5 DEF FollowInv
        <5>1. /\ committed[AppChain] \in Nat /\ committed[AppChain] < Size
              /\ current[AppChain] = Succ(committed[AppChain])
          BY <1>2, <1>3, <1>4 DEF FollowInv
        <5> QED BY <1>2, <4>3, <4>5, <5>1 DEF Succ
      <4> QED BY <1>3, <1>4, <4>1, <4>4, <4>5 DEF FollowRelease, CommitTo
    <3>3. CASE chain'[0] # "app"
      <4>1. FollowRelease(s) BY <2>6, <3>1, <3>3
      <4>2. committed'[AppChain] = committed[AppChain]
        BY <1>3, <1>4, <2>3, <4>1 DEF FollowRelease
      <4> QED BY <1>1, <2>2, <3>3, <4>2 DEF FollowInv
    <3> QED BY <3>2, <3>3
  <2> QED BY <1>6, <2>4, <2>5, <2>6, ResolveCases
<1>7. CASE UNCHANGED <<chainVars, ahead, lastReleased>>
  BY <1>1, <1>7 DEF FollowInv, Behind, chainVars
<1>8. Upscales \subseteq BOOLEAN BY ModesAssumption
<1> QED BY <1>5, <1>6, <1>7, <1>8 DEF Next, vars, appVars, historyVars,
      AcquireImage, WaitImage, StartLayers, PreprocessImage, LayersFail,
      MarkClean, Submit, DestroySwapchain

(* So an image the compositor shows is handed out only after a full turn. *)
LEMMA FollowImplies ==
    ASSUME FlagsOK, DataOK, RingInv, FollowInv
    PROVE  NoTearing
<1>1. /\ Size \in Nat \ {0} /\ ahead \in Nat
      /\ -1 \notin Images /\ \A i \in Images : i \in Nat
  <2>1. Length \in Nat BY LengthAssumption
  <2> QED BY <2>1, RingTypes DEF DataOK
<1> SUFFICES ASSUME kind = "direct", lastWaited # -1,
                    lastWaited = committed[AppChain], ahead < Size - 1
             PROVE  FALSE
  BY <1>1 DEF NoTearing
<1>2. lastReleased # -1 /\ Behind BY DEF FollowInv
<1>3. committed[AppChain] \in Nat /\ committed[AppChain] < Size
  <2>1. committed[AppChain] \in Images \cup {-1} BY SizeFacts DEF DataOK
  <2> QED BY <1>1, <2>1 DEF FollowInv
<1>4. lastWaited = Succ(lastReleased)
  BY <1>2, RingImplies DEF ReleasedInOrder
<1>5. lastReleased = IF committed[AppChain] + ahead >= Size
                     THEN committed[AppChain] + ahead - Size
                     ELSE committed[AppChain] + ahead
  BY <1>1, <1>2 DEF Behind
<1> QED BY <1>1, <1>3, <1>4, <1>5 DEF Succ

-----------------------------------------------------------------------------
(* A slice that is used holds the image released last... *)
LEMMA UsedSliceHolds ==
    ASSUME FlagsOK, DataOK, DataOK', RingInv, ChainInv, FollowInv', LatestInv,
           NEW s \in Slices, NEW upscaled \in BOOLEAN,
           ResolveImage(s, upscaled), UNCHANGED kindVars
    PROVE  Holds(s)'
<1>1. /\ s \in Chains /\ s # AppChain /\ AppChain \in Chains
  BY SizeFacts
<1>2. /\ EnsureSlice(s) /\ lastReleased # -1 /\ lastReleased' = lastReleased
      /\ use' = <<s, upscaled>> /\ uses' = uses /\ pc = "layers"
  BY DEF ResolveImage, appVars
<1>3. /\ chain'[s] # "none" /\ ChainInv'
      /\ (chain[s] # "none" => chain'[s] = chain[s])
      /\ (NeedCopy(s) => chain'[s] # "app") /\ NeedCopy(s)' = NeedCopy(s)
  BY <1>2, EnsureFacts DEF kindVars, NeedCopy
<1>4. /\ committed \in [Chains -> Images \cup {-1}]
      /\ current \in [Chains -> Images] /\ lastReleased \in Images
      /\ store \in [Chains -> [Images -> Image]]
      /\ lastCommitted \in [Slices -> Images \cup {-1}]
  BY <1>2 DEF DataOK
<1>5. store[AppChain][lastReleased] # "old" /\ use = NoUse
  BY <1>2 DEF LatestInv
<1>6. -1 \notin Images BY SizeFacts
<1>7. CASE /\ s \in resolved
           /\ UNCHANGED <<lastCommitted, committed, current, store, ahead>>
  <2>1. Holds(s) BY <1>2, <1>7 DEF LatestInv, Composing
  <2>2. use # <<s, TRUE>> BY <1>5 DEF NoUse
  <2>3. chain'[s] = chain[s] BY <1>3, <2>1 DEF Holds
  <2>4. ChainOf(s)' = ChainOf(s) BY <2>3 DEF ChainOf
  <2> QED BY <1>2, <1>3, <1>7, <2>1, <2>2, <2>3, <2>4 DEF Holds, Committed
<1>8. CASE NeedCopy(s) /\ CopyRelease(s, upscaled)
  <2>1. ChainOf(s)' = s BY <1>3, <1>8 DEF ChainOf
  <2>2. /\ lastCommitted'[s] = current[s] /\ current[s] \in Images
        /\ store'[s][current[s]] = "raw"
    BY <1>1, <1>4, <1>5, <1>8 DEF CopyRelease, CopySource, Copied
  <2>3. CASE upscaled = TRUE
    BY <1>2, <1>3, <1>6, <2>1, <2>2, <2>3 DEF Holds
  <2>4. CASE upscaled = FALSE
    <3>1. committed'[s] = current[s] BY <1>1, <1>4, <1>8, <2>4 DEF CopyRelease
    <3>2. Committed(s)' BY <2>1, <2>2, <3>1 DEF Committed
    <3> QED BY <1>3, <1>6, <2>1, <2>2, <3>2 DEF Holds
  <2> QED BY <2>3, <2>4
<1>9. CASE /\ ~NeedCopy(s) /\ store' = store
           /\ lastCommitted' = [lastCommitted EXCEPT ![s] = lastReleased]
           /\ \/ upscaled = TRUE
              \/ ahead' = 0
  <2>1. lastCommitted'[s] = lastReleased /\ lastReleased # -1
    BY <1>2, <1>4, <1>9
  <2>2. CASE chain'[s] # "app" BY <1>3, <1>9, <2>1, <2>2 DEF Holds
  <2>3. CASE chain'[s] = "app"
    <3>1. ChainOf(s)' = AppChain /\ s = 0 /\ kind' = "direct"
      BY <1>3, <2>3 DEF ChainOf, ChainInv, AppChain
    <3>2. store'[AppChain][lastReleased] # "old" BY <1>5, <1>9
    <3>3. CASE upscaled = TRUE
      BY <1>2, <1>3, <2>1, <3>1, <3>2, <3>3 DEF Holds
    <3>4. CASE ahead' = 0
      <4>1. CASE committed'[AppChain] = -1
        BY <1>3, <2>1, <3>1, <3>2, <4>1 DEF Holds, Committed
      <4>2. CASE committed'[AppChain] # -1
        <5>1. Size' \in Nat \ {0}
          BY RingTypes, SizeKept DEF kindVars
        <5>2. /\ committed'[AppChain] \in Nat /\ committed'[AppChain] < Size'
              /\ Behind'
          <6>1. committed'[AppChain] \in Images \cup {-1} BY <1>1 DEF DataOK
          <6> QED BY <3>1, <4>2, <6>1, RingTypes DEF FollowInv, AppChain
        <5>3. committed'[AppChain] = lastReleased
          BY <1>2, <3>4, <5>1, <5>2 DEF Behind, AppChain
        <5> QED BY <1>3, <2>1, <3>1, <3>2, <5>3 DEF Holds, Committed
      <4> QED BY <4>1, <4>2
    <3> QED BY <1>9, <3>3, <3>4
  <2> QED BY <2>2, <2>3
<1> QED BY <1>7, <1>8, <1>9, ResolveCases

(* ... and the slices used before it keep theirs. *)
LEMMA OtherSlicesHold ==
    ASSUME FlagsOK, DataOK, ChainInv, LatestInv,
           NEW s \in Slices, NEW upscaled \in BOOLEAN,
           ResolveImage(s, upscaled), UNCHANGED kindVars,
           NEW t \in resolved, t # s
    PROVE  Holds(t)'
<1>1. /\ s \in Chains /\ t \in Slices /\ t \in Chains /\ AppChain \in Chains
      /\ s # AppChain /\ t # AppChain
  BY SizeFacts DEF DataOK
<1>2. /\ EnsureSlice(s) /\ lastReleased # -1
      /\ use' = <<s, upscaled>> /\ uses' = uses /\ pc = "layers"
  BY DEF ResolveImage
<1>3. chain'[t] = chain[t] /\ NeedCopy(t)' = NeedCopy(t)
  BY <1>1, <1>2, EnsureFacts DEF kindVars, NeedCopy
<1>4. ChainOf(t)' = ChainOf(t) /\ ChainOf(t) \in Chains /\ ChainOf(t) # s
  BY <1>1, <1>3 DEF ChainOf, AppChain
<1>5. /\ committed \in [Chains -> Images \cup {-1}]
      /\ store \in [Chains -> [Images -> Image]]
      /\ lastCommitted \in [Slices -> Images \cup {-1}]
  BY DEF DataOK
<1>6. Holds(t) /\ use # <<t, TRUE>>
  <2>1. Holds(t) BY <1>2 DEF LatestInv, Composing
  <2>2. use = NoUse BY <1>2 DEF LatestInv
  <2> QED BY <2>1, <2>2 DEF NoUse
<1>7. lastCommitted'[t] = lastCommitted[t]
  BY <1>1, <1>5, ResolveCases DEF CopyRelease
<1>8. store'[ChainOf(t)] = store[ChainOf(t)]
  BY <1>4, <1>5, ResolveCases DEF CopyRelease
<1>9. committed'[ChainOf(t)] = committed[ChainOf(t)]
  <2>1. CASE UNCHANGED committed BY <2>1
  <2>2. CASE CopyRelease(s, upscaled) BY <1>4, <1>5, <2>2 DEF CopyRelease
  <2>3. CASE /\ ~NeedCopy(s)
             /\ FollowRelease(IF chain'[s] = "app" THEN AppChain ELSE s)
    <3>1. s = 0 /\ chain[t] # "app"
      BY <1>1, <2>3, LengthAssumption DEF NeedCopy, Slices, ChainInv
    <3>2. ChainOf(t) = t BY <3>1 DEF ChainOf
    <3> QED BY <1>1, <1>5, <2>3, <3>2 DEF FollowRelease
  <2> QED BY <2>1, <2>2, <2>3, ResolveCases
<1> QED BY <1>2, <1>3, <1>4, <1>6, <1>7, <1>8, <1>9 DEF Holds, Committed

(* Correcting the alpha of an image makes it neither old nor new. *)
LEMMA PreprocessKeeps ==
    ASSUME DataOK, PreprocessImage
    PROVE  \A c \in Chains, i \in Images :
              store'[c][i] = "old" <=> store[c][i] = "old"
<1>1. store \in [Chains -> [Images -> Image]] BY DEF DataOK
<1>2. \A x : Correct(x) = "old" <=> x = "old" BY DEF Correct
<1>3. ASSUME NEW d, NEW j, store' = [store EXCEPT ![d][j] = Correct(@)]
      PROVE  \A c \in Chains, i \in Images :
                store'[c][i] = "old" <=> store[c][i] = "old"
  <2> SUFFICES ASSUME NEW c \in Chains, NEW i \in Images
               PROVE  store'[c][i] = "old" <=> store[c][i] = "old"
    OBVIOUS
  <2>1. CASE c = d /\ i = j
    <3>1. store'[c][i] = Correct(store[c][i]) BY <1>1, <1>3, <2>1
    <3> QED BY <1>2, <3>1
  <2>2. CASE ~(c = d /\ i = j)
    <3>1. store'[c][i] = store[c][i] BY <1>1, <1>3, <2>2
    <3> QED BY <3>1
  <2> QED BY <2>1, <2>2
<1>4. store' = store \/ store' = [store EXCEPT
                           ![ChainOf(use[1])][lastCommitted[use[1]]] = Correct(@)]
  BY DEF PreprocessImage
<1> QED BY <1>3, <1>4

LEMMA LatestStep ==
    ASSUME TypeOK, TypeOK', RingInv, ChainInv, FollowInv', LatestInv, [Next]_vars
    PROVE  LatestInv'
<1>0. FlagsOK /\ DataOK /\ DataOK' /\ UNCHANGED kindVars
  BY KindKept DEF TypeOK
<1>1. CASE AcquireImage \/ WaitImage
  <2>1. pc = "idle" /\ pc' = "idle" /\ UNCHANGED <<lastReleased, store, frameVars>>
    BY <1>1 DEF AcquireImage, WaitImage
  <2> QED BY <2>1 DEF LatestInv, Composing, frameVars
<1>2. CASE ReleaseImage
  <2>1. pc = "idle" /\ pc' = "idle" /\ UNCHANGED frameVars
    BY <1>2 DEF ReleaseImage
  <2>2. store'[AppChain][lastReleased'] # "old"
    <3>1. lastReleased' = lastWaited /\ lastWaited \in Images
      BY <1>0, <1>2 DEF ReleaseImage, Oldest, DataOK
    <3> QED BY <1>0, <1>2, <3>1, SizeFacts DEF ReleaseImage
  <2> QED BY <2>1, <2>2 DEF LatestInv, Composing, frameVars, AppChain
<1>3. CASE StartLayers
  <2>1. /\ pc = "idle" /\ pc' = "layers" /\ resolved' = {}
        /\ UNCHANGED <<lastReleased, store, use, uses>>
    BY <1>3 DEF StartLayers, appVars
  <2>2. uses = {} /\ use = NoUse BY <2>1 DEF LatestInv, Composing
  <2> QED BY <2>1, <2>2 DEF LatestInv, Composing, AppChain, NoUse
<1>4. ASSUME NEW s \in Slices, NEW upscaled \in BOOLEAN,
             ResolveImage(s, upscaled)
      PROVE  LatestInv'
  <2>1. /\ pc = "layers" /\ pc' = "resolved" /\ resolved' = resolved \cup {s}
        /\ use' = <<s, upscaled>>
        /\ uses' = uses /\ lastReleased' = lastReleased
    BY <1>4 DEF ResolveImage, appVars
  <2>2. \A t \in resolved' : Holds(t)'
    BY <1>0, <1>4, <2>1, UsedSliceHolds, OtherSlicesHold
  <2>3. store'[AppChain] = store[AppChain]
    <3>1. s # AppChain /\ AppChain \in Chains
          /\ store \in [Chains -> [Images -> Image]]
      BY <1>0, SizeFacts DEF DataOK
    <3>2. store' = store \/ CopyRelease(s, upscaled)
      BY <1>0, <1>4, ResolveCases
    <3> QED BY <3>1, <3>2 DEF CopyRelease
  <2>4. /\ lastReleased # -1 => store[AppChain][lastReleased] # "old"
        /\ \A u \in uses : u[1] \in resolved
    BY <2>1 DEF LatestInv, Composing
  <2>5. use'[1] = s BY <2>1
  <2> QED BY <2>1, <2>2, <2>3, <2>4, <2>5 DEF LatestInv, Composing, AppChain
<1>5. CASE PreprocessImage
  <2>1. /\ pc = "resolved" /\ pc' = "layers" /\ use' = NoUse
        /\ uses' = uses \cup {use} /\ resolved' = resolved
        /\ UNCHANGED <<kindVars, lastReleased, chainVars>>
    BY <1>5 DEF PreprocessImage, appVars
  <2>2. \A c \in Chains, i \in Images :
           store'[c][i] = "old" <=> store[c][i] = "old"
    BY <1>0, <1>5, PreprocessKeeps
  <2>3. \A t \in resolved' : Holds(t)'
    <3> SUFFICES ASSUME NEW t \in resolved PROVE Holds(t)' BY <2>1
    <3>1. Holds(t) BY <2>1 DEF LatestInv, Composing
    <3>2. t \in Slices /\ ChainOf(t) \in Chains
      BY <1>0, SizeFacts DEF DataOK, ChainOf
    <3>3. ChainOf(t)' = ChainOf(t) /\ NeedCopy(t)' = NeedCopy(t)
      BY <2>1 DEF ChainOf, NeedCopy, chainVars, kindVars, AppChain
    <3>4. /\ lastCommitted[t] \in Images \cup {-1}
          /\ committed[ChainOf(t)] \in Images \cup {-1}
      BY <1>0, <3>2 DEF DataOK
    <3>5. Committed(t) => Committed(t)'
      BY <2>1, <2>2, <3>2, <3>3, <3>4 DEF Committed, chainVars
    <3>6. <<t, TRUE>> \in uses \/ use = <<t, TRUE>> => <<t, TRUE>> \in uses'
      BY <2>1
    <3> QED BY <2>1, <2>2, <3>1, <3>2, <3>3, <3>4, <3>5, <3>6 DEF Holds, chainVars
  <2>4. lastReleased' # -1 => store'[AppChain][lastReleased'] # "old"
    BY <1>0, <2>1, <2>2, SizeFacts DEF LatestInv, DataOK
  <2>5. \A u \in uses' : u[1] \in resolved'
    BY <2>1 DEF LatestInv, Composing
  <2> QED BY <2>1, <2>3, <2>4, <2>5 DEF LatestInv, Composing, AppChain
<1>6. CASE LayersFail \/ Submit
  <2>1. /\ pc' = "idle" /\ uses' = {} /\ use' = NoUse
        /\ UNCHANGED <<lastReleased, store>>
    BY <1>6 DEF LayersFail, Submit, appVars, LatestInv
  <2> QED BY <2>1 DEF LatestInv, Composing, AppChain, NoUse
<1>7. CASE MarkClean
  <2>1. /\ pc = "layers" /\ pc' = "submit"
        /\ UNCHANGED <<lastReleased, store, frameVars, chainVars, kind>>
    BY <1>0, <1>7 DEF MarkClean, appVars, kindVars
  <2> QED BY <2>1 DEF LatestInv, Composing, frameVars, chainVars, Holds,
        Committed, ChainOf, NeedCopy, AppChain, NoUse
<1>8. CASE DestroySwapchain
  <2>1. /\ pc = "idle" /\ pc' = "destroyed"
        /\ UNCHANGED <<lastReleased, store, frameVars>>
    BY <1>8 DEF DestroySwapchain, appVars
  <2> QED BY <2>1 DEF LatestInv, Composing, frameVars, AppChain, NoUse
<1>9. CASE UNCHANGED vars
  BY <1>9 DEF vars, kindVars, appVars, frameVars, chainVars, LatestInv, Composing,
     Holds, Committed, ChainOf, NeedCopy, AppChain, NoUse
<1>10. Upscales \subseteq BOOLEAN BY ModesAssumption
<1> QED BY <1>1, <1>2, <1>3, <1>4, <1>5, <1>6, <1>7, <1>8, <1>9, <1>10 DEF Next

LEMMA LatestImplies ==
    ASSUME DataOK, LatestInv
    PROVE  ShownIsLatest
<1> SUFFICES ASSUME pc = "submit", NEW u \in uses,
                    ~NeedCopy(u[1]) => chain[u[1]] = "app",
                    \/ u[2]
                    \/ committed[ChainOf(u[1])] # -1 /\ <<u[1], TRUE>> \notin uses
             PROVE  Shown(u) # "old"
  BY DEF ShownIsLatest
<1>1. u[1] \in resolved /\ Holds(u[1]) /\ use = NoUse
  BY DEF LatestInv, Composing
<1>2. /\ lastCommitted[u[1]] # -1
      /\ store[ChainOf(u[1])][lastCommitted[u[1]]] # "old"
  BY <1>1 DEF Holds
<1>3. CASE u[2] BY <1>2, <1>3 DEF Shown
<1>4. CASE ~u[2]
  <2>1. use # <<u[1], TRUE>> BY <1>1 DEF NoUse
  <2>2. Committed(u[1]) /\ committed[ChainOf(u[1])] # -1
    BY <1>1, <1>4, <2>1 DEF Holds
  <2> QED BY <1>4, <2>2 DEF Shown, Committed
<1> QED BY <1>3, <1>4

-----------------------------------------------------------------------------
(* A layer that resolves its image leaves the application's images alone.    *)
LEMMA ResolveKeepsDrawn ==
    ASSUME FlagsOK, DataOK, NEW s \in Slices, NEW upscaled \in BOOLEAN,
           ResolveImage(s, upscaled)
    PROVE  store'[AppChain] = store[AppChain]
<1>1. s # AppChain /\ AppChain \in Chains
      /\ store \in [Chains -> [Images -> Image]]
  BY SizeFacts DEF DataOK
<1>2. store' = store \/ CopyRelease(s, upscaled) BY ResolveCases
<1> QED BY <1>1, <1>2 DEF CopyRelease

(* Correcting the image of one slice leaves the other chains alone.          *)
LEMMA PreprocessTouchesOne ==
    ASSUME DataOK, PreprocessImage
    PROVE  LET s == use[1] IN
           /\ ChainOf(s) # AppChain \/ ~dirty \/ ~alpha
                 => store'[AppChain] = store[AppChain]
           /\ ChainOf(s) = AppChain /\ lastCommitted[s] \in Images /\ dirty /\ alpha
                 => store'[AppChain][lastCommitted[s]]
                    = Correct(store[AppChain][lastCommitted[s]])
<1> DEFINE s == use[1]
           c == ChainOf(s)
           i == lastCommitted[s]
<1>1. store \in [Chains -> [Images -> Image]] BY DEF DataOK
<1>2. AppChain \in Chains BY LengthAssumption DEF AppChain, Chains
<1>3. CASE ~dirty \/ ~alpha
  BY <1>3 DEF PreprocessImage
<1>4. CASE dirty /\ alpha
  <2>1. store' = [store EXCEPT ![c][i] = Correct(@)]
    BY <1>4 DEF PreprocessImage
  <2> HIDE DEF c, i
  <2>2. CASE c # AppChain
    <3>1. store'[AppChain] = store[AppChain] BY <1>1, <1>2, <2>1, <2>2
    <3> QED BY <2>2, <3>1 DEF c
  <2>3. CASE c = AppChain
    <3>1. i \in Images => store'[AppChain][i] = Correct(store[AppChain][i])
      BY <1>1, <1>2, <2>1, <2>3
    <3> QED BY <1>4, <2>3, <3>1 DEF c, i
  <2> QED BY <2>2, <2>3
<1> QED BY <1>3, <1>4

LEMMA AlphaStep ==
    ASSUME TypeOK, ChainInv, LatestInv, AlphaInv, [Next]_vars
    PROVE  AlphaInv'
<1>0. /\ FlagsOK /\ DataOK /\ UNCHANGED kindVars
      /\ plain \in BOOLEAN /\ dirty \in BOOLEAN /\ alpha \in BOOLEAN
  BY KindKept, ModesAssumption DEF TypeOK, FlagsOK
<1>1. CASE AcquireImage \/ WaitImage
  <2>1. pc = "idle" /\ pc' = "idle"
        /\ UNCHANGED <<lastReleased, store, dirty, chain, uses, plain, alpha, kind,
                       resolved, lastCommitted>>
    BY <1>1 DEF AcquireImage, WaitImage, frameVars, chainVars, kindVars, historyVars
  <2> QED BY <2>1 DEF AlphaInv, Tracked, Used0, Drawn, AppChain
<1>2. CASE ReleaseImage
  <2>1. /\ pc = "idle" /\ pc' = "idle" /\ uses' = uses /\ dirty' = TRUE
        /\ lastReleased' = lastWaited /\ lastWaited \in Images
    BY <1>0, <1>2 DEF ReleaseImage, frameVars, Oldest, DataOK
  <2>2. uses = {} BY <2>1 DEF LatestInv, Composing
  <2>3. store'[AppChain][lastReleased'] = "raw"
    BY <1>0, <1>2, <2>1, SizeFacts DEF ReleaseImage
  <2> QED BY <2>1, <2>2, <2>3 DEF AlphaInv, Used0, Drawn, AppChain
<1>3. CASE StartLayers
  <2>1. pc = "idle" /\ pc' = "layers" /\ resolved' = {}
        /\ UNCHANGED <<lastReleased, store, dirty, chain, uses, plain, alpha, kind>>
    BY <1>3 DEF StartLayers, appVars, chainVars, kindVars, historyVars
  <2> QED BY <2>1 DEF AlphaInv, Tracked, Used0, Drawn, AppChain
<1>4. ASSUME NEW s \in Slices, NEW upscaled \in BOOLEAN,
             ResolveImage(s, upscaled)
      PROVE  AlphaInv'
  <2>1. /\ pc = "layers" /\ pc' = "resolved" /\ resolved' = resolved \cup {s}
        /\ lastReleased # -1
        /\ UNCHANGED <<lastReleased, dirty, uses, plain, alpha, kind>>
    BY <1>4 DEF ResolveImage, appVars, kindVars
  <2>2. store'[AppChain] = store[AppChain] BY <1>0, <1>4, ResolveKeepsDrawn
  <2>3. chain[0] # "none" => chain'[0] = chain[0]
    <3>1. EnsureSlice(s) /\ 0 \in Slices
      BY <1>0, <1>4, SizeFacts DEF ResolveImage
    <3> QED BY <1>0, <2>1, <3>1, EnsureFacts
  <2>4. Used0 => chain[0] # "none"
    BY <2>1 DEF Used0, LatestInv, Composing, Holds
  <2>5. 0 \in resolved' /\ kind = "direct" => lastCommitted'[0] = lastReleased
    <3>1. lastCommitted \in [Slices -> Images \cup {-1}] BY <1>0 DEF DataOK
    <3>2. 0 \in Slices BY <1>0, SizeFacts
    <3>3. CASE s # 0
      <4>1. lastCommitted'[0] = lastCommitted[0]
        BY <1>0, <1>4, <3>1, <3>2, <3>3, ResolveCases DEF CopyRelease
      <4> QED BY <2>1, <3>3, <4>1 DEF AlphaInv
    <3>4. CASE s = 0 /\ kind = "direct"
      <4>1. ~NeedCopy(s) BY <3>4 DEF NeedCopy
      <4>2. \/ s \in resolved /\ lastCommitted' = lastCommitted
            \/ lastCommitted' = [lastCommitted EXCEPT ![s] = lastReleased]
        BY <1>0, <1>4, <4>1, ResolveCases
      <4> QED BY <2>1, <3>1, <3>2, <3>4, <4>2 DEF AlphaInv
    <3> QED BY <3>3, <3>4
  <2> QED BY <2>1, <2>2, <2>3, <2>4, <2>5
        DEF AlphaInv, Tracked, Used0, Drawn, AppChain
<1>5. CASE PreprocessImage
  <2> DEFINE s == use[1]
  <2>1. /\ pc = "resolved" /\ pc' = "layers" /\ uses' = uses \cup {use}
        /\ plain' = (plain /\ \A u \in uses : u[1] # s)
        /\ UNCHANGED <<lastReleased, dirty, alpha, kind, chain, resolved,
                       lastCommitted>>
    BY <1>5 DEF PreprocessImage, appVars, kindVars, chainVars
  <2>2. s \in resolved /\ s \in Slices /\ Holds(s) /\ lastCommitted[s] \in Images
    BY <1>0, <2>1 DEF LatestInv, Composing, Holds, DataOK
  <2>3. Used0' <=> Used0 \/ s = 0 BY <2>1 DEF Used0
  <2>4. plain' /\ s = 0 => ~Used0 BY <2>1 DEF Used0
  <2>5. lastReleased # -1 BY <2>1 DEF AlphaInv
  <2>6. CASE s # 0
    <3>1. ChainOf(s) # AppChain
      BY <1>0, <2>2, <2>6, SizeFacts DEF ChainOf, ChainInv
    <3>2. store'[AppChain] = store[AppChain]
      BY <1>0, <1>5, <3>1, PreprocessTouchesOne
    <3> QED BY <2>1, <2>3, <2>5, <2>6, <3>2
          DEF AlphaInv, Tracked, Used0, Drawn, AppChain
  <2>7. CASE s = 0 /\ ~dirty
    <3>1. store'[AppChain] = store[AppChain]
      BY <1>0, <1>5, <2>7, PreprocessTouchesOne
    <3> QED BY <2>1, <2>3, <2>5, <2>7, <3>1
          DEF AlphaInv, Tracked, Used0, Drawn, AppChain
  <2>8. CASE s = 0 /\ dirty
    <3>1. Tracked' /\ chain[0] = "app" => Drawn' = "corrected"
      <4> SUFFICES ASSUME Tracked', chain[0] = "app" PROVE Drawn' = "corrected"
        OBVIOUS
      <4>1. Tracked /\ ~Used0 BY <2>1, <2>4, <2>8 DEF Tracked
      <4>2. Drawn = "raw" /\ lastCommitted[0] = lastReleased
        BY <2>1, <2>2, <2>8, <4>1 DEF AlphaInv, Tracked
      <4>3. ChainOf(s) = AppChain /\ alpha
        BY <2>8, <4>1 DEF ChainOf, Tracked
      <4>4. store'[AppChain][lastCommitted[s]]
            = Correct(store[AppChain][lastCommitted[s]])
        BY <1>0, <1>5, <2>2, <2>8, <4>3, PreprocessTouchesOne
      <4>5. Correct("raw") = "corrected" BY DEF Correct
      <4> QED BY <2>1, <2>8, <4>2, <4>4, <4>5 DEF Drawn, AppChain
    <3> QED BY <2>1, <2>3, <2>5, <2>8, <3>1 DEF AlphaInv, AppChain
  <2> QED BY <2>6, <2>7, <2>8
<1>6. CASE LayersFail
  <2>1. /\ pc' = "idle" /\ uses' = {} /\ plain' = (plain /\ uses = {})
        /\ UNCHANGED <<lastReleased, store, dirty, chain, alpha, kind>>
    BY <1>6 DEF LayersFail, appVars, chainVars, kindVars
  <2> QED BY <2>1 DEF AlphaInv, Tracked, Used0, Drawn, AppChain
<1>7. CASE MarkClean
  <2>1. /\ pc = "layers" /\ pc' = "submit" /\ uses' = uses
        /\ plain' = (plain /\ (resolved = {} \/ \E u \in uses : u[1] = 0))
        /\ dirty' = IF resolved = {} THEN dirty ELSE FALSE
        /\ UNCHANGED <<lastReleased, store, chain, alpha, kind>>
    BY <1>7 DEF MarkClean, DirtyAfter, appVars, chainVars, kindVars, frameVars
  <2>2. /\ \A u \in uses : u[1] \in resolved
        /\ Used0 => chain[0] # "none"
    BY <2>1 DEF LatestInv, Composing, Holds, Used0
  <2>3. resolved = {} => uses = {} BY <2>2
  <2> QED BY <1>0, <2>1, <2>2, <2>3 DEF AlphaInv, Tracked, Used0, Drawn, AppChain
<1>8. CASE Submit
  <2>1. /\ pc = "submit" /\ pc' = "idle" /\ uses' = {}
        /\ UNCHANGED <<lastReleased, store, dirty, chain, alpha, kind, plain>>
    BY <1>8 DEF Submit, appVars, chainVars, kindVars, historyVars
  <2>2. dirty => ~Used0 BY <2>1 DEF AlphaInv, Used0
  <2> QED BY <2>1, <2>2 DEF AlphaInv, Tracked, Used0, Drawn, AppChain
<1>9. CASE DestroySwapchain
  <2>1. pc = "idle" /\ pc' = "destroyed"
        /\ UNCHANGED <<lastReleased, store, dirty, chain, uses, plain, alpha, kind>>
    BY <1>9 DEF DestroySwapchain, appVars, chainVars, kindVars, frameVars, historyVars
  <2> QED BY <2>1 DEF AlphaInv, Tracked, Used0, Drawn, AppChain
<1>10. CASE UNCHANGED vars
  BY <1>10 DEF vars, kindVars, appVars, frameVars, chainVars, historyVars,
     AlphaInv, Tracked, Used0, Drawn, AppChain
<1>11. Upscales \subseteq BOOLEAN BY ModesAssumption
<1> QED BY <1>1, <1>2, <1>3, <1>4, <1>5, <1>6, <1>7, <1>8, <1>9, <1>10, <1>11
      DEF Next

LEMMA AlphaImplies ==
    ASSUME AlphaInv
    PROVE  CorrectedOnce
BY DEF AlphaInv, CorrectedOnce, Tracked, Used0, Drawn

-----------------------------------------------------------------------------
(* Nothing follows xrDestroySwapchain, which counts what it destroys.        *)
LEMMA FreedStep ==
    ASSUME FlagsOK, DataOK, FreedOnce, [Next]_vars
    PROVE  FreedOnce'
<1>1. CASE DestroySwapchain
  <2>1. /\ UNCHANGED <<kind, slots, chain>>
        /\ freed' = [c \in Chains |->
                       IF c = AppChain
                       THEN AppChainFreed + (IF chain[0] = "app" THEN 1 ELSE 0)
                       ELSE IF chain[c] = "own" THEN 1 ELSE 0]
    BY <1>1 DEF DestroySwapchain, kindVars, chainVars
  <2>2. /\ AppChain \in Chains /\ Slices \subseteq Chains
        /\ AppChain \notin Slices
    BY SizeFacts
  <2>3. slots > 0 /\ kind = "direct" => freed'[AppChain] = 1
    BY <2>1, <2>2 DEF AppChainFreed
  <2>4. \A s \in Slices : chain[s] = "own" => freed'[s] = 1
    BY <2>1, <2>2
  <2> QED BY <2>1, <2>3, <2>4 DEF FreedOnce, AppChain
<1>2. CASE UNCHANGED vars
  BY <1>2 DEF vars, kindVars, chainVars, FreedOnce, AppChain
<1> QED BY <1>1, <1>2 DEF Next, FreedOnce, AcquireImage, WaitImage, ReleaseImage,
      StartLayers, ResolveImage, PreprocessImage, LayersFail, MarkClean, Submit

-----------------------------------------------------------------------------
LEMMA InitInductive ==
    ASSUME Init
    PROVE  Inductive
<1> USE DEF Init
<1>1. FlagsOK BY DEF FlagsOK
<1>2. /\ Length \in Nat \ {0} /\ ArraySize \in Nat \ {0} /\ MaxLayers \in Nat
  BY LengthAssumption, BoundsAssumption
<1>3. 0 \in Images /\ 0 \in Slices BY <1>2 DEF Images, Slices
<1>4. DataOK
  <2>1. store \in [Chains -> [Images -> Image]] BY DEF Image
  <2>2. current \in [Chains -> Images] BY <1>3
  <2>3. use \in Slices \X BOOLEAN BY <1>3 DEF NoUse
  <2>4. /\ chain \in [Slices -> {"none", "app", "own"}]
        /\ lastCommitted \in [Slices -> Images \cup {-1}]
        /\ committed \in [Chains -> Images \cup {-1}]
        /\ freed \in [Chains -> 0 .. 2]
    OBVIOUS
  <2>5. slots \in 0 .. ArraySize /\ layers \in 0 .. MaxLayers /\ ahead \in 0 .. Length
    BY <1>2
  <2>6. acquired \in Seq(Images) OBVIOUS
  <2> QED BY <1>3, <2>1, <2>2, <2>3, <2>4, <2>5, <2>6 DEF DataOK
<1>5. RingInv
  <2>1. Size \in Nat \ {0} BY <1>1, <1>4, RingTypes
  <2>2. Len(acquired) = 0 /\ nextIndex = 0 OBVIOUS
  <2> QED BY <2>1, <2>2 DEF RingInv
<1>6. FollowInv
  <2>1. AppChain \in Chains BY <1>2 DEF AppChain, Chains
  <2> QED BY <2>1 DEF FollowInv
<1>7. ChainInv BY DEF ChainInv
<1>8. LatestInv BY DEF LatestInv, Composing
<1>9. AlphaInv /\ FreedOnce BY DEF AlphaInv, Tracked, FreedOnce
<1> QED BY <1>1, <1>4, <1>5, <1>6, <1>7, <1>8, <1>9 DEF Inductive, TypeOK

LEMMA StepInductive ==
    ASSUME Inductive, [Next]_vars
    PROVE  Inductive'
<1>1. FlagsOK /\ DataOK BY DEF Inductive, TypeOK
<1>2. TypeOK' BY TypeStep DEF Inductive
<1>3. RingInv' BY <1>1, RingStep DEF Inductive
<1>4. ChainInv' BY <1>1, ChainStep DEF Inductive
<1>5. FollowInv' BY <1>1, FollowStep DEF Inductive
<1>6. LatestInv' BY <1>2, <1>5, LatestStep DEF Inductive
<1>7. AlphaInv' BY AlphaStep DEF Inductive
<1>8. FreedOnce' BY <1>1, FreedStep DEF Inductive
<1> QED BY <1>2, <1>3, <1>4, <1>5, <1>6, <1>7, <1>8 DEF Inductive

(* The strengthening that every step of the swapchain keeps. *)
THEOREM InductiveHolds == Spec => []Inductive
BY InitInductive, StepInductive, PTL DEF Spec

(* Every variable of the swapchain keeps its type. *)
THEOREM TypeCorrect == Spec => []TypeOK
<1>1. Inductive => TypeOK BY DEF Inductive
<1> QED BY <1>1, InductiveHolds, PTL

(* xrAcquireSwapchainImage never gives an image the application holds. *)
THEOREM ImagesHeldOnce == Spec => []NoImageTwice
<1>1. Inductive => NoImageTwice BY RingImplies DEF Inductive, TypeOK
<1> QED BY <1>1, InductiveHolds, PTL

(* xrWaitSwapchainImage and xrReleaseSwapchainImage keep the ring's order. *)
THEOREM RingKeepsOrder == Spec => []ReleasedInOrder
<1>1. Inductive => ReleasedInOrder BY RingImplies DEF Inductive, TypeOK
<1> QED BY <1>1, InductiveHolds, PTL

(* The image the compositor shows is given to an application to draw only if *)
(* it released all the others since the last frame that used the swapchain.  *)
THEOREM ShownImageIsLeftAlone == Spec => []NoTearing
<1>1. Inductive => NoTearing BY FollowImplies DEF Inductive, TypeOK
<1> QED BY <1>1, InductiveHolds, PTL

(* A layer shows the image released last, under ShownIsLatest's conditions.  *)
THEOREM LayersShowLatest == Spec => []ShownIsLatest
<1>1. Inductive => ShownIsLatest BY LatestImplies DEF Inductive, TypeOK
<1> QED BY <1>1, InductiveHolds, PTL

(* The alpha of an image the application draws directly is corrected once,   *)
(* however often the image is shown (preprocessSwapchainImage() and the      *)
(* "dirty" flag of xrEndFrame), under CorrectedOnce's conditions.            *)
THEOREM AlphaCorrectedOnce == Spec => []CorrectedOnce
<1>1. Inductive => CorrectedOnce BY AlphaImplies DEF Inductive
<1> QED BY <1>1, InductiveHolds, PTL

(* xrDestroySwapchain destroys the chain of the application's images, and    *)
(* those that slices have of their own, exactly once each, in whatever order *)
(* the slices were first used; if none was it destroys nothing, which the    *)
(* theorem leaves out, as it does the chains of upscaled copies.             *)
THEOREM ChainsFreedOnce == Spec => []FreedOnce
<1>1. Inductive => FreedOnce BY DEF Inductive
<1> QED BY <1>1, InductiveHolds, PTL
=============================================================================
