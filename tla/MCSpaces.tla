------------------------------ MODULE MCSpaces ------------------------------
(* Small instances of Spaces. *)
EXTENDS Spaces, TLC

CONSTANTS t1, t2, a1, a2

MCThreads == {t1, t2}
MCMakers == {t1}
MCAddresses == {a1, a2}
MCSymmetry == Permutations(MCAddresses)
\* One tracker extension at a time: their registries share only locks.
OneExtension == {{k} : k \in TrackerKinds}
=============================================================================
