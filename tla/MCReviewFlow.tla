---------------------------- MODULE MCReviewFlow ----------------------------
(* ReviewFlow over small sets; the .cfg files give the constants.            *)
EXTENDS ReviewFlow, TLC

WorkerSymmetry == Permutations(Workers)

=============================================================================
