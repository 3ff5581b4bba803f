--------------------------- MODULE MCSecurityCheck ---------------------------
(* Small instances of SecurityCheck for TLC.                                *)
EXTENDS SecurityCheck, TLC

(* Two deployments, each with one key it issued; all reviews are kept here. *)
CONSTANTS here, there, keyHere, keyThere

MCHome == [r \in RemoteIds |-> here]
MCIssuer == [k \in Keys |-> IF k = keyHere THEN here ELSE there]

MCSymmetry == Permutations(Apps) \cup Permutations(Contents)
                 \cup Permutations(Refreshers) \cup Permutations(Savers)
=============================================================================
