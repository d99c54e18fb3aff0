------------------------- MODULE MCProposerSchedule -------------------------
(* Model-checking instance of ProposerSchedule: three authorities, an      *)
(* epoch of seven heights (small enough to enumerate, large enough that    *)
(* rounding the quotas down leaves slack heights), genesis weights        *)
(* {0, 1, 2, 256}: ties occur, a validator can have no quota, and 256 is  *)
(* the first weight of two bytes.  The node starts at height 3 (epoch 0)  *)
(* and may restart at height 10 (epoch 7).                                *)
EXTENDS ProposerSchedule

CONSTANTS a1, a2, a3

MCAuthorities == {a1, a2, a3}
MCEpochLength == 7
MCWeights == {0, 1, 2, 256}
MCStartHeights == {3, 10}
=============================================================================
