---------------------------- MODULE MCClipStore ----------------------------
(* ClipStore for TLC: the writers, the collectors and the images are alike. *)
EXTENDS ClipStore, TLC

CONSTANTS t, i1, i2, w1, w2, g1, g2

Symmetry == Permutations(Writer) \cup Permutations(Collector) \cup Permutations(Images)

=============================================================================
