------------------------ MODULE MCOperationLifecycle ------------------------
(* Small instances of OperationLifecycle for TLC. *)
EXTENDS OperationLifecycle, TLC

CONSTANTS w1, w2, o1, o2

\* Two workers that can both run o1; only w1 can run o2.
MCTags == (Workers \X Ops) \ {<<w2, o2>>}
MCSymmetry == Permutations(Workers)
=============================================================================
