------------------------- MODULE MCCommentDelivery -------------------------
(* Small instances of CommentDelivery for TLC.                             *)
EXTENDS CommentDelivery, TLC

Symmetry == Permutations(Workers)
=============================================================================
