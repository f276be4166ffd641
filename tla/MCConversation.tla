--------------------------- MODULE MCConversation ---------------------------
(***************************************************************************)
(* Two turns, the second of which may begin beside the first; two calls in *)
(* one event, or one in each of two; two files, read twice or once each.   *)
(***************************************************************************)
EXTENDS Conversation
CONSTANTS f1, f2
MCFiles == {f1, f2}
MCSymmetry == Permutations(MCFiles)
=============================================================================
