------------------------- MODULE MCConversationEnd -------------------------
(* Small instances; the configurations differ in the surfaces that exist. *)
EXTENDS ConversationEnd, TLC

Symmetry == Permutations(Socket)
=============================================================================
