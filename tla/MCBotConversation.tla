------------------------- MODULE MCBotConversation --------------------------
(***************************************************************************)
(* Instances of BotConversation for TLC.                                   *)
(***************************************************************************)
EXTENDS BotConversation, TLC

Interchangeable == Permutations(Tasks) \cup Permutations(Checks)

=============================================================================
