---------------------------- MODULE KnowledgeStore ---------------------------
(***************************************************************************)
(* The override store of knowledge cards: what the rows of OverrideStore   *)
(* mean to the version stamp of KnowledgeBase.                             *)
(***************************************************************************)
EXTENDS OverrideStore, KnowledgeBase

\* Some row is created or changed in a later second than that of every stored row.
LaterEdit ==
    /\ \A y \in DOMAIN table : table[y].at < clock
    /\ \E x \in DOMAIN table' : x \notin DOMAIN table \/ table'[x] # table[x]

\* apply.py:38-45: an edit made in a later second than every stored row moves the
\* version by which telemetry names the merged base, whatever the edit does to the
\* card's status.
VersionFollowsEdits == [][LaterEdit => KbVersion(table') # KbVersion(table)]_vars
=============================================================================
