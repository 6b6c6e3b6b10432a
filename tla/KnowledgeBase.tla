---------------------------- MODULE KnowledgeBase ----------------------------
(***************************************************************************)
(* The knowledge base: the approved cards of the shipped YAML files with   *)
(* the stored overrides laid over them (merge_knowledge_base in            *)
(* app/knowledge_store/apply.py), and the version by which telemetry names *)
(* it: the version of the files, stamped, when there are overrides, with   *)
(* the second of their newest change.                                      *)
(***************************************************************************)
EXTENDS Integers, FiniteSetsExt

CONSTANT YamlCards      \* the shipped approved cards, by id

CardColumns == {"entry", "status", "text"}

\* load_overrides: a draft or retired card suppresses the shipped card of its id.
ApprovedRows(rows) == {x \in DOMAIN rows : rows[x].body.status = "approved"}
Approved(rows)     == {rows[x].body.entry : x \in ApprovedRows(rows)}
Suppressed(rows)   == {rows[x].body.entry : x \in DOMAIN rows \ ApprovedRows(rows)}

\* Rows are listed newest first and the last of an id wins.  There are two of an id
\* only in the reading of a session that missed a rename.
CardFor(rows, e) ==
    LET own == {x \in ApprovedRows(rows) : rows[x].body.entry = e}
    IN  rows[CHOOSE x \in own : \A y \in own : rows[x].at <= rows[y].at].body.text

\* By id, an override replaces, adds or suppresses.
MergedCards(rows) ==
    [e \in (DOMAIN YamlCards \cup Approved(rows)) \ Suppressed(rows) |->
        IF e \in Approved(rows) THEN CardFor(rows, e) ELSE YamlCards[e]]

\* derive_kb_version: -1 stands for the unstamped version.
Unstamped == -1

\* Stamped with the newest approved row.
MutantKbVersion(rows) == Max({rows[x].at : x \in ApprovedRows(rows)} \cup {Unstamped})

KbVersion(rows) == Max({rows[x].at : x \in DOMAIN rows} \cup {Unstamped})

MergeKnowledgeBase(rows) == [cards |-> MergedCards(rows), version |-> KbVersion(rows)]

\* Every stored row loads, and every merged base can be built.
AnyBase(base) == TRUE
=============================================================================
