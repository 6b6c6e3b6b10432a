--------------------------- MODULE SchemaHistory ----------------------------
(***************************************************************************)
(* The fourteen migrations of alembic/versions and the schema that the ORM *)
(* models declare.  A schema is a set of cells: the columns of each table, *)
(* with whether they accept NULL, and its keys.  Types, defaults and plain *)
(* indexes are left out.                                                   *)
(***************************************************************************)
EXTENDS Integers, FiniteSets

CONSTANTS
    FaceOrder,  \* the product faces that old rows may carry, in the order of text
    IpFaces     \* those that count the checks of an address: 'web_ip:...'

ASSUME FacesAssumption ==
    /\ FaceOrder \in [DOMAIN FaceOrder -> Int]
    /\ \A f, g \in DOMAIN FaceOrder : FaceOrder[f] = FaceOrder[g] => f = g
    /\ IpFaces \subseteq DOMAIN FaceOrder
    /\ {"family", "web_ip:family"} \subseteq DOMAIN FaceOrder
    /\ "web_ip:family" \in IpFaces /\ "family" \notin IpFaces
    /\ DOMAIN FaceOrder \cap {"none", "user", "web_ip"} = {}

Cells(table, kind, names) == [table : {table}, kind : {kind}, name : names]
Required(table, names)    == Cells(table, "required", names)
Optional(table, names)    == Cells(table, "optional", names)
\* A key is named by its columns, in parentheses.
PrimaryKey(table, columns) == Cells(table, "primary key", {columns})
Unique(table, column)     == Cells(table, "unique", {column})

TablesIn(schema) == {cell.table : cell \in schema}

\* The statements of one direction of a migration.
Change(creates, adds, removes, drops) ==
    [creates |-> creates, adds |-> adds, removes |-> removes, drops |-> drops]

Dropping(change, schema) ==
    {cell \in schema \ change.removes : cell.table \notin change.drops}

\* A table that exists is not created again, nor a column added twice, and
\* what is dropped must be there.
Possible(change, schema) ==
    LET kept == Dropping(change, schema)
    IN  /\ change.removes \subseteq schema
        /\ change.drops \subseteq TablesIn(schema)
        /\ TablesIn(change.creates) \cap TablesIn(kept) = {}
        /\ \A cell \in change.adds :
              /\ cell.table \in TablesIn(kept)
              /\ \A old \in kept : old.table = cell.table => old.name # cell.name

Result(change, schema) == Dropping(change, schema) \cup change.creates \cup change.adds

-----------------------------------------------------------------------------
(* Table definitions that more than one migration names *)

StorySubmission ==
    Required("story_submission", {"id", "user_key", "language", "minimized_text", "status", "created_ts"})
    \cup Optional("story_submission", {"reviewed_ts"})
    \cup PrimaryKey("story_submission", "(id)")

UrlBlocklist ==
    Required("url_blocklist", {"domain_hash", "source", "first_seen", "last_seen"})
    \cup PrimaryKey("url_blocklist", "(domain_hash, source)")

Face(table) == Required(table, {"face"})

InitialTables ==
    UNION { Required("consent", {"user_key", "face", "notice_version", "language", "ts"}),
            PrimaryKey("consent", "(user_key, face)"),
            Required("check_event", {"id", "user_key", "face", "ts", "input_type", "language",
                                     "rule_ids", "no_signal", "status", "latency_ms", "safety_blocked"}),
            Optional("check_event", {"error_class", "ocr_confidence", "ocr_ms", "llm_ms",
                                     "input_tokens", "output_tokens", "cost_usd"}),
            PrimaryKey("check_event", "(id)"),
            Required("feedback", {"check_id", "usefulness", "next_action", "ts"}),
            PrimaryKey("feedback", "(check_id)"),
            Required("rate_limit", {"user_key", "face", "day", "count"}),
            PrimaryKey("rate_limit", "(user_key, face, day)"),
            Required("deletion_log", {"id", "user_key", "requested_ts"}),
            Optional("deletion_log", {"completed_ts"}),
            PrimaryKey("deletion_log", "(id)") }

EditorialPost(texts) ==
    UNION { Required("editorial_post", {"id", "slug", "category", "state", "created_ts", "updated_ts"}),
            Optional("editorial_post", {"published_ts"}), texts,
            PrimaryKey("editorial_post", "(id)"), Unique("editorial_post", "(slug)") }

UzLatn == Required("editorial_post", {"title_uz_latn", "summary_uz_latn", "article_uz_latn"})
UzCyrl == Required("editorial_post", {"title_uz_cyrl", "summary_uz_cyrl", "article_uz_cyrl"})
Ru     == Required("editorial_post", {"title_ru", "summary_ru", "article_ru"})

RuleOverride ==
    Required("rule_override", {"id", "rule_id", "family", "description", "message_key", "severity",
                               "patterns", "disabled", "created_ts", "updated_ts"})
    \cup Optional("rule_override", {"emits_signal"})
    \cup PrimaryKey("rule_override", "(id)") \cup Unique("rule_override", "(rule_id)")

KnowledgeCardOverride ==
    Required("knowledge_card_override",
             {"id", "card_id", "card_version", "status", "reviewer", "trigger_rule_ids",
              "trigger_signal_kinds", "retrieval_aliases", "mechanism", "red_flags", "verify_steps",
              "questions", "reviewed_case_ids", "created_ts", "updated_ts"})
    \cup PrimaryKey("knowledge_card_override", "(id)")
    \cup Unique("knowledge_card_override", "(card_id)")

KnowledgeColumns ==
    Required("check_event", {"knowledge_card_ids", "reviewed_case_ids"})
    \cup Optional("check_event", {"retrieval_mode", "retrieval_status", "kb_version"})

RouterColumn == Optional("check_event", {"router_status"})

CoverColumns ==
    Optional("editorial_post", {"cover_bytes", "cover_media_type", "cover_alt_uz_latn", "cover_alt_ru"})

PrecisionColumns == Optional("rule_override", {"exclude_patterns", "match_mode", "requires"})

-----------------------------------------------------------------------------
(* The migrations, in the order of their revisions *)

Migration(up, down) == [up |-> up, down |-> down]

Creating(cells)  == Change(cells, {}, {}, {})
DropTables(names) == Change({}, {}, {}, names)
Swap(old, new)   == Change({}, new, old, {})

InitialSchema    == Migration(Creating(InitialTables), DropTables(TablesIn(InitialTables)))
FeedbackNullable ==
    LET required == Required("feedback", {"next_action"})
        optional == Optional("feedback", {"next_action"})
    IN  Migration(Swap(required, optional), Swap(optional, required))
StorySubmissions ==
    Migration(Creating(StorySubmission \cup Face("story_submission")),
              DropTables({"story_submission"}))
KnowledgeMetadata == Migration(Swap({}, KnowledgeColumns), Swap(KnowledgeColumns, {}))
ImprovementBacklog ==
    Migration(Change(UrlBlocklist, RouterColumn, {}, {}),
              Change({}, {}, RouterColumn, {"url_blocklist"}))
EditorialPosts ==
    Migration(Creating(EditorialPost(UzLatn \cup UzCyrl \cup Ru)), DropTables({"editorial_post"}))

DropFace ==
    LET old == UNION { PrimaryKey("consent", "(user_key, face)"), Face("consent"),
                       PrimaryKey("rate_limit", "(user_key, face, day)"), Face("rate_limit"),
                       Face("check_event"), Face("story_submission") }
        new == UNION { PrimaryKey("consent", "(user_key)"), Required("rate_limit", {"scope"}),
                       PrimaryKey("rate_limit", "(user_key, scope, day)") }
    IN  Migration(Swap(old, new), Swap(new, old))

DropEditorialUzCyrl  == Migration(Swap(UzCyrl, {}), Swap({}, UzCyrl))
RuleOverrides        == Migration(Creating(RuleOverride), DropTables({"rule_override"}))
KnowledgeCardOverrides ==
    Migration(Creating(KnowledgeCardOverride), DropTables({"knowledge_card_override"}))
EditorialPostCovers  == Migration(Swap({}, CoverColumns), Swap(CoverColumns, {}))
\* Bug: one of the columns of the model is left out.
MutantRulePrecisionFields ==
    LET added == PrecisionColumns \ Optional("rule_override", {"requires"})
    IN  Migration(Swap({}, added), Swap(added, {}))
RulePrecisionFields  == Migration(Swap({}, PrecisionColumns), Swap(PrecisionColumns, {}))
DropStorySubmission  == Migration(DropTables({"story_submission"}), Creating(StorySubmission))
DropUrlBlocklist     == Migration(DropTables({"url_blocklist"}), Creating(UrlBlocklist))

Migrations ==
    <<InitialSchema, FeedbackNullable, StorySubmissions, KnowledgeMetadata, ImprovementBacklog,
      EditorialPosts, DropFace, DropEditorialUzCyrl, RuleOverrides, KnowledgeCardOverrides,
      EditorialPostCovers, RulePrecisionFields, DropStorySubmission, DropUrlBlocklist>>

Head == 14

FeedbackRevision == 2
FaceRevision     == 7

-----------------------------------------------------------------------------
(* What the migrations do to rows.  `label` is the face of a consent or of *)
(* a counter, and since DropFace "none", or the scope of the counter.      *)

Labels    == DOMAIN FaceOrder \cup {"none", "user", "web_ip"}
IsConsent(a) == a = [user |-> a.user, label |-> a.label, ts |-> a.ts]
                /\ a.label \in Labels /\ a.ts \in Int
IsCounter(a) == a = [user |-> a.user, label |-> a.label] /\ a.label \in Labels

IsRows(rows) ==
    /\ rows = [consents |-> rows.consents, counters |-> rows.counters,
               unanswered |-> rows.unanswered]
    /\ IsFiniteSet(rows.consents) /\ \A a \in rows.consents : IsConsent(a)
    /\ IsFiniteSet(rows.counters) /\ \A a \in rows.counters : IsCounter(a)
    /\ rows.unanswered \in BOOLEAN

EmptyRows == [consents |-> {}, counters |-> {}, unanswered |-> FALSE]

IsNewer(a, b) ==
    a.ts > b.ts \/ (a.ts = b.ts /\ FaceOrder[a.label] > FaceOrder[b.label])

\* One acceptance per user is kept: the newest.
CollapsedConsents(consents) ==
    {[a EXCEPT !.label = "none"] :
        a \in {c \in consents : ~ \E b \in consents : b.user = c.user /\ IsNewer(b, c)}}

\* Bug: every counter becomes a user's.
MutantScopeOf(face) == "user"

ScopeOf(face) == IF face \in IpFaces THEN "web_ip" ELSE "user"

\* Of the counters that come to have one scope, the first face's is kept.
ScopedCounters(counters) ==
    {[a EXCEPT !.label = ScopeOf(a.label)] :
        a \in {c \in counters : ~ \E b \in counters :
                  /\ b.user = c.user
                  /\ ScopeOf(b.label) = ScopeOf(c.label)
                  /\ FaceOrder[c.label] > FaceOrder[b.label]}}

FacedConsents(consents) == {[a EXCEPT !.label = "family"] : a \in consents}

FacedCounters(counters) ==
    {[a EXCEPT !.label = IF a.label = "web_ip" THEN "web_ip:family" ELSE "family"] : a \in counters}

RowsUp(i, rows) ==
    IF i = FaceRevision
    THEN [rows EXCEPT !.consents = CollapsedConsents(@), !.counters = ScopedCounters(@)]
    ELSE rows

\* Bug: feedback without a next action is left as it is.
MutantRowsDown(i, rows) ==
    IF i = FaceRevision
    THEN [rows EXCEPT !.consents = FacedConsents(@), !.counters = FacedCounters(@)]
    ELSE rows

RowsDown(i, rows) ==
    IF i = FaceRevision
    THEN [rows EXCEPT !.consents = FacedConsents(@), !.counters = FacedCounters(@)]
    ELSE IF i = FeedbackRevision THEN [rows EXCEPT !.unanswered = FALSE]
    ELSE rows

\* A face is a face, and a scope a scope.
LabelsFit(i, rows) ==
    /\ \A a \in rows.consents : a.label \in IF i < FaceRevision THEN DOMAIN FaceOrder ELSE {"none"}
    /\ \A a \in rows.counters :
          a.label \in IF i < FaceRevision THEN DOMAIN FaceOrder ELSE {"user", "web_ip"}

\* The keys and the NOT NULL columns of a revision hold of its rows.
RowsFit(i, rows) ==
    /\ \A a, b \in rows.consents : a.user = b.user /\ a.label = b.label => a = b
    /\ \A a, b \in rows.counters : a.user = b.user /\ a.label = b.label => a = b
    /\ rows.unanswered => i >= FeedbackRevision

-----------------------------------------------------------------------------
(* The tables that the ORM models of the checked-out code declare *)

DeclaredUserData ==
    UNION { Required("consent", {"user_key", "notice_version", "language", "ts"}),
            PrimaryKey("consent", "(user_key)"),
            Required("check_event", {"id", "user_key", "ts", "input_type", "language", "rule_ids",
                                     "knowledge_card_ids", "reviewed_case_ids", "no_signal",
                                     "status", "latency_ms", "safety_blocked"}),
            Optional("check_event", {"retrieval_mode", "retrieval_status", "router_status",
                                     "kb_version", "error_class", "ocr_confidence", "ocr_ms",
                                     "llm_ms", "input_tokens", "output_tokens", "cost_usd"}),
            PrimaryKey("check_event", "(id)"),
            Required("feedback", {"check_id", "usefulness", "ts"}),
            Optional("feedback", {"next_action"}),
            PrimaryKey("feedback", "(check_id)"),
            Required("rate_limit", {"user_key", "scope", "day", "count"}),
            PrimaryKey("rate_limit", "(user_key, scope, day)"),
            Required("deletion_log", {"id", "user_key", "requested_ts"}),
            Optional("deletion_log", {"completed_ts"}),
            PrimaryKey("deletion_log", "(id)") }

DeclaredEditorial == EditorialPost(UzLatn \cup Ru) \cup CoverColumns
DeclaredRules     == RuleOverride \cup PrecisionColumns
DeclaredCards     == KnowledgeCardOverride

Declared == DeclaredUserData \cup DeclaredEditorial \cup DeclaredRules \cup DeclaredCards
=============================================================================
