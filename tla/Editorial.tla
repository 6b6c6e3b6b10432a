------------------------------ MODULE Editorial ------------------------------
(***************************************************************************)
(* The founder's case articles: the posts table (app/content/repo.py), the *)
(* covers prepared for it (app/content/images.py), the editor that saves   *)
(* it and the pages that show it (app/web/editorial.py), behind the admin  *)
(* cookie (app/web/admin_auth.py). A save loads its post, prepares the     *)
(* cover in a worker thread and then writes the columns it changed, so two *)
(* saves of a post may overlap.                                            *)
(*                                                                         *)
(* What a save edits is unlike anything before it: the save stands for its *)
(* title, summary and article, for the bytes it uploads and for its two    *)
(* captions. What it submits unedited is the work of an earlier save, as   *)
(* the editor's page showed it.                                            *)
(***************************************************************************)
EXTENDS Naturals, FiniteSets

CONSTANTS
    Saves,        \* the POSTs of the editor
    Forms,        \* what they may hold
    Posts, Slugs, \* post ids and addresses
    None,         \* NULL, no row, no cookie, nothing shown
    SessionTicks, \* ADMIN_SESSION_SECONDS
    MaxNow        \* bound on the clock

ASSUME BoundsAssumption == SessionTicks \in Nat \ {0} /\ MaxNow \in Nat

\* EditorialPost: a row of the posts table
Articles ==
    [slug : Slugs, state : {"draft", "published"}, text : Saves,
     bytes : Saves \cup {None}, media : {"webp", None}, alts : Saves \cup {None},
     updated : Nat, published : Nat \cup {None}]

ASSUME NoneAssumption == None \notin Saves \cup Slugs \cup Nat \cup {"webp"} \cup Articles
ASSUME FormsAssumption ==
    \A f \in Forms :
        /\ f.slug \in Slugs \cup {None} /\ f.state \in {"draft", "published"}
        /\ f.image \in {"none", "image", "broken"} /\ f.alts \in {"both", "one", "none"}
        /\ f.remove \in BOOLEAN

VARIABLES
    rows,     \* the committed posts
    saves,    \* where each save stands, and what it read
    clock,    \* datetime.now: no two reads of it give the same value
    cookie,   \* avvalo_admin_session of the founder's browser: when it expires
    page,     \* the article a reader's browser shows
    cache     \* the covers that browser keeps, by the address they came from

vars == <<rows, saves, clock, cookie, page, cache>>

HasRow(p) == rows[p] # None
Covered(row) == row.media # None

\* The cover's three parts stand and fall together.
Whole(row) == Cardinality({row.bytes = None, row.media = None, row.alts = None}) = 1

Fresh == [at |-> "idle", post |-> None, read |-> None, form |-> None, text |-> None,
          alts |-> None, cover |-> None, now |-> None, overtaken |-> FALSE]

Init ==
    /\ rows = [p \in Posts |-> None]
    /\ saves = [s \in Saves |-> Fresh]
    /\ clock = 0
    /\ cookie = None
    /\ page = None
    /\ cache = {}

-----------------------------------------------------------------------------
(* The founder's session *)

IsAuthenticated == cookie # None /\ cookie > clock

\* admin_login_submit with the right key; another key gets the form back
LogsIn ==
    /\ cookie' = clock + SessionTicks
    /\ UNCHANGED <<rows, saves, clock, page, cache>>

\* admin_logout, or a deploy with another secret, which signs nothing that is held
LogsOut ==
    /\ cookie # None
    /\ cookie' = None
    /\ UNCHANGED <<rows, saves, clock, page, cache>>

\* Bound: the clock stops at MaxNow.
Ticks ==
    /\ clock < MaxNow
    /\ clock' = clock + 1
    /\ UNCHANGED <<rows, saves, cookie, page, cache>>

-----------------------------------------------------------------------------
(* A save *)

\* admin_post_create: the post gets a fresh uuid, and has no row to read.
Creates(s, p) == ~HasRow(p) /\ \A t \in Saves : saves[t].post # p

\* The article and the captions that a save submits, edited or not.
Text(s) == IF saves[s].text = None THEN s ELSE saves[s].text
Captions(s) == IF saves[s].alts = None THEN s ELSE saves[s].alts

\* What the editor's page may have shown of a post when it was opened, at any time
\* before. (Captions are of interest where the form has both.)
SavesOf(p) == {s \in Saves : saves[s].at = "saved" /\ saves[s].post = p}
Shown(p) == {Text(s) : s \in SavesOf(p)}
ShownCaptions(p, f) ==
    {Captions(s) : s \in {t \in SavesOf(p) : f.alts = "both" /\ saves[t].cover.alts # None}}

\* admin_post_create and admin_post_update: nothing but a signed cookie that has
\* not expired gets past require_admin; an unknown post is a 404.
Opens(s) ==
    /\ saves[s].at = "idle"
    /\ IsAuthenticated
    /\ \E p \in Posts, f \in Forms :
        /\ Creates(s, p) \/ HasRow(p)
        /\ \E text \in Shown(p) \cup {None}, alts \in ShownCaptions(p, f) \cup {None} :
            saves' = [saves EXCEPT ![s] =
                         [@ EXCEPT !.at = "open", !.post = p, !.read = rows[p], !.form = f,
                                   !.text = text, !.alts = alts]]
    /\ UNCHANGED <<rows, clock, cookie, page, cache>>

\* A post that another save is about to create has no row yet.
IsNew(s) == saves[s].read = None
HadCover(s) == ~IsNew(s) /\ Covered(saves[s].read)

\* prepare_editorial_cover, where it does not raise
NoCover == [kind |-> "keep", bytes |-> None, alts |-> None]
ClearCover == [kind |-> "clear", bytes |-> None, alts |-> None]
CoverIsRefused(f, hadCover) ==
    /\ ~f.remove
    /\ \/ f.image = "broken"
       \/ f.image = "image" /\ f.alts # "both"
       \/ f.image = "none" /\ hadCover /\ f.alts # "both"
       \/ f.image = "none" /\ ~hadCover /\ f.alts # "none"
PreparedCover(s, f, hadCover) ==
    IF f.remove THEN ClearCover
    ELSE IF f.image = "image" THEN [kind |-> "upload", bytes |-> s, alts |-> Captions(s)]
    ELSE IF hadCover THEN [kind |-> "alts", bytes |-> None, alts |-> Captions(s)]
    ELSE NoCover

\* The upload is read and the cover made in a thread, from the post as it was
\* loaded; then EditorialPostDraft.normalized refuses a bad form, and the time of
\* the save is taken.
Prepares(s) ==
    LET f == saves[s].form
        cover == PreparedCover(s, f, HadCover(s))
        isRefused == CoverIsRefused(f, HadCover(s)) \/ f.slug = None
    IN  /\ saves[s].at = "open"
        /\ \/ /\ isRefused
              /\ saves' = [saves EXCEPT ![s].at = "refused"]
              /\ UNCHANGED clock
           \/ /\ ~isRefused
              /\ clock < MaxNow
              /\ clock' = clock + 1
              /\ saves' = [saves EXCEPT ![s] =
                              [@ EXCEPT !.at = "ready", !.cover = cover, !.now = clock + 1]]
        /\ UNCHANGED <<rows, cookie, page, cache>>

\* Bug: a cover that is taken away keeps its captions.
MutantApplyCover(row, cover, read) ==
    IF cover.kind = "clear" THEN [row EXCEPT !.bytes = None, !.media = None]
    ELSE IF cover.kind = "upload"
         THEN [row EXCEPT !.bytes = cover.bytes, !.media = "webp", !.alts = cover.alts]
    ELSE IF cover.kind = "alts" THEN [row EXCEPT !.alts = cover.alts] ELSE row

\* _apply_cover on the columns of the row: the bytes are deferred, so they are
\* always written; another column is written only when it differs from the one
\* that was loaded.
ApplyCover(row, cover, read) ==
    LET readMedia == IF read = None THEN None ELSE read.media
        readAlts  == IF read = None THEN None ELSE read.alts
        alts == IF cover.alts # readAlts THEN cover.alts ELSE row.alts
    IN  CASE cover.kind = "clear" ->
                 [row EXCEPT !.bytes = None, !.alts = alts,
                             !.media = IF readMedia # None THEN None ELSE @]
          [] cover.kind = "upload" ->
                 [row EXCEPT !.bytes = cover.bytes, !.alts = alts,
                             !.media = IF readMedia # "webp" THEN "webp" ELSE @]
          [] cover.kind = "alts" -> [row EXCEPT !.alts = alts]
          [] OTHER -> row

\* create_post
Created(s) ==
    LET f == saves[s].form
    IN  ApplyCover([slug |-> f.slug, state |-> f.state, text |-> Text(s),
                    bytes |-> None, media |-> None, alts |-> None, updated |-> saves[s].now,
                    published |-> IF f.state = "published" THEN saves[s].now ELSE None],
                   saves[s].cover, None)

\* Bug: only a new post is given its time.
MutantNeverStamped(s) == FALSE

\* The article was not public when it was loaded.
FirstPublication(s) == saves[s].form.state = "published" /\ saves[s].read.published = None

\* update_post: the UPDATE sets what differs from the row that was loaded, in the
\* row that is there by then.
Updated(s) ==
    LET f == saves[s].form
        read == saves[s].read
        row == rows[saves[s].post]
    IN  ApplyCover([row EXCEPT
                        !.slug  = IF f.slug # read.slug THEN f.slug ELSE @,
                        !.state = IF f.state # read.state THEN f.state ELSE @,
                        !.text  = IF Text(s) # read.text THEN Text(s) ELSE @,
                        !.updated = saves[s].now,
                        !.published = IF FirstPublication(s) THEN saves[s].now ELSE @],
                   saves[s].cover, read)

Result(s) == IF IsNew(s) THEN Created(s) ELSE Updated(s)

SlugIsTaken(s) ==
    \E q \in Posts \ {saves[s].post} : HasRow(q) /\ rows[q].slug = Result(s).slug

\* flush and commit: one statement, and the loser of two waits for the winner.
Commits(s) ==
    /\ saves[s].at = "ready"
    /\ ~SlugIsTaken(s)
    /\ rows' = [rows EXCEPT ![saves[s].post] = Result(s)]
    /\ saves' = [saves EXCEPT ![s] =
                    [@ EXCEPT !.at = "saved", !.overtaken = saves[s].read # rows[saves[s].post]]]
    /\ UNCHANGED <<clock, cookie, page, cache>>

\* IntegrityError: the transaction is rolled back.
Collides(s) ==
    /\ saves[s].at = "ready"
    /\ SlugIsTaken(s)
    /\ saves' = [saves EXCEPT ![s].at = "refused"]
    /\ UNCHANGED <<rows, clock, cookie, page, cache>>

\* The process is replaced: what had not committed is lost.
Restarts ==
    /\ \E s \in Saves : saves[s].at \in {"open", "ready"}
    /\ saves' = [s \in Saves |->
                    IF saves[s].at \in {"open", "ready"} THEN [saves[s] EXCEPT !.at = "refused"]
                    ELSE saves[s]]
    /\ UNCHANGED <<rows, clock, cookie, page, cache>>

-----------------------------------------------------------------------------
(* Readers *)

\* Bug: what was public once stays public.
MutantIsPublic(p) == HasRow(p) /\ rows[p].published # None

\* get_published_post, list_published_posts and get_published_cover
IsPublic(p) == HasRow(p) /\ rows[p].state = "published" /\ rows[p].published # None

\* Bug: the address changes with the article's first publication only.
MutantCoverVersion(row) == row.published

\* cover_version
CoverVersion(row) == row.updated

\* case_detail, or one card of cases: an article and the address of its cover.
\* (saved is history: when the row that is shown was saved.)
ReadsCase(p) ==
    /\ IsPublic(p)
    /\ page' = [slug |-> rows[p].slug, text |-> rows[p].text, hasCover |-> Covered(rows[p]),
                version |-> CoverVersion(rows[p]), saved |-> rows[p].updated]
    /\ UNCHANGED <<rows, saves, clock, cookie, cache>>

CoverUrl == <<page.slug, page.version>>

\* case_cover: what is public under the page's address by now, for the browser to
\* keep for a day; a cover it keeps is not asked for again.
FetchesCover(p) ==
    /\ page # None /\ page.hasCover
    /\ \A kept \in cache : kept.url # CoverUrl
    /\ IsPublic(p) /\ rows[p].slug = page.slug
    /\ rows[p].bytes # None /\ rows[p].media # None
    /\ cache' = cache \cup {[url |-> CoverUrl, bytes |-> rows[p].bytes]}
    /\ UNCHANGED <<rows, saves, clock, cookie, page>>

Next ==
    \/ LogsIn \/ LogsOut \/ Ticks \/ Restarts
    \/ \E s \in Saves : Opens(s) \/ Prepares(s) \/ Commits(s) \/ Collides(s)
    \/ \E p \in Posts : ReadsCase(p) \/ FetchesCover(p)

Spec == Init /\ [][Next]_vars

-----------------------------------------------------------------------------
(* Properties *)

Changes == [kind : {"keep", "clear", "upload", "alts"}, bytes : Saves \cup {None}, alts : Saves \cup {None}]

Phases == {"idle", "open", "ready", "saved", "refused"}

SaveRecords ==
    [at : Phases, post : Posts \cup {None}, read : Articles \cup {None}, form : Forms \cup {None},
     text : Saves \cup {None}, alts : Saves \cup {None},
     cover : Changes \cup {None}, now : Nat \cup {None}, overtaken : BOOLEAN]

TypeOK ==
    /\ rows \in [Posts -> Articles \cup {None}]
    /\ saves \in [Saves -> SaveRecords]
    /\ clock \in Nat
    /\ cookie \in Nat \cup {None}

\* What is marked published carries its publication time, without which no list and
\* no page shows it: whatever saves overlap, the time is never taken back and the
\* article is not hidden (repo.update_post, list_published_posts, get_published_post).
PublishedIsStamped ==
    \A p \in Posts : HasRow(p) /\ rows[p].state = "published" => rows[p].published # None

\* A reader sees an article only as its last save submitted it for publication, word
\* for word, unless that save wrote over a version it had not read: only an overlap
\* can publish a draft, and the next save that overtakes nobody puts an end to it
\* (repo.get_published_post, "never exposing drafts").
DraftsStayPrivate ==
    page # None =>
        \E s \in Saves :
            /\ saves[s].at = "saved" /\ saves[s].now = page.saved
            /\ \/ saves[s].form.state = "published" /\ page.text = Text(s)
               \/ saves[s].overtaken

\* The cover a browser kept under the address that a public article gives now is
\* that article's cover, after any replacement, renaming or withdrawal in between
\* (LocalizedEditorialPost.cover_url, "cache-busted"; case_cover keeps it a day).
KeptCoversAreCurrent ==
    \A p \in Posts, kept \in cache :
        IsPublic(p) /\ Covered(rows[p]) /\ kept.url = <<rows[p].slug, CoverVersion(rows[p])>>
            => kept.bytes = rows[p].bytes

Saved(s) == saves[s].at # "saved" /\ saves'[s].at = "saved"

\* The article, the address and the state that were submitted; the bytes that the
\* save uploads, none if it takes the cover away, and else those it found; a cover
\* whose bytes, type and captions agree if they agreed before; and the publication
\* time as it was, unless the save is the first to publish.
StoredAsSubmitted(s) ==
    LET form == saves[s].form
        before == saves[s].read
        after == rows'[saves[s].post]
        Before(part) == IF IsNew(s) THEN None ELSE part
    IN  /\ <<after.text, after.slug, after.state>> = <<Text(s), form.slug, form.state>>
        /\ after.bytes = IF form.remove THEN None
                         ELSE IF form.image = "image" THEN s ELSE Before(before.bytes)
        /\ IsNew(s) \/ Whole(before) => Whole(after)
        /\ form.state = "draft" \/ Before(before.published) # None =>
                after.published = Before(before.published)

\* A save that overtook nobody leaves the row as it was submitted, and what it does
\* not submit as it was (repo.update_post, "preserving creation and first-publish
\* times").
SavedAsSubmitted ==
    [][\A s \in Saves : Saved(s) /\ ~saves'[s].overtaken => StoredAsSubmitted(s)]_vars

=============================================================================
