--------------------------- MODULE EditorialProofs ---------------------------
(***************************************************************************)
(* Theorems of Editorial: what the founder's articles promise readers      *)
(* however their saves overlap, for every number of saves, forms, posts    *)
(* and addresses.                                                          *)
(***************************************************************************)
EXTENDS Editorial, FiniteSetTheorems, TLAPS

-----------------------------------------------------------------------------
(* The inductive invariant *)

Underway(s) == saves[s].at \in {"open", "ready"}

\* The form was not refused, and the cover is the one that it asks for.
IsAccepted(s) ==
    /\ saves[s].form.slug # None
    /\ ~CoverIsRefused(saves[s].form, HadCover(s))
    /\ saves[s].cover = PreparedCover(s, saves[s].form, HadCover(s))

\* A time is taken once by one save.
SavesFiled ==
    \A s \in Saves :
        /\ saves[s].at # "idle" => saves[s].post \in Posts /\ saves[s].form \in Forms
        /\ saves[s].at \in {"idle", "open"} => saves[s].now = None
        /\ saves[s].at \in {"ready", "saved"} => saves[s].now # None
        /\ saves[s].now # None =>
              /\ saves[s].now <= clock
              /\ \A t \in Saves : saves[t].now = saves[s].now => t = s
        /\ saves[s].at = "ready" => IsAccepted(s)

\* A post that is being created is known to nobody else; one that was read is still
\* there, and its publication time is never taken back.
ReadsHold ==
    \A s \in Saves : Underway(s) =>
        /\ IsNew(s) => /\ ~HasRow(saves[s].post)
                       /\ \A t \in Saves : saves[t].post = saves[s].post => t = s
        /\ ~IsNew(s) => /\ HasRow(saves[s].post)
                        /\ saves[s].read.published # None => rows[saves[s].post].published # None

\* A save that overtook nobody leaves its own state and text, and its time.
IsLeftBy(s, state, text, time) ==
    /\ saves[s].at = "saved" /\ saves[s].now = time
    /\ saves[s].overtaken \/ (saves[s].form.state = state /\ Text(s) = text)

\* A row is the work of the last save of its post.
RowsSaved ==
    \A p \in Posts : HasRow(p) =>
        /\ \E s \in Saves : IsLeftBy(s, rows[p].state, rows[p].text, rows[p].updated)
        /\ rows[p].state = "published" => rows[p].published # None

SlugsDiffer ==
    \A p, q \in Posts : HasRow(p) /\ HasRow(q) /\ rows[p].slug = rows[q].slug => p = q

PageSaved ==
    page # None => /\ \E s \in Saves : IsLeftBy(s, "published", page.text, page.saved)
                   /\ page.version = page.saved

\* An address with a save's time is only ever given by that save.
CacheSaved ==
    \A kept \in cache :
        /\ \E s \in Saves : saves[s].at = "saved" /\ kept.url[2] = saves[s].now
        /\ \A p \in Posts : HasRow(p) /\ kept.url = <<rows[p].slug, CoverVersion(rows[p])>> =>
              kept.bytes = rows[p].bytes

ReadersInv == SlugsDiffer /\ PageSaved /\ CacheSaved

IInv == TypeOK /\ SavesFiled /\ ReadsHold /\ RowsSaved /\ ReadersInv

-----------------------------------------------------------------------------
(* What a save writes *)

\* Setting the cover leaves the article's other columns alone.
LEMMA CoverOnly ==
    ASSUME NEW row \in Articles, NEW cover \in Changes, NEW read \in Articles \cup {None},
           cover.kind = "upload" => cover.bytes \in Saves
    PROVE  /\ ApplyCover(row, cover, read) \in Articles
           /\ ApplyCover(row, cover, read).slug = row.slug
           /\ ApplyCover(row, cover, read).state = row.state
           /\ ApplyCover(row, cover, read).text = row.text
           /\ ApplyCover(row, cover, read).updated = row.updated
           /\ ApplyCover(row, cover, read).published = row.published
<1> DEFINE readMedia == IF read = None THEN None ELSE read.media
           readAlts == IF read = None THEN None ELSE read.alts
           alts == IF cover.alts # readAlts THEN cover.alts ELSE row.alts
<1>0. alts \in Saves \cup {None}
  BY DEF Articles, Changes
<1>1. CASE cover.kind = "clear"
  <2>1. ApplyCover(row, cover, read) =
            [row EXCEPT !.bytes = None, !.alts = alts,
                        !.media = IF readMedia # None THEN None ELSE row.media]
    BY <1>1 DEF ApplyCover, Articles
  <2> HIDE DEF readMedia, alts
  <2> QED
    BY <1>0, <2>1 DEF Articles
<1>2. CASE cover.kind = "upload"
  <2>1. ApplyCover(row, cover, read) =
            [row EXCEPT !.bytes = cover.bytes, !.alts = alts,
                        !.media = IF readMedia # "webp" THEN "webp" ELSE row.media]
    BY <1>2 DEF ApplyCover, Articles
  <2> HIDE DEF readMedia, alts
  <2> QED
    BY <1>0, <1>2, <2>1 DEF Articles
<1>3. CASE cover.kind = "alts"
  <2>1. ApplyCover(row, cover, read) = [row EXCEPT !.alts = alts]
    BY <1>3 DEF ApplyCover
  <2> HIDE DEF alts
  <2> QED
    BY <1>0, <2>1 DEF Articles
<1>4. CASE cover.kind = "keep"
  BY <1>4 DEF ApplyCover
<1> QED
  BY <1>1, <1>2, <1>3, <1>4 DEF Changes

\* Texts and captions are those of some save.
LEMMA WorkOfSaves ==
    ASSUME TypeOK, NEW s \in Saves
    PROVE  Text(s) \in Saves /\ Captions(s) \in Saves
BY DEF Text, Captions, TypeOK, SaveRecords

LEMMA PreparedIsChange ==
    ASSUME TypeOK, NEW s \in Saves, NEW f, NEW had \in BOOLEAN
    PROVE  /\ PreparedCover(s, f, had) \in Changes
           /\ PreparedCover(s, f, had).kind = "upload" => PreparedCover(s, f, had).bytes \in Saves
BY WorkOfSaves DEF PreparedCover, ClearCover, NoCover, Changes

\* The columns other than the cover, as a save that is ready leaves them.
LEMMA Written ==
    ASSUME TypeOK, SavesFiled, ReadsHold, NEW s \in Saves, saves[s].at = "ready"
    PROVE  LET form == saves[s].form
               read == saves[s].read
               row == rows[saves[s].post]
               after == Result(s)
           IN  /\ after \in Articles
               /\ after.updated = saves[s].now
               /\ IsNew(s) =>
                    /\ after = ApplyCover([slug |-> form.slug, state |-> form.state, text |-> Text(s),
                                           bytes |-> None, media |-> None, alts |-> None,
                                           updated |-> saves[s].now,
                                           published |-> IF form.state = "published"
                                                         THEN saves[s].now ELSE None],
                                          saves[s].cover, None)
                    /\ after.slug = form.slug /\ after.state = form.state /\ after.text = Text(s)
                    /\ after.published = IF form.state = "published" THEN saves[s].now ELSE None
               /\ ~IsNew(s) =>
                    /\ row \in Articles /\ read \in Articles
                    /\ after.slug = IF form.slug # read.slug THEN form.slug ELSE row.slug
                    /\ after.state = IF form.state # read.state THEN form.state ELSE row.state
                    /\ after.text = IF Text(s) # read.text THEN Text(s) ELSE row.text
                    /\ after.published = IF FirstPublication(s) THEN saves[s].now ELSE row.published
<1> DEFINE form == saves[s].form
           read == saves[s].read
           row == rows[saves[s].post]
           cover == saves[s].cover
           now == saves[s].now
<1>1. /\ saves[s].post \in Posts /\ form \in Forms /\ form.slug \in Slugs
      /\ form.state \in {"draft", "published"} /\ now \in Nat
      /\ Text(s) \in Saves
  BY FormsAssumption, WorkOfSaves DEF SavesFiled, IsAccepted, TypeOK, SaveRecords
<1>2. cover \in Changes /\ (cover.kind = "upload" => cover.bytes \in Saves)
  <2>1. PICK had : had = HadCover(s)
    OBVIOUS
  <2>2. had \in BOOLEAN
    BY <2>1 DEF HadCover
  <2>3. cover = PreparedCover(s, form, had)
    BY <2>1 DEF SavesFiled, IsAccepted
  <2> QED
    BY <2>2, <2>3, PreparedIsChange
<1>3. CASE IsNew(s)
  <2> DEFINE blank == [slug |-> form.slug, state |-> form.state, text |-> Text(s),
                       bytes |-> None, media |-> None, alts |-> None, updated |-> now,
                       published |-> IF form.state = "published" THEN now ELSE None]
  <2>1. blank \in Articles
    BY <1>1 DEF Articles
  <2>2. Result(s) = ApplyCover(blank, cover, None)
    BY <1>3 DEF Result, Created
  <2>3. /\ blank.slug = form.slug /\ blank.state = form.state /\ blank.text = Text(s)
        /\ blank.updated = now
        /\ blank.published = IF form.state = "published" THEN now ELSE None
    OBVIOUS
  <2> HIDE DEF blank
  <2>4. QED
    BY <1>2, <1>3, <2>1, <2>2, <2>3, CoverOnly DEF blank
<1>4. CASE ~IsNew(s)
  <2> DEFINE next == [row EXCEPT
                        !.slug  = IF form.slug # read.slug THEN form.slug ELSE row.slug,
                        !.state = IF form.state # read.state THEN form.state ELSE row.state,
                        !.text  = IF Text(s) # read.text THEN Text(s) ELSE row.text,
                        !.updated = now,
                        !.published = IF FirstPublication(s) THEN now ELSE row.published]
  <2>1. row \in Articles /\ read \in Articles
    BY <1>1, <1>4 DEF ReadsHold, Underway, IsNew, HasRow, TypeOK, SaveRecords
  <2>2. Result(s) = ApplyCover(next, cover, read)
    BY <1>4, <2>1 DEF Result, Updated, Articles
  <2>3. /\ next \in Articles /\ next.updated = now
        /\ next.text = IF Text(s) # read.text THEN Text(s) ELSE row.text
        /\ next.slug = IF form.slug # read.slug THEN form.slug ELSE row.slug
        /\ next.state = IF form.state # read.state THEN form.state ELSE row.state
        /\ next.published = IF FirstPublication(s) THEN now ELSE row.published
    <3>1. PICK slug, state, text, published :
              /\ slug = IF form.slug # read.slug THEN form.slug ELSE row.slug
              /\ state = IF form.state # read.state THEN form.state ELSE row.state
              /\ text = IF Text(s) # read.text THEN Text(s) ELSE row.text
              /\ published = IF FirstPublication(s) THEN now ELSE row.published
      OBVIOUS
    <3>2. /\ slug \in Slugs /\ state \in {"draft", "published"} /\ text \in Saves
          /\ published \in Nat \cup {None}
      BY <1>1, <2>1, <3>1 DEF Articles
    <3>3. next = [row EXCEPT !.slug = slug, !.state = state, !.text = text,
                             !.updated = now, !.published = published]
      BY <3>1
    <3> HIDE DEF next
    <3>4. /\ next \in Articles /\ next.text = text /\ next.updated = now
          /\ next.slug = slug /\ next.state = state /\ next.published = published
      BY <1>1, <2>1, <3>2, <3>3 DEF Articles
    <3> QED
      BY <3>1, <3>4
  <2> HIDE DEF next, cover
  <2>4. /\ Result(s) \in Articles
        /\ Result(s).slug = next.slug /\ Result(s).state = next.state
        /\ Result(s).text = next.text /\ Result(s).updated = next.updated
        /\ Result(s).published = next.published
    BY <1>2, <2>1, <2>2, <2>3, CoverOnly
  <2> QED
    BY <1>4, <2>1, <2>3, <2>4
<1> QED
  BY <1>3, <1>4

-----------------------------------------------------------------------------
(* How a save moves *)

\* A save as its steps leave it.
AsOpen(save, p, read, f, text, alts) ==
    [save EXCEPT !.at = "open", !.post = p, !.read = read, !.form = f, !.text = text, !.alts = alts]
AsReady(save, cover, now) == [save EXCEPT !.at = "ready", !.cover = cover, !.now = now]
AsSaved(save, overtook) == [save EXCEPT !.at = "saved", !.overtaken = overtook]

LEMMA ReadyRecord ==
    ASSUME NEW save \in SaveRecords, NEW cover \in Changes, NEW now \in Nat
    PROVE  LET ready == AsReady(save, cover, now)
           IN  /\ ready \in SaveRecords
               /\ ready.at = "ready" /\ ready.post = save.post /\ ready.read = save.read
               /\ ready.form = save.form /\ ready.now = now /\ ready.cover = cover
               /\ ready.text = save.text /\ ready.alts = save.alts
BY DEF AsReady, SaveRecords, Phases

LEMMA Opened ==
    ASSUME TypeOK, NEW s \in Saves, Opens(s)
    PROVE  /\ saves[s].at = "idle"
           /\ \E p \in Posts, f \in Forms :
                /\ Creates(s, p) \/ HasRow(p)
                /\ saves'[s].at = "open" /\ saves'[s].post = p /\ saves'[s].read = rows[p]
                /\ saves'[s].form = f /\ saves'[s].now = saves[s].now
           /\ saves'[s] \in SaveRecords
           /\ \A t \in Saves \ {s} : saves'[t] = saves[t]
           /\ UNCHANGED <<rows, clock, cookie, page, cache>>
<1>1. saves[s].at = "idle" /\ UNCHANGED <<rows, clock, cookie, page, cache>>
  BY DEF Opens
<1>0. \A p, f : Shown(p) \cup ShownCaptions(p, f) \subseteq Saves
  BY WorkOfSaves DEF Shown, ShownCaptions, SavesOf
<1>2. PICK p \in Posts, f \in Forms, text \in Saves \cup {None}, alts \in Saves \cup {None},
             read \in Articles \cup {None} :
        /\ read = rows[p]
        /\ Creates(s, p) \/ HasRow(p)
        /\ saves' = [saves EXCEPT ![s] = AsOpen(saves[s], p, read, f, text, alts)]
  <2>1. PICK p \in Posts, f \in Forms :
            /\ Creates(s, p) \/ HasRow(p)
            /\ \E text \in Shown(p) \cup {None}, alts \in ShownCaptions(p, f) \cup {None} :
                 saves' = [saves EXCEPT ![s] = AsOpen(saves[s], p, rows[p], f, text, alts)]
    BY DEF Opens, AsOpen, TypeOK
  <2>2. rows[p] \in Articles \cup {None}
    BY DEF TypeOK
  <2> QED
    BY <1>0, <2>1, <2>2
<1> DEFINE open == AsOpen(saves[s], p, read, f, text, alts)
<1>3. saves'[s] = open /\ \A t \in Saves \ {s} : saves'[t] = saves[t]
  BY <1>2 DEF TypeOK
<1>4. /\ open \in SaveRecords
      /\ open.at = "open" /\ open.post = p /\ open.read = read
      /\ open.form = f /\ open.now = saves[s].now
  <2>1. saves[s] \in SaveRecords
    BY DEF TypeOK
  <2> QED
    BY <2>1 DEF AsOpen, SaveRecords, Phases
<1> HIDE DEF open
<1> QED
  BY <1>1, <1>2, <1>3, <1>4

LEMMA Refusing ==
    ASSUME TypeOK, NEW s \in Saves,
           saves' = [saves EXCEPT ![s].at = "refused"]
    PROVE  /\ saves'[s].at = "refused" /\ saves'[s].post = saves[s].post
           /\ saves'[s].form = saves[s].form /\ saves'[s].now = saves[s].now
           /\ saves'[s] \in SaveRecords
           /\ \A t \in Saves \ {s} : saves'[t] = saves[t]
BY DEF TypeOK, SaveRecords, Phases

\* A save that is prepared takes the next tick of the clock.
LEMMA Prepared ==
    ASSUME TypeOK, NEW s \in Saves, Prepares(s), saves'[s].at # "refused"
    PROVE  /\ saves[s].at = "open"
           /\ ~CoverIsRefused(saves[s].form, HadCover(s)) /\ saves[s].form.slug # None
           /\ clock' = clock + 1
           /\ saves'[s] \in SaveRecords
           /\ saves'[s].at = "ready" /\ saves'[s].post = saves[s].post
           /\ saves'[s].read = saves[s].read /\ saves'[s].form = saves[s].form
           /\ saves'[s].text = saves[s].text /\ saves'[s].alts = saves[s].alts
           /\ saves'[s].now = clock + 1
           /\ saves'[s].cover = PreparedCover(s, saves[s].form, HadCover(s))
           /\ \A t \in Saves \ {s} : saves'[t] = saves[t]
           /\ UNCHANGED <<rows, cookie, page, cache>>
<1> DEFINE cover == PreparedCover(s, saves[s].form, HadCover(s))
           ready == AsReady(saves[s], cover, clock + 1)
<1>1. saves' # [saves EXCEPT ![s].at = "refused"]
  BY Refusing
<1>2. saves' = [saves EXCEPT ![s] = ready] /\ clock' = clock + 1
  BY <1>1 DEF Prepares, AsReady, TypeOK, SaveRecords
<1>3. /\ ready \in SaveRecords
      /\ ready.at = "ready" /\ ready.post = saves[s].post /\ ready.read = saves[s].read
      /\ ready.form = saves[s].form /\ ready.now = clock + 1 /\ ready.cover = cover
      /\ ready.text = saves[s].text /\ ready.alts = saves[s].alts
  <2>1. cover \in Changes
    BY PreparedIsChange DEF HadCover, IsNew, Covered
  <2>2. saves[s] \in SaveRecords /\ clock + 1 \in Nat
    BY DEF TypeOK
  <2> HIDE DEF cover
  <2> QED
    BY <2>1, <2>2, ReadyRecord
<1>4. saves'[s] = ready /\ \A t \in Saves \ {s} : saves'[t] = saves[t]
  <2> HIDE DEF ready
  <2> QED
    BY <1>2 DEF TypeOK
<1> QED
  BY <1>1, <1>2, <1>3, <1>4 DEF Prepares

LEMMA PreparedOrRefused ==
    ASSUME TypeOK, NEW s \in Saves, Prepares(s), saves'[s].at = "refused"
    PROVE  /\ saves[s].at = "open"
           /\ saves' = [saves EXCEPT ![s].at = "refused"]
           /\ UNCHANGED <<rows, clock, cookie, page, cache>>
<1> DEFINE ready == [saves[s] EXCEPT
                        !.at = "ready", !.now = clock + 1,
                        !.cover = PreparedCover(s, saves[s].form, HadCover(s))]
<1>1. ready.at = "ready"
  BY DEF TypeOK, SaveRecords
<1>2. saves' # [saves EXCEPT ![s] = ready]
  <2> HIDE DEF ready
  <2> QED
    BY <1>1 DEF TypeOK
<1> QED
  BY <1>2 DEF Prepares, TypeOK, SaveRecords

LEMMA SavedRecord ==
    ASSUME NEW save \in SaveRecords, NEW overtook \in BOOLEAN
    PROVE  LET saved == AsSaved(save, overtook)
           IN  /\ saved \in SaveRecords
               /\ saved.at = "saved" /\ saved.post = save.post /\ saved.read = save.read
               /\ saved.form = save.form /\ saved.now = save.now /\ saved.overtaken = overtook
               /\ saved.text = save.text /\ saved.alts = save.alts
BY DEF AsSaved, SaveRecords, Phases

LEMMA Committed ==
    ASSUME TypeOK, NEW s \in Saves, Commits(s)
    PROVE  /\ saves[s].at = "ready" /\ ~SlugIsTaken(s)
           /\ rows' = [rows EXCEPT ![saves[s].post] = Result(s)]
           /\ saves'[s].at = "saved" /\ saves'[s].post = saves[s].post
           /\ saves'[s].read = saves[s].read /\ saves'[s].form = saves[s].form
           /\ saves'[s].text = saves[s].text /\ saves'[s].alts = saves[s].alts
           /\ saves'[s].now = saves[s].now
           /\ saves'[s].overtaken = (saves[s].read # rows[saves[s].post])
           /\ saves'[s] \in SaveRecords
           /\ \A t \in Saves \ {s} : saves'[t] = saves[t]
           /\ UNCHANGED <<clock, cookie, page, cache>>
<1> DEFINE overtook == (saves[s].read # rows[saves[s].post])
           saved == AsSaved(saves[s], overtook)
<1>1. saves' = [saves EXCEPT ![s] = saved]
  BY DEF Commits, AsSaved, TypeOK
<1>2. saves'[s] = saved /\ \A t \in Saves \ {s} : saves'[t] = saves[t]
  BY <1>1 DEF TypeOK
<1>3. overtook \in BOOLEAN
  OBVIOUS
<1>4. saves[s] \in SaveRecords
  BY DEF TypeOK
<1>5. /\ saved \in SaveRecords
      /\ saved.at = "saved" /\ saved.post = saves[s].post /\ saved.read = saves[s].read
      /\ saved.form = saves[s].form /\ saved.now = saves[s].now /\ saved.overtaken = overtook
      /\ saved.text = saves[s].text /\ saved.alts = saves[s].alts
  <2> HIDE DEF overtook
  <2> QED
    BY <1>3, <1>4, SavedRecord
<1> QED
  BY <1>2, <1>5 DEF Commits

\* A replaced process forgets what had not committed, and nothing else.
LEMMA Restarted ==
    ASSUME TypeOK, Restarts
    PROVE  /\ \A s \in Saves :
                /\ saves'[s].at = IF Underway(s) THEN "refused" ELSE saves[s].at
                /\ saves'[s].post = saves[s].post /\ saves'[s].form = saves[s].form
                /\ saves'[s].now = saves[s].now /\ saves'[s].overtaken = saves[s].overtaken
                /\ saves'[s].read = saves[s].read
                /\ saves'[s].text = saves[s].text /\ saves'[s].alts = saves[s].alts
           /\ saves' \in [Saves -> SaveRecords]
           /\ UNCHANGED <<rows, clock, cookie, page, cache>>
BY DEF Restarts, TypeOK, SaveRecords, Phases, Underway

\* The founder's session, the clock and the readers touch neither saves nor posts.
Elsewhere ==
    \/ LogsIn \/ LogsOut \/ Ticks \/ UNCHANGED vars
    \/ \E p \in Posts : ReadsCase(p) \/ FetchesCover(p)

Abandons(s) == saves' = [saves EXCEPT ![s].at = "refused"] /\ UNCHANGED <<rows, clock, page, cache>>

\* Every step of the module is one of these.
LEMMA StepCases ==
    ASSUME TypeOK, [Next]_vars
    PROVE  \/ Elsewhere
           \/ Restarts
           \/ \E s \in Saves :
                \/ Opens(s)
                \/ Prepares(s) /\ saves'[s].at # "refused"
                \/ Commits(s)
                \/ saves[s].at \in {"open", "ready"} /\ Abandons(s)
<1>1. \A s \in Saves : Prepares(s) =>
            \/ saves'[s].at # "refused"
            \/ saves[s].at \in {"open", "ready"} /\ Abandons(s)
  BY PreparedOrRefused DEF Abandons
<1>2. \A s \in Saves : Collides(s) => saves[s].at \in {"open", "ready"} /\ Abandons(s)
  BY DEF Collides, Abandons
<1> QED
  BY <1>1, <1>2 DEF Next, Elsewhere

LEMMA ElsewhereFrame ==
    ASSUME TypeOK, Elsewhere
    PROVE  /\ UNCHANGED <<rows, saves>>
           /\ clock' \in Nat /\ clock <= clock'
BY DEF TypeOK, Elsewhere, LogsIn, LogsOut, Ticks, ReadsCase, FetchesCover, vars

-----------------------------------------------------------------------------
(* Types, times and reads *)

LEMMA TypeStep ==
    ASSUME TypeOK, SavesFiled, ReadsHold, [Next]_vars
    PROVE  TypeOK'
<1>0. SessionTicks \in Nat
  BY BoundsAssumption
<1>1. CASE Elsewhere
  <2>1. rows' = rows /\ saves' = saves /\ clock \in Nat /\ clock' \in Nat
    BY <1>1, ElsewhereFrame DEF TypeOK
  <2>2. cookie' \in {cookie, None, clock + SessionTicks}
    BY <1>1 DEF Elsewhere, LogsIn, LogsOut, Ticks, ReadsCase, FetchesCover, vars
  <2> QED
    BY <1>0, <2>1, <2>2 DEF TypeOK
<1>2. CASE Restarts
  BY <1>2, Restarted DEF TypeOK, Restarts
<1>3. ASSUME NEW s \in Saves, Opens(s) PROVE TypeOK'
  <2>1. saves' \in [Saves -> SaveRecords]
    <3>1. /\ saves'[s] \in SaveRecords
          /\ \A t \in Saves \ {s} : saves'[t] = saves[t]
      BY <1>3, Opened
    <3>2. saves' = [t \in Saves |-> saves'[t]]
      BY <1>3 DEF Opens, TypeOK
    <3> QED
      BY <3>1, <3>2 DEF TypeOK
  <2>2. UNCHANGED <<rows, clock, cookie>>
    BY <1>3 DEF Opens
  <2> QED
    BY <2>1, <2>2 DEF TypeOK
<1>4. ASSUME NEW s \in Saves, Prepares(s), saves'[s].at # "refused" PROVE TypeOK'
  <2>1. clock' \in Nat
    BY <1>4, Prepared DEF TypeOK
  <2> QED
    BY <1>4, <2>1, Prepared DEF TypeOK, Prepares
<1>5. ASSUME NEW s \in Saves, Commits(s) PROVE TypeOK'
  <2>1. Result(s) \in Articles
    BY <1>5, Written DEF Commits
  <2> QED
    BY <1>5, <2>1, Committed DEF TypeOK, Commits
<1>6. ASSUME NEW s \in Saves, saves[s].at \in {"open", "ready"}, Abandons(s), UNCHANGED cookie
      PROVE  TypeOK'
  BY <1>6, Refusing DEF TypeOK, Abandons
<1>7. ASSUME NEW s \in Saves, Prepares(s) \/ Collides(s) PROVE UNCHANGED cookie
  BY <1>7 DEF Prepares, Collides
<1> QED
  BY <1>1, <1>2, <1>3, <1>4, <1>5, <1>6, <1>7, PreparedOrRefused DEF Next, Elsewhere, Collides, Abandons

LEMMA StaysAccepted ==
    ASSUME NEW s \in Saves, IsAccepted(s), saves'[s].read = saves[s].read,
           saves'[s].form = saves[s].form, saves'[s].cover = saves[s].cover,
           saves'[s].alts = saves[s].alts
    PROVE  IsAccepted(s)'
<1>1. HadCover(s)' = HadCover(s) /\ Captions(s)' = Captions(s)
  BY DEF HadCover, Captions, IsNew, Covered
<1> QED
  BY <1>1 DEF IsAccepted, PreparedCover

LEMMA FilesStep ==
    ASSUME TypeOK, SavesFiled, ReadsHold, [Next]_vars
    PROVE  SavesFiled'
<1> USE DEF SavesFiled
<1>0. \A s \in Saves : saves[s].now \in Nat \cup {None} /\ clock \in Nat
  BY DEF TypeOK, SaveRecords
<1>1. CASE Elsewhere
  BY <1>0, <1>1, ElsewhereFrame, StaysAccepted
<1>2. CASE Restarts
  BY <1>0, <1>2, Restarted DEF Underway
<1>3. ASSUME NEW s \in Saves, Opens(s) PROVE SavesFiled'
  <2>1. /\ saves'[s].at = "open" /\ saves'[s].post \in Posts /\ saves'[s].form \in Forms
        /\ saves'[s].now = None
        /\ \A t \in Saves \ {s} : saves'[t] = saves[t]
        /\ clock' = clock
    BY <1>3, Opened
  <2> QED
    BY <1>0, <2>1, StaysAccepted
<1>4. ASSUME NEW s \in Saves, Prepares(s), saves'[s].at # "refused" PROVE SavesFiled'
  <2>1. /\ saves'[s].at = "ready" /\ saves'[s].post \in Posts /\ saves'[s].form \in Forms
        /\ saves'[s].now = clock + 1 /\ clock' = clock + 1
        /\ \A t \in Saves \ {s} : saves'[t] = saves[t]
    BY <1>4, Prepared
  <2>2. IsAccepted(s)'
    <3>1. HadCover(s)' = HadCover(s) /\ Captions(s)' = Captions(s)
      BY <1>4, Prepared DEF HadCover, Captions, IsNew, Covered
    <3> QED
      BY <1>4, <3>1, Prepared DEF IsAccepted, PreparedCover
  <2>3. saves'[s].now # None
    BY <1>0, <2>1, NoneAssumption
  <2> QED
    BY <1>0, <2>1, <2>2, <2>3, StaysAccepted
<1>5. ASSUME NEW s \in Saves, Commits(s) PROVE SavesFiled'
  <2>1. \A t \in Saves : saves'[t].now = saves[t].now /\ clock' = clock
    BY <1>5, Committed
  <2> QED
    BY <1>0, <1>5, <2>1, Committed, StaysAccepted
<1>6. ASSUME NEW s \in Saves, saves[s].at \in {"open", "ready"}, Abandons(s) PROVE SavesFiled'
  BY <1>0, <1>6, Refusing, StaysAccepted DEF Abandons
<1> QED
  BY <1>1, <1>2, <1>3, <1>4, <1>5, <1>6, StepCases

LEMMA ReadsStep ==
    ASSUME TypeOK, SavesFiled, ReadsHold, [Next]_vars
    PROVE  ReadsHold'
<1> USE DEF ReadsHold, IsNew, HasRow, Underway
<1>1. CASE Elsewhere
  BY <1>1, ElsewhereFrame
<1>2. CASE Restarts
  BY <1>2, Restarted
<1>3. ASSUME NEW s \in Saves, Opens(s) PROVE ReadsHold'
  <2>1. PICK p \in Posts :
            /\ Creates(s, p) \/ HasRow(p)
            /\ saves'[s].post = p /\ saves'[s].read = rows[p]
    BY <1>3, Opened
  <2>2. \A t \in Saves \ {s} : saves'[t] = saves[t]
    BY <1>3, Opened
  <2>3. rows' = rows
    BY <1>3, Opened
  <2>4. \A t \in Saves \ {s} : Underway(t) /\ IsNew(t) => saves[t].post # p
    BY <2>1 DEF Creates
  <2> QED
    BY <2>1, <2>2, <2>3, <2>4 DEF Creates
<1>4. ASSUME NEW s \in Saves, Prepares(s), saves'[s].at # "refused" PROVE ReadsHold'
  <2>1. \A t \in Saves : saves'[t].post = saves[t].post /\ saves'[t].read = saves[t].read
    BY <1>4, Prepared
  <2>2. \A t \in Saves : saves'[t].at \in {"open", "ready"} => saves[t].at \in {"open", "ready"}
    BY <1>4, Prepared
  <2> QED
    BY <1>4, <2>1, <2>2, Prepared
<1>5. ASSUME NEW s \in Saves, Commits(s) PROVE ReadsHold'
  <2> DEFINE p == saves[s].post
  <2>1. /\ \A t \in Saves : saves'[t].post = saves[t].post /\ saves'[t].read = saves[t].read
        /\ \A t \in Saves : saves'[t].at \in {"open", "ready"} => t # s /\ saves[t].at \in {"open", "ready"}
    BY <1>5, Committed
  <2>2. p \in Posts /\ rows'[p] = Result(s) /\ \A q \in Posts \ {p} : rows'[q] = rows[q]
    BY <1>5, Committed DEF SavesFiled, TypeOK
  <2>3. Result(s) # None
    <3>1. Result(s) \in Articles
      BY <1>5, Written DEF Commits
    <3> QED
      BY <3>1, NoneAssumption
  <2>4. \A t \in Saves \ {s} : Underway(t) /\ saves[t].post = p => ~IsNew(t) /\ ~IsNew(s)
    BY <1>5, Committed
  <2>5. ~IsNew(s) /\ rows[p].published # None => Result(s).published # None
    <3>1. saves[s].at = "ready" /\ saves[s].now # None
      BY <1>5, Committed DEF SavesFiled
    <3>2. ~IsNew(s) => Result(s).published = IF FirstPublication(s) THEN saves[s].now ELSE rows[p].published
      BY <3>1, Written
    <3> QED
      BY <3>1, <3>2
  <2>6. \A t \in Saves : Underway(t) => saves[t].post \in Posts
    BY DEF SavesFiled
  <2> HIDE DEF p
  <2> QED
    BY <2>1, <2>2, <2>3, <2>4, <2>5, <2>6 DEF p
<1>6. ASSUME NEW s \in Saves, saves[s].at \in {"open", "ready"}, Abandons(s) PROVE ReadsHold'
  <2>1. \A t \in Saves : saves'[t].at \in {"open", "ready"} => t # s /\ saves'[t] = saves[t]
    BY <1>6, Refusing DEF Abandons
  <2>2. \A t \in Saves : saves'[t].post = saves[t].post
    BY <1>6, Refusing DEF Abandons
  <2> QED
    BY <1>6, <2>1, <2>2 DEF Abandons
<1> QED
  BY <1>1, <1>2, <1>3, <1>4, <1>5, <1>6, StepCases

-----------------------------------------------------------------------------
(* Rows *)

\* A save that committed is never touched again.
LEMMA SavedStays ==
    ASSUME TypeOK, [Next]_vars, NEW t \in Saves, saves[t].at = "saved"
    PROVE  /\ saves'[t].at = "saved" /\ saves'[t].post = saves[t].post
           /\ saves'[t].now = saves[t].now /\ saves'[t].form = saves[t].form
           /\ saves'[t].overtaken = saves[t].overtaken /\ saves'[t].read = saves[t].read
           /\ saves'[t].text = saves[t].text
<1>1. CASE Elsewhere
  BY <1>1, ElsewhereFrame
<1>2. CASE Restarts
  BY <1>2, Restarted DEF Underway
<1>3. ASSUME NEW s \in Saves, Opens(s) PROVE t # s /\ saves'[t] = saves[t]
  BY <1>3, Opened
<1>4. ASSUME NEW s \in Saves, Prepares(s), saves'[s].at # "refused" PROVE t # s /\ saves'[t] = saves[t]
  BY <1>4, Prepared
<1>5. ASSUME NEW s \in Saves, Commits(s) PROVE t # s /\ saves'[t] = saves[t]
  BY <1>5, Committed
<1>6. ASSUME NEW s \in Saves, saves[s].at \in {"open", "ready"}, Abandons(s)
      PROVE  t # s /\ saves'[t] = saves[t]
  BY <1>6, Refusing DEF Abandons
<1> QED
  BY <1>1, <1>2, <1>3, <1>4, <1>5, <1>6, StepCases

\* Only a commit changes a row, and only that of its post.
LEMMA RowsChange ==
    ASSUME TypeOK, [Next]_vars
    PROVE  rows' = rows \/ \E s \in Saves : Commits(s)
BY StepCases, ElsewhereFrame, Restarted, Opened, Prepared DEF Abandons

\* What it left stays what it left.
LEMMA LeftStays ==
    ASSUME TypeOK, [Next]_vars, NEW s \in Saves, NEW state, NEW text, NEW time,
           IsLeftBy(s, state, text, time)
    PROVE  IsLeftBy(s, state, text, time)'
BY SavedStays DEF IsLeftBy, Text

LEMMA CommitLeaves ==
    ASSUME TypeOK, SavesFiled, ReadsHold, RowsSaved, NEW s \in Saves, Commits(s)
    PROVE  /\ saves'[s].at = "saved" /\ saves'[s].now = Result(s).updated
           /\ \/ saves'[s].overtaken
              \/ saves'[s].form.state = Result(s).state /\ Text(s)' = Result(s).text
           /\ Result(s).state = "published" => Result(s).published # None
<1> DEFINE form == saves[s].form
           read == saves[s].read
           row == rows[saves[s].post]
<1>1. /\ saves[s].at = "ready" /\ saves[s].now # None /\ saves[s].post \in Posts
      /\ form.state \in {"draft", "published"}
  BY Committed, FormsAssumption DEF SavesFiled
<1>2. /\ saves'[s].at = "saved" /\ saves'[s].now = saves[s].now
      /\ saves'[s].form = form /\ saves'[s].overtaken = (read # row)
      /\ Text(s)' = Text(s)
  BY Committed DEF Text
<1>3. Result(s).updated = saves[s].now
  BY <1>1, Written
<1>4. CASE IsNew(s)
  <2>1. /\ Result(s).state = form.state /\ Result(s).text = Text(s)
        /\ Result(s).published = IF form.state = "published" THEN saves[s].now ELSE None
    BY <1>1, <1>4, Written
  <2> QED
    BY <1>1, <1>2, <1>3, <2>1
<1>5. CASE ~IsNew(s)
  <2>1. /\ Result(s).state = IF form.state # read.state THEN form.state ELSE row.state
        /\ Result(s).text = IF Text(s) # read.text THEN Text(s) ELSE row.text
        /\ Result(s).published = IF FirstPublication(s) THEN saves[s].now ELSE row.published
    BY <1>1, <1>5, Written
  <2>2. row # None /\ (read.published # None => row.published # None)
    BY <1>1, <1>5 DEF ReadsHold, Underway, HasRow
  <2>3. row.state = "published" => row.published # None
    BY <1>1, <2>2 DEF RowsSaved, HasRow
  <2>4. Result(s).state = "published" => Result(s).published # None
    BY <1>1, <2>1, <2>2, <2>3 DEF FirstPublication
  <2>5. read = row => Result(s).state = form.state /\ Result(s).text = Text(s)
    BY <2>1
  <2> QED
    BY <1>2, <1>3, <2>4, <2>5
<1> QED
  BY <1>4, <1>5

LEMMA RowsStep ==
    ASSUME TypeOK, SavesFiled, ReadsHold, RowsSaved, [Next]_vars
    PROVE  RowsSaved'
<1> DEFINE Row(p) == /\ \E s \in Saves : IsLeftBy(s, rows[p].state, rows[p].text, rows[p].updated)
                     /\ rows[p].state = "published" => rows[p].published # None
<1>1. ASSUME NEW p \in Posts, HasRow(p)', rows'[p] = rows[p] PROVE Row(p)'
  <2>1. Row(p)
    BY <1>1 DEF RowsSaved, HasRow
  <2>2. PICK s \in Saves : IsLeftBy(s, rows[p].state, rows[p].text, rows[p].updated)
    BY <2>1
  <2>3. IsLeftBy(s, rows[p].state, rows[p].text, rows[p].updated)'
    <3>1. PICK state, text, time : state = rows[p].state /\ text = rows[p].text /\ time = rows[p].updated
      OBVIOUS
    <3>2. IsLeftBy(s, state, text, time)'
      BY <2>2, <3>1, LeftStays
    <3> QED
      BY <1>1, <3>1, <3>2 DEF IsLeftBy
  <2> QED
    BY <1>1, <2>1, <2>3
<1>2. CASE rows' = rows
  BY <1>1, <1>2 DEF RowsSaved
<1>3. ASSUME NEW s \in Saves, Commits(s) PROVE RowsSaved'
  <2>1. PICK p \in Posts : p = saves[s].post
    BY <1>3, Committed DEF SavesFiled
  <2>2. rows'[p] = Result(s) /\ \A q \in Posts \ {p} : rows'[q] = rows[q]
    BY <1>3, <2>1, Committed DEF TypeOK
  <2>3. Row(p)'
    BY <1>3, <2>2, CommitLeaves DEF IsLeftBy
  <2>4. \A q \in Posts \ {p} : HasRow(q)' => Row(q)'
    BY <1>1, <2>2
  <2> HIDE DEF Row
  <2>5. \A q \in Posts : HasRow(q)' => Row(q)'
    BY <2>3, <2>4
  <2> QED
    BY <2>5 DEF RowsSaved, Row
<1> QED
  BY <1>2, <1>3, RowsChange

LEMMA SlugsStep ==
    ASSUME TypeOK, SavesFiled, ReadsHold, SlugsDiffer, [Next]_vars
    PROVE  SlugsDiffer'
<1>1. CASE rows' = rows
  BY <1>1 DEF SlugsDiffer, HasRow
<1>2. ASSUME NEW s \in Saves, Commits(s) PROVE SlugsDiffer'
  <2> DEFINE p == saves[s].post
  <2>1. p \in Posts /\ rows' = [rows EXCEPT ![p] = Result(s)]
    BY <1>2, Committed DEF SavesFiled
  <2>2. \A q \in Posts \ {p} : rows[q] # None => rows[q].slug # Result(s).slug
    BY <1>2, Committed DEF SlugIsTaken, HasRow
  <2> HIDE DEF p
  <2> QED
    BY <2>1, <2>2 DEF SlugsDiffer, HasRow, TypeOK
<1> QED
  BY <1>1, <1>2, RowsChange

-----------------------------------------------------------------------------
(* Readers *)

LEMMA PageStep ==
    ASSUME TypeOK, RowsSaved, PageSaved, [Next]_vars
    PROVE  PageSaved'
<1>1. CASE page' = page
  <2>1. CASE page = None
    BY <1>1, <2>1 DEF PageSaved
  <2>2. CASE page # None
    <3>1. PICK text, time : text = page.text /\ time = page.saved
      OBVIOUS
    <3>2. PICK s \in Saves : IsLeftBy(s, "published", text, time)
      BY <2>2, <3>1 DEF PageSaved
    <3>3. IsLeftBy(s, "published", text, time)'
      BY <3>2, LeftStays
    <3> QED
      BY <1>1, <2>2, <3>1, <3>3 DEF PageSaved, IsLeftBy
  <2> QED
    BY <2>1, <2>2
<1>2. ASSUME NEW p \in Posts, ReadsCase(p) PROVE PageSaved'
  <2>1. PICK s \in Saves : IsLeftBy(s, "published", rows[p].text, rows[p].updated)
    BY <1>2 DEF ReadsCase, IsPublic, RowsSaved
  <2>2. /\ page'.text = rows[p].text /\ page'.saved = rows[p].updated
        /\ page'.version = page'.saved /\ saves' = saves
    BY <1>2 DEF ReadsCase, CoverVersion
  <2> QED
    BY <2>1, <2>2 DEF PageSaved, IsLeftBy, Text
<1>3. page' = page \/ \E p \in Posts : ReadsCase(p)
  BY DEF Next, LogsIn, LogsOut, Ticks, Restarts, Opens, Prepares, Commits, Collides, FetchesCover, vars
<1> QED
  BY <1>1, <1>2, <1>3

LEMMA CacheStep ==
    ASSUME TypeOK, SavesFiled, ReadsHold, RowsSaved, ReadersInv, [Next]_vars
    PROVE  CacheSaved'
<1> USE DEF ReadersInv, CoverVersion
<1>1. ASSUME NEW kept \in cache
      PROVE  \E s \in Saves : saves'[s].at = "saved" /\ kept.url[2] = saves'[s].now
  BY <1>1, SavedStays DEF CacheSaved
<1>2. CASE rows' = rows /\ cache' = cache
  BY <1>1, <1>2 DEF CacheSaved, HasRow
<1>3. ASSUME NEW p \in Posts, FetchesCover(p) PROVE CacheSaved'
  <2> DEFINE new == [url |-> CoverUrl, bytes |-> rows[p].bytes]
  <2>1. cache' = cache \cup {new} /\ rows' = rows /\ saves' = saves
    BY <1>3 DEF FetchesCover
  <2>2. new.url = <<page.slug, page.version>> /\ new.bytes = rows[p].bytes
    BY DEF CoverUrl
  <2>3. \E s \in Saves : saves[s].at = "saved" /\ new.url[2] = saves[s].now
    BY <1>3, <2>2 DEF FetchesCover, PageSaved, IsLeftBy
  <2>4. \A q \in Posts : HasRow(q) /\ new.url = <<rows[q].slug, rows[q].updated>> => q = p
    <3>1. HasRow(p) /\ rows[p].slug = page.slug
      BY <1>3 DEF FetchesCover, IsPublic
    <3> QED
      BY <2>2, <3>1 DEF SlugsDiffer
  <2> HIDE DEF new
  <2> QED
    BY <2>1, <2>2, <2>3, <2>4 DEF CacheSaved, HasRow
<1>4. ASSUME NEW s \in Saves, Commits(s) PROVE CacheSaved'
  <2> DEFINE p == saves[s].post
  <2>1. /\ p \in Posts /\ rows' = [rows EXCEPT ![p] = Result(s)] /\ cache' = cache
        /\ saves[s].at = "ready" /\ saves[s].now # None
    BY <1>4, Committed DEF SavesFiled
  <2>2. rows'[p] = Result(s) /\ \A q \in Posts \ {p} : rows'[q] = rows[q]
    BY <2>1 DEF TypeOK
  <2>3. Result(s).updated = saves[s].now
    BY <2>1, Written
  <2>4. \A kept \in cache : kept.url[2] # saves[s].now
    BY <2>1 DEF CacheSaved, SavesFiled
  <2>5. \A kept \in cache : kept.url # <<Result(s).slug, Result(s).updated>>
    BY <2>3, <2>4
  <2> HIDE DEF p
  <2> QED
    BY <1>1, <2>1, <2>2, <2>5 DEF CacheSaved, HasRow
<1>5. \/ rows' = rows /\ cache' = cache
      \/ \E p \in Posts : FetchesCover(p)
      \/ \E s \in Saves : Commits(s)
  BY DEF Next, LogsIn, LogsOut, Ticks, Restarts, Opens, Prepares, Collides, ReadsCase, vars
<1> QED
  BY <1>2, <1>3, <1>4, <1>5

-----------------------------------------------------------------------------
(* Theorems *)

LEMMA IInvInit == Init => IInv
<1> SUFFICES ASSUME Init PROVE IInv
  OBVIOUS
<1>1. TypeOK
  BY DEF Init, TypeOK, Fresh, SaveRecords, Phases
<1>2. SavesFiled /\ ReadsHold
  BY DEF Init, Fresh, SavesFiled, ReadsHold, Underway
<1>3. RowsSaved /\ SlugsDiffer /\ PageSaved /\ CacheSaved
  BY DEF Init, RowsSaved, SlugsDiffer, PageSaved, CacheSaved, HasRow
<1> QED
  BY <1>1, <1>2, <1>3 DEF IInv, ReadersInv

LEMMA IInvStep == IInv /\ [Next]_vars => IInv'
BY TypeStep, FilesStep, ReadsStep, RowsStep, SlugsStep, PageStep, CacheStep DEF IInv, ReadersInv

THEOREM Invariance == Spec => []IInv
BY IInvInit, IInvStep, PTL DEF Spec

\* Rows and saves keep their types: what an overlapping UPDATE leaves is a row.
THEOREM TypeCorrect == Spec => []TypeOK
<1>1. IInv => TypeOK
  BY DEF IInv
<1> QED
  BY <1>1, Invariance, PTL

\* list_published_posts and get_published_post hide nothing that is marked published: it
\* has its time.
THEOREM Stamped == Spec => []PublishedIsStamped
<1>1. IInv => PublishedIsStamped
  BY DEF IInv, RowsSaved, PublishedIsStamped
<1> QED
  BY <1>1, Invariance, PTL

\* repo.get_published_post: what a reader sees was submitted for publication, word for
\* word, by the save that left it, unless that save overtook another.
THEOREM DraftsPrivate == Spec => []DraftsStayPrivate
<1>1. IInv => DraftsStayPrivate
  BY DEF IInv, ReadersInv, PageSaved, IsLeftBy, DraftsStayPrivate
<1> QED
  BY <1>1, Invariance, PTL

\* cover_version: the address of a cover changes with every save, so that what is kept
\* under the address a page gives is the cover of that page.
THEOREM CoversCurrent == Spec => []KeptCoversAreCurrent
<1>1. IInv => KeptCoversAreCurrent
  BY DEF IInv, ReadersInv, CacheSaved, KeptCoversAreCurrent, IsPublic
<1> QED
  BY <1>1, Invariance, PTL

\* The three columns of a cover agree when all are set or none is.
LEMMA WholeCover ==
    ASSUME NEW row
    PROVE  Whole(row) <=> /\ row.bytes = None <=> row.media = None
                          /\ row.media = None <=> row.alts = None
<1> DEFINE a == row.bytes = None
           b == row.media = None
           c == row.alts = None
<1>1. IsFiniteSet({a, b, c})
  <2> HIDE DEF a, b, c
  <2>1. IsFiniteSet({} \cup {a}) /\ {} \cup {a} = {a}
    BY FS_EmptySet, FS_AddElement
  <2>2. IsFiniteSet({a} \cup {b}) /\ {a} \cup {b} = {a, b}
    BY <2>1, FS_AddElement
  <2>3. IsFiniteSet({a, b} \cup {c}) /\ {a, b} \cup {c} = {a, b, c}
    BY <2>2, FS_AddElement
  <2> QED
    BY <2>3
<1>2. Cardinality({a, b, c}) = 1 <=> \E x : {a, b, c} = {x}
  BY <1>1, FS_Singleton
<1>3. (\E x : {a, b, c} = {x}) <=> a = b /\ b = c
  <2> HIDE DEF a, b, c
  <2> QED
    OBVIOUS
<1>4. a \in BOOLEAN /\ b \in BOOLEAN /\ c \in BOOLEAN
  OBVIOUS
<1>5. (a = b /\ b = c) <=> ((a <=> b) /\ (b <=> c))
  BY <1>4
<1> QED
  BY <1>2, <1>3, <1>5 DEF Whole

\* A cover prepared from the row it is applied to leaves a whole cover whole.
LEMMA CoverApplied ==
    ASSUME TypeOK, NEW s \in Saves, NEW f, NEW row \in Articles, NEW read \in Articles \cup {None},
           IF read = None THEN row.media = None /\ row.alts = None
                          ELSE row.media = read.media /\ row.alts = read.alts,
           Whole(row)
    PROVE  LET had == read # None /\ Covered(read)
               after == ApplyCover(row, PreparedCover(s, f, had), read)
           IN  Whole(after)
<1> DEFINE had == read # None /\ Covered(read)
           cover == PreparedCover(s, f, had)
           after == ApplyCover(row, cover, read)
<1>0. /\ s # None /\ "webp" # None /\ row.media \in {"webp", None}
      /\ Captions(s) # None
  BY NoneAssumption, WorkOfSaves DEF Articles
<1>1. CASE f.remove
  <2>1. cover.kind = "clear" /\ cover.alts = None
    BY <1>1 DEF PreparedCover, ClearCover
  <2>2. after.bytes = None /\ after.media = None /\ after.alts = None
    <3> HIDE DEF cover
    <3> QED
      BY <1>0, <2>1 DEF ApplyCover, Articles
  <2>3. Whole(after)
    <3> HIDE DEF after
    <3> QED
      BY <2>2, WholeCover
  <2> QED
    BY <2>3
<1>2. CASE ~f.remove /\ f.image = "image"
  <2>1. cover.kind = "upload" /\ cover.bytes = s /\ cover.alts = Captions(s)
    BY <1>2 DEF PreparedCover
  <2>2. after.bytes = s /\ after.media = "webp" /\ after.alts = Captions(s)
    <3> HIDE DEF cover
    <3> QED
      BY <1>0, <2>1 DEF ApplyCover, Articles
  <2>3. Whole(after)
    <3> HIDE DEF after
    <3> QED
      BY <1>0, <2>2, WholeCover
  <2> QED
    BY <2>3
<1>3. CASE ~f.remove /\ f.image # "image" /\ had
  <2>1. cover.kind = "alts" /\ cover.alts = Captions(s)
    BY <1>3 DEF PreparedCover
  <2>2. after.bytes = row.bytes /\ after.media = row.media /\ after.alts = Captions(s)
    <3> HIDE DEF cover
    <3> QED
      BY <2>1 DEF ApplyCover, Articles
  <2>3. row.media # None
    BY <1>3 DEF Covered
  <2>4. Whole(after)
    <3> HIDE DEF after
    <3> QED
      BY <1>0, <2>2, <2>3, WholeCover
  <2> QED
    BY <2>4
<1>4. CASE ~f.remove /\ f.image # "image" /\ ~had
  <2>1. cover.kind = "keep"
    BY <1>4 DEF PreparedCover, NoCover
  <2>2. after = row
    <3> HIDE DEF cover
    <3> QED
      BY <2>1 DEF ApplyCover
  <2>3. Whole(after)
    <3> HIDE DEF after
    <3> QED
      BY <2>2
  <2> QED
    BY <2>3
<1> QED
  BY <1>1, <1>2, <1>3, <1>4

\* update_post and create_post: what a save that overtook nobody leaves.
LEMMA SubmittedIsSaved ==
    ASSUME IInv, NEW s \in Saves, Commits(s), ~saves'[s].overtaken
    PROVE  StoredAsSubmitted(s)
<1> DEFINE form == saves[s].form
           before == saves[s].read
           after == Result(s)
           cover == PreparedCover(s, form, HadCover(s))
<1>1. /\ saves[s].at = "ready" /\ saves[s].post \in Posts /\ form \in Forms
      /\ form.slug \in Slugs /\ form.state \in {"draft", "published"}
      /\ saves[s].now \in Nat /\ saves[s].cover = cover
  BY Committed, FormsAssumption DEF IInv, SavesFiled, IsAccepted, TypeOK, SaveRecords
<1>2. rows'[saves[s].post] = after
  BY <1>1, Committed DEF IInv, TypeOK
<1>3. before = rows[saves[s].post]
  BY Committed DEF IInv
<1>4. Text(s) \in Saves
  BY WorkOfSaves DEF IInv
<1>5. PICK row \in Articles :
        /\ after = ApplyCover(row, cover, before)
        /\ before \in Articles \cup {None}
        /\ IF before = None THEN row.bytes = None /\ row.media = None /\ row.alts = None
           ELSE row.bytes = before.bytes /\ row.media = before.media /\ row.alts = before.alts
  <2>1. CASE IsNew(s)
    <3> DEFINE blank == [slug |-> form.slug, state |-> form.state, text |-> Text(s),
                         bytes |-> None, media |-> None, alts |-> None, updated |-> saves[s].now,
                         published |-> IF form.state = "published" THEN saves[s].now ELSE None]
    <3>1. /\ blank \in Articles /\ blank.bytes = None /\ blank.media = None /\ blank.alts = None
      BY <1>1, <1>4 DEF Articles
    <3>2. after = ApplyCover(blank, cover, before)
      BY <1>1, <2>1 DEF Result, Created, IsNew
    <3> HIDE DEF blank, cover, after
    <3> QED
      BY <2>1, <3>1, <3>2 DEF IsNew
  <2>2. CASE ~IsNew(s)
    <3>0. before \in Articles /\ before # None
      BY <1>3, <1>1, <2>2 DEF IsNew, IInv, TypeOK
    <3> DEFINE next == [before EXCEPT
                          !.slug  = IF form.slug # before.slug THEN form.slug ELSE before.slug,
                          !.state = IF form.state # before.state THEN form.state ELSE before.state,
                          !.text  = IF Text(s) # before.text THEN Text(s) ELSE before.text,
                          !.updated = saves[s].now,
                          !.published = IF FirstPublication(s) THEN saves[s].now ELSE before.published]
    <3>1. /\ next \in Articles /\ next.bytes = before.bytes /\ next.media = before.media
          /\ next.alts = before.alts
      <4>1. PICK slug, state, text, published :
                /\ slug = IF form.slug # before.slug THEN form.slug ELSE before.slug
                /\ state = IF form.state # before.state THEN form.state ELSE before.state
                /\ text = IF Text(s) # before.text THEN Text(s) ELSE before.text
                /\ published = IF FirstPublication(s) THEN saves[s].now ELSE before.published
        OBVIOUS
      <4>2. /\ slug \in Slugs /\ state \in {"draft", "published"}
            /\ text \in Saves /\ published \in Nat \cup {None}
        BY <1>1, <1>4, <3>0, <4>1 DEF Articles
      <4>3. next = [before EXCEPT !.slug = slug, !.state = state, !.text = text,
                                  !.updated = saves[s].now, !.published = published]
        BY <4>1
      <4> HIDE DEF next
      <4> QED
        BY <1>1, <3>0, <4>2, <4>3 DEF Articles
    <3>2. after = ApplyCover(next, cover, before)
      BY <1>1, <1>3, <2>2, <3>0 DEF Result, Updated, IsNew, Articles
    <3> HIDE DEF next, cover, after
    <3> QED
      BY <3>0, <3>1, <3>2
  <2> QED
    BY <2>1, <2>2
<1>6. after.slug = form.slug /\ after.state = form.state /\ after.text = Text(s)
  <2>1. CASE IsNew(s)
    BY <1>1, <2>1, Written DEF IInv
  <2>2. CASE ~IsNew(s)
    <3>1. /\ after.slug = IF form.slug # before.slug THEN form.slug ELSE rows[saves[s].post].slug
          /\ after.state = IF form.state # before.state THEN form.state ELSE rows[saves[s].post].state
          /\ after.text = IF Text(s) # before.text THEN Text(s) ELSE rows[saves[s].post].text
      BY <1>1, <2>2, Written DEF IInv
    <3> HIDE DEF after
    <3> QED
      BY <1>3, <3>1
  <2> QED
    BY <2>1, <2>2
<1>7. form.state = "draft" \/ (~IsNew(s) /\ before.published # None) =>
        after.published = IF IsNew(s) THEN None ELSE before.published
  BY <1>1, <1>3, Written DEF IInv, FirstPublication
<1>8. IsNew(s) \/ Whole(before) => Whole(after)
  <2>1. SUFFICES ASSUME IsNew(s) \/ Whole(before) PROVE Whole(after)
    OBVIOUS
  <2>2. Whole(row)
    BY <1>5, <2>1, WholeCover DEF IsNew
  <2>3. HadCover(s) <=> (before # None /\ Covered(before))
    BY DEF HadCover, IsNew
  <2>4. Whole(ApplyCover(row, PreparedCover(s, form, before # None /\ Covered(before)), before))
    BY <1>5, <2>2, CoverApplied DEF IInv
  <2> QED
    BY <1>5, <2>4 DEF HadCover, IsNew
<1>9. after.bytes = IF form.remove THEN None
                    ELSE IF form.image = "image" THEN s
                    ELSE IF IsNew(s) THEN None ELSE before.bytes
  <2>1. form.remove => cover.kind = "clear"
    BY DEF PreparedCover, ClearCover
  <2>2. form.image = "image" /\ ~form.remove => cover.kind = "upload" /\ cover.bytes = s
    BY DEF PreparedCover
  <2>3. form.image # "image" /\ ~form.remove => cover.kind \in {"alts", "keep"}
    BY DEF PreparedCover, NoCover
  <2>4. row.bytes = IF IsNew(s) THEN None ELSE before.bytes
    BY <1>5 DEF IsNew
  <2> HIDE DEF cover
  <2> QED
    BY <1>5, <2>1, <2>2, <2>3, <2>4 DEF ApplyCover, Articles
<1> QED
  BY <1>2, <1>6, <1>7, <1>8, <1>9 DEF StoredAsSubmitted

\* A save that overtook nobody does what its form says, and keeps the time of the
\* first publication.
THEOREM Submitted == Spec => SavedAsSubmitted
<1>1. ASSUME IInv, [Next]_vars, NEW s \in Saves, Saved(s), ~saves'[s].overtaken PROVE StoredAsSubmitted(s)
  <2>1. Commits(s)
    <3>1. saves[s].at # "saved" /\ saves'[s].at = "saved" /\ TypeOK
      BY <1>1 DEF Saved, IInv
    <3>2. ~Elsewhere
      BY <3>1, ElsewhereFrame
    <3>3. ~Restarts
      BY <3>1, Restarted
    <3>4. ASSUME NEW t \in Saves,
                 \/ Opens(t)
                 \/ Prepares(t) /\ saves'[t].at # "refused"
                 \/ saves[t].at \in {"open", "ready"} /\ Abandons(t)
          PROVE  FALSE
      BY <3>1, <3>4, Opened, Prepared, Refusing DEF Abandons
    <3>5. \A t \in Saves : Commits(t) => t = s
      BY <3>1, Committed
    <3> QED
      BY <1>1, <3>1, <3>2, <3>3, <3>4, <3>5, StepCases
  <2> QED
    BY <1>1, <2>1, SubmittedIsSaved
<1>2. IInv /\ [Next]_vars => [\A s \in Saves : Saved(s) /\ ~saves'[s].overtaken => StoredAsSubmitted(s)]_vars
  BY <1>1
<1> QED
  BY <1>2, Invariance, PTL DEF Spec, SavedAsSubmitted

=============================================================================
