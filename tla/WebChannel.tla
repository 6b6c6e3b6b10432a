----------------------------- MODULE WebChannel -----------------------------
(***************************************************************************)
(* The anonymous web channel before and around run_check: the signed       *)
(* session cookie (app/web/session.py), the guards on bodies, origins,     *)
(* uploads and addresses (app/web/abuse.py), and GET and POST /check       *)
(* (app/web/routes.py), for one browser that sends several requests at     *)
(* once, against the consent rows, through deploys with another notice or  *)
(* another secret.                                                         *)
(*                                                                         *)
(* The counters themselves, with their transactions, are in CheckQuota:    *)
(* here a request is charged to its address or it is not.                  *)
(***************************************************************************)
EXTENDS Integers, Sequences, FiniteSets

CONSTANTS
    Requests,   \* the POSTs to /check
    Forms,      \* what they may hold, and how they may reach the process
    Servers,    \* settings: notice_version, web_session_secret, turnstile_secret
    FirstServer,
    Addresses, TrustedPeers, NoAddress,
    DailyLimit, \* web_daily_limit
    NoCookie, NoRow, NoSeen,
    MaxDeploys, MaxSessions   \* bounds

ASSUME AddressesAssumption == TrustedPeers \subseteq Addresses /\ NoAddress \notin Addresses
ASSUME ServersAssumption == FirstServer \in Servers /\ \A s \in Servers : s.notice # NoRow
ASSUME BoundsAssumption == {DailyLimit, MaxDeploys, MaxSessions} \subseteq Nat
ASSUME FormsAssumption ==
    \A f \in Forms :
        /\ f.body \in {"fits", "declared", "streamed"} /\ f.fetchSite \in {"same", "cross"}
        /\ f.ticked \in BOOLEAN /\ f.solved \in BOOLEAN
        /\ f.text \in {"none", "fits", "long"} /\ f.image \in {"none", "fits", "large"}
        /\ {f.peer, f.source} \subseteq Addresses \cup {NoAddress}
        /\ f.forwarded \in Seq(Addresses \cup {NoAddress})

\* nginx: X-Real-IP is the peer it saw, and X-Forwarded-For ends with it; a proxy
\* that sets only the latter will do as well. Without a proxy the peer is the source.
ReachesUsAs(f, source) ==
    \/ f.peer \notin TrustedPeers /\ f.peer = source
    \/ f.peer \in TrustedPeers /\ source \in Addresses /\ f.realIp = source
    \/ /\ f.peer \in TrustedPeers /\ source \in Addresses /\ f.realIp \notin Addresses
       /\ f.forwarded # <<>> /\ f.forwarded[Len(f.forwarded)] = source

ASSUME SourceAssumption == \A f \in Forms : ReachesUsAs(f, f.source)

VARIABLES
    server,     \* the settings of the running process
    deploys,    \* how often it was replaced
    jar,        \* the browser's cookie: the session id and the secret that signed it
    minted,     \* the session ids handed out
    rows,       \* the consent rows: the notice accepted, by user key
    pc,         \* where each request stands
    req,        \* what it was sent with, its user key, the row it read
    charged,    \* the requests that hold a slot of an address
    ticked,     \* history: the notices each user key was ticked for, and answered
    agreed,     \* history: the acceptances that were stored and stand
    consented   \* history: the requests let past the gate with their user's consent

consents == <<agreed, consented>>
vars == <<server, deploys, jar, minted, rows, pc, req, charged, ticked, consents>>

Ids == 1..MaxSessions

-----------------------------------------------------------------------------
(* Sessions: a user key is derived from the session id with the secret *)

\* _unsign
Valid(cookie) == cookie # NoCookie /\ cookie.secret = server.secret

Keys == [id : Ids, secret : {s.secret : s \in Servers}]

\* Bug: the cookie that came is not looked at.
MutantSession(cookie) == [id |-> minted + 1, secret |-> server.secret]

\* get_or_create_web_session; the signed cookie that carries a user key is named by
\* the same id and secret.
Session(cookie) ==
    IF Valid(cookie) THEN cookie ELSE [id |-> minted + 1, secret |-> server.secret]

Minting(session) == minted' = IF session.id > minted THEN session.id ELSE minted

-----------------------------------------------------------------------------
(* Whose address a request is charged to *)

\* Bug: the header is believed whoever sends it.
MutantClientIp(f) == IF f.realIp \in Addresses THEN f.realIp ELSE f.peer

\* client_ip_from_request
ClientIp(f) ==
    LET named == {i \in DOMAIN f.forwarded : f.forwarded[i] \in Addresses}
    IN  IF f.peer \notin TrustedPeers THEN f.peer
        ELSE IF f.realIp \in Addresses THEN f.realIp
        ELSE IF named # {} THEN f.forwarded[CHOOSE i \in named : \A j \in named : j <= i]
        ELSE f.peer

ChargedTo(a) == {r \in charged : ClientIp(req[r].form) = a}

-----------------------------------------------------------------------------
(* Requests *)

Unanswered == {"consent", "looking", "writing", "form", "engine"}
Answers == {"refused", "consent_error", "form_error", "rate_limited", "checked", "failed"}

Init ==
    /\ server = FirstServer
    /\ deploys = 0
    /\ jar = NoCookie
    /\ minted = 0
    /\ rows = [k \in Keys |-> NoRow]
    /\ pc = [r \in Requests |-> "idle"]
    /\ req = [r \in Requests |-> NoSeen]
    /\ charged = {}
    /\ ticked = {}
    /\ agreed = {}
    /\ consented = {}

Goto(r, label) == pc' = [pc EXCEPT ![r] = label]
Key(r) == req[r].key
Form(r) == req[r].form

\* The answer carries the session cookie (_partial), or it does not: an
\* HTTPException, or the handler of unexpected errors, sets none.
AnswerWithCookie(r, answer) == Goto(r, answer) /\ jar' = Key(r)
AnswerBare(r, answer)       == Goto(r, answer) /\ UNCHANGED jar

\* Once answered, only a request that holds a slot is of interest.
Closed(r) == req' = [req EXCEPT ![r] = IF r \in charged' THEN @ ELSE NoSeen]

\* An acceptance that was needed, and that the user was not told had failed.
IsTicked(r) ==
    ticked' = IF Form(r).ticked /\ req[r].seen # NoSeen THEN ticked \cup {<<Key(r), server.notice>>}
              ELSE ticked

\* GET /check
CheckPage ==
    LET session == Session(jar)
    IN  /\ session.id \in Ids
        /\ jar' = session /\ Minting(session)
    /\ UNCHANGED <<server, deploys, rows, pc, req, charged, ticked, consents>>

\* EphemeralRequestBodyLimitMiddleware and require_same_origin come before anything
\* is read of the session or the database.
Refuses(f) == f.body # "fits" \/ f.fetchSite = "cross"

Refused(r, f) ==
    /\ pc[r] = "idle" /\ Refuses(f)
    /\ AnswerBare(r, "refused")
    /\ UNCHANGED <<server, deploys, minted, rows, req, charged, ticked, consents>>

Arrives(r, f) ==
    /\ pc[r] = "idle" /\ ~ Refuses(f)
    /\ LET session == Session(jar)
       IN  /\ session.id \in Ids
           /\ req' = [req EXCEPT ![r] = [form |-> f, sent |-> jar, key |-> session, seen |-> NoSeen]]
           /\ Minting(session)
    /\ Goto(r, "consent")
    /\ UNCHANGED <<server, deploys, jar, rows, charged, ticked, consents>>

-----------------------------------------------------------------------------
(* _ensure_web_consent *)

\* Bug: any notice will do.
MutantIsConsentCurrent(row) == row # NoRow

IsConsentCurrent(row) == row # NoRow /\ row = server.notice

\* A request is let past the gate. Its user consents if he ticked the box of the
\* notice in force, in this request or in one whose acceptance stands.
Passes(r) ==
    /\ Goto(r, "form")
    /\ consented' = IF Form(r).ticked \/ <<Key(r), server.notice>> \in agreed
                    THEN consented \cup {r} ELSE consented

ConsentIsCurrent(r) ==
    /\ pc[r] = "consent" /\ IsConsentCurrent(rows[Key(r)])
    /\ Passes(r)
    /\ UNCHANGED <<server, deploys, jar, minted, rows, req, charged, ticked, agreed>>

ConsentIsAsked(r) ==
    /\ pc[r] = "consent" /\ ~ IsConsentCurrent(rows[Key(r)])
    /\ ~ Form(r).ticked
    /\ AnswerWithCookie(r, "consent_error")
    /\ UNCHANGED <<server, deploys, minted, rows, charged, ticked, consents>>
    /\ Closed(r)

\* upsert_consent reads again what get_consent did not find, and takes a row that it
\* did find out of the session.
ConsentIsTicked(r) ==
    /\ pc[r] = "consent" /\ ~ IsConsentCurrent(rows[Key(r)])
    /\ Form(r).ticked
    /\ req' = [req EXCEPT ![r].seen = rows[Key(r)]]
    /\ Goto(r, IF rows[Key(r)] = NoRow THEN "looking" ELSE "writing")
    /\ UNCHANGED <<server, deploys, jar, minted, rows, charged, ticked, consents>>

LooksAgain(r) ==
    /\ pc[r] = "looking"
    /\ req' = [req EXCEPT ![r].seen = rows[Key(r)]]
    /\ Goto(r, "writing")
    /\ UNCHANGED <<server, deploys, jar, minted, rows, charged, ticked, consents>>

\* An INSERT meets no row, an UPDATE meets the row it was read from.
Fits(r) == req[r].seen = NoRow <=> rows[Key(r)] = NoRow

\* Bug: the acceptance is left to a commit that a refusal never reaches.
MutantAccepts(r) ==
    /\ pc[r] = "writing" /\ Fits(r)
    /\ Passes(r)
    /\ UNCHANGED <<server, deploys, jar, minted, rows, req, charged, ticked, agreed>>

\* upsert_consent and its own commit; a user has one row, so that what he accepted
\* of another notice is gone.
Accepts(r) ==
    /\ pc[r] = "writing" /\ Fits(r)
    /\ rows' = [rows EXCEPT ![Key(r)] = server.notice]
    /\ ticked' = {t \in ticked : t[1] # Key(r) \/ t[2] = server.notice}
    /\ agreed' = {t \in agreed : t[1] # Key(r)}
                    \cup {t \in {<<Key(r), server.notice>>} : Form(r).ticked}
    /\ Passes(r)
    /\ UNCHANGED <<server, deploys, jar, minted, req, charged>>

\* IntegrityError, or StaleDataError after an expiry.
AcceptFails(r) ==
    /\ pc[r] = "writing" /\ ~ Fits(r)
    /\ AnswerBare(r, "failed")
    /\ UNCHANGED <<server, deploys, minted, rows, charged, ticked, consents>>
    /\ Closed(r)

-----------------------------------------------------------------------------
(* The rest of POST /check *)

TooLong(f)    == f.text = "long"
TooLarge(f)   == f.image = "large"
Unverified(f) == f.image = "fits" /\ ~ (server.turnstile /\ f.solved)
Empty(f)      == f.text = "none" /\ f.image = "none"

\* _form_limit_error comes first; then read_limited_upload and
\* require_turnstile_for_image raise; the check for an empty form is last.
RefusedWithCookie(f) == TooLong(f) \/ Empty(f)
RefusedBare(f)       == ~ TooLong(f) /\ (TooLarge(f) \/ Unverified(f))

FormError(r) ==
    /\ pc[r] = "form"
    /\ \/ RefusedWithCookie(Form(r)) /\ AnswerWithCookie(r, "form_error")
       \/ RefusedBare(Form(r)) /\ AnswerBare(r, "form_error")
    /\ IsTicked(r)
    /\ UNCHANGED <<server, deploys, minted, rows, charged, consents>>
    /\ Closed(r)

IsAdmissible(f) == ~ RefusedWithCookie(f) /\ ~ RefusedBare(f)

IsFull(a) == a # NoAddress /\ Cardinality(ChargedTo(a)) >= DailyLimit

\* _reserve_web_ip_limit
AddressIsFull(r) ==
    /\ pc[r] = "form" /\ IsAdmissible(Form(r))
    /\ IsFull(ClientIp(Form(r)))
    /\ AnswerWithCookie(r, "rate_limited")
    /\ IsTicked(r)
    /\ UNCHANGED <<server, deploys, minted, rows, charged, consents>>
    /\ Closed(r)

IsAdmitted(r) ==
    /\ pc[r] = "form" /\ IsAdmissible(Form(r))
    /\ ~ IsFull(ClientIp(Form(r)))
    /\ charged' = charged \cup {r}
    /\ Goto(r, "engine")
    /\ UNCHANGED <<server, deploys, jar, minted, rows, req, ticked, consents>>

\* run_check returns; an outcome that is not billable gives the slot back.
IsChecked(r) ==
    /\ pc[r] = "engine"
    /\ charged' \in {charged, charged \ {r}}
    /\ AnswerWithCookie(r, "checked")
    /\ IsTicked(r)
    /\ UNCHANGED <<server, deploys, minted, rows, consents>>
    /\ Closed(r)

\* run_check raises
CheckFails(r) ==
    /\ pc[r] = "engine"
    /\ charged' = charged \ {r}
    /\ AnswerBare(r, "failed")
    /\ UNCHANGED <<server, deploys, minted, rows, ticked, consents>>
    /\ Closed(r)

-----------------------------------------------------------------------------
(* Around the requests *)

\* The process is replaced; what is in flight gets no answer.
Deploy(s) ==
    /\ deploys < MaxDeploys /\ s # server
    /\ server' = s /\ deploys' = deploys + 1
    /\ pc' = [r \in Requests |-> IF pc[r] \in Unanswered THEN "lost" ELSE pc[r]]
    /\ req' = [r \in Requests |-> IF r \in charged THEN req[r] ELSE NoSeen]
    /\ UNCHANGED <<jar, minted, rows, charged, ticked, consents>>

\* cleanup_expired: not a row that a request in flight has just written.
Expires(k) ==
    /\ rows[k] # NoRow
    /\ \A r \in Requests : pc[r] \in {"form", "engine"} /\ Key(r) = k => req[r].seen = NoSeen
    /\ rows' = [rows EXCEPT ![k] = NoRow]
    /\ ticked' = {t \in ticked : t[1] # k}
    /\ agreed' = {t \in agreed : t[1] # k}
    /\ UNCHANGED <<server, deploys, jar, minted, pc, req, charged, consented>>

\* The cookie is 90 days old, or the user removes it.
CookieIsGone ==
    /\ jar # NoCookie
    /\ jar' = NoCookie
    /\ UNCHANGED <<server, deploys, minted, rows, pc, req, charged, ticked, consents>>

Handles(r) ==
    \/ ConsentIsCurrent(r) \/ ConsentIsAsked(r) \/ ConsentIsTicked(r)
    \/ LooksAgain(r) \/ Accepts(r) \/ AcceptFails(r)
    \/ FormError(r) \/ AddressIsFull(r) \/ IsAdmitted(r) \/ IsChecked(r) \/ CheckFails(r)

Next ==
    \/ CheckPage \/ CookieIsGone
    \/ \E r \in Requests : Handles(r) \/ \E f \in Forms : Refused(r, f) \/ Arrives(r, f)
    \/ \E s \in Servers : Deploy(s)
    \/ \E k \in Keys : Expires(k)

Spec == Init /\ [][Next]_vars

-----------------------------------------------------------------------------
(* Properties *)

TypeOK ==
    /\ server \in Servers
    /\ deploys \in 0..MaxDeploys
    /\ jar \in Keys \cup {NoCookie}
    /\ minted \in 0..MaxSessions
    /\ rows \in [Keys -> {s.notice : s \in Servers} \cup {NoRow}]
    /\ pc \in [Requests -> {"idle", "lost"} \cup Unanswered \cup Answers]
    /\ charged \subseteq Requests
    /\ consented \subseteq Requests

\* Accepting the notice is a decision that is complete: a user who ticked the box in
\* a request that was answered, if only by a refusal, is not asked again by any
\* later or overlapping request of his session, until the row expires, the secret
\* changes, or he accepts another notice.
AcceptanceOutlivesRefusals ==
    [][\A r \in Requests :
         pc[r] # "consent_error" /\ pc'[r] = "consent_error" =>
            <<Key(r), server.notice>> \notin ticked]_vars

\* What reaches the engine, and keeps a slot of an address for it, went through all
\* guards, however it overlapped others: its user ticked the notice that was in force
\* as it passed, in this request or in one whose acceptance stood by then; its image,
\* if any, was verified, and its origin and its size are allowed.
Entitled(r) ==
    /\ r \in consented
    /\ ~ Refuses(Form(r)) /\ ~ TooLong(Form(r)) /\ ~ TooLarge(Form(r))
    /\ Form(r).image = "fits" => Form(r).solved

OnlyTheEntitledAreChecked ==
    /\ \A r \in Requests : pc[r] = "engine" \/ r \in charged => Entitled(r)
    /\ \A r \in charged : pc[r] \in {"engine", "checked", "lost"}

\* Cookies can be dropped and headers claimed: a request still counts on the address
\* that it came from, so that no address gets more than its limit.
CountedWhereItCameFrom ==
    /\ \A r \in charged : ClientIp(Form(r)) = Form(r).source
    /\ \A a \in Addresses : Cardinality({r \in charged : Form(r).source = a}) <= DailyLimit

\* A browser stays one user: a cookie that is valid is replaced only by the answer to
\* a request that was sent before the browser had it.
BrowserStaysOneUser ==
    [][Valid(jar) /\ jar' \notin {jar, NoCookie} =>
         \E r \in Requests :
            /\ pc[r] \in Unanswered /\ pc'[r] \in Answers
            /\ req[r].sent # jar]_vars
=============================================================================
