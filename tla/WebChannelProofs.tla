-------------------------- MODULE WebChannelProofs --------------------------
(***************************************************************************)
(* Theorems of WebChannel: the guards cannot be gone round by requests     *)
(* that overlap, an address gets no more than its limit, an acceptance is  *)
(* asked for once and a browser stays one user, for every set of requests, *)
(* forms, servers and addresses, and any number of deploys.                *)
(***************************************************************************)
EXTENDS WebChannel, FiniteSetTheorems, TLAPS

-----------------------------------------------------------------------------
(* The inductive invariant *)

Notices == {s.notice : s \in Servers}

Filed == [form : Forms, sent : Keys \cup {NoCookie}, key : Keys,
          seen : Notices \cup {NoRow, NoSeen}]

\* A request that is in flight, or that was charged, still has its record.
Live(r) == pc[r] \in Unanswered \/ r \in charged

RequestsFiled ==
    \A r \in Requests : Live(r) => req[r] \in Filed /\ ~ Refuses(Form(r))

\* What the guards looked at before a request was charged.
ChargedAreGuarded ==
    /\ \A r \in charged : pc[r] \in {"engine", "checked", "lost"} /\ Entitled(r)
    /\ \A r \in Requests : pc[r] = "engine" => r \in charged

\* Who is past the consent has given it: a row is an acceptance that stands, and only
\* a request whose box is ticked comes to write one.
ConsentGiven ==
    /\ \A k \in Keys : rows[k] # NoRow => <<k, rows[k]>> \in agreed
    /\ \A r \in Requests : pc[r] \in {"looking", "writing"} => Form(r).ticked
    /\ \A r \in Requests : pc[r] = "form" => r \in consented

\* Past the consent, the row is the one of the notice in force or has expired, and
\* it cannot expire once the request has written it.
ConsentHolds ==
    \A r \in Requests :
        /\ pc[r] = "consent" => req[r].seen = NoSeen
        /\ pc[r] \in {"form", "engine"} =>
              /\ rows[Key(r)] \in {server.notice, NoRow}
              /\ req[r].seen # NoSeen => rows[Key(r)] = server.notice

\* A cookie that is valid is the user.
SessionsHold ==
    \A r \in Requests : pc[r] \in Unanswered /\ Valid(req[r].sent) => Key(r) = req[r].sent

\* What was ticked and answered is still in the user's row.
TicksAreRows ==
    \A t \in ticked : t \in Keys \X Notices /\ rows[t[1]] = t[2]

AddressesHold ==
    /\ IsFiniteSet(charged)
    /\ \A ip \in Addresses : Cardinality(ChargedTo(ip)) <= DailyLimit

FlowInv ==
    /\ RequestsFiled /\ ChargedAreGuarded /\ ConsentGiven /\ ConsentHolds
    /\ SessionsHold /\ TicksAreRows

IInv == TypeOK /\ req \in [Requests -> Filed \cup {NoSeen}] /\ FlowInv /\ AddressesHold

-----------------------------------------------------------------------------
(* Types *)

Typed == TypeOK /\ req \in [Requests -> Filed \cup {NoSeen}]

LEMMA SessionIsKey ==
    ASSUME Typed, Session(jar).id \in Ids
    PROVE  /\ Session(jar) \in Keys
           /\ Minting(Session(jar)) => minted' \in 0..MaxSessions
BY BoundsAssumption DEF Typed, TypeOK, Session, Minting, Keys, Ids, Valid

LEMMA TypeInit == Init => Typed
BY ServersAssumption, BoundsAssumption DEF Init, Typed, TypeOK, Keys

\* A request that is handled has its record.
LEMMA HandledIsFiled ==
    ASSUME Typed, RequestsFiled, NEW r \in Requests, Handles(r)
    PROVE  pc[r] \in Unanswered /\ req[r] \in Filed
BY DEF Handles, ConsentIsCurrent, ConsentIsAsked, ConsentIsTicked, LooksAgain, Accepts,
   AcceptFails, FormError, AddressIsFull, IsAdmitted, IsChecked, CheckFails, Unanswered,
   RequestsFiled, Live

LEMMA TypeStep ==
    ASSUME Typed, RequestsFiled, [Next]_vars
    PROVE  Typed'
<1> USE DEF Typed, TypeOK, Unanswered, Answers
<1>1. CASE CheckPage
  BY <1>1, SessionIsKey DEF CheckPage, consents
<1>2. CASE CookieIsGone
  BY <1>2 DEF CookieIsGone, consents
<1>3. ASSUME NEW r \in Requests, Handles(r) PROVE Typed'
  <2>1. req[r] \in Filed
    BY <1>3, HandledIsFiled
  <2>2. Key(r) \in Keys /\ server.notice \in Notices /\ req[r].key \in Keys
    BY <2>1 DEF Filed, Key, Notices
  <2>3. CASE ConsentIsCurrent(r) \/ ConsentIsAsked(r)
    BY <2>2, <2>3 DEF ConsentIsCurrent, ConsentIsAsked, Passes, Goto, AnswerWithCookie, Closed, consents
  <2>4. CASE ConsentIsTicked(r) \/ LooksAgain(r)
    <3>1. [req[r] EXCEPT !.seen = rows[Key(r)]] \in Filed
      BY <2>1, <2>2 DEF Filed, Notices
    <3> QED
      BY <3>1, <2>4 DEF ConsentIsTicked, LooksAgain, Goto, consents
  <2>5. CASE Accepts(r) \/ AcceptFails(r)
    BY <2>2, <2>5 DEF Accepts, AcceptFails, Passes, Goto, AnswerBare, Closed, Notices, consents
  <2>6. CASE FormError(r) \/ AddressIsFull(r)
    BY <2>2, <2>6 DEF FormError, AddressIsFull, Goto, AnswerBare, AnswerWithCookie, Closed, consents
  <2>7. CASE IsAdmitted(r) \/ IsChecked(r) \/ CheckFails(r)
    BY <2>2, <2>7 DEF IsAdmitted, IsChecked, CheckFails, Goto, AnswerBare, AnswerWithCookie, Closed, consents
  <2> QED
    BY <1>3, <2>3, <2>4, <2>5, <2>6, <2>7 DEF Handles
<1>4. ASSUME NEW r \in Requests, NEW f \in Forms, Refused(r, f) PROVE Typed'
  BY <1>4 DEF Refused, AnswerBare, Goto, consents
<1>5. ASSUME NEW r \in Requests, NEW f \in Forms, Arrives(r, f) PROVE Typed'
  <2>1. [form |-> f, sent |-> jar, key |-> Session(jar), seen |-> NoSeen] \in Filed
    BY <1>5, SessionIsKey DEF Arrives, Filed
  <2> QED
    BY <1>5, <2>1, SessionIsKey DEF Arrives, Goto, consents
<1>6. ASSUME NEW s \in Servers, Deploy(s) PROVE Typed'
  BY <1>6, BoundsAssumption DEF Deploy, consents
<1>7. ASSUME NEW k \in Keys, Expires(k) PROVE Typed'
  BY <1>7 DEF Expires
<1>8. CASE UNCHANGED vars
  BY <1>8 DEF vars, consents
<1> QED
  BY <1>1, <1>2, <1>3, <1>4, <1>5, <1>6, <1>7, <1>8 DEF Next

-----------------------------------------------------------------------------
(* What a step of one request leaves alone *)

\* Other requests do not move, and the form, the cookie and the user of the one that
\* is handled stay with it until it is of no interest.
LEMMA HandlingOne ==
    ASSUME Typed, RequestsFiled, NEW r \in Requests, Handles(r)
    PROVE  /\ server' = server
           /\ \A q \in Requests \ {r} :
                pc'[q] = pc[q] /\ req'[q] = req[q] /\ (q \in charged' <=> q \in charged)
           /\ Live(r)' => /\ req'[r] \in Filed
                          /\ req'[r].form = req[r].form
                          /\ req'[r].sent = req[r].sent
                          /\ req'[r].key = req[r].key
<1>1. req[r] \in Filed
  BY HandledIsFiled
<1> USE <1>1 DEF Typed, TypeOK, Live, Unanswered
<1>2. CASE ConsentIsCurrent(r) \/ ConsentIsAsked(r)
  BY <1>2 DEF ConsentIsCurrent, ConsentIsAsked, Passes, Goto, AnswerWithCookie, Closed
<1>3. CASE ConsentIsTicked(r) \/ LooksAgain(r)
  <2>1. PICK seen \in Notices \cup {NoRow} : req' = [req EXCEPT ![r] = [req[r] EXCEPT !.seen = seen]]
    BY <1>1, <1>3 DEF ConsentIsTicked, LooksAgain, Filed, Key, Notices
  <2>2. req'[r] = [req[r] EXCEPT !.seen = seen]
    BY <2>1
  <2>3. req'[r] \in Filed /\ req'[r].form = req[r].form /\ req'[r].sent = req[r].sent /\ req'[r].key = req[r].key
    BY <2>2 DEF Filed
  <2> QED
    BY <1>3, <2>1, <2>3 DEF ConsentIsTicked, LooksAgain, Goto
<1>4. CASE Accepts(r) \/ AcceptFails(r)
  BY <1>4 DEF Accepts, AcceptFails, Passes, Goto, AnswerBare, Closed
<1>5. CASE FormError(r) \/ AddressIsFull(r)
  BY <1>5 DEF FormError, AddressIsFull, Goto, AnswerBare, AnswerWithCookie, Closed
<1>6. CASE IsAdmitted(r) \/ IsChecked(r) \/ CheckFails(r)
  BY <1>6 DEF IsAdmitted, IsChecked, CheckFails, Goto, AnswerBare, AnswerWithCookie, Closed
<1> QED
  BY <1>2, <1>3, <1>4, <1>5, <1>6 DEF Handles

\* A page, a cookie that goes, and a row that expires touch no request.
LEMMA RequestsUntouched ==
    ASSUME CheckPage \/ CookieIsGone \/ (\E k \in Keys : Expires(k)) \/ UNCHANGED vars
    PROVE  UNCHANGED <<server, pc, req, charged>>
BY DEF CheckPage, CookieIsGone, Expires, vars

LEMMA FilesStep ==
    ASSUME Typed, RequestsFiled, [Next]_vars
    PROVE  RequestsFiled'
<1> USE DEF RequestsFiled
<1>1. ASSUME NEW r \in Requests, Handles(r) PROVE RequestsFiled'
  <2>1. pc[r] \in Unanswered /\ req[r] \in Filed /\ ~ Refuses(Form(r))
    BY <1>1, HandledIsFiled DEF Live
  <2>2. Live(r)' => req'[r] \in Filed /\ ~ Refuses(req'[r].form)
    BY <1>1, <2>1, HandlingOne DEF Form
  <2> QED
    BY <1>1, <2>2, HandlingOne DEF Live, Form, Refuses
<1>2. ASSUME NEW r \in Requests, NEW f \in Forms, Refused(r, f) PROVE RequestsFiled'
  BY <1>2 DEF Refused, AnswerBare, Goto, Live, Unanswered, Form, Refuses, Typed, TypeOK
<1>3. ASSUME NEW r \in Requests, NEW f \in Forms, Arrives(r, f) PROVE RequestsFiled'
  <2> DEFINE filed == [form |-> f, sent |-> jar, key |-> Session(jar), seen |-> NoSeen]
  <2>1. filed \in Filed
    BY <1>3, SessionIsKey DEF Arrives, Filed, Typed, TypeOK
  <2>2. req' = [req EXCEPT ![r] = filed] /\ pc' = [pc EXCEPT ![r] = "consent"] /\ charged' = charged
    BY <1>3 DEF Arrives, Goto
  <2>3. ~ Refuses(filed.form)
    BY <1>3 DEF Arrives
  <2> HIDE DEF filed
  <2> QED
    BY <2>1, <2>2, <2>3 DEF Live, Unanswered, Form, Refuses, Typed, TypeOK
<1>4. ASSUME NEW s \in Servers, Deploy(s) PROVE RequestsFiled'
  BY <1>4 DEF Deploy, Live, Unanswered, Form, Refuses, Typed, TypeOK
<1>5. CASE CheckPage \/ CookieIsGone \/ (\E k \in Keys : Expires(k)) \/ UNCHANGED vars
  BY <1>5, RequestsUntouched DEF Live, Form, Refuses
<1> QED
  BY <1>1, <1>2, <1>3, <1>4, <1>5 DEF Next

-----------------------------------------------------------------------------
(* The guards *)

\* What gets into the engine is charged and has passed every guard; what is charged
\* was in the engine.
LEMMA OneIsGuarded ==
    ASSUME Typed, RequestsFiled, ChargedAreGuarded, ConsentGiven, NEW r \in Requests, Handles(r)
    PROVE  /\ r \in charged' => pc'[r] \in {"engine", "checked", "lost"} /\ Entitled(r)
           /\ pc'[r] = "engine" => r \in charged'
<1>1. req[r] \in Filed /\ ~ Refuses(Form(r)) /\ Form(r) \in Forms
  BY HandledIsFiled DEF RequestsFiled, Live, Filed, Form
<1> USE <1>1 DEF Typed, TypeOK, ChargedAreGuarded, Goto, AnswerBare, AnswerWithCookie
<1>2. CASE IsAdmitted(r)
  <2>1. r \in consented
    BY <1>2 DEF IsAdmitted, ConsentGiven
  <2> QED
    BY <1>2, <2>1 DEF IsAdmitted, IsAdmissible, RefusedWithCookie, RefusedBare, Unverified, Entitled
<1>3. CASE IsChecked(r) \/ CheckFails(r)
  BY <1>3 DEF IsChecked, CheckFails
<1>4. CASE ~ IsAdmitted(r) /\ ~ IsChecked(r) /\ ~ CheckFails(r)
  <2>1. pc[r] # "engine" /\ pc'[r] # "engine" /\ charged' = charged /\ r \notin charged
    BY <1>4 DEF Handles, ConsentIsCurrent, ConsentIsAsked, ConsentIsTicked, LooksAgain, Accepts,
       AcceptFails, FormError, AddressIsFull, Passes
  <2> QED
    BY <2>1
<1> QED
  BY <1>2, <1>3, <1>4

\* A consent that was given to a check stays given.
LEMMA ConsentedStay ==
    ASSUME [Next]_vars
    PROVE  consented \subseteq consented'
<1>1. ASSUME NEW r \in Requests, Handles(r) PROVE consented \subseteq consented'
  BY <1>1 DEF Handles, ConsentIsCurrent, ConsentIsAsked, ConsentIsTicked, LooksAgain, Accepts,
     AcceptFails, FormError, AddressIsFull, IsAdmitted, IsChecked, CheckFails, Passes, consents
<1>2. ASSUME ~ \E r \in Requests : Handles(r) PROVE consented' = consented
  BY <1>2 DEF Next, CheckPage, CookieIsGone, Refused, Arrives, Deploy, Expires, vars, consents
<1> QED
  BY <1>1, <1>2

\* What the guards saw does not change with the record of a request.
LEMMA EntitledStay ==
    ASSUME [Next]_vars, NEW r, req'[r].form = req[r].form, Entitled(r)
    PROVE  Entitled(r)'
BY ConsentedStay DEF Entitled, Form, Refuses, TooLong, TooLarge

LEMMA GuardsStep ==
    ASSUME Typed, RequestsFiled, ChargedAreGuarded, ConsentGiven, [Next]_vars
    PROVE  ChargedAreGuarded'
<1> USE DEF ChargedAreGuarded
<1>1. ASSUME NEW r \in Requests, Handles(r) PROVE ChargedAreGuarded'
  <2>0. \A q \in charged' : q \in Requests /\ req'[q].form = req[q].form
    BY <1>1, HandlingOne, TypeStep DEF Live, Typed, TypeOK
  <2>1. \A q \in charged' : Entitled(q) => Entitled(q)'
    BY <2>0, EntitledStay
  <2>2. \A q \in charged' : pc'[q] \in {"engine", "checked", "lost"} /\ Entitled(q)
    BY <1>1, OneIsGuarded, HandlingOne, TypeStep DEF Typed, TypeOK
  <2>3. \A q \in Requests : pc'[q] = "engine" => q \in charged'
    BY <1>1, OneIsGuarded, HandlingOne DEF Typed, TypeOK
  <2> QED
    BY <2>1, <2>2, <2>3
<1>2. ASSUME NEW r \in Requests, NEW f \in Forms, Refused(r, f) \/ Arrives(r, f)
      PROVE  ChargedAreGuarded'
  <2>1. r \notin charged /\ charged' = charged /\ charged \subseteq Requests
    BY <1>2 DEF Refused, Arrives, Typed, TypeOK
  <2>2. \A q \in Requests \ {r} : pc'[q] = pc[q] /\ req'[q] = req[q]
    BY <1>2 DEF Refused, Arrives, AnswerBare, Goto, Typed, TypeOK
  <2>3. pc'[r] # "engine"
    BY <1>2 DEF Refused, Arrives, AnswerBare, Goto, Typed, TypeOK
  <2> QED
    BY <2>1, <2>2, <2>3, EntitledStay
<1>3. ASSUME NEW s \in Servers, Deploy(s) PROVE ChargedAreGuarded'
  <2>1. charged' = charged /\ \A q \in charged : q \in Requests /\ req'[q] = req[q]
    BY <1>3 DEF Deploy, Typed, TypeOK
  <2>2. \A q \in Requests : pc'[q] = pc[q] \/ pc'[q] = "lost"
    BY <1>3 DEF Deploy, Typed, TypeOK
  <2> QED
    BY <2>1, <2>2, EntitledStay
<1>4. CASE CheckPage \/ CookieIsGone \/ (\E k \in Keys : Expires(k)) \/ UNCHANGED vars
  BY <1>4, RequestsUntouched, EntitledStay
<1> QED
  BY <1>1, <1>2, <1>3, <1>4 DEF Next

-----------------------------------------------------------------------------
(* The consent *)

\* Who passes the gate has ticked the box now, or reads the row of one who had.
LEMMA GivenByOne ==
    ASSUME Typed, RequestsFiled, ConsentGiven, NEW r \in Requests, Handles(r)
    PROVE  /\ \A k \in Keys : rows'[k] # NoRow => <<k, rows'[k]>> \in agreed'
           /\ pc'[r] \in {"looking", "writing"} => Form(r).ticked
           /\ pc'[r] = "form" => r \in consented'
<1>1. req[r] \in Filed /\ Key(r) \in Keys
  BY HandledIsFiled DEF Filed, Key
<1> USE <1>1 DEF Typed, TypeOK, ConsentGiven, Goto
<1>2. CASE ConsentIsCurrent(r)
  BY <1>2 DEF ConsentIsCurrent, IsConsentCurrent, Passes
<1>3. CASE ConsentIsTicked(r) \/ LooksAgain(r)
  BY <1>3 DEF ConsentIsTicked, LooksAgain, consents
<1>4. CASE Accepts(r)
  <2>1. Form(r).ticked
    BY <1>4 DEF Accepts
  <2>2. pc'[r] = "form" /\ r \in consented'
    BY <1>4, <2>1 DEF Accepts, Passes
  <2>3. rows' = [rows EXCEPT ![Key(r)] = server.notice]
    BY <1>4 DEF Accepts
  <2>4. <<Key(r), server.notice>> \in agreed'
    BY <1>4, <2>1 DEF Accepts
  <2>5. \A t \in agreed : t[1] # Key(r) => t \in agreed'
    BY <1>4 DEF Accepts
  <2> QED
    BY <2>1, <2>2, <2>3, <2>4, <2>5
<1>5. CASE ~ ConsentIsCurrent(r) /\ ~ ConsentIsTicked(r) /\ ~ LooksAgain(r) /\ ~ Accepts(r)
  <2>1. rows' = rows /\ agreed' = agreed
    BY <1>5 DEF Handles, ConsentIsAsked, AcceptFails, FormError, AddressIsFull, IsAdmitted,
       IsChecked, CheckFails, consents
  <2>2. pc'[r] \notin {"looking", "writing", "form"}
    BY <1>5 DEF Handles, ConsentIsAsked, AcceptFails, FormError, AddressIsFull, IsAdmitted,
       IsChecked, CheckFails, AnswerBare, AnswerWithCookie
  <2> QED
    BY <2>1, <2>2
<1> QED
  BY <1>2, <1>3, <1>4, <1>5

LEMMA GivenStep ==
    ASSUME Typed, RequestsFiled, ConsentGiven, [Next]_vars
    PROVE  ConsentGiven'
<1>1. ASSUME NEW r \in Requests, Handles(r) PROVE ConsentGiven'
  <2>1. pc'[r] \in {"looking", "writing"} => req'[r].form.ticked
    BY <1>1, GivenByOne, HandlingOne DEF Live, Unanswered, Form
  <2>2. \A q \in Requests \ {r} : pc'[q] = pc[q] /\ req'[q] = req[q]
    BY <1>1, HandlingOne
  <2>3. \A q \in Requests \ {r} : pc'[q] \in {"looking", "writing"} => req'[q].form.ticked
    BY <2>2 DEF ConsentGiven, Form
  <2>4. \A q \in Requests : pc'[q] = "form" => q \in consented'
    BY <1>1, <2>2, GivenByOne, ConsentedStay DEF ConsentGiven
  <2> QED
    BY <1>1, <2>1, <2>3, <2>4, GivenByOne DEF ConsentGiven, Form
<1>2. ASSUME NEW r \in Requests, NEW f \in Forms, Refused(r, f) \/ Arrives(r, f)
      PROVE  ConsentGiven'
  <2>1. \A q \in Requests \ {r} : pc'[q] = pc[q] /\ req'[q] = req[q]
    BY <1>2 DEF Refused, Arrives, AnswerBare, Goto, Typed, TypeOK
  <2>2. pc'[r] \notin {"looking", "writing", "form"}
    BY <1>2 DEF Refused, Arrives, AnswerBare, Goto, Typed, TypeOK
  <2>3. UNCHANGED <<rows, agreed, consented>>
    BY <1>2 DEF Refused, Arrives, consents
  <2> QED
    BY <2>1, <2>2, <2>3 DEF ConsentGiven, Form
<1>3. ASSUME NEW s \in Servers, Deploy(s) PROVE ConsentGiven'
  <2>1. \A q \in Requests : pc'[q] \notin {"looking", "writing", "form"}
    BY <1>3 DEF Deploy, Unanswered, Typed, TypeOK
  <2> QED
    BY <1>3, <2>1 DEF Deploy, ConsentGiven, consents
<1>4. ASSUME NEW k \in Keys, Expires(k) PROVE ConsentGiven'
  BY <1>4 DEF Expires, ConsentGiven, Form, Typed, TypeOK
<1>5. CASE CheckPage \/ CookieIsGone \/ UNCHANGED vars
  BY <1>5 DEF CheckPage, CookieIsGone, vars, consents, ConsentGiven, Form
<1> QED
  BY <1>1, <1>2, <1>3, <1>4, <1>5 DEF Next

\* A row changes only as a request of its user accepts the notice in force.
LEMMA RowsChange ==
    ASSUME Typed, RequestsFiled, NEW r \in Requests, Handles(r)
    PROVE  \/ rows' = rows
           \/ Accepts(r) /\ rows' = [rows EXCEPT ![Key(r)] = server.notice]
BY DEF Handles, ConsentIsCurrent, ConsentIsAsked, ConsentIsTicked, LooksAgain, Accepts,
   AcceptFails, FormError, AddressIsFull, IsAdmitted, IsChecked, CheckFails

\* The row a request has once it is past the consent.
LEMMA ConsentOfOne ==
    ASSUME Typed, RequestsFiled, ConsentHolds, NEW r \in Requests, Handles(r),
           pc'[r] \in {"form", "engine"}
    PROVE  /\ rows'[req'[r].key] \in {server.notice, NoRow}
           /\ req'[r].seen # NoSeen => rows'[req'[r].key] = server.notice
<1>1. req[r] \in Filed
  BY HandledIsFiled
<1> USE <1>1 DEF Typed, TypeOK, Goto, AnswerBare, AnswerWithCookie, ConsentHolds, Key, Filed
<1>2. CASE ConsentIsCurrent(r)
  BY <1>2 DEF ConsentIsCurrent, IsConsentCurrent, Passes
<1>3. CASE Accepts(r)
  BY <1>3 DEF Accepts, Passes
<1>4. CASE IsAdmitted(r)
  BY <1>4 DEF IsAdmitted
<1>5. CASE ~ ConsentIsCurrent(r) /\ ~ Accepts(r) /\ ~ IsAdmitted(r)
  <2>1. pc'[r] \notin {"form", "engine"}
    BY <1>5 DEF Handles, ConsentIsAsked, ConsentIsTicked, LooksAgain, AcceptFails, FormError,
       AddressIsFull, IsChecked, CheckFails
  <2> QED
    BY <2>1
<1> QED
  BY <1>2, <1>3, <1>4, <1>5

LEMMA ConsentStep ==
    ASSUME Typed, RequestsFiled, ConsentHolds, [Next]_vars
    PROVE  ConsentHolds'
<1> USE DEF ConsentHolds, Key
<1>1. ASSUME NEW r \in Requests, Handles(r) PROVE ConsentHolds'
  <2>1. pc'[r] # "consent"
    BY <1>1 DEF Handles, ConsentIsCurrent, ConsentIsAsked, ConsentIsTicked, LooksAgain, Accepts,
       AcceptFails, FormError, AddressIsFull, IsAdmitted, IsChecked, CheckFails,
       Passes, Goto, AnswerBare, AnswerWithCookie, Typed, TypeOK
  <2>2. \A q \in Requests \ {r} : pc'[q] \in {"form", "engine"} =>
            /\ rows'[req'[q].key] \in {server.notice, NoRow}
            /\ req'[q].seen # NoSeen => rows'[req'[q].key] = server.notice
    <3>1. \A q \in Requests : pc[q] \in {"form", "engine"} => req[q].key \in Keys
      BY DEF RequestsFiled, Live, Unanswered, Filed
    <3> QED
      BY <1>1, <3>1, HandlingOne, RowsChange DEF Typed, TypeOK
  <2>3. pc'[r] \in {"form", "engine"} =>
            /\ rows'[req'[r].key] \in {server.notice, NoRow}
            /\ req'[r].seen # NoSeen => rows'[req'[r].key] = server.notice
    BY <1>1, ConsentOfOne
  <2> QED
    BY <1>1, <2>1, <2>2, <2>3, HandlingOne
<1>2. ASSUME NEW r \in Requests, NEW f \in Forms, Refused(r, f) PROVE ConsentHolds'
  BY <1>2 DEF Refused, AnswerBare, Goto, Typed, TypeOK
<1>3. ASSUME NEW r \in Requests, NEW f \in Forms, Arrives(r, f) PROVE ConsentHolds'
  BY <1>3 DEF Arrives, Goto, Typed, TypeOK
<1>4. ASSUME NEW s \in Servers, Deploy(s) PROVE ConsentHolds'
  BY <1>4 DEF Deploy, Unanswered, Typed, TypeOK
<1>5. ASSUME NEW k \in Keys, Expires(k) PROVE ConsentHolds'
  <2>1. \A r \in Requests : pc[r] \in {"form", "engine"} =>
            rows'[Key(r)] = rows[Key(r)] \/ (rows'[Key(r)] = NoRow /\ req[r].seen = NoSeen)
    BY <1>5 DEF Expires, Typed, TypeOK, RequestsFiled, Live, Unanswered, Filed
  <2> QED
    BY <1>5, <2>1 DEF Expires
<1>6. CASE CheckPage \/ CookieIsGone \/ UNCHANGED vars
  BY <1>6 DEF CheckPage, CookieIsGone, vars
<1> QED
  BY <1>1, <1>2, <1>3, <1>4, <1>5, <1>6 DEF Next

\* A tick is kept with the row it wrote: the answer that adds it comes while the row
\* stands, and what replaces the row or removes it takes the older ticks along.
LEMMA TicksStep ==
    ASSUME Typed, RequestsFiled, ConsentHolds, TicksAreRows, [Next]_vars
    PROVE  TicksAreRows'
<1> USE DEF TicksAreRows
<1>1. ASSUME NEW r \in Requests, Handles(r) PROVE TicksAreRows'
  <2>1. Key(r) \in Keys /\ server.notice \in Notices
    BY <1>1, HandledIsFiled DEF Filed, Key, Notices, Typed, TypeOK
  <2>2. CASE Accepts(r)
    BY <2>1, <2>2 DEF Accepts, Typed, TypeOK
  <2>3. CASE FormError(r) \/ AddressIsFull(r) \/ IsChecked(r)
    <3>1. IsTicked(r) /\ rows' = rows /\ pc[r] \in {"form", "engine"}
      BY <2>3 DEF FormError, AddressIsFull, IsChecked
    <3>2. req[r].seen # NoSeen => rows[Key(r)] = server.notice
      BY <3>1 DEF ConsentHolds
    <3> QED
      BY <2>1, <3>1, <3>2 DEF IsTicked
  <2>4. CASE ~ Accepts(r) /\ ~ FormError(r) /\ ~ AddressIsFull(r) /\ ~ IsChecked(r)
    <3>1. ticked' = ticked /\ rows' = rows
      BY <1>1, <2>4 DEF Handles, ConsentIsCurrent, ConsentIsAsked, ConsentIsTicked, LooksAgain,
         AcceptFails, IsAdmitted, CheckFails
    <3> QED
      BY <3>1
  <2> QED
    BY <2>2, <2>3, <2>4
<1>2. ASSUME NEW r \in Requests, NEW f \in Forms, Refused(r, f) \/ Arrives(r, f)
      PROVE  TicksAreRows'
  BY <1>2 DEF Refused, Arrives
<1>3. ASSUME NEW s \in Servers, Deploy(s) PROVE TicksAreRows'
  BY <1>3 DEF Deploy
<1>4. ASSUME NEW k \in Keys, Expires(k) PROVE TicksAreRows'
  BY <1>4 DEF Expires, Typed, TypeOK
<1>5. CASE CheckPage \/ CookieIsGone \/ UNCHANGED vars
  BY <1>5 DEF CheckPage, CookieIsGone, vars
<1> QED
  BY <1>1, <1>2, <1>3, <1>4, <1>5 DEF Next

-----------------------------------------------------------------------------
(* The session *)

LEMMA SessionsStep ==
    ASSUME Typed, RequestsFiled, SessionsHold, [Next]_vars
    PROVE  SessionsHold'
<1> USE DEF SessionsHold, Key, Valid
<1>1. ASSUME NEW r \in Requests, Handles(r) PROVE SessionsHold'
  <2>1. pc[r] \in Unanswered
    BY <1>1, HandledIsFiled
  <2> QED
    BY <1>1, <2>1, HandlingOne DEF Live
<1>2. ASSUME NEW r \in Requests, NEW f \in Forms, Refused(r, f) PROVE SessionsHold'
  BY <1>2 DEF Refused, AnswerBare, Goto, Unanswered, Typed, TypeOK
<1>3. ASSUME NEW r \in Requests, NEW f \in Forms, Arrives(r, f) PROVE SessionsHold'
  BY <1>3 DEF Arrives, Goto, Session, Typed, TypeOK
<1>4. ASSUME NEW s \in Servers, Deploy(s) PROVE SessionsHold'
  BY <1>4 DEF Deploy, Unanswered, Typed, TypeOK
<1>5. CASE CheckPage \/ CookieIsGone \/ (\E k \in Keys : Expires(k)) \/ UNCHANGED vars
  BY <1>5, RequestsUntouched
<1> QED
  BY <1>1, <1>2, <1>3, <1>4, <1>5 DEF Next

-----------------------------------------------------------------------------
(* The addresses *)

\* What gives slots back, or leaves them alone, fills no address.
LEMMA SlotsGivenBack ==
    ASSUME AddressesHold, BoundsAssumption, charged' \subseteq charged,
           \A q \in charged' : req'[q].form = req[q].form
    PROVE  AddressesHold'
<1>1. IsFiniteSet(charged')
  BY FS_Subset DEF AddressesHold
<1>2. ASSUME NEW ip \in Addresses PROVE Cardinality(ChargedTo(ip)') <= DailyLimit
  <2>1. ChargedTo(ip)' \subseteq ChargedTo(ip)
    BY DEF ChargedTo
  <2>2. IsFiniteSet(ChargedTo(ip))
    BY FS_Subset DEF AddressesHold, ChargedTo
  <2>3. /\ Cardinality(ChargedTo(ip)') <= Cardinality(ChargedTo(ip))
        /\ Cardinality(ChargedTo(ip)') \in Nat /\ Cardinality(ChargedTo(ip)) \in Nat
    BY <2>1, <2>2, FS_Subset, FS_CardinalityType
  <2>4. Cardinality(ChargedTo(ip)) <= DailyLimit
    BY DEF AddressesHold
  <2> QED
    BY <2>3, <2>4
<1> QED
  BY <1>1, <1>2 DEF AddressesHold

\* A request takes a slot of its own address only while one is free.
LEMMA SlotTaken ==
    ASSUME Typed, AddressesHold, NEW r \in Requests, IsAdmitted(r)
    PROVE  AddressesHold'
<1>1. charged' = charged \cup {r} /\ req' = req
  BY DEF IsAdmitted
<1>2. IsFiniteSet(charged')
  BY <1>1, FS_AddElement DEF AddressesHold
<1>3. ASSUME NEW ip \in Addresses PROVE Cardinality(ChargedTo(ip)') <= DailyLimit
  <2>1. IsFiniteSet(ChargedTo(ip)) /\ Cardinality(ChargedTo(ip)) <= DailyLimit
    BY FS_Subset DEF AddressesHold, ChargedTo
  <2>2. CASE ip # ClientIp(Form(r))
    <3>1. ChargedTo(ip)' = ChargedTo(ip)
      BY <1>1, <2>2 DEF ChargedTo, Form
    <3> QED
      BY <2>1, <3>1
  <2>3. CASE ip = ClientIp(Form(r))
    <3>1. ChargedTo(ip)' = ChargedTo(ip) \cup {r}
      BY <1>1, <2>3 DEF ChargedTo, Form
    <3>2. ~ (Cardinality(ChargedTo(ip)) >= DailyLimit)
      BY <2>3, AddressesAssumption DEF IsAdmitted, IsFull
    <3>3. Cardinality(ChargedTo(ip)) \in Nat
      BY <2>1, FS_CardinalityType
    <3>4. Cardinality(ChargedTo(ip) \cup {r}) \in {Cardinality(ChargedTo(ip)), Cardinality(ChargedTo(ip)) + 1}
      BY <2>1, FS_AddElement
    <3> HIDE DEF ChargedTo
    <3> QED
      BY <3>1, <3>2, <3>3, <3>4, BoundsAssumption
  <2> QED
    BY <2>2, <2>3
<1> QED
  BY <1>2, <1>3 DEF AddressesHold

LEMMA AddressesStep ==
    ASSUME Typed, RequestsFiled, ChargedAreGuarded, AddressesHold, [Next]_vars
    PROVE  AddressesHold'
<1>1. ASSUME NEW r \in Requests, Handles(r), ~ IsAdmitted(r) PROVE AddressesHold'
  <2>1. charged' \subseteq charged
    BY <1>1 DEF Handles, ConsentIsCurrent, ConsentIsAsked, ConsentIsTicked, LooksAgain, Accepts,
       AcceptFails, FormError, AddressIsFull, IsChecked, CheckFails
  <2>2. \A q \in charged' : req'[q].form = req[q].form
    BY <1>1, <2>1, HandlingOne DEF Live, Typed, TypeOK
  <2> QED
    BY <2>1, <2>2, SlotsGivenBack, BoundsAssumption
<1>2. ASSUME NEW r \in Requests, NEW f \in Forms, Refused(r, f) PROVE AddressesHold'
  BY <1>2, SlotsGivenBack, BoundsAssumption DEF Refused
<1>3. ASSUME NEW r \in Requests, NEW f \in Forms, Arrives(r, f) PROVE AddressesHold'
  <2>1. charged' = charged /\ r \notin charged
    BY <1>3 DEF Arrives, ChargedAreGuarded
  <2>2. \A q \in Requests \ {r} : req'[q] = req[q]
    BY <1>3 DEF Arrives, Typed
  <2> QED
    BY <2>1, <2>2, SlotsGivenBack, BoundsAssumption DEF Typed, TypeOK
<1>4. ASSUME NEW s \in Servers, Deploy(s) PROVE AddressesHold'
  <2>1. charged' = charged /\ \A q \in charged : req'[q] = req[q]
    BY <1>4 DEF Deploy, Typed, TypeOK
  <2> QED
    BY <2>1, SlotsGivenBack, BoundsAssumption
<1>5. CASE CheckPage \/ CookieIsGone \/ (\E k \in Keys : Expires(k)) \/ UNCHANGED vars
  BY <1>5, RequestsUntouched, SlotsGivenBack, BoundsAssumption
<1> QED
  BY <1>1, <1>2, <1>3, <1>4, <1>5, SlotTaken DEF Next

-----------------------------------------------------------------------------
(* Theorems *)

LEMMA IInvInit == Init => IInv
<1> SUFFICES ASSUME Init PROVE IInv
  OBVIOUS
<1>1. Typed
  BY TypeInit
<1>2. FlowInv
  BY DEF Init, FlowInv, RequestsFiled, ChargedAreGuarded, ConsentGiven, ConsentHolds,
     SessionsHold, TicksAreRows, Live, Unanswered
<1>3. \A ip \in Addresses : ChargedTo(ip) = {}
  BY DEF Init, ChargedTo
<1>4. AddressesHold
  BY <1>3, FS_EmptySet, BoundsAssumption DEF Init, AddressesHold
<1> QED
  BY <1>1, <1>2, <1>4 DEF IInv, Typed

LEMMA IInvStep == IInv /\ [Next]_vars => IInv'
BY TypeStep, FilesStep, GuardsStep, GivenStep, ConsentStep, SessionsStep, TicksStep, AddressesStep
   DEF IInv, Typed, FlowInv

THEOREM Invariance == Spec => []IInv
BY IInvInit, IInvStep, PTL DEF Spec

\* The state of the channel keeps its types: a row is a notice that some server had,
\* and the browser's cookie is one that a server signed.
THEOREM TypeCorrect == Spec => []TypeOK
<1>1. IInv => TypeOK
  BY DEF IInv
<1> QED
  BY <1>1, Invariance, PTL

\* POST /check: whatever the requests of a browser overlap with, what the engine gets
\* passed every guard, its user had ticked the notice in force as it passed, and only
\* such a request holds a slot.
THEOREM EntitledAlways == Spec => []OnlyTheEntitledAreChecked
<1>1. IInv => OnlyTheEntitledAreChecked
  BY DEF IInv, FlowInv, ChargedAreGuarded, OnlyTheEntitledAreChecked
<1> QED
  BY <1>1, Invariance, PTL

\* client_ip_from_request finds the source of a request, by the peer or by what the
\* proxy added last to whatever the client claimed.
LEMMA ClientIpIsSource ==
    ASSUME NEW f \in Forms
    PROVE  ClientIp(f) = f.source
<1> DEFINE named == {i \in DOMAIN f.forwarded : f.forwarded[i] \in Addresses}
           last  == CHOOSE i \in named : \A j \in named : j <= i
<1>1. ReachesUsAs(f, f.source)
  BY SourceAssumption
<1>2. CASE f.peer \notin TrustedPeers
  BY <1>1, <1>2 DEF ReachesUsAs, ClientIp
<1>3. CASE f.peer \in TrustedPeers /\ f.source \in Addresses /\ f.realIp = f.source
  BY <1>3 DEF ClientIp
<1>4. CASE /\ f.peer \in TrustedPeers /\ f.source \in Addresses /\ f.realIp \notin Addresses
           /\ f.forwarded # <<>> /\ f.forwarded[Len(f.forwarded)] = f.source
  <2> DEFINE n == Len(f.forwarded)
  <2>1. f.forwarded \in Seq(Addresses \cup {NoAddress})
    BY FormsAssumption
  <2>2. n \in named /\ \A j \in named : j \in Nat /\ j <= n
    <3>1. DOMAIN f.forwarded = 1..n /\ n \in Nat
      BY <2>1
    <3>2. n # 0
      BY <1>4, <2>1
    <3> QED
      BY <1>4, <3>1, <3>2
  <2>3. last \in named /\ \A j \in named : j <= last
    <3> HIDE DEF named, n
    <3> QED
      BY <2>2
  <2>4. last = n
    <3>1. last \in Nat /\ n \in Nat /\ last <= n /\ n <= last
      BY <2>2, <2>3
    <3> HIDE DEF last, n, named
    <3> QED
      BY <3>1
  <2>5. f.forwarded[last] = f.source
    BY <1>4, <2>4
  <2>6. ClientIp(f) = f.forwarded[last]
    BY <1>4, <2>2 DEF ClientIp
  <2> QED
    BY <2>5, <2>6
<1> QED
  BY <1>1, <1>2, <1>3, <1>4 DEF ReachesUsAs

\* _reserve_web_ip_limit: no address has more than web_daily_limit checks running or
\* billed, though its user drops his cookie and claims other addresses: the address
\* that is charged is the one the request came from.
THEOREM AddressesLimited == Spec => []CountedWhereItCameFrom
<1>1. ASSUME IInv PROVE CountedWhereItCameFrom
  <2>1. \A r \in charged : Form(r) \in Forms
    BY <1>1 DEF IInv, TypeOK, FlowInv, RequestsFiled, Live, Filed, Form
  <2>2. \A r \in charged : ClientIp(Form(r)) = Form(r).source
    BY <2>1, ClientIpIsSource
  <2>3. \A ip \in Addresses : {r \in charged : Form(r).source = ip} = ChargedTo(ip)
    BY <2>2 DEF ChargedTo, Form
  <2> QED
    BY <1>1, <2>2, <2>3 DEF IInv, AddressesHold, CountedWhereItCameFrom
<1> QED
  BY <1>1, Invariance, PTL

\* _ensure_web_consent: a user who ticked the notice and was answered, if only by a
\* refusal, is not asked for it again while his row stands.
THEOREM AcceptanceOutlives == Spec => AcceptanceOutlivesRefusals
<1>1. ASSUME IInv, [Next]_vars, NEW r \in Requests,
             pc[r] # "consent_error", pc'[r] = "consent_error"
      PROVE  <<Key(r), server.notice>> \notin ticked
  <2>1. Typed /\ RequestsFiled
    BY <1>1 DEF IInv, Typed, FlowInv
  <2>2. ConsentIsAsked(r)
    <3>1. ASSUME NEW q \in Requests, Handles(q) PROVE ConsentIsAsked(r)
      <4>1. q = r
        BY <1>1, <2>1, <3>1, HandlingOne
      <4> QED
        BY <1>1, <2>1, <3>1, <4>1 DEF Handles, ConsentIsCurrent, ConsentIsTicked, LooksAgain,
           Accepts, AcceptFails, FormError, AddressIsFull, IsAdmitted, IsChecked, CheckFails,
           Passes, Goto, AnswerBare, AnswerWithCookie, Typed, TypeOK
    <3>2. \A q \in Requests, f \in Forms : ~ Refused(q, f) /\ ~ Arrives(q, f)
      BY <1>1, <2>1 DEF Refused, Arrives, AnswerBare, Goto, Typed, TypeOK
    <3>3. \A s \in Servers : ~ Deploy(s)
      BY <1>1, <2>1 DEF Deploy, Typed, TypeOK
    <3>4. ~ CheckPage /\ ~ CookieIsGone /\ (\A k \in Keys : ~ Expires(k)) /\ ~ UNCHANGED vars
      BY <1>1, RequestsUntouched
    <3> QED
      BY <1>1, <3>1, <3>2, <3>3, <3>4 DEF Next
  <2>3. rows[Key(r)] # server.notice
    <3>1. server.notice # NoRow
      BY <2>1, ServersAssumption DEF Typed, TypeOK
    <3> QED
      BY <2>2, <3>1 DEF ConsentIsAsked, IsConsentCurrent
  <2> QED
    BY <1>1, <2>3 DEF IInv, FlowInv, TicksAreRows
<1>2. IInv /\ [Next]_vars =>
        [\A r \in Requests :
            pc[r] # "consent_error" /\ pc'[r] = "consent_error" =>
                <<Key(r), server.notice>> \notin ticked]_vars
  BY <1>1
<1> QED
  BY <1>2, Invariance, PTL DEF Spec, AcceptanceOutlivesRefusals

\* get_or_create_web_session: a valid cookie is only ever replaced by the answer to a
\* request that the browser sent before it had that cookie.
THEOREM OneUser == Spec => BrowserStaysOneUser
<1>1. ASSUME IInv, [Next]_vars, Valid(jar), jar' \notin {jar, NoCookie}
      PROVE  \E r \in Requests :
                /\ pc[r] \in Unanswered /\ pc'[r] \in Answers
                /\ req[r].sent # jar
  <2>1. Typed /\ RequestsFiled /\ SessionsHold
    BY <1>1 DEF IInv, Typed, FlowInv
  <2>2. PICK r \in Requests : Handles(r)
    <3>1. CASE CheckPage
      BY <1>1, <3>1 DEF CheckPage, Session
    <3>2. CASE CookieIsGone \/ (\E s \in Servers : Deploy(s)) \/ (\E k \in Keys : Expires(k)) \/ UNCHANGED vars
      BY <1>1, <3>2 DEF CookieIsGone, Deploy, Expires, vars
    <3>3. CASE \E r \in Requests, f \in Forms : Refused(r, f) \/ Arrives(r, f)
      BY <1>1, <3>3 DEF Refused, Arrives, AnswerBare
    <3> QED
      BY <1>1, <3>1, <3>2, <3>3 DEF Next
  <2>3. pc[r] \in Unanswered
    BY <2>1, <2>2, HandledIsFiled
  <2>4. jar' = Key(r) /\ pc'[r] \in Answers
    BY <1>1, <2>1, <2>2 DEF Handles, ConsentIsCurrent, ConsentIsAsked, ConsentIsTicked, LooksAgain,
       Accepts, AcceptFails, FormError, AddressIsFull, IsAdmitted, IsChecked, CheckFails,
       Passes, Goto, AnswerBare, AnswerWithCookie, Answers, Typed, TypeOK
  <2>5. req[r].sent # jar
    BY <1>1, <2>1, <2>3, <2>4 DEF SessionsHold
  <2> QED
    BY <2>3, <2>4, <2>5
<1>2. IInv /\ [Next]_vars =>
        [Valid(jar) /\ jar' \notin {jar, NoCookie} =>
            \E r \in Requests :
                /\ pc[r] \in Unanswered /\ pc'[r] \in Answers
                /\ req[r].sent # jar]_vars
  BY <1>1
<1> QED
  BY <1>2, Invariance, PTL DEF Spec, BrowserStaysOneUser

=============================================================================
