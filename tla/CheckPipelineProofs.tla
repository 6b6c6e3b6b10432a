------------------------- MODULE CheckPipelineProofs ------------------------
(***************************************************************************)
(* Theorems of CheckPipeline: the rule engine's two passes are enough and  *)
(* its preview agrees with production; the facts outrank the model, what   *)
(* is shown is safe, what a QR code said is neither lost nor shown in the  *)
(* open, what is paid for is needed and reported, and what an answer says  *)
(* rests on reviewed cards and on the facts of the check, and every brand  *)
(* that a link imitates is seen; for every set of packs, cards, fragments, *)
(* drafts, links and configurations.                                       *)
(***************************************************************************)
EXTENDS CheckPipeline, SequenceTheorems, FiniteSetTheorems, NaturalsInduction,
        WellFoundedInduction, TLAPS

-----------------------------------------------------------------------------
(* The rule engine *)

\* A gate that names ungated rules only is open on the base pass exactly when it
\* is open on the base pass together with any gated rules.
LEMMA GateIgnoresGated ==
    ASSUME NEW p, GatesOnUngated(p), NEW r \in p \ Ungated(p), NEW fired,
           NEW gated, gated \subseteq p \ Ungated(p), NEW kinds
    PROVE  RequirementsMet(r.requires, IdsOf(fired \cup gated), kinds)
            <=> RequirementsMet(r.requires, IdsOf(fired), kinds)
<1>1. IdsOf(fired \cup gated) = IdsOf(fired) \cup IdsOf(gated)
  BY DEF IdsOf
<1>2. IdsOf(gated) \subseteq IdsOf(p \ Ungated(p))
  BY DEF IdsOf
<1>3. (r.requires.anyOf \cup r.requires.allOf) \cap IdsOf(gated) = {}
  BY <1>2 DEF GatesOnUngated
<1> QED
  BY <1>1, <1>3 DEF RequirementsMet

\* run_rules: gating every rule on everything that fires admits no other rules.
THEOREM TwoPasses ==
    ASSUME NEW p, NEW text, GatesOnUngated(p)
    PROVE  FiringRules(p, text) =
            {r \in p : /\ RuleMatches(r, text)
                       /\ r.requires = NoGate \/
                          RequirementsMet(r.requires, IdsOf(FiringRules(p, text)),
                                          BaseSignals(Fired(p, text), text))}
<1> DEFINE fired    == Fired(p, text)
           admitted == Admitted(p, text)
           kinds    == BaseSignals(fired, text)
<1>1. fired = {r \in p : RuleMatches(r, text) /\ r.requires = NoGate}
  BY DEF Fired, Ungated
<1>2. admitted \subseteq p \ Ungated(p)
  BY DEF Admitted
<1>3. ASSUME NEW r \in p, r.requires # NoGate
      PROVE  r \in admitted <=>
                RuleMatches(r, text) /\ RequirementsMet(r.requires, IdsOf(fired), kinds)
  BY <1>3 DEF Admitted, GateOpen, Ungated
<1>4. ASSUME NEW r \in p, r.requires # NoGate
      PROVE  RequirementsMet(r.requires, IdsOf(fired \cup admitted), kinds)
                <=> RequirementsMet(r.requires, IdsOf(fired), kinds)
  <2>1. r \in p \ Ungated(p)
    BY <1>4 DEF Ungated
  <2> HIDE DEF fired, admitted, kinds
  <2> QED
    BY <2>1, <1>2, GateIgnoresGated
<1>5. FiringRules(p, text) = fired \cup admitted
  BY DEF FiringRules
<1>6. admitted \subseteq {r \in p : r.requires # NoGate}
  BY <1>2 DEF Ungated
<1> HIDE DEF fired, admitted, kinds
<1> SUFFICES fired \cup admitted =
        {r \in p : /\ RuleMatches(r, text)
                   /\ r.requires = NoGate \/
                      RequirementsMet(r.requires, IdsOf(fired \cup admitted), kinds)}
  BY <1>5 DEF fired, kinds
<1> QED
  BY <1>1, <1>3, <1>4, <1>6

\* matching_patterns: what the preview says of a rule is what run_rules does once
\* the rule is in the pack.
THEOREM PreviewIsProduction ==
    ASSUME NEW p, NEW text, NEW r
    PROVE  PreviewFires(r, p, text) <=> r \in FiringRules(Replacing(p, r), text)
<1> DEFINE others == {q \in Fired(p, text) : q.id # r.id}
           next   == Replacing(p, r)
<1>1. CASE r.requires = NoGate
  BY <1>1 DEF PreviewFires, GateOpen, FiringRules, Fired, Admitted, Ungated, Replacing
<1>2. CASE r.requires # NoGate
  <2>1. Fired(next, text) = others
    BY <1>2 DEF Fired, Ungated, Replacing
  <2>2. r \in FiringRules(next, text) <=> r \in Admitted(next, text)
    BY <1>2 DEF FiringRules, Fired, Ungated
  <2>3. r \in Admitted(next, text) <=>
            GateOpen(r, Fired(next, text), text) /\ RuleMatches(r, text)
    BY <1>2 DEF Admitted, Ungated, Replacing
  <2> QED
    BY <2>1, <2>2, <2>3 DEF PreviewFires
<1> QED
  BY <1>1, <1>2

\* The pack as the override store has it: by id, each rule with the rules that its gate
\* names.  The shipped files, YamlPack, have no part in the validation.
Store == INSTANCE RulePack WITH YamlPack <- Packs

StoredAs(p, byId) ==
    /\ DOMAIN byId = IdsOf(p)
    /\ \A r \in p :
          /\ r.requires = NoGate <=> byId[r.id].gate = NoGate
          /\ r.requires # NoGate =>
                byId[r.id].gate = r.requires.anyOf \cup r.requires.allOf

\* validate_requires_graph is one function for the store and for the engine: a pack that
\* the override store accepts is one of those that the two passes are enough for, and
\* the store refuses no other.
THEOREM AcceptedPacksAreSound ==
    ASSUME NEW p, NEW byId, StoredAs(p, byId)
    PROVE  Store!RequiresOnlyUngated(byId) <=> GatesOnUngated(p)
<1>1. Store!Gated(byId) = IdsOf(p \ Ungated(p))
  <2>1. \A r \in p : r.id \in IdsOf(p)
    BY DEF IdsOf
  <2> QED
    BY <2>1 DEF StoredAs, Store!Gated, IdsOf, Ungated
<1>2. \A r \in p \ Ungated(p) :
        byId[r.id].gate = r.requires.anyOf \cup r.requires.allOf
  BY DEF StoredAs, Ungated
<1> QED
  BY <1>1, <1>2 DEF Store!RequiresOnlyUngated, GatesOnUngated, IdsOf

PackIsKnown == pack \in Packs

\* Whatever pack is in force at any time, its two passes are enough for the text.
THEOREM TwoPassesAlways == Spec => []TwoPassesSuffice
<1>1. Init => PackIsKnown
  BY DEF Init, PackIsKnown
<1>2. PackIsKnown /\ [Next]_vars => PackIsKnown'
  BY DEF PackIsKnown, vars, read, analysed, model, Next, BeginText, BeginImage, BeginUnsupported,
         QrFails, QrDecoded, StartOcr, OcrFails, OcrReadsLittle, OcrReads, Shortcut,
         Analyse, AnalyseWithoutCards, RunRules, RouterFails, RouterAnswers, Prompt,
         PrimaryAnswers, FallbackAnswers, Judge, PrimaryFails, FallbackFails,
         StageRaises, Publish
<1>3. PackIsKnown => TwoPassesSuffice
  <2> SUFFICES ASSUME PackIsKnown PROVE TwoPassesSuffice
    OBVIOUS
  <2>1. GatesOnUngated(pack)
    BY PacksAssumption DEF PackIsKnown
  <2> QED
    BY <2>1, TwoPasses DEF TwoPassesSuffice
<1> QED
  BY <1>1, <1>2, <1>3, PTL DEF Spec

\* The preview agrees with production in every state.
THEOREM PreviewAlways == Spec => []PreviewAgrees
<1>1. PreviewAgrees
  BY PreviewIsProduction DEF PreviewAgrees
<1> QED
  BY <1>1, PTL

\* In every state the rules agree with each other and with their preview.
THEOREM RulesAlwaysAgree == Spec => []RulesAgree
<1>1. TwoPassesSuffice /\ PreviewAgrees => RulesAgree
  BY DEF RulesAgree
<1> QED
  BY <1>1, TwoPassesAlways, PreviewAlways, PTL

-----------------------------------------------------------------------------
(* How a check ends *)

\* The statuses of the checks that end before the answer model is asked.
EarlyStatuses == {"low_ocr", "unsupported_media", "ocr_error", "timeout", "empty_input", "meta"}

EndsEarly   == \E s \in EarlyStatuses : result' = Plain(s)
ModelFails  == \E s \in {"timeout", "llm_error"}, n \in {tokens} :
                  result' = After(s, IdsOf(hits), NoDraft, n)
Redirects   == hits = {} /\ result' = After("off_topic", {}, NoDraft, tokens')
FallsBack   == result' = After("safety_fallback", IdsOf(hits), NoDraft, tokens')
ShowsADraft == \E draft \in Drafts :
    /\ Acceptable(Judged(draft), hits, ToSet(found.cards), language)
    /\ result' = After(Verdict(Judged(draft)), IdsOf(hits), Judged(draft), tokens')

\* A step that ends a check ends it in one of five ways.
LEMMA Endings ==
    ASSUME Next, pc' = "done"
    PROVE  /\ pc # "done" /\ hits' = hits /\ language' = language
           /\ EndsEarly \/ ModelFails \/ Redirects \/ FallsBack \/ ShowsADraft
<1> USE DEF read, analysed, model, Goto, Finish
<1>1. CASE BeginText \/ BeginImage \/ QrFails \/ OcrReads \/ RouterFails \/ RouterAnswers
           \/ Prompt \/ StageRaises \/ Analyse \/ AnalyseWithoutCards
  BY <1>1 DEF BeginText, BeginImage, QrFails, OcrReads, RouterFails, RouterAnswers, Prompt,
              StageRaises, Analyse, AnalyseWithoutCards
<1>2. CASE BeginUnsupported
  BY <1>2 DEF BeginUnsupported, Unsupported, EndsEarly, EarlyStatuses
<1>3. CASE QrDecoded
  BY <1>3 DEF QrDecoded, EndsEarly, EarlyStatuses
<1>4. CASE StartOcr \/ OcrFails \/ OcrReadsLittle
  BY <1>4 DEF StartOcr, OcrFails, OcrReadsLittle, WithoutOcr, EndsEarly, EarlyStatuses
<1>5. CASE Shortcut
  BY <1>5 DEF Shortcut, TooLongStatus, EndsEarly, EarlyStatuses
<1>6. CASE PrimaryFails \/ FallbackFails
  BY <1>6 DEF PrimaryFails, FallbackFails, LlmFailure, ModelFails
<1>7. CASE PrimaryAnswers \/ FallbackAnswers
  <2>1. PICK who \in {"primary", "fallback"}, draft \in Drafts : pc = who /\ Judge(who, draft)
    BY <1>7 DEF PrimaryAnswers, FallbackAnswers
  <2>2. pc # "done" /\ hits' = hits /\ language' = language
    BY <2>1 DEF Judge
  <2>3. CASE OffTopic(draft)
    BY <2>1, <2>3 DEF Judge, OffTopic, Redirects
  <2>4. CASE ~OffTopic(draft)
    BY <2>1, <2>4 DEF Judge, ReportedIds, FallsBack, ShowsADraft
  <2> QED
    BY <2>2, <2>3, <2>4
<1>8. CASE Publish
  BY <1>8 DEF Publish, Awaiting
<1> QED
  BY <1>1, <1>2, <1>3, <1>4, <1>5, <1>6, <1>7, <1>8 DEF Next

\* What the rules found outranks the model, in every check.
THEOREM FactsOutrank == Spec => []FactsOutrankTheModel
<1>1. Init => FactsOutrankTheModel
  BY DEF Init, FactsOutrankTheModel, Answered, Done
<1>2. FactsOutrankTheModel /\ [Next]_vars => FactsOutrankTheModel'
  <2> SUFFICES ASSUME FactsOutrankTheModel, Next, pc' = "done" PROVE FactsOutrankTheModel'
    BY DEF vars, FactsOutrankTheModel, Answered, Done
  <2> USE DEF FactsOutrankTheModel, Answered, Done
  <2>1. CASE EndsEarly
    BY <2>1 DEF EndsEarly, EarlyStatuses, Plain
  <2>2. CASE ModelFails
    BY <2>2, Endings DEF ModelFails, After
  <2>3. CASE Redirects
    BY <2>3, Endings DEF Redirects, After
  <2>4. CASE FallsBack
    BY <2>4, Endings DEF FallsBack, After
  <2>5. CASE ShowsADraft
    <3>1. PICK draft \in Drafts :
            /\ Acceptable(Judged(draft), hits, ToSet(found.cards), language)
            /\ result' = After(Verdict(Judged(draft)), IdsOf(hits), Judged(draft), tokens')
      BY <2>5 DEF ShowsADraft
    <3>2. Severe(hits) # {} => Judged(draft).flags # <<>>
      BY <3>1 DEF Acceptable
    <3>3. Verdict(Judged(draft)) \in {"ok", "no_signal"}
          /\ (Verdict(Judged(draft)) = "no_signal" => hits = {})
      BY DEF Verdict
    <3> QED
      BY <3>1, <3>2, <3>3, Endings DEF After
  <2> QED
    BY <2>1, <2>2, <2>3, <2>4, <2>5, Endings
<1> QED
  BY <1>1, <1>2, PTL DEF Spec

\* validate: no sentence of an acceptable draft is one that the scans reject.
LEMMA AcceptableIsSafe ==
    ASSUME NEW draft, NEW fired, NEW ids, NEW reply, Acceptable(draft, fired, ids, reply)
    PROVE  /\ \A b \in Said(draft) : \A s \in Sentences[b] :
                 /\ s \cap (Rejected \cup ids) = {}
                 /\ "payment_claim" \in s => "disclaimer" \in s
                 /\ reply = "uz_latn" => "cyrillic" \notin s
           /\ draft.verify # <<>> /\ draft.ask # <<>>
<1>1. draft.verify # <<>> /\ draft.ask # <<>>
  BY DEF Acceptable
<1>2. ASSUME NEW b \in Said(draft), NEW s \in Sentences[b]
      PROVE  /\ s \cap (Rejected \cup ids) = {}
             /\ "payment_claim" \in s => "disclaimer" \in s
             /\ reply = "uz_latn" => "cyrillic" \notin s
  <2>1. s \in SentencesOf(draft)
    BY <1>2 DEF SentencesOf
  <2>2. s \subseteq Marks(draft)
    BY <2>1 DEF Marks
  <2>3. s \cap (Rejected \cup ids) = {}
    BY <2>2 DEF Acceptable, Rejected
  <2>4. "payment_claim" \in s => "disclaimer" \in s
    BY <2>1 DEF Acceptable, ClaimsPaymentConfirmed, Confirms
  <2>5. reply = "uz_latn" => "cyrillic" \notin s
    BY <2>1 DEF Acceptable, UsesWrongScript
  <2> QED
    BY <2>3, <2>4, <2>5
<1> QED
  BY <1>1, <1>2

\* Nothing unsafe is shown, and nothing at all of a draft that was not accepted.
THEOREM ShownSafe == Spec => []ShownIsSafe
<1>1. Init => ShownIsSafe
  BY DEF Init, ShownIsSafe, Answered, Done
<1>2. ShownIsSafe /\ [Next]_vars => ShownIsSafe'
  <2> SUFFICES ASSUME ShownIsSafe, Next, pc' = "done" PROVE ShownIsSafe'
    BY DEF vars, ShownIsSafe, Answered, Done
  <2> USE DEF ShownIsSafe, Answered, Done
  <2>1. CASE EndsEarly
    BY <2>1 DEF EndsEarly, EarlyStatuses, Plain
  <2>2. CASE ModelFails \/ Redirects \/ FallsBack
    BY <2>2 DEF ModelFails, Redirects, FallsBack, After
  <2>3. CASE ShowsADraft
    <3>1. PICK draft \in Drafts :
            /\ Acceptable(Judged(draft), hits, ToSet(found.cards), language)
            /\ result' = After(Verdict(Judged(draft)), IdsOf(hits), Judged(draft), tokens')
      BY <2>3 DEF ShowsADraft
    <3>2. /\ \A b \in Said(Judged(draft)) : \A s \in Sentences[b] :
                /\ s \cap (Rejected \cup ToSet(found.cards)) = {}
                /\ "payment_claim" \in s => "disclaimer" \in s
                /\ language = "uz_latn" => "cyrillic" \notin s
          /\ Judged(draft).verify # <<>> /\ Judged(draft).ask # <<>>
      BY <3>1, AcceptableIsSafe
    <3>3. Verdict(Judged(draft)) \in {"ok", "no_signal"}
      BY DEF Verdict
    <3> QED
      BY <3>1, <3>2, <3>3, Endings DEF After
  <2> QED
    BY <2>1, <2>2, <2>3, Endings
<1> QED
  BY <1>1, <1>2, PTL DEF Spec

-----------------------------------------------------------------------------
(* What a QR code said *)

Analysing == {"text", "router", "prompt", "primary", "fallback"}

Calls == [who : {"router", "primary", "fallback"}, how : {"answer", "failure"}]

LEMMA AnotherCall ==
    ASSUME NEW calls \in Seq(Calls), NEW who \in {"router", "primary", "fallback"},
           NEW how \in {"answer", "failure"}
    PROVE  /\ Append(calls, [who |-> who, how |-> how]) \in Seq(Calls)
           /\ Append(calls, [who |-> who, how |-> how]) # <<>>
<1> DEFINE call == [who |-> who, how |-> how]
<1>1. call \in Calls
  BY DEF Calls
<1> HIDE DEF call
<1>2. Append(calls, call) \in Seq(Calls) /\ Append(calls, call) # <<>>
  BY <1>1, AppendProperties
<1> QED
  BY <1>2 DEF call

\* A decoded QR code says something, only an image has one, and from the moment
\* there is a text to analyse, it is part of the text and marks it.
QrKept ==
    /\ pc \in Steps
    /\ asked \in Seq(Calls)
    /\ pc \in {"begin", "qr"} => qr = NoQr
    /\ pc = "qr" => input.kind = "image"
    /\ qr.decoded => qr.text # {} /\ input.kind = "image"
    /\ pc \in Analysing /\ qr.decoded => content.strict
    /\ pc \in Analysing \cup {"done"} /\ qr.decoded => qr.text \subseteq content.text
    /\ pc \in {"begin", "qr", "engine", "ocr", "text", "router", "prompt"} => seen = {}
    /\ qr.decoded => \A s \in seen : s.as = "token"
    /\ Done({"ocr_error", "unsupported_media", "empty_input"}) => ~qr.decoded
    /\ Done({"timeout"}) /\ qr.decoded => asked # <<>>

LEMMA QrKeptInit == Init => QrKept
BY DEF Init, QrKept, NoQr, Analysing, Done, Steps

LEMMA QrKeptStep == QrKept /\ [Next]_vars => QrKept'
<1> SUFFICES ASSUME QrKept, [Next]_vars PROVE QrKept'
  OBVIOUS
<1> USE DEF QrKept, Analysing, Done, Steps, Awaiting, read, analysed, model, Goto, Finish, Plain
<1>1. CASE BeginText
  BY <1>1 DEF BeginText, NoQr
<1>2. CASE BeginImage
  BY <1>2 DEF BeginImage
<1>3. CASE BeginUnsupported
  BY <1>3 DEF BeginUnsupported, NoQr
<1>4. CASE QrFails
  BY <1>4 DEF QrFails, NoQr
<1>5. CASE QrDecoded
  <2>1. qr = NoQr /\ input.kind = "image" /\ pc = "qr"
    BY <1>5 DEF QrDecoded
  <2>2. /\ UNCHANGED <<input, content, seen, asked>>
        /\ \/ qr' = qr /\ (pc' = "engine" \/ (pc' = "done" /\ result' = Plain("low_ocr")))
           \/ pc' = "engine" /\ \E p \in Payloads : qr' = QrOf(p)
    BY <1>5 DEF QrDecoded
  <2>3. qr'.decoded => qr'.text # {}
    <3>1. CASE qr' = qr
      BY <2>1, <3>1 DEF NoQr
    <3>2. ASSUME NEW p, qr' = QrOf(p) PROVE qr'.text # {}
      <4>1. qr'.text = {PaymentMark} \/ qr'.text = {p}
        BY <3>2 DEF QrOf
      <4> QED
        BY <4>1
    <3> QED
      BY <2>2, <3>1, <3>2
  <2> QED
    BY <2>1, <2>2, <2>3 DEF NoQr
<1>6. CASE StartOcr \/ OcrFails \/ OcrReadsLittle
  BY <1>6 DEF StartOcr, OcrFails, OcrReadsLittle, WithoutOcr, QrOnly
<1>7. CASE OcrReads
  BY <1>7 DEF OcrReads
<1>8. CASE Shortcut
  BY <1>8 DEF Shortcut, TooLongStatus
<1>9. CASE Analyse \/ AnalyseWithoutCards
  BY <1>9 DEF Analyse, AnalyseWithoutCards, RunRules
<1>10. CASE RouterFails \/ RouterAnswers
  BY <1>10, AnotherCall DEF RouterFails, RouterAnswers
<1>11. CASE Prompt
  <2>1. seen' = Minimized(Patterns(content.text), ~content.strict)
    BY <1>11 DEF Prompt
  <2>2. content.strict => \A s \in seen' : s.as = "token"
    BY <2>1 DEF Minimized, Token
  <2> QED
    BY <1>11, <2>2 DEF Prompt
<1>12. CASE PrimaryAnswers \/ FallbackAnswers
  <2>1. PICK who \in {"primary", "fallback"}, draft \in Drafts : pc = who /\ Judge(who, draft)
    BY <1>12 DEF PrimaryAnswers, FallbackAnswers
  <2>2. /\ UNCHANGED <<read, qr, content, seen>>
        /\ asked' = Append(asked, [who |-> who, how |-> "answer"])
        /\ \/ pc' = "primary"
           \/ pc' = "done" /\ result'.status \in {"off_topic", "ok", "no_signal", "safety_fallback"}
    BY <2>1 DEF Judge, After, Verdict
  <2>3. asked' \in Seq(Calls) /\ asked' # <<>>
    BY <2>2, AnotherCall
  <2> QED
    BY <2>1, <2>2, <2>3
<1>13. CASE PrimaryFails \/ FallbackFails
  <2>1. asked' \in Seq(Calls) /\ asked' # <<>>
    BY <1>13, AnotherCall DEF PrimaryFails, FallbackFails
  <2>2. /\ UNCHANGED <<read, qr, content, seen>>
        /\ pc \in {"primary", "fallback"}
        /\ \/ pc' = "fallback"
           \/ pc' = "done" /\ result'.status \in {"timeout", "llm_error"}
    BY <1>13 DEF PrimaryFails, FallbackFails, LlmFailure, After
  <2> QED
    BY <2>1, <2>2
<1>14. CASE StageRaises
  BY <1>14 DEF StageRaises
<1>15. CASE Publish
  BY <1>15 DEF Publish
<1>16. CASE UNCHANGED vars
  BY <1>16 DEF vars
<1> QED
  BY <1>1, <1>2, <1>3, <1>4, <1>5, <1>6, <1>7, <1>8, <1>9, <1>10, <1>11, <1>12,
     <1>13, <1>14, <1>15, <1>16 DEF Next

\* The answer model never sees names and links of what a QR code said.
THEOREM QrStrict == Spec => []QrStaysStrict
<1>1. QrKept => QrStaysStrict
  BY DEF QrKept, QrStaysStrict
<1> QED
  BY <1>1, QrKeptInit, QrKeptStep, PTL DEF Spec

\* What a QR code said is analysed, whatever becomes of OCR.
THEOREM QrSurvives == Spec => []DecodedQrSurvives
<1>1. QrKept => DecodedQrSurvives
  BY DEF QrKept, DecodedQrSurvives, Analysing, Done, NoQr, Steps, Awaiting
<1> QED
  BY <1>1, QrKeptInit, QrKeptStep, PTL DEF Spec

\* What a QR code said is neither lost nor shown in the open.
THEOREM QrHonoured == Spec => []QrIsHonoured
<1>1. QrStaysStrict /\ DecodedQrSurvives => QrIsHonoured
  BY DEF QrIsHonoured
<1> QED
  BY <1>1, QrStrict, QrSurvives, PTL

-----------------------------------------------------------------------------
(* What is paid for *)

AnswersIn(calls) == {k \in DOMAIN calls : calls[k].how = "answer"}
DraftsIn(calls)  == {k \in DOMAIN calls : calls[k].who # "router" /\ calls[k].how = "answer"}

\* The history new is calls and one call more.
IsExtendedBy(new, calls, call) == new = Append(calls, call)

\* FailuresAreNotRetried, but for the number of drafts.
CallsFollow(calls) ==
    \A k \in DOMAIN calls :
        /\ calls[k].who = "fallback" =>
              k > 1 /\ calls[k - 1] = [who |-> "primary", how |-> "failure"]
        /\ calls[k].who = "primary" /\ k > 1 =>
              calls[k - 1].who = "router" \/ calls[k - 1].how = "answer"

\* What the last call was when the check may make the next one.
MayAskPrimary(calls) ==
    calls = <<>> \/ calls[Len(calls)].who = "router" \/ calls[Len(calls)].how = "answer"
MayAskFallback(calls) ==
    calls # <<>> /\ calls[Len(calls)] = [who |-> "primary", how |-> "failure"]

\* The calls made so far are those that the place of the check calls for; the second
\* attempt has paid for one draft, and an image that got anywhere has bytes.
Accounted ==
    /\ pc \in Steps /\ asked \in Seq(Calls) /\ attempt \in {0, 1}
    /\ pc \in {"begin", "qr", "engine", "ocr", "text", "router"} => asked = <<>> /\ attempt = 0
    /\ pc \in {"qr", "engine", "ocr"} => input.kind = "image" /\ input.bytes
    /\ pc = "text" /\ input.kind = "image" => input.bytes
    /\ pc = "prompt" => attempt = 0 /\ DraftsIn(asked) = {}
    /\ pc \in {"prompt", "primary"} => MayAskPrimary(asked)
    /\ pc = "fallback" => MayAskFallback(asked)
    /\ tokens = Cardinality(AnswersIn(asked))
    /\ pc \in {"primary", "fallback"} => Cardinality(DraftsIn(asked)) = attempt
    /\ Cardinality(DraftsIn(asked)) <= 2
    /\ CallsFollow(asked)
    /\ pc = "done" => result.tokens = tokens
    /\ BilledOnlyForWork

LEMMA CallsAreFinite ==
    ASSUME NEW calls \in Seq(Calls)
    PROVE  /\ IsFiniteSet(AnswersIn(calls)) /\ Cardinality(AnswersIn(calls)) \in Nat
           /\ IsFiniteSet(DraftsIn(calls)) /\ Cardinality(DraftsIn(calls)) \in Nat
           /\ DOMAIN calls = 1 .. Len(calls) /\ Len(calls) \in Nat
<1>1. DOMAIN calls = 1 .. Len(calls) /\ Len(calls) \in Nat
  BY LenProperties
<1>2. IsFiniteSet(1 .. Len(calls))
  BY <1>1, FS_Interval
<1>3. AnswersIn(calls) \in SUBSET (1 .. Len(calls)) /\ DraftsIn(calls) \in SUBSET (1 .. Len(calls))
  BY <1>1 DEF AnswersIn, DraftsIn
<1> QED
  BY <1>1, <1>2, <1>3, FS_Subset, FS_CardinalityType

LEMMA NoCalls ==
    /\ AnswersIn(<<>>) = {} /\ DraftsIn(<<>>) = {} /\ Cardinality({}) = 0
    /\ MayAskPrimary(<<>>) /\ CallsFollow(<<>>) /\ <<>> \in Seq(Calls)
<1>1. DOMAIN <<>> = {} /\ Cardinality({}) = 0 /\ <<>> \in Seq(Calls)
  BY FS_EmptySet, EmptySeq
<1> QED
  BY <1>1 DEF AnswersIn, DraftsIn, MayAskPrimary, CallsFollow

LEMMA ACall ==
    ASSUME NEW who \in {"router", "primary", "fallback"}, NEW how \in {"answer", "failure"},
           NEW call, call = [who |-> who, how |-> how]
    PROVE  call \in Calls /\ call.who = who /\ call.how = how
BY DEF Calls

\* One more call counts once.
LEMMA OneMoreCall ==
    ASSUME NEW calls \in Seq(Calls), NEW call \in Calls, NEW new, IsExtendedBy(new, calls, call)
    PROVE  /\ new \in Seq(Calls) /\ new # <<>> /\ Len(new) = Len(calls) + 1
           /\ Len(calls) \in Nat /\ DOMAIN calls = 1 .. Len(calls) /\ DOMAIN new = 1 .. Len(new)
           /\ \A k \in 1 .. Len(calls) : new[k] = calls[k]
           /\ new[Len(new)] = call
           /\ call.how = "answer" =>
                Cardinality(AnswersIn(new)) = Cardinality(AnswersIn(calls)) + 1
           /\ call.how = "failure" => AnswersIn(new) = AnswersIn(calls)
           /\ call.how = "failure" \/ call.who = "router" => DraftsIn(new) = DraftsIn(calls)
           /\ call.how = "answer" /\ call.who # "router" =>
                Cardinality(DraftsIn(new)) = Cardinality(DraftsIn(calls)) + 1
<1> DEFINE n == Len(calls) + 1
<1>1. /\ new \in Seq(Calls) /\ new # <<>> /\ Len(new) = n
      /\ \A k \in 1 .. Len(calls) : new[k] = calls[k]
      /\ new[n] = call
  BY AppendProperties DEF IsExtendedBy
<1>2. /\ DOMAIN calls = 1 .. Len(calls) /\ DOMAIN new = 1 .. n /\ Len(calls) \in Nat
      /\ IsFiniteSet(AnswersIn(calls)) /\ IsFiniteSet(DraftsIn(calls))
  BY <1>1, CallsAreFinite
<1>3. n \notin AnswersIn(calls) /\ n \notin DraftsIn(calls)
  BY <1>2 DEF AnswersIn, DraftsIn
<1>4. /\ call.how = "answer" => AnswersIn(new) = AnswersIn(calls) \cup {n}
      /\ call.how = "failure" => AnswersIn(new) = AnswersIn(calls)
  BY <1>1, <1>2 DEF AnswersIn
<1>5. /\ call.how = "answer" /\ call.who # "router" => DraftsIn(new) = DraftsIn(calls) \cup {n}
      /\ call.how = "failure" \/ call.who = "router" => DraftsIn(new) = DraftsIn(calls)
  BY <1>1, <1>2 DEF DraftsIn
<1>6. /\ Cardinality(AnswersIn(calls) \cup {n}) = Cardinality(AnswersIn(calls)) + 1
      /\ Cardinality(DraftsIn(calls) \cup {n}) = Cardinality(DraftsIn(calls)) + 1
  BY <1>2, <1>3, FS_AddElement
<1> QED
  BY <1>1, <1>2, <1>4, <1>5, <1>6

\* A call that the place of the check calls for keeps the history in order.
LEMMA CallsStillFollow ==
    ASSUME NEW calls \in Seq(Calls), CallsFollow(calls), NEW call \in Calls,
           NEW new, IsExtendedBy(new, calls, call),
           call.who = "primary" => MayAskPrimary(calls),
           call.who = "fallback" => MayAskFallback(calls)
    PROVE  CallsFollow(new)
<1>1. /\ Len(new) = Len(calls) + 1 /\ DOMAIN new = 1 .. Len(new)
      /\ DOMAIN calls = 1 .. Len(calls) /\ Len(calls) \in Nat
      /\ \A k \in 1 .. Len(calls) : new[k] = calls[k]
      /\ new[Len(new)] = call
  BY OneMoreCall
<1>2. calls = <<>> => Len(calls) = 0
  BY EmptySeq
<1>3. ASSUME NEW k \in DOMAIN new
      PROVE  /\ new[k].who = "fallback" =>
                    k > 1 /\ new[k - 1] = [who |-> "primary", how |-> "failure"]
             /\ new[k].who = "primary" /\ k > 1 =>
                    new[k - 1].who = "router" \/ new[k - 1].how = "answer"
  <2>1. CASE k \in 1 .. Len(calls)
    <3>1. k > 1 => k - 1 \in 1 .. Len(calls)
      BY <1>1, <2>1
    <3> QED
      BY <1>1, <2>1, <3>1 DEF CallsFollow
  <2>2. CASE k = Len(calls) + 1
    <3>1. new[k] = call /\ k - 1 = Len(calls)
      BY <1>1, <2>2
    <3>2. CASE calls = <<>>
      BY <1>1, <1>2, <2>2, <3>1, <3>2 DEF MayAskFallback
    <3>3. CASE calls # <<>>
      <4>1. Len(calls) \in 1 .. Len(calls)
        BY <1>1, <3>3, EmptySeq
      <4>2. new[k - 1] = calls[Len(calls)] /\ k > 1
        BY <1>1, <2>2, <3>1, <4>1
      <4> QED
        BY <3>1, <3>3, <4>2 DEF MayAskPrimary, MayAskFallback
    <3> QED
      BY <3>2, <3>3
  <2> QED
    BY <1>1, <1>3, <2>1, <2>2
<1> QED
  BY <1>3 DEF CallsFollow

LEMMA AccountedInit == Init => Accounted
<1> SUFFICES ASSUME Init PROVE Accounted
  OBVIOUS
<1>1. pc = "begin" /\ asked = <<>> /\ attempt = 0 /\ tokens = 0
  BY DEF Init
<1>2. BilledOnlyForWork
  BY <1>1 DEF BilledOnlyForWork, Done
<1>3. /\ Cardinality(AnswersIn(asked)) = 0 /\ Cardinality(DraftsIn(asked)) = 0
      /\ CallsFollow(asked) /\ asked \in Seq(Calls)
  BY <1>1, NoCalls
<1> QED
  BY <1>1, <1>2, <1>3 DEF Accounted, Steps

\* An outcome that says the image was hardly read is that of an image.
LEMMA BeforeTheCalls ==
    ASSUME Accounted, pc \in {"begin", "qr", "engine", "ocr", "text"}, UNCHANGED <<input, model>>,
           \/ BeginText \/ BeginImage \/ BeginUnsupported \/ QrFails \/ QrDecoded
           \/ StartOcr \/ OcrFails \/ OcrReadsLittle \/ OcrReads \/ Shortcut
           \/ Analyse \/ AnalyseWithoutCards
    PROVE  Accounted'
<1> USE DEF Goto, Finish, Plain, Steps, Awaiting
<1>1. /\ asked = <<>> /\ attempt = 0 /\ tokens = 0
      /\ asked' = <<>> /\ attempt' = 0 /\ tokens' = 0
  BY NoCalls DEF Accounted, model
<1>2. pc' \in {"qr", "engine", "ocr"} => input.kind = "image" /\ input.bytes
  BY DEF Accounted, BeginText, BeginImage, BeginUnsupported, QrFails, QrDecoded, StartOcr, OcrFails,
         OcrReadsLittle, OcrReads, Shortcut, Analyse, AnalyseWithoutCards, WithoutOcr
<1>3. pc' = "text" /\ input.kind = "image" => input.bytes
  BY DEF Accounted, BeginText, BeginImage, BeginUnsupported, QrFails, QrDecoded, StartOcr, OcrFails,
         OcrReadsLittle, OcrReads, Shortcut, Analyse, AnalyseWithoutCards, WithoutOcr
<1>4. ASSUME pc' = "done"
      PROVE  /\ result'.tokens = 0
             /\ result'.status \in BillableStatuses => input.kind = "image" /\ input.bytes
  <2>1. PICK status : result' = Plain(status)
    BY <1>4 DEF BeginText, BeginImage, BeginUnsupported, QrFails, QrDecoded, StartOcr, OcrFails,
         OcrReadsLittle, OcrReads, Shortcut, Analyse, AnalyseWithoutCards, WithoutOcr, Unsupported
  <2>2. result'.tokens = 0 /\ result'.status = status
    BY <2>1
  <2>3. CASE pc \in {"qr", "engine", "ocr"}
    BY <2>2, <2>3 DEF Accounted
  <2>4. CASE pc = "begin"
    BY <2>2, <2>4, <1>4 DEF BeginText, BeginImage, BeginUnsupported, QrFails, QrDecoded, StartOcr,
         OcrFails, OcrReadsLittle, OcrReads, Shortcut, Analyse, AnalyseWithoutCards, RunRules,
         Unsupported, BillableStatuses
  <2>5. CASE pc = "text"
    <3>1. \/ result'.status \in {"empty_input", "meta", "unsupported_media"}
          \/ result'.status = "low_ocr" /\ input.kind = "image"
      BY <1>4, <2>5 DEF BeginText, BeginImage, BeginUnsupported, QrFails, QrDecoded, StartOcr,
         OcrFails, OcrReadsLittle, OcrReads, Shortcut, Analyse, AnalyseWithoutCards, TooLongStatus
    <3> QED
      BY <2>2, <2>5, <3>1 DEF Accounted, BillableStatuses
  <2> QED
    BY <2>3, <2>4, <2>5
<1>5. pc' \in {"qr", "engine", "ocr", "text", "router", "prompt", "done"}
  BY DEF BeginText, BeginImage, BeginUnsupported, QrFails, QrDecoded, StartOcr, OcrFails,
         OcrReadsLittle, OcrReads, Shortcut, Analyse, AnalyseWithoutCards, WithoutOcr
<1>6. BilledOnlyForWork'
  BY <1>4 DEF BilledOnlyForWork, Done
<1> QED
  BY <1>1, <1>2, <1>3, <1>4, <1>5, <1>6, NoCalls DEF Accounted

LEMMA AccountedStep == Accounted /\ [Next]_vars => Accounted'
<1> SUFFICES ASSUME Accounted, [Next]_vars PROVE Accounted'
  OBVIOUS
<1> USE DEF Goto, Finish, Steps, Awaiting, read, model
<1>0. /\ asked \in Seq(Calls) /\ Cardinality(AnswersIn(asked)) \in Nat
      /\ Cardinality(DraftsIn(asked)) \in Nat
  BY CallsAreFinite DEF Accounted
<1>1. CASE \/ BeginText \/ BeginImage \/ BeginUnsupported \/ QrFails \/ QrDecoded
           \/ StartOcr \/ OcrFails \/ OcrReadsLittle \/ OcrReads \/ Shortcut
           \/ Analyse \/ AnalyseWithoutCards
  <2>1. pc \in {"begin", "qr", "engine", "ocr", "text"} /\ UNCHANGED <<input, model>>
    BY <1>1 DEF BeginText, BeginImage, BeginUnsupported, QrFails, QrDecoded, StartOcr, OcrFails,
         OcrReadsLittle, OcrReads, Shortcut, Analyse, AnalyseWithoutCards, RunRules
  <2> QED
    BY <1>1, <2>1, BeforeTheCalls
<1>2. CASE RouterFails \/ RouterAnswers
  <2>1. PICK how, call :
          /\ how \in {"answer", "failure"}
          /\ call = [who |-> "router", how |-> how] /\ asked' = Append(asked, call)
          /\ how = "answer" => tokens' = tokens + 1
          /\ how = "failure" => tokens' = tokens
    BY <1>2 DEF RouterFails, RouterAnswers
  <2>2. PICK old, new : old = asked /\ new = asked'
    OBVIOUS
  <2>3. call \in Calls /\ call.who = "router" /\ call.how = how
    BY <2>1, ACall
  <2>4. /\ old \in Seq(Calls) /\ CallsFollow(old) /\ IsExtendedBy(new, old, call)
        /\ pc = "router" /\ pc' = "prompt" /\ attempt' = attempt /\ attempt = 0
        /\ DraftsIn(old) = {} /\ tokens = Cardinality(AnswersIn(old))
    BY <1>0, <1>2, <2>1, <2>2, NoCalls DEF RouterFails, RouterAnswers, Accounted, IsExtendedBy
  <2>5. /\ new \in Seq(Calls) /\ new # <<>> /\ new[Len(new)] = call
        /\ how = "answer" => Cardinality(AnswersIn(new)) = Cardinality(AnswersIn(old)) + 1
        /\ how = "failure" => AnswersIn(new) = AnswersIn(old)
        /\ DraftsIn(new) = DraftsIn(old)
    BY <2>3, <2>4, OneMoreCall
  <2>6. CallsFollow(new) /\ MayAskPrimary(new)
    BY <2>3, <2>4, <2>5, CallsStillFollow DEF MayAskPrimary
  <2>7. tokens' = Cardinality(AnswersIn(new)) /\ DraftsIn(new) = {} /\ Cardinality(DraftsIn(new)) <= 2
    BY <2>1, <2>4, <2>5, NoCalls
  <2> QED
    BY <2>2, <2>4, <2>5, <2>6, <2>7 DEF Accounted, BilledOnlyForWork, Done
<1>3. CASE Prompt
  <2>1. pc = "prompt" /\ pc' = "primary" /\ UNCHANGED <<input, model, result>>
    BY <1>3 DEF Prompt
  <2> QED
    BY <2>1, NoCalls DEF Accounted, BilledOnlyForWork, Done
<1>4. CASE PrimaryAnswers \/ FallbackAnswers
  <2>1. PICK who \in {"primary", "fallback"}, draft \in Drafts : pc = who /\ Judge(who, draft)
    BY <1>4 DEF PrimaryAnswers, FallbackAnswers
  <2>2. PICK call :
          /\ call = [who |-> who, how |-> "answer"] /\ asked' = Append(asked, call)
          /\ tokens' = tokens + 1
          /\ \/ pc' = "done" /\ attempt' = attempt /\ result'.tokens = tokens'
             \/ pc' = "primary" /\ attempt = 0 /\ attempt' = 1
    BY <2>1 DEF Judge, After
  <2>3. PICK old, new : old = asked /\ new = asked'
    OBVIOUS
  <2>4. call \in Calls /\ call.who = who /\ call.how = "answer"
    BY <2>2, ACall
  <2>5. /\ old \in Seq(Calls) /\ CallsFollow(old) /\ IsExtendedBy(new, old, call)
        /\ Cardinality(DraftsIn(old)) = attempt /\ attempt \in {0, 1}
        /\ tokens = Cardinality(AnswersIn(old))
        /\ who = "primary" => MayAskPrimary(old)
        /\ who = "fallback" => MayAskFallback(old)
    BY <1>0, <2>1, <2>2, <2>3 DEF Accounted, IsExtendedBy
  <2>6. /\ new \in Seq(Calls) /\ new # <<>> /\ new[Len(new)] = call
        /\ Cardinality(AnswersIn(new)) = Cardinality(AnswersIn(old)) + 1
        /\ Cardinality(DraftsIn(new)) = Cardinality(DraftsIn(old)) + 1
        /\ DOMAIN new = 1 .. Len(new) /\ Len(new) = Len(old) + 1 /\ Len(old) \in Nat
    BY <2>4, <2>5, OneMoreCall
  <2>7. CallsFollow(new) /\ MayAskPrimary(new)
    BY <2>4, <2>5, <2>6, CallsStillFollow DEF MayAskPrimary
  <2>8. HasAnswered({"primary", "fallback"})'
    BY <2>3, <2>4, <2>6 DEF HasAnswered
  <2>9. /\ tokens' = Cardinality(AnswersIn(new)) /\ Cardinality(DraftsIn(new)) <= 2
        /\ attempt' \in {0, 1} /\ (pc' = "primary" => Cardinality(DraftsIn(new)) = attempt')
    BY <2>2, <2>5, <2>6
  <2> QED
    BY <2>2, <2>3, <2>6, <2>7, <2>8, <2>9 DEF Accounted, BilledOnlyForWork
<1>5. CASE PrimaryFails \/ FallbackFails
  <2>1. PICK who, call :
          /\ who \in {"primary", "fallback"}
          /\ call = [who |-> who, how |-> "failure"]
          /\ pc = who /\ asked' = Append(asked, call)
          /\ UNCHANGED <<attempt, tokens>>
          /\ \/ pc' = "fallback" /\ who = "primary"
             \/ pc' = "done" /\ result'.tokens = tokens /\ result'.status \in {"timeout", "llm_error"}
    BY <1>5 DEF PrimaryFails, FallbackFails, LlmFailure, After
  <2>2. PICK old, new : old = asked /\ new = asked'
    OBVIOUS
  <2>3. call \in Calls /\ call.who = who /\ call.how = "failure"
    BY <2>1, ACall
  <2>4. /\ old \in Seq(Calls) /\ CallsFollow(old) /\ IsExtendedBy(new, old, call)
        /\ Cardinality(DraftsIn(old)) = attempt /\ attempt \in {0, 1}
        /\ tokens = Cardinality(AnswersIn(old))
        /\ who = "primary" => MayAskPrimary(old)
        /\ who = "fallback" => MayAskFallback(old)
    BY <1>0, <2>1, <2>2 DEF Accounted, IsExtendedBy
  <2>5. /\ new \in Seq(Calls) /\ new # <<>> /\ new[Len(new)] = call
        /\ AnswersIn(new) = AnswersIn(old) /\ DraftsIn(new) = DraftsIn(old)
    BY <2>3, <2>4, OneMoreCall
  <2>6. CallsFollow(new) /\ (who = "primary" => MayAskFallback(new))
    BY <2>1, <2>3, <2>4, <2>5, CallsStillFollow DEF MayAskFallback
  <2>7. /\ tokens' = Cardinality(AnswersIn(new)) /\ Cardinality(DraftsIn(new)) <= 2
        /\ Cardinality(DraftsIn(new)) = attempt' /\ attempt' \in {0, 1}
    BY <2>1, <2>4, <2>5
  <2>8. BilledOnlyForWork'
    BY <2>1 DEF BilledOnlyForWork, BillableStatuses, Done
  <2> QED
    BY <2>1, <2>2, <2>5, <2>6, <2>7, <2>8 DEF Accounted
<1>6. CASE StageRaises
  <2>1. pc' = "raised" /\ UNCHANGED model
    BY <1>6 DEF StageRaises
  <2> QED
    BY <2>1 DEF Accounted, BilledOnlyForWork, Done
<1>7. CASE Publish \/ UNCHANGED vars
  <2>1. UNCHANGED <<pc, input, model, result>>
    BY <1>7 DEF Publish, vars
  <2> QED
    BY <2>1 DEF Accounted, BilledOnlyForWork, Done, HasAnswered
<1> QED
  BY <1>1, <1>2, <1>3, <1>4, <1>5, <1>6, <1>7 DEF Next

\* The model is paid for what is needed and all of it is reported: a fallback call
\* follows a failure of the primary one, a second attempt a rejected draft, no check
\* pays for more than two drafts; the result reports every answer that was read; and a
\* check keeps its slot only if its image was read or a model answered.
THEOREM SpendAccounted == Spec => []SpendIsAccounted
<1>1. Accounted => FailuresAreNotRetried
  <2> SUFFICES ASSUME Accounted, NEW k \in DOMAIN asked
               PROVE  Cardinality({j \in 1 .. k : asked[j].who # "router" /\ asked[j].how = "answer"}) <= 2
    BY DEF FailuresAreNotRetried, Accounted, CallsFollow
  <2> DEFINE S == {j \in 1 .. k : asked[j].who # "router" /\ asked[j].how = "answer"}
  <2>1. /\ DOMAIN asked = 1 .. Len(asked) /\ Len(asked) \in Nat
        /\ IsFiniteSet(DraftsIn(asked)) /\ Cardinality(DraftsIn(asked)) \in Nat
        /\ Cardinality(DraftsIn(asked)) <= 2
    BY CallsAreFinite DEF Accounted
  <2>2. S \in SUBSET DraftsIn(asked)
    BY <2>1 DEF DraftsIn
  <2>3. IsFiniteSet(S) /\ Cardinality(S) <= Cardinality(DraftsIn(asked))
    BY <2>1, <2>2, FS_Subset
  <2> HIDE DEF S
  <2>4. Cardinality(S) <= 2
    BY <2>1, <2>3, FS_CardinalityType
  <2> QED
    BY <2>4 DEF S
<1>2. Accounted => SpendIsReported
  BY DEF Accounted, SpendIsReported, AnswersIn
<1>3. Accounted => SpendIsAccounted
  BY <1>1, <1>2 DEF SpendIsAccounted, Accounted
<1> QED
  BY <1>3, AccountedInit, AccountedStep, PTL DEF Spec

-----------------------------------------------------------------------------
(* What is kept of a list, and how many *)

\* Members of a finite set that are numbered by how many precede them: P[i] is what
\* precedes i, and of any two members one precedes the other with all that precedes it.
Numbers(P, S) ==
    /\ IsFiniteSet(S) /\ P \in [S -> SUBSET S]
    /\ \A i \in S : i \notin P[i]
    /\ \A i, j \in S : i = j \/ (i \in P[j] /\ P[i] \subseteq P[j])
                             \/ (j \in P[i] /\ P[j] \subseteq P[i])

LEMMA Smaller ==
    ASSUME NEW S, NEW P, Numbers(P, S), NEW i \in S, NEW j \in S, i \in P[j]
    PROVE  Cardinality(P[i]) < Cardinality(P[j])
<1>1. i # j /\ j \notin P[i]
  BY DEF Numbers
<1>2. P[i] \subseteq P[j] /\ P[i] # P[j] /\ IsFiniteSet(P[j])
  <2>1. P[j] \in SUBSET S /\ IsFiniteSet(S)
    BY DEF Numbers
  <2>2. IsFiniteSet(P[j])
    BY <2>1, FS_Subset
  <2>3. P[i] \subseteq P[j] /\ i \notin P[i]
    BY <1>1 DEF Numbers
  <2> QED
    BY <2>2, <2>3
<1>3. P[i] \in SUBSET P[j]
  BY <1>2
<1>4. /\ IsFiniteSet(P[i]) /\ Cardinality(P[i]) <= Cardinality(P[j])
      /\ Cardinality(P[j]) # Cardinality(P[i])
  BY <1>2, <1>3, FS_Subset
<1>5. Cardinality(P[i]) \in Nat /\ Cardinality(P[j]) \in Nat
  BY <1>2, <1>4, FS_CardinalityType
<1> QED
  BY <1>4, <1>5

LEMMA Numbered ==
    ASSUME NEW S, NEW P, Numbers(P, S)
    PROVE  /\ Cardinality(S) \in Nat
           /\ \A i \in S : Cardinality(P[i]) \in 0 .. (Cardinality(S) - 1)
           /\ \A i, j \in S : Cardinality(P[i]) = Cardinality(P[j]) => i = j
           /\ \A n \in 1 .. Cardinality(S) : \E i \in S : Cardinality(P[i]) = n - 1
<1> DEFINE c == Cardinality(S)
           T == 0 .. (c - 1)
           r == [i \in S |-> Cardinality(P[i])]
<1>1. c \in Nat
  BY FS_CardinalityType DEF Numbers
<1>2. ASSUME NEW i \in S PROVE Cardinality(P[i]) \in T
  <2>1. P[i] \in SUBSET S /\ P[i] # S /\ IsFiniteSet(S)
    BY DEF Numbers
  <2>2. IsFiniteSet(P[i]) /\ Cardinality(P[i]) <= c /\ Cardinality(P[i]) # c
    BY <2>1, FS_Subset
  <2>3. Cardinality(P[i]) \in Nat
    BY <2>2, FS_CardinalityType
  <2> HIDE DEF c
  <2> QED
    BY <1>1, <2>2, <2>3
<1>3. ASSUME NEW i \in S, NEW j \in S, Cardinality(P[i]) = Cardinality(P[j]) PROVE i = j
  <2> SUFFICES ASSUME i # j PROVE FALSE
    OBVIOUS
  <2>1. i \in P[j] \/ j \in P[i]
    BY DEF Numbers
  <2>2. Cardinality(P[i]) \in Nat /\ Cardinality(P[j]) \in Nat
    BY <1>1, <1>2
  <2> QED
    BY <1>3, <2>1, <2>2, Smaller
<1>4. IsFiniteSet(T) /\ Cardinality(T) = c
  <2> HIDE DEF c
  <2>1. 0 \in Int /\ c - 1 \in Int
    BY <1>1
  <2>2. IsFiniteSet(T) /\ Cardinality(T) = IF 0 > c - 1 THEN 0 ELSE (c - 1) - 0 + 1
    BY <2>1, FS_Interval
  <2> QED
    BY <1>1, <2>2
<1>5. r \in Injection(S, T)
  <2>1. r \in [S -> T]
    BY <1>2
  <2> QED
    BY <2>1, <1>3 DEF Injection, IsInjective
<1>6. r \in Surjection(S, T)
  <2> HIDE DEF r, T, c
  <2>1. Cardinality(S) = Cardinality(T)
    BY <1>4 DEF c
  <2> QED
    BY <1>4, <1>5, <2>1, FS_Injection
<1>7. \A n \in 1 .. c : \E i \in S : Cardinality(P[i]) = n - 1
  <2> SUFFICES ASSUME NEW n \in 1 .. c PROVE \E i \in S : Cardinality(P[i]) = n - 1
    OBVIOUS
  <2>1. n - 1 \in T
    BY <1>1
  <2>2. PICK i \in S : r[i] = n - 1
    BY <1>6, <2>1 DEF Surjection
  <2> QED
    BY <2>2
<1> QED
  BY <1>1, <1>2, <1>3, <1>7

\* A position among others is numbered by those before it.
Before(at) == [k \in at |-> {j \in at : j < k}]

LEMMA NthIs ==
    ASSUME NEW m \in Nat, NEW at \in SUBSET (1 .. m)
    PROVE  /\ IsFiniteSet(at) /\ Cardinality(at) \in Nat
           /\ \A n \in 1 .. Cardinality(at) :
                 Nth(at, n) \in at /\ Cardinality(Before(at)[Nth(at, n)]) = n - 1
           /\ \A k \in at : Cardinality(Before(at)[k]) + 1 \in 1 .. Cardinality(at)
                            /\ Nth(at, Cardinality(Before(at)[k]) + 1) = k
<1> DEFINE P == Before(at)
<1>1. IsFiniteSet(at)
  <2>1. IsFiniteSet(1 .. m)
    BY FS_Interval
  <2> QED
    BY <2>1, FS_Subset
<1>2. Numbers(P, at)
  <2>1. P \in [at -> SUBSET at]
    BY DEF Before
  <2>2. \A i \in at : i \in Int /\ P[i] = {j \in at : j < i}
    BY DEF Before
  <2> HIDE DEF P
  <2>3. \A i \in at : i \notin P[i]
    BY <2>2
  <2>4. \A i, j \in at : i = j \/ (i \in P[j] /\ P[i] \subseteq P[j])
                                \/ (j \in P[i] /\ P[j] \subseteq P[i])
    <3> SUFFICES ASSUME NEW i \in at, NEW j \in at, i < j
                 PROVE  i \in P[j] /\ P[i] \subseteq P[j]
      BY <2>2
    <3>1. i \in Int /\ j \in Int /\ P[i] = {k \in at : k < i} /\ P[j] = {k \in at : k < j}
      BY <2>2
    <3>2. ASSUME NEW k \in P[i] PROVE k \in P[j]
      <4>1. k \in at /\ k < i /\ k \in Int
        BY <2>2, <3>1
      <4> QED
        BY <3>1, <4>1
    <3> QED
      BY <3>1, <3>2
  <2> QED
    BY <1>1, <2>1, <2>3, <2>4 DEF Numbers
<1>3. /\ Cardinality(at) \in Nat
      /\ \A i \in at : Cardinality(P[i]) \in 0 .. (Cardinality(at) - 1)
      /\ \A i, j \in at : Cardinality(P[i]) = Cardinality(P[j]) => i = j
      /\ \A n \in 1 .. Cardinality(at) : \E i \in at : Cardinality(P[i]) = n - 1
  <2>1. PICK Q : Q = P
    OBVIOUS
  <2>2. Numbers(Q, at)
    BY <1>2, <2>1
  <2> HIDE DEF P
  <2>3. /\ Cardinality(at) \in Nat
        /\ \A i \in at : Cardinality(Q[i]) \in 0 .. (Cardinality(at) - 1)
        /\ \A i, j \in at : Cardinality(Q[i]) = Cardinality(Q[j]) => i = j
        /\ \A n \in 1 .. Cardinality(at) : \E i \in at : Cardinality(Q[i]) = n - 1
    <3>1. Cardinality(at) \in Nat
          /\ \A i \in at : Cardinality(Q[i]) \in 0 .. (Cardinality(at) - 1)
      BY <2>2, Numbered
    <3>2. \A i, j \in at : Cardinality(Q[i]) = Cardinality(Q[j]) => i = j
      BY <2>2, Numbered
    <3>3. \A n \in 1 .. Cardinality(at) : \E i \in at : Cardinality(Q[i]) = n - 1
      BY <2>2, Numbered
    <3> QED
      BY <3>1, <3>2, <3>3
  <2> QED
    BY <2>1, <2>3
<1>4. ASSUME NEW n \in 1 .. Cardinality(at)
      PROVE  Nth(at, n) \in at /\ Cardinality(P[Nth(at, n)]) = n - 1
  <2>1. \E i \in at : Cardinality({j \in at : j < i}) = n - 1
    BY <1>3 DEF Before
  <2>2. Nth(at, n) \in at /\ Cardinality({j \in at : j < Nth(at, n)}) = n - 1
    BY <2>1 DEF Nth
  <2> QED
    BY <2>2 DEF Before
<1>5. ASSUME NEW k \in at
      PROVE  Cardinality(P[k]) + 1 \in 1 .. Cardinality(at) /\ Nth(at, Cardinality(P[k]) + 1) = k
  <2> DEFINE n == Cardinality(P[k]) + 1
  <2> HIDE DEF P
  <2>1. n \in 1 .. Cardinality(at) /\ n - 1 = Cardinality(P[k])
    BY <1>3
  <2>2. Nth(at, n) \in at /\ Cardinality(P[Nth(at, n)]) = n - 1
    BY <1>4, <2>1
  <2> QED
    BY <1>3, <2>1, <2>2
<1> QED
  BY <1>1, <1>3, <1>4, <1>5

\* What is picked of a sequence: some of its elements, and each at a place of its own.
LEMMA PickedIs ==
    ASSUME NEW S, NEW s \in Seq(S), NEW at \in SUBSET (DOMAIN s)
    PROVE  /\ Picked(s, at) \in Seq(S) /\ Cardinality(at) \in Nat
           /\ Len(Picked(s, at)) = Cardinality(at) /\ DOMAIN Picked(s, at) = 1 .. Cardinality(at)
           /\ \A n \in 1 .. Cardinality(at) :
                 Nth(at, n) \in at /\ Picked(s, at)[n] = s[Nth(at, n)]
                 /\ Cardinality(Before(at)[Nth(at, n)]) = n - 1
           /\ \A k \in at : Cardinality(Before(at)[k]) + 1 \in 1 .. Cardinality(at)
                            /\ Picked(s, at)[Cardinality(Before(at)[k]) + 1] = s[k]
<1>1. Len(s) \in Nat /\ DOMAIN s = 1 .. Len(s) /\ \A k \in DOMAIN s : s[k] \in S
  BY LenProperties, ElementOfSeq
<1>2. /\ IsFiniteSet(at) /\ Cardinality(at) \in Nat
      /\ \A n \in 1 .. Cardinality(at) :
            Nth(at, n) \in at /\ Cardinality(Before(at)[Nth(at, n)]) = n - 1
      /\ \A k \in at : Cardinality(Before(at)[k]) + 1 \in 1 .. Cardinality(at)
                       /\ Nth(at, Cardinality(Before(at)[k]) + 1) = k
  BY <1>1, NthIs
<1>3. Picked(s, at) \in [1 .. Cardinality(at) -> S]
  BY <1>1, <1>2 DEF Picked
<1>4. Picked(s, at) \in Seq(S)
  BY <1>2, <1>3, SeqDef
<1>5. Len(Picked(s, at)) = Cardinality(at)
  BY <1>2, <1>3, <1>4, LenProperties
<1> QED
  BY <1>2, <1>3, <1>4, <1>5 DEF Picked

\* The first elements of a sequence, no more than limit.
Upto(s, limit) == SubSeq(s, 1, IF Len(s) > limit THEN limit ELSE Len(s))

LEMMA PrefixIs ==
    ASSUME NEW S, NEW s \in Seq(S), NEW limit \in Nat
    PROVE  /\ Upto(s, limit) \in Seq(S) /\ Len(Upto(s, limit)) <= limit /\ Len(Upto(s, limit)) <= Len(s)
           /\ Len(Upto(s, limit)) \in Nat /\ DOMAIN Upto(s, limit) = 1 .. Len(Upto(s, limit))
           /\ \A n \in 1 .. Len(Upto(s, limit)) : Upto(s, limit)[n] = s[n]
           /\ \A n \in 1 .. Len(s) : n <= limit => n \in 1 .. Len(Upto(s, limit))
<1> DEFINE m == IF Len(s) > limit THEN limit ELSE Len(s)
<1>1. Len(s) \in Nat /\ DOMAIN s = 1 .. Len(s) /\ \A k \in DOMAIN s : s[k] \in S
  BY LenProperties, ElementOfSeq
<1>2. /\ m \in Nat /\ m <= Len(s) /\ m <= limit
      /\ \A i \in 1 .. Len(s) : i <= limit => i \in 1 .. m
  BY <1>1
<1>3. Upto(s, limit) = SubSeq(s, 1, m)
  BY DEF Upto
<1>0. \A i \in 1 .. m : i \in DOMAIN s
  BY <1>1
<1> HIDE DEF m
<1>4. /\ SubSeq(s, 1, m) \in Seq(S) /\ Len(SubSeq(s, 1, m)) = IF 1 <= m THEN m - 1 + 1 ELSE 0
      /\ \A i \in 1 .. (m - 1 + 1) : SubSeq(s, 1, m)[i] = s[1 + i - 1]
  <2>1. 1 \in Int /\ m \in Int
    BY <1>2
  <2>2. \A i \in 1 .. m : s[i] \in S
    BY <1>0, <1>1
  <2> QED
    BY <2>1, <2>2, SubSeqProperties
<1>5. Len(Upto(s, limit)) = m /\ \A i \in 1 .. m : Upto(s, limit)[i] = s[i]
  BY <1>2, <1>3, <1>4
<1>6. Upto(s, limit) \in Seq(S) /\ DOMAIN Upto(s, limit) = 1 .. Len(Upto(s, limit))
  BY <1>3, <1>4, LenProperties
<1>7. Len(Upto(s, limit)) <= limit /\ Len(Upto(s, limit)) <= Len(s) /\ Len(Upto(s, limit)) \in Nat
      /\ \A n \in 1 .. Len(Upto(s, limit)) : Upto(s, limit)[n] = s[n]
  BY <1>2, <1>5
<1>8. \A n \in 1 .. Len(s) : n <= limit => n \in 1 .. Len(Upto(s, limit))
  BY <1>2, <1>5
<1> QED
  BY <1>6, <1>7, <1>8

LEMMA CutIs ==
    ASSUME NEW S, NEW s \in Seq(S)
    PROVE  /\ Cut(s) \in Seq(S) /\ Len(Cut(s)) <= MaxBullets /\ Len(Cut(s)) <= Len(s)
           /\ Len(Cut(s)) \in Nat /\ DOMAIN Cut(s) = 1 .. Len(Cut(s))
           /\ \A n \in 1 .. Len(Cut(s)) : Cut(s)[n] = s[n]
           /\ \A n \in 1 .. Len(s) : n <= MaxBullets => n \in 1 .. Len(Cut(s))
<1>1. Cut(s) = Upto(s, MaxBullets) /\ MaxBullets \in Nat
  BY DEF Cut, Upto, MaxBullets
<1> QED
  BY <1>1, PrefixIs

LEMMA FirstOfIs ==
    ASSUME NEW S, NEW s \in Seq(S)
    PROVE  /\ FirstOf(s) \in Seq(S) /\ Len(FirstOf(s)) <= MaxCards /\ Len(FirstOf(s)) <= Len(s)
           /\ Len(FirstOf(s)) \in Nat /\ DOMAIN FirstOf(s) = 1 .. Len(FirstOf(s))
           /\ \A n \in 1 .. Len(FirstOf(s)) : FirstOf(s)[n] = s[n]
           /\ \A n \in 1 .. Len(s) : n <= MaxCards => n \in 1 .. Len(FirstOf(s))
<1>1. FirstOf(s) = Upto(s, MaxCards) /\ MaxCards \in Nat
  BY DEF FirstOf, Upto, MaxCards
<1> QED
  BY <1>1, PrefixIs

LEMMA Least ==
    ASSUME NEW T \in SUBSET Nat, T # {}
    PROVE  \E n \in T : \A m \in T : n <= m
<1>1. PICK R : R = OpToRel(<, Nat)
    BY Zenon
<1>2. R = {p \in Nat \X Nat : p[1] < p[2]}
    BY <1>1 DEF OpToRel
<1>3. IsWellFoundedOn(R, Nat)
    BY <1>1, NatLessThanWellFounded, Zenon
<1>4. \A x, y \in Nat : x < y => <<x, y>> \in R
    BY <1>2
<1>5. PICK n \in T : \A m \in T : ~(<<m, n>> \in R)
    BY <1>3, WFMin
<1>6. ASSUME NEW m \in T PROVE n <= m
    <2>1. m \in Nat /\ n \in Nat /\ ~(<<m, n>> \in R)
        BY <1>5
    <2>2. ~(m < n)
        BY <1>4, <2>1
    <2> QED
        BY <2>1, <2>2
<1> QED
    BY <1>6

\* The lists of ss joined one after another, up to the m-th.
Joins(f, ss, m) == f = [i \in 1 .. m |-> IF i = 1 THEN ss[i] ELSE f[i - 1] \o ss[i]]

\* A set of natural numbers without 0 that holds a number when it holds the one before
\* (or there is none before) holds all of them.
LEMMA Upwards ==
    ASSUME NEW n \in Nat, NEW T \in SUBSET (1 .. n),
           \A m \in 1 .. n : (m = 1 \/ m - 1 \in T) => m \in T
    PROVE  T = 1 .. n
<1> DEFINE U == (1 .. n) \ T
<1> SUFFICES ASSUME U # {} PROVE FALSE
  OBVIOUS
<1>1. U \in SUBSET Nat
  OBVIOUS
<1> HIDE DEF U
<1>2. PICK m \in U : \A k \in U : m <= k
  BY <1>1, Least
<1>3. m \in 1 .. n /\ m \notin T /\ m \in Nat
  BY <1>2 DEF U
<1>4. m # 1 => m - 1 \in 1 .. n
  BY <1>3
<1>5. m - 1 \notin U
  BY <1>1, <1>2, <1>3
<1> QED
  BY <1>3, <1>4, <1>5 DEF U

LEMMA JoinExists ==
    ASSUME NEW ss, NEW n \in Nat \ {0}
    PROVE  \E f : Joins(f, ss, n)
<1> DEFINE T == {m \in 1 .. n : \E f : Joins(f, ss, m)}
<1>1. ASSUME NEW m \in 1 .. n, m = 1 \/ m - 1 \in T PROVE m \in T
  <2>1. CASE m = 1
    <3>1. Joins([i \in 1 .. m |-> ss[i]], ss, m)
      BY <2>1 DEF Joins
    <3> QED
      BY <3>1
  <2>2. CASE m # 1
    <3>1. PICK g : Joins(g, ss, m - 1)
      BY <1>1, <2>2
    <3> DEFINE f == [i \in 1 .. m |-> IF i = m THEN g[m - 1] \o ss[m] ELSE g[i]]
    <3>2. m \in Int /\ m > 1
      BY <2>2
    <3>3. \A i \in 1 .. (m - 1) : g[i] = IF i = 1 THEN ss[i] ELSE g[i - 1] \o ss[i]
      BY <3>1 DEF Joins
    <3>4. ASSUME NEW i \in 1 .. m PROVE f[i] = IF i = 1 THEN ss[i] ELSE f[i - 1] \o ss[i]
      <4>1. CASE i = m
        <5>1. i - 1 \in 1 .. m /\ i - 1 # m /\ i # 1
          BY <3>2, <4>1
        <5> QED
          BY <4>1, <5>1
      <4>2. CASE i # m
        <5>1. i \in 1 .. (m - 1) /\ (i # 1 => i - 1 \in 1 .. m /\ i - 1 # m)
          BY <3>2, <4>2
        <5>2. f[i] = g[i] /\ (i # 1 => f[i - 1] = g[i - 1])
          BY <4>2, <5>1
        <5> QED
          BY <3>3, <5>1, <5>2
      <4> QED
        BY <4>1, <4>2
    <3>5. f = [i \in 1 .. m |-> f[i]]
      OBVIOUS
    <3> HIDE DEF f
    <3>6. Joins(f, ss, m)
      BY <3>4, <3>5 DEF Joins
    <3> QED
      BY <3>6
  <2> QED
    BY <2>1, <2>2
<1>2. T = 1 .. n
  <2> HIDE DEF T
  <2>1. T \in SUBSET (1 .. n)
    BY DEF T
  <2> QED
    BY <1>1, <2>1, Upwards
<1>3. n \in 1 .. n
  OBVIOUS
<1> QED
  BY <1>2, <1>3

\* Lists joined into one: it begins with the first of them.
LEMMA Flattened ==
    ASSUME NEW S, NEW ss \in Seq(Seq(S)), ss # <<>>
    PROVE  /\ FlattenSeq(ss) \in Seq(S)
           /\ ss[1] \in Seq(S) /\ Len(ss[1]) <= Len(FlattenSeq(ss))
           /\ \A p \in 1 .. Len(ss[1]) : FlattenSeq(ss)[p] = ss[1][p]
<1> DEFINE n == Len(ss)
<1>1. n \in Nat \ {0} /\ DOMAIN ss = 1 .. n /\ \A k \in 1 .. n : ss[k] \in Seq(S)
  BY EmptySeq, LenProperties, ElementOfSeq
<1>2. FlattenSeq(ss) = (CHOOSE f : Joins(f, ss, n))[n]
  <2>1. Len(ss) # 0
    BY <1>1
  <2> QED
    BY <2>1 DEF FlattenSeq, Joins
<1>3. PICK f : Joins(f, ss, n) /\ FlattenSeq(ss) = f[n]
  <2> HIDE DEF n
  <2>1. \E f : Joins(f, ss, n)
    BY <1>1, JoinExists
  <2>2. Joins(CHOOSE f : Joins(f, ss, n), ss, n)
    BY <2>1
  <2> QED
    BY <1>2, <2>2
<1>4. \A i \in 1 .. n : f[i] = IF i = 1 THEN ss[i] ELSE f[i - 1] \o ss[i]
  BY <1>3 DEF Joins
<1> DEFINE Begins(t) == /\ t \in Seq(S) /\ Len(ss[1]) <= Len(t)
                        /\ \A p \in 1 .. Len(ss[1]) : t[p] = ss[1][p]
           T == {m \in 1 .. n : Begins(f[m])}
<1>5. ss[1] \in Seq(S) /\ Len(ss[1]) \in Nat
  BY <1>1, LenProperties
<1>6. ASSUME NEW m \in 1 .. n, m = 1 \/ m - 1 \in T PROVE m \in T
  <2>1. CASE m = 1
    <3>1. f[m] = ss[1]
      BY <1>4, <2>1
    <3> QED
      BY <1>5, <3>1
  <2>2. CASE m # 1
    <3>1. f[m] = f[m - 1] \o ss[m] /\ ss[m] \in Seq(S)
      BY <1>1, <1>4, <2>2
    <3>2. PICK t, u : t = f[m - 1] /\ u = ss[m]
      OBVIOUS
    <3>3. Begins(t) /\ u \in Seq(S)
      BY <1>6, <2>2, <3>1, <3>2
    <3>4. /\ t \o u \in Seq(S) /\ Len(t \o u) = Len(t) + Len(u) /\ Len(t) \in Nat /\ Len(u) \in Nat
          /\ \A i \in 1 .. Len(t) + Len(u) : (t \o u)[i] = IF i <= Len(t) THEN t[i] ELSE u[i - Len(t)]
      BY <3>3, ConcatProperties, LenProperties
    <3>5. Begins(t \o u)
      <4> DEFINE j == t \o u
      <4>1. j \in Seq(S) /\ Len(j) = Len(t) + Len(u)
            /\ \A i \in 1 .. Len(t) + Len(u) : j[i] = IF i <= Len(t) THEN t[i] ELSE u[i - Len(t)]
        BY <3>4
      <4> HIDE DEF j
      <4>2. Len(ss[1]) <= Len(j)
        BY <1>5, <3>3, <3>4, <4>1
      <4>3. ASSUME NEW p \in 1 .. Len(ss[1]) PROVE j[p] = ss[1][p]
        <5>1. p \in 1 .. Len(t) + Len(u) /\ p <= Len(t)
          BY <1>5, <3>3, <3>4
        <5>2. t[p] = ss[1][p]
          BY <3>3
        <5> QED
          BY <4>1, <5>1, <5>2
      <4> QED
        BY <4>1, <4>2, <4>3 DEF j
    <3> HIDE DEF Begins
    <3> QED
      BY <3>1, <3>2, <3>5
  <2> QED
    BY <2>1, <2>2
<1>7. T = 1 .. n
  <2> HIDE DEF T
  <2>1. T \in SUBSET (1 .. n)
    BY DEF T
  <2>2. n \in Nat
    BY <1>1
  <2> HIDE DEF n
  <2> QED
    BY <1>6, <2>1, <2>2, Upwards
<1>8. n \in T
  BY <1>1, <1>7
<1> QED
  BY <1>3, <1>5, <1>8


-----------------------------------------------------------------------------
Warnings == [text : Bullets, source : STRING \cup CardIds]

\* A cut and a selection take elements from what they cut.
LEMMA WithoutFillerIs ==
    ASSUME NEW flags \in Seq(Warnings)
    PROVE  /\ Cut(WithoutFiller(flags)) \in Seq(Warnings)
           /\ \A n \in DOMAIN Cut(WithoutFiller(flags)) :
                 \E k \in DOMAIN flags : Cut(WithoutFiller(flags))[n] = flags[k]
<1> DEFINE at == {k \in DOMAIN flags : ~IsFiller(flags[k].text)}
<1>1. at \in SUBSET (DOMAIN flags) /\ WithoutFiller(flags) = Picked(flags, at)
  BY DEF WithoutFiller
<1> HIDE DEF at
<1>2. /\ Picked(flags, at) \in Seq(Warnings)
      /\ DOMAIN Picked(flags, at) = 1 .. Cardinality(at) /\ Len(Picked(flags, at)) = Cardinality(at)
      /\ \A n \in 1 .. Cardinality(at) : Nth(at, n) \in at /\ Picked(flags, at)[n] = flags[Nth(at, n)]
  BY <1>1, PickedIs
<1>3. PICK s : s = Picked(flags, at)
  OBVIOUS
<1>4. /\ Cut(s) \in Seq(Warnings) /\ Len(Cut(s)) \in Nat /\ Len(Cut(s)) <= Len(s)
      /\ DOMAIN Cut(s) = 1 .. Len(Cut(s)) /\ \A n \in 1 .. Len(Cut(s)) : Cut(s)[n] = s[n]
  BY <1>2, <1>3, CutIs
<1>5. Len(s) \in Nat /\ Len(s) = Cardinality(at)
  BY <1>2, <1>3, LenProperties
<1>6. ASSUME NEW n \in DOMAIN Cut(s) PROVE \E k \in DOMAIN flags : Cut(s)[n] = flags[k]
  <2>1. n \in 1 .. Cardinality(at) /\ Cut(s)[n] = s[n]
    BY <1>4, <1>5
  <2>2. Nth(at, n) \in DOMAIN flags /\ s[n] = flags[Nth(at, n)]
    BY <1>1, <1>2, <1>3, <2>1
  <2> QED
    BY <2>1, <2>2
<1> QED
  BY <1>1, <1>3, <1>4, <1>6

\* The partition keeps flags that name the evidence, or all of them if none names any.
LEMMA PartitionIs ==
    ASSUME NEW flags \in Seq(Warnings), NEW evidence, ~Uncited(flags)
    PROVE  /\ PartitionRedFlags(flags, evidence) \in Seq(Warnings)
           /\ \A k \in DOMAIN PartitionRedFlags(flags, evidence) :
                 PartitionRedFlags(flags, evidence)[k].source \in evidence
<1> DEFINE at == {k \in DOMAIN flags : flags[k].source \in evidence}
<1>1. at \in SUBSET (DOMAIN flags) /\ PartitionRedFlags(flags, evidence) = Picked(flags, at)
  BY DEF PartitionRedFlags
<1> HIDE DEF at
<1>2. /\ Picked(flags, at) \in Seq(Warnings)
      /\ DOMAIN Picked(flags, at) = 1 .. Cardinality(at)
      /\ \A n \in 1 .. Cardinality(at) : Nth(at, n) \in at /\ Picked(flags, at)[n] = flags[Nth(at, n)]
  BY <1>1, PickedIs
<1> QED
  BY <1>1, <1>2 DEF at

\* What normalisation leaves of the warning signs when grounding is on.
LEMMA WhatIsLeftIsGrounded ==
    ASSUME NEW flags \in Seq(Warnings), NEW evidence
    PROVE  LET left == Cut(WithoutFiller(PartitionRedFlags(flags, evidence)))
           IN  Uncited(left) \/ \A k \in DOMAIN left : left[k].source \in evidence
<1> DEFINE kept == PartitionRedFlags(flags, evidence)
           left == Cut(WithoutFiller(kept))
<1>1. kept \in Seq(Warnings)
  BY PartitionIs DEF PartitionRedFlags
<1>2. \A n \in DOMAIN left : \E k \in DOMAIN kept : left[n] = kept[k]
  <2> HIDE DEF kept
  <2> QED
    BY <1>1, WithoutFillerIs
<1>3. Uncited(kept) \/ \A k \in DOMAIN kept : kept[k].source \in evidence
  BY PartitionIs DEF PartitionRedFlags
<1> HIDE DEF kept, left
<1>4. Uncited(left) \/ \A k \in DOMAIN left : left[k].source \in evidence
  <2>1. CASE \A k \in DOMAIN kept : kept[k].source = ""
    <3>1. \A n \in DOMAIN left : left[n].source = ""
      BY <1>2, <2>1
    <3> QED
      BY <3>1 DEF Uncited
  <2>2. CASE \A k \in DOMAIN kept : kept[k].source \in evidence
    <3>1. \A n \in DOMAIN left : left[n].source \in evidence
      BY <1>2, <2>2
    <3> QED
      BY <3>1
  <2> QED
    BY <1>3, <2>1, <2>2 DEF Uncited
<1> QED
  BY <1>4 DEF left, kept

\* Flags that lead the list and name the evidence lead it after the partition.
LEMMA LeadersStay ==
    ASSUME NEW flags \in Seq(Warnings), NEW evidence, NEW n \in Nat, n <= Len(flags),
           \A p \in 1 .. n : flags[p].source \in evidence, NEW kept,
           kept = flags \/ kept = PartitionRedFlags(flags, evidence)
    PROVE  /\ kept \in Seq(Warnings) /\ n <= Len(kept)
           /\ \A p \in 1 .. n : kept[p] = flags[p]
<1>0. Len(flags) \in Nat /\ DOMAIN flags = 1 .. Len(flags)
  BY LenProperties
<1>1. CASE kept = flags
  BY <1>1
<1>2. CASE kept # flags
  <2> DEFINE at == {k \in DOMAIN flags : flags[k].source \in evidence}
  <2>1. at \in SUBSET (DOMAIN flags) /\ kept = Picked(flags, at)
    BY <1>2 DEF PartitionRedFlags
  <2>2. \A p \in 1 .. n : p \in at /\ Before(at)[p] = 1 .. (p - 1)
    <3> SUFFICES ASSUME NEW p \in 1 .. n PROVE p \in at /\ Before(at)[p] = 1 .. (p - 1)
      OBVIOUS
    <3>1. p \in at /\ \A k \in 1 .. (p - 1) : k \in at
      BY <1>0
    <3>2. \A k \in at : k \in Nat /\ k >= 1
      BY <1>0
    <3> HIDE DEF at
    <3>3. Before(at)[p] = {j \in at : j < p}
      BY <3>1 DEF Before
    <3>4. {j \in at : j < p} = 1 .. (p - 1)
      <4>1. p \in Nat
        OBVIOUS
      <4>2. ASSUME NEW j \in at, j < p PROVE j \in 1 .. (p - 1)
        BY <3>2, <4>1, <4>2
      <4>3. ASSUME NEW j \in 1 .. (p - 1) PROVE j \in at /\ j < p
        BY <3>1, <4>1
      <4> QED
        BY <4>2, <4>3
    <3> QED
      BY <3>1, <3>3, <3>4
  <2> HIDE DEF at
  <2>3. /\ Picked(flags, at) \in Seq(Warnings) /\ Len(Picked(flags, at)) = Cardinality(at)
        /\ Cardinality(at) \in Nat
        /\ \A k \in at : Cardinality(Before(at)[k]) + 1 \in 1 .. Cardinality(at)
                         /\ Picked(flags, at)[Cardinality(Before(at)[k]) + 1] = flags[k]
    BY <2>1, PickedIs
  <2>4. ASSUME NEW p \in 1 .. n PROVE kept[p] = flags[p] /\ p <= Len(kept)
    <3>1. Cardinality(1 .. (p - 1)) = p - 1
      <4>1. 1 \in Int /\ p - 1 \in Int /\ p - 1 >= 0
        OBVIOUS
      <4>2. Cardinality(1 .. (p - 1)) = IF 1 > p - 1 THEN 0 ELSE (p - 1) - 1 + 1
        BY <4>1, FS_Interval
      <4> QED
        BY <4>1, <4>2
    <3>2. Cardinality(Before(at)[p]) + 1 = p
      BY <2>2, <3>1
    <3> QED
      BY <2>1, <2>2, <2>3, <3>2
  <2>5. n <= Len(kept)
    <3>1. CASE n = 0
      BY <2>1, <2>3, <3>1
    <3>2. CASE n # 0
      BY <2>4, <3>2
    <3> QED
      BY <3>1, <3>2
  <2> QED
    BY <2>1, <2>3, <2>4, <2>5
<1> QED
  BY <1>1, <1>2

\* What the first bullets say is shown, as far as there is room for it.
LEMMA LeadersAreShown ==
    ASSUME NEW kept \in Seq(Warnings), NEW said \in Seq(Bullets), Len(said) <= Len(kept),
           \A p \in 1 .. Len(said) : kept[p].text = said[p],
           NEW at, at = {k \in DOMAIN said : ~IsFiller(said[k])}
    PROVE  ToSet(Cut(Picked(said, at))) \subseteq Texts(Cut(WithoutFiller(kept)))
<1> DEFINE in == {k \in DOMAIN kept : ~IsFiller(kept[k].text)}
<1>1. /\ Len(said) \in Nat /\ DOMAIN said = 1 .. Len(said)
      /\ Len(kept) \in Nat /\ DOMAIN kept = 1 .. Len(kept)
  BY LenProperties
<1>2. at \in SUBSET (DOMAIN said) /\ in \in SUBSET (DOMAIN kept) /\ WithoutFiller(kept) = Picked(kept, in)
  BY DEF WithoutFiller
<1>3. \A k \in at : k \in in /\ Before(in)[k] = Before(at)[k]
  <2> SUFFICES ASSUME NEW k \in at PROVE k \in in /\ Before(in)[k] = Before(at)[k]
    OBVIOUS
  <2>1. \A j \in 1 .. Len(said) : j \in in <=> j \in at
    BY <1>1
  <2>2. k \in in /\ k \in 1 .. Len(said)
    BY <1>1, <2>1
  <2>3. {j \in in : j < k} = {j \in at : j < k}
    <3>1. \A j \in in : j < k => j \in 1 .. Len(said)
      BY <1>1, <2>2
    <3>2. \A j \in at : j \in 1 .. Len(said)
      BY <1>1
    <3> HIDE DEF in
    <3> QED
      BY <2>1, <3>1, <3>2
  <2> QED
    BY <2>2, <2>3 DEF Before
<1> HIDE DEF in
<1>4. PICK a, i : a = Picked(said, at) /\ i = Picked(kept, in)
  OBVIOUS
<1>5. /\ a \in Seq(Bullets) /\ Len(a) = Cardinality(at) /\ Cardinality(at) \in Nat
      /\ \A n \in 1 .. Cardinality(at) :
            Nth(at, n) \in at /\ a[n] = said[Nth(at, n)] /\ Cardinality(Before(at)[Nth(at, n)]) = n - 1
  BY <1>2, <1>4, PickedIs
<1>6. /\ i \in Seq(Warnings) /\ Len(i) = Cardinality(in) /\ Cardinality(in) \in Nat
      /\ \A k \in in : Cardinality(Before(in)[k]) + 1 \in 1 .. Cardinality(in)
                       /\ i[Cardinality(Before(in)[k]) + 1] = kept[k]
  BY <1>2, <1>4, PickedIs
<1>7. /\ Len(Cut(a)) <= MaxBullets /\ Len(Cut(a)) <= Len(a) /\ Len(Cut(a)) \in Nat
      /\ DOMAIN Cut(a) = 1 .. Len(Cut(a))
      /\ \A n \in 1 .. Len(Cut(a)) : Cut(a)[n] = a[n]
  BY <1>5, CutIs
<1>8. /\ Len(Cut(i)) \in Nat /\ DOMAIN Cut(i) = 1 .. Len(Cut(i))
      /\ \A n \in 1 .. Len(Cut(i)) : Cut(i)[n] = i[n]
      /\ \A n \in 1 .. Len(i) : n <= MaxBullets => n \in 1 .. Len(Cut(i))
  BY <1>6, CutIs
<1>9. ASSUME NEW n \in DOMAIN Cut(a) PROVE Cut(a)[n] \in Texts(Cut(i))
  <2>1. n \in 1 .. Cardinality(at) /\ n <= MaxBullets /\ Cut(a)[n] = a[n]
    BY <1>5, <1>7 DEF MaxBullets
  <2>2. PICK k \in at : a[n] = said[k] /\ Cardinality(Before(at)[k]) = n - 1
    BY <1>5, <2>1
  <2>3. k \in in /\ Cardinality(Before(in)[k]) = n - 1
    BY <1>3, <2>2
  <2>4. n \in 1 .. Len(i) /\ i[n] = kept[k]
    BY <1>6, <2>1, <2>3
  <2>5. n \in DOMAIN Cut(i) /\ Cut(i)[n].text = kept[k].text
    BY <1>8, <2>1, <2>4
  <2>6. kept[k].text = said[k]
    BY <1>1, <1>2
  <2> QED
    BY <2>1, <2>2, <2>5, <2>6 DEF Texts
<1> QED
  BY <1>2, <1>4, <1>9 DEF ToSet

-----------------------------------------------------------------------------
(* The composed draft *)

\* The cards that contribute are retrieved, mandatory, and have wording.
LEMMA ContributingIs ==
    ASSUME NEW cards \in Seq(CardIds), NEW must, NEW reply
    PROVE  /\ Contributing(cards, must, reply) \in Seq(CardIds)
           /\ \A k \in DOMAIN Contributing(cards, must, reply) :
                 Contributing(cards, must, reply)[k]
                    \in ToSet(cards) \cap must \cap DOMAIN Wording[reply]
<1> DEFINE at == {k \in DOMAIN cards : cards[k] \in must \cap DOMAIN Wording[reply]}
<1>1. at \in SUBSET (DOMAIN cards) /\ Contributing(cards, must, reply) = Picked(cards, at)
  BY DEF Contributing
<1> HIDE DEF at
<1>2. /\ Picked(cards, at) \in Seq(CardIds) /\ DOMAIN Picked(cards, at) = 1 .. Cardinality(at)
      /\ \A n \in 1 .. Cardinality(at) : Nth(at, n) \in at /\ Picked(cards, at)[n] = cards[Nth(at, n)]
  BY <1>1, PickedIs
<1>3. \A k \in at : cards[k] \in ToSet(cards) \cap must \cap DOMAIN Wording[reply]
  BY <1>1 DEF at, ToSet
<1> QED
  BY <1>1, <1>2, <1>3

\* The composed warning signs begin with those of the first card that contributes.
LEMMA GatheredIs ==
    ASSUME NEW reply \in DOMAIN Wording, NEW from \in Seq(CardIds),
           \A k \in DOMAIN from : from[k] \in DOMAIN Wording[reply]
    PROVE  LET composed == Gathered(from, CardFlags(Wording[reply]))
               said     == Wording[reply][from[1]].flags
           IN  /\ composed \in Seq(Warnings)
               /\ from # <<>> =>
                    /\ said \in Seq(Bullets) /\ Len(said) <= Len(composed)
                    /\ \A p \in 1 .. Len(said) :
                          composed[p] = [text |-> said[p], source |-> from[1]]
<1> DEFINE w     == Wording[reply]
           lists == CardFlags(w)
           ss    == [k \in DOMAIN from |-> lists[from[k]]]
           said  == w[from[1]].flags
<1>1. Len(from) \in Nat /\ DOMAIN from = 1 .. Len(from) /\ \A k \in DOMAIN from : from[k] \in CardIds
  BY LenProperties, ElementOfSeq
<1>2. ASSUME NEW i \in DOMAIN w, i \in CardIds
      PROVE  /\ w[i].flags \in Seq(Bullets) /\ lists[i] \in Seq(Warnings)
             /\ Len(lists[i]) = Len(w[i].flags)
             /\ \A p \in 1 .. Len(w[i].flags) : lists[i][p] = [text |-> w[i].flags[p], source |-> i]
  <2>1. w[i].flags \in Seq(Bullets)
    BY WordingAssumption
  <2>2. PICK s : s = w[i].flags
    OBVIOUS
  <2>3. /\ s \in Seq(Bullets) /\ Len(s) \in Nat /\ DOMAIN s = 1 .. Len(s)
        /\ \A p \in DOMAIN s : s[p] \in Bullets
    BY <2>1, <2>2, LenProperties, ElementOfSeq
  <2>4. lists[i] = [p \in 1 .. Len(s) |-> [text |-> s[p], source |-> i]]
    BY <2>2, <2>3 DEF CardFlags
  <2>5. lists[i] \in [1 .. Len(s) -> Warnings]
    BY <1>2, <2>3, <2>4 DEF Warnings
  <2>6. lists[i] \in Seq(Warnings)
    BY <2>3, <2>5, SeqDef
  <2>7. Len(lists[i]) = Len(s)
    BY <2>3, <2>5, <2>6, LenProperties
  <2> HIDE DEF lists, w
  <2> QED
    BY <2>2, <2>3, <2>4, <2>6, <2>7
<1>3. ss \in Seq(Seq(Warnings)) /\ DOMAIN ss = DOMAIN from /\ Len(ss) = Len(from)
  <2>1. \A k \in DOMAIN from : lists[from[k]] \in Seq(Warnings)
    BY <1>1, <1>2
  <2> HIDE DEF lists
  <2>2. ss \in [1 .. Len(from) -> Seq(Warnings)]
    BY <1>1, <2>1
  <2>3. ss \in Seq(Seq(Warnings))
    BY <1>1, <2>2, SeqDef
  <2> HIDE DEF ss
  <2> QED
    BY <1>1, <2>2, <2>3, LenProperties
<1>4. Gathered(from, lists) = FlattenSeq(ss)
  BY DEF Gathered
<1>5. CASE from = <<>>
  <2>1. Len(ss) = 0
    BY <1>3, <1>5, EmptySeq
  <2> HIDE DEF ss
  <2>2. ss = <<>>
    BY <1>3, <2>1, EmptySeq
  <2>3. FlattenSeq(ss) = <<>>
    BY <2>1, <2>2 DEF FlattenSeq
  <2>4. <<>> \in Seq(Warnings)
    BY EmptySeq
  <2> QED
    BY <1>4, <1>5, <2>3, <2>4
<1>6. CASE from # <<>>
  <2>1. Len(from) \in Nat \ {0} /\ 1 \in DOMAIN from
    BY <1>1, <1>6, EmptySeq
  <2>2. ss[1] = lists[from[1]] /\ from[1] \in DOMAIN w /\ from[1] \in CardIds
    BY <1>1, <2>1
  <2>3. ss # <<>>
    BY <1>3, <2>1, EmptySeq
  <2> HIDE DEF ss
  <2>4. /\ FlattenSeq(ss) \in Seq(Warnings)
        /\ ss[1] \in Seq(Warnings) /\ Len(ss[1]) <= Len(FlattenSeq(ss))
        /\ \A p \in 1 .. Len(ss[1]) : FlattenSeq(ss)[p] = ss[1][p]
    BY <1>3, <2>3, Flattened
  <2>5. /\ said \in Seq(Bullets) /\ Len(ss[1]) = Len(said)
        /\ \A p \in 1 .. Len(said) : ss[1][p] = [text |-> said[p], source |-> from[1]]
    BY <1>2, <2>2
  <2> HIDE DEF said, lists, w
  <2>6. PICK composed : composed = Gathered(from, lists)
    OBVIOUS
  <2>7. /\ composed \in Seq(Warnings) /\ said \in Seq(Bullets) /\ Len(said) <= Len(composed)
        /\ \A p \in 1 .. Len(said) : composed[p] = [text |-> said[p], source |-> from[1]]
    BY <1>4, <2>4, <2>5, <2>6
  <2> QED
    BY <2>6, <2>7 DEF said, lists, w
<1> QED
  BY <1>5, <1>6

\* So do those of the composed draft.
LEMMA ComposedIs ==
    ASSUME NEW draft \in Drafts, NEW reply \in DOMAIN Wording, NEW cards \in Seq(CardIds), NEW must,
           NEW from, from = Contributing(cards, must, reply),
           NEW merged, merged = ComposeCardText(draft, cards, must, reply).flags
    PROVE  LET said == Wording[reply][from[1]].flags
           IN  /\ merged \in Seq(Warnings)
               /\ from # <<>> =>
                    /\ from[1] \in ToSet(cards)
                    /\ said \in Seq(Bullets) /\ Len(said) <= Len(merged)
                    /\ \A p \in 1 .. Len(said) :
                          merged[p] = [text |-> said[p], source |-> from[1]]
<1> DEFINE said == Wording[reply][from[1]].flags
           own  == draft.flags
<1>1. PICK composed : composed = Gathered(from, CardFlags(Wording[reply]))
  OBVIOUS
<1>2. from \in Seq(CardIds)
      /\ \A k \in DOMAIN from : from[k] \in ToSet(cards) /\ from[k] \in DOMAIN Wording[reply]
  BY ContributingIs
<1>3. /\ composed \in Seq(Warnings)
      /\ from # <<>> => /\ said \in Seq(Bullets) /\ Len(said) <= Len(composed)
                        /\ \A p \in 1 .. Len(said) :
                              composed[p] = [text |-> said[p], source |-> from[1]]
  BY <1>1, <1>2, GatheredIs
<1>4. own \in Seq(Warnings)
  <2>1. own \in Seq([text : Bullets, source : STRING])
    BY DraftsAssumption
  <2>2. [text : Bullets, source : STRING] \subseteq Warnings
    BY DEF Warnings
  <2> HIDE DEF own
  <2> QED
    BY <2>1, <2>2, SeqMonotonic
<1>5. merged = MergeEvidence(composed, own)
  BY <1>1, DraftsAssumption DEF ComposeCardText
<1> DEFINE at == {k \in DOMAIN own : own[k].text \notin Texts(composed)}
<1>6. merged = composed \o Picked(own, at) /\ at \in SUBSET (DOMAIN own)
  BY <1>5 DEF MergeEvidence
<1> HIDE DEF at, own, said
<1>7. PICK added : added = Picked(own, at)
  OBVIOUS
<1>8. added \in Seq(Warnings)
  BY <1>4, <1>6, <1>7, PickedIs
<1>9. /\ merged \in Seq(Warnings) /\ Len(merged) = Len(composed) + Len(added)
      /\ Len(composed) \in Nat /\ Len(added) \in Nat
      /\ \A i \in 1 .. Len(composed) + Len(added) :
            merged[i] = IF i <= Len(composed) THEN composed[i] ELSE added[i - Len(composed)]
  BY <1>3, <1>6, <1>7, <1>8, ConcatProperties, LenProperties
<1>10. ASSUME from # <<>>
       PROVE  /\ from[1] \in ToSet(cards) /\ said \in Seq(Bullets) /\ Len(said) <= Len(merged)
              /\ \A p \in 1 .. Len(said) : merged[p] = [text |-> said[p], source |-> from[1]]
  <2>1. from[1] \in ToSet(cards)
    <3>1. 1 \in DOMAIN from
      BY <1>2, <1>10, EmptySeq, LenProperties
    <3> QED
      BY <1>2, <3>1
  <2>2. Len(said) \in Nat
    BY <1>3, <1>10, LenProperties
  <2>3. ASSUME NEW p \in 1 .. Len(said) PROVE merged[p] = [text |-> said[p], source |-> from[1]]
    <3>1. p \in 1 .. Len(composed) + Len(added) /\ p <= Len(composed)
      BY <1>3, <1>9, <1>10, <2>2
    <3> QED
      BY <1>3, <1>9, <1>10, <3>1
  <2> QED
    BY <1>3, <1>9, <1>10, <2>1, <2>2, <2>3
<1> QED
  BY <1>9, <1>10 DEF said

-----------------------------------------------------------------------------
(* The judged draft *)

\* With grounding on, each warning of a judged draft names a fact of this check, unless
\* none names anything; and the wording of the first card that contributes is in it.
LEMMA JudgedIs ==
    ASSUME NEW draft \in Drafts, language \in DOMAIN Wording, found.cards \in Seq(CardIds)
    PROVE  LET shown == Judged(draft)
               first == Contributing(found.cards, found.must, language)
               said  == Wording[language][first[1]].flags
           IN  /\ settings.grounding =>
                    Uncited(shown.flags) \/ \A k \in DOMAIN shown.flags : shown.flags[k].source \in Evidence
               /\ first # <<>> =>
                    ToSet(Cut(Picked(said, {k \in DOMAIN said : ~IsFiller(said[k])})))
                        \subseteq Texts(shown.flags)
<1> DEFINE composed == ComposeCardText(draft, found.cards, found.must, language)
           said0    == Wording[language][Contributing(found.cards, found.must, language)[1]].flags
<1>1. PICK merged, from, said, kept, evidence :
        /\ merged = composed.flags
        /\ from = Contributing(found.cards, found.must, language)
        /\ said = said0
        /\ evidence = Evidence
        /\ kept = IF settings.grounding THEN PartitionRedFlags(merged, evidence) ELSE merged
  OBVIOUS
<1>2. Judged(draft).flags = Cut(WithoutFiller(kept))
  BY <1>1, DraftsAssumption DEF Judged, Normalized, ComposeCardText
<1>3. /\ merged \in Seq(Warnings)
      /\ from # <<>> =>
           /\ from[1] \in ToSet(found.cards)
           /\ said \in Seq(Bullets) /\ Len(said) <= Len(merged)
           /\ \A p \in 1 .. Len(said) : merged[p] = [text |-> said[p], source |-> from[1]]
  <2>1. said = Wording[language][from[1]].flags
    BY <1>1
  <2> HIDE DEF composed, said0
  <2>2. merged = ComposeCardText(draft, found.cards, found.must, language).flags
    BY <1>1 DEF composed
  <2> QED
    BY <1>1, <2>1, <2>2, ComposedIs
<1>4. ASSUME settings.grounding
      PROVE  \/ Uncited(Judged(draft).flags)
             \/ \A k \in DOMAIN Judged(draft).flags : Judged(draft).flags[k].source \in Evidence
  <2>1. kept = PartitionRedFlags(merged, evidence)
    BY <1>1, <1>4
  <2>2. PICK left : left = Cut(WithoutFiller(kept))
    OBVIOUS
  <2>3. Uncited(left) \/ \A k \in DOMAIN left : left[k].source \in evidence
    BY <1>3, <2>1, <2>2, WhatIsLeftIsGrounded
  <2>4. left = Judged(draft).flags /\ evidence = Evidence
    BY <1>1, <1>2, <2>2
  <2> QED
    BY <2>3, <2>4
<1>5. ASSUME from # <<>>
      PROVE  ToSet(Cut(Picked(said, {k \in DOMAIN said : ~IsFiller(said[k])})))
                \subseteq Texts(Judged(draft).flags)
  <2>1. Len(said) \in Nat /\ said \in Seq(Bullets) /\ Len(said) <= Len(merged)
    BY <1>3, <1>5, LenProperties
  <2>2. \A p \in 1 .. Len(said) : merged[p].text = said[p] /\ merged[p].source \in evidence
    <3>1. from[1] \in evidence
      BY <1>1, <1>3, <1>5 DEF Evidence
    <3>2. ASSUME NEW p \in 1 .. Len(said) PROVE merged[p].text = said[p] /\ merged[p].source \in evidence
      <4>1. PICK f : f = from[1]
        OBVIOUS
      <4>2. merged[p] = [text |-> said[p], source |-> f]
        BY <1>3, <1>5, <4>1
      <4> QED
        BY <3>1, <4>1, <4>2
    <3> QED
      BY <3>2
  <2>3. kept = merged \/ kept = PartitionRedFlags(merged, evidence)
    BY <1>1
  <2>4. /\ kept \in Seq(Warnings) /\ Len(said) <= Len(kept)
        /\ \A p \in 1 .. Len(said) : kept[p] = merged[p]
    BY <1>3, <2>1, <2>2, <2>3, LeadersStay
  <2>5. PICK at : at = {k \in DOMAIN said : ~IsFiller(said[k])}
    OBVIOUS
  <2>6. ToSet(Cut(Picked(said, at))) \subseteq Texts(Cut(WithoutFiller(kept)))
    BY <2>1, <2>2, <2>4, <2>5, LeadersAreShown
  <2> QED
    BY <1>2, <2>5, <2>6
<1> QED
  BY <1>1, <1>4, <1>5

-----------------------------------------------------------------------------
(* The retrieved cards *)

\* The order of the cards: of any two one ranks before the other, and not both.
LEMMA RanksAreTotal ==
    ASSUME NEW must, NEW text, NEW i \in CardIds, NEW j \in CardIds
    PROVE  /\ i = j \/ RanksBefore(i, j, must, text) \/ RanksBefore(j, i, must, text)
           /\ ~(RanksBefore(i, j, must, text) /\ RanksBefore(j, i, must, text))
           /\ \A k \in CardIds : RanksBefore(i, j, must, text) /\ RanksBefore(j, k, must, text)
                                    => RanksBefore(i, k, must, text)
<1>1. \A k \in CardIds : CueScore(k, text) \in Nat
  <2> SUFFICES ASSUME NEW k \in CardIds PROVE CueScore(k, text) \in Nat
    OBVIOUS
  <2>1. CardOf(k) \in Cards
    <3>1. \E c \in Cards : c.id = k
      BY DEF CardIds
    <3> QED
      BY <3>1 DEF CardOf
  <2>2. IsFiniteSet(CardOf(k).cues) /\ CardOf(k).cues \cap text \in SUBSET CardOf(k).cues
    BY <2>1, CardsAssumption
  <2>3. IsFiniteSet(CardOf(k).cues \cap text)
    BY <2>2, FS_Subset
  <2> QED
    BY <2>3, FS_CardinalityType DEF CueScore
<1>2. i = j \/ RanksBefore(i, j, must, text) \/ RanksBefore(j, i, must, text)
  BY <1>1, PrecedesAssumption DEF RanksBefore
<1>3. ~(RanksBefore(i, j, must, text) /\ RanksBefore(j, i, must, text))
  BY <1>1, PrecedesAssumption DEF RanksBefore
<1>4. ASSUME NEW k \in CardIds, RanksBefore(i, j, must, text), RanksBefore(j, k, must, text)
      PROVE  RanksBefore(i, k, must, text)
  <2>1. CueScore(i, text) \in Nat /\ CueScore(j, text) \in Nat /\ CueScore(k, text) \in Nat
    BY <1>1
  <2>2. Precedes(i, j) /\ Precedes(j, k) => Precedes(i, k)
    BY PrecedesAssumption
  <2> QED
    BY <1>4, <2>1, <2>2 DEF RanksBefore
<1> QED
  BY <1>2, <1>3, <1>4

LEMMA CardIdsAreFinite == IsFiniteSet(CardIds)
<1> DEFINE f == [c \in Cards |-> c.id]
<1>1. f \in Surjection(Cards, CardIds)
  BY DEF Surjection, CardIds
<1> HIDE DEF f
<1> QED
  BY <1>1, FS_Surjection, CardsAssumption

\* The ids that rank before each.
Ahead(ids, must, text) == [i \in ids |-> {j \in ids : RanksBefore(j, i, must, text)}]

LEMMA RankedIs ==
    ASSUME NEW ids \in SUBSET CardIds, NEW must, NEW text
    PROVE  LET P == Ahead(ids, must, text)
               s == Ranked(must, text, ids)
           IN  /\ Numbers(P, ids)
               /\ s \in Seq(CardIds) /\ Len(s) = Cardinality(ids) /\ Cardinality(ids) \in Nat
               /\ \A n \in 1 .. Cardinality(ids) : s[n] \in ids /\ Cardinality(P[s[n]]) = n - 1
               /\ \A i \in ids : Cardinality(P[i]) + 1 \in 1 .. Cardinality(ids)
                                 /\ s[Cardinality(P[i]) + 1] = i
<1> DEFINE P == Ahead(ids, must, text)
           s == Ranked(must, text, ids)
           c == Cardinality(ids)
<1>1. IsFiniteSet(ids)
  BY CardIdsAreFinite, FS_Subset
<1>2. P \in [ids -> SUBSET ids] /\ \A i \in ids : P[i] = {j \in ids : RanksBefore(j, i, must, text)}
  BY DEF Ahead
<1>3. Numbers(P, ids)
  <2> HIDE DEF P
  <2>1. \A i \in ids : i \notin P[i]
    BY <1>2, RanksAreTotal
  <2>2. ASSUME NEW i \in ids, NEW j \in ids, RanksBefore(i, j, must, text)
        PROVE  i \in P[j] /\ P[i] \subseteq P[j]
    <3>1. i \in P[j]
      BY <1>2, <2>2
    <3>2. ASSUME NEW k \in P[i] PROVE k \in P[j]
      <4>1. k \in ids /\ RanksBefore(k, i, must, text)
        BY <1>2, <3>2
      <4>2. k \in CardIds /\ i \in CardIds /\ j \in CardIds
        BY <4>1
      <4>3. RanksBefore(k, j, must, text)
        BY <2>2, <4>1, <4>2, RanksAreTotal
      <4> QED
        BY <1>2, <4>1, <4>3
    <3> QED
      BY <3>1, <3>2
  <2>3. \A i, j \in ids : i = j \/ RanksBefore(i, j, must, text) \/ RanksBefore(j, i, must, text)
    BY RanksAreTotal
  <2>4. \A i, j \in ids : i = j \/ (i \in P[j] /\ P[i] \subseteq P[j])
                                \/ (j \in P[i] /\ P[j] \subseteq P[i])
    BY <2>2, <2>3
  <2> QED
    BY <1>1, <1>2, <2>1, <2>4 DEF Numbers
<1>4. /\ c \in Nat
      /\ \A i \in ids : Cardinality(P[i]) \in 0 .. (c - 1)
  <2> HIDE DEF P
  <2> QED
    BY <1>3, Numbered
<1>5. \A i, j \in ids : Cardinality(P[i]) = Cardinality(P[j]) => i = j
  <2> HIDE DEF P
  <2> QED
    BY <1>3, Numbered
<1>6. \A n \in 1 .. c : \E i \in ids : Cardinality(P[i]) = n - 1
  <2> HIDE DEF P
  <2> QED
    BY <1>3, Numbered
<1>7. ASSUME NEW n \in 1 .. c PROVE s[n] \in ids /\ Cardinality(P[s[n]]) = n - 1
  <2>1. s[n] = CHOOSE i \in ids : Cardinality({j \in ids : RanksBefore(j, i, must, text)}) = n - 1
    BY DEF Ranked
  <2>2. \E i \in ids : Cardinality({j \in ids : RanksBefore(j, i, must, text)}) = n - 1
    BY <1>2, <1>6
  <2>3. s[n] \in ids /\ Cardinality({j \in ids : RanksBefore(j, s[n], must, text)}) = n - 1
    BY <2>1, <2>2
  <2> QED
    BY <1>2, <2>3
<1>8. s \in [1 .. c -> CardIds]
  <2>1. s = [n \in 1 .. c |-> s[n]]
    BY DEF Ranked
  <2> HIDE DEF s
  <2> QED
    BY <1>7, <2>1
<1>9. s \in Seq(CardIds)
  BY <1>4, <1>8, SeqDef
<1>10. Len(s) = c
  BY <1>4, <1>8, <1>9, LenProperties
<1>11. ASSUME NEW i \in ids PROVE Cardinality(P[i]) + 1 \in 1 .. c /\ s[Cardinality(P[i]) + 1] = i
  <2> HIDE DEF s, P, c
  <2>1. Cardinality(P[i]) + 1 \in 1 .. c /\ Cardinality(P[i]) \in Int
    BY <1>4
  <2>2. s[Cardinality(P[i]) + 1] \in ids /\ Cardinality(P[s[Cardinality(P[i]) + 1]]) = Cardinality(P[i])
    BY <1>7, <2>1
  <2> QED
    BY <1>5, <2>1, <2>2
<1> QED
  BY <1>3, <1>4, <1>7, <1>9, <1>10, <1>11

\* Retrieval: three cards at most, each selected by a fact or a cue; and a card that a
\* fact selects is left out only for others that facts select.
LEMMA RetrievedIs ==
    ASSUME NEW ruleIds, NEW kinds, NEW text
    PROVE  LET cards == Retrieved(ruleIds, kinds, text).cards
           IN  /\ cards \in Seq(CardIds) /\ Len(cards) <= MaxCards
               /\ ToSet(cards) \subseteq Deterministic(ruleIds, kinds, text)
               /\ ~(Mandatory(ruleIds, kinds) \subseteq ToSet(cards))
                    => ToSet(cards) \subseteq Mandatory(ruleIds, kinds)
<1> DEFINE must == Mandatory(ruleIds, kinds)
           ids  == Deterministic(ruleIds, kinds, text)
           s    == Ranked(must, text, ids)
           P    == Ahead(ids, must, text)
<1>1. ids \in SUBSET CardIds /\ must \subseteq ids
  BY DEF Deterministic, Suggested, Mandatory, CardIds
<1> HIDE DEF must, ids
<1>2. /\ Numbers(P, ids)
      /\ s \in Seq(CardIds) /\ Len(s) = Cardinality(ids) /\ Cardinality(ids) \in Nat
      /\ \A n \in 1 .. Cardinality(ids) : s[n] \in ids /\ Cardinality(P[s[n]]) = n - 1
      /\ \A i \in ids : Cardinality(P[i]) + 1 \in 1 .. Cardinality(ids)
                        /\ s[Cardinality(P[i]) + 1] = i
  <2>1. Numbers(P, ids)
    BY <1>1, RankedIs
  <2>2. s \in Seq(CardIds) /\ Len(s) = Cardinality(ids) /\ Cardinality(ids) \in Nat
    BY <1>1, RankedIs
  <2>3. \A n \in 1 .. Cardinality(ids) : s[n] \in ids /\ Cardinality(P[s[n]]) = n - 1
    BY <1>1, RankedIs
  <2>4. \A i \in ids : Cardinality(P[i]) + 1 \in 1 .. Cardinality(ids)
                      /\ s[Cardinality(P[i]) + 1] = i
    BY <1>1, RankedIs
  <2> HIDE DEF s, P
  <2> QED
    BY <2>1, <2>2, <2>3, <2>4
<1>3. \A i, j \in ids : i \in P[j] <=> RanksBefore(i, j, must, text)
  BY DEF Ahead
<1> HIDE DEF s, P
<1>4. PICK cards : cards = FirstOf(s)
  OBVIOUS
<1>5. /\ cards \in Seq(CardIds) /\ Len(cards) <= MaxCards /\ Len(cards) <= Len(s)
      /\ Len(cards) \in Nat /\ DOMAIN cards = 1 .. Len(cards)
      /\ \A n \in 1 .. Len(cards) : cards[n] = s[n]
  BY <1>2, <1>4, FirstOfIs
<1>6. \A n \in DOMAIN cards : n \in 1 .. Cardinality(ids) /\ cards[n] \in ids
                              /\ Cardinality(P[cards[n]]) = n - 1
  BY <1>2, <1>5
<1>7. ToSet(cards) \subseteq ids
  BY <1>6 DEF ToSet
<1>8. ASSUME NEW m \in must, m \notin ToSet(cards), NEW n \in DOMAIN cards
      PROVE  cards[n] \in must
  <2> SUFFICES ASSUME cards[n] \notin must PROVE FALSE
    OBVIOUS
  <2>1. RanksBefore(m, cards[n], must, text)
    BY DEF RanksBefore
  <2>2. m \in ids /\ cards[n] \in ids /\ m \in P[cards[n]]
    BY <1>1, <1>3, <1>6, <2>1
  <2>3. Cardinality(P[m]) < Cardinality(P[cards[n]])
    BY <1>2, <2>2, Smaller
  <2> DEFINE q == Cardinality(P[m]) + 1
  <2>4. q \in 1 .. Cardinality(ids) /\ s[q] = m
    BY <1>2, <2>2
  <2>0. Cardinality(P[m]) \in 0 .. (Cardinality(ids) - 1)
    BY <1>2, <2>2, Numbered
  <2>5. Cardinality(P[cards[n]]) = n - 1 /\ n \in 1 .. Len(cards) /\ Cardinality(P[m]) = q - 1
    BY <1>2, <1>5, <1>6, <2>0
  <2> HIDE DEF q
  <2>6. q \in 1 .. Len(cards)
    BY <1>2, <1>5, <2>3, <2>4, <2>5
  <2>7. cards[q] = m /\ q \in DOMAIN cards
    BY <1>5, <2>4, <2>6
  <2> QED
    BY <1>8, <2>7 DEF ToSet
<1>9. ~(must \subseteq ToSet(cards)) => ToSet(cards) \subseteq must
  BY <1>8 DEF ToSet
<1>10. Retrieved(ruleIds, kinds, text).cards = cards
  BY <1>4 DEF Retrieved, s, must, ids
<1> QED
  BY <1>5, <1>7, <1>9, <1>10 DEF must, ids

\* Who has fewer ahead of it ranks before.
LEMMA FewerAhead ==
    ASSUME NEW ids \in SUBSET CardIds, NEW must, NEW text, NEW i \in ids, NEW j \in ids,
           Cardinality(Ahead(ids, must, text)[i]) < Cardinality(Ahead(ids, must, text)[j])
    PROVE  RanksBefore(i, j, must, text)
<1> DEFINE P == Ahead(ids, must, text)
<1>1. Numbers(P, ids)
  BY RankedIs
<1>2. \A k \in ids : Cardinality(P[k]) \in Int
  <2> HIDE DEF P
  <2> QED
    BY <1>1, Numbered
<1>3. ~RanksBefore(j, i, must, text)
  <2> SUFFICES ASSUME RanksBefore(j, i, must, text) PROVE FALSE
    OBVIOUS
  <2>1. j \in P[i]
    BY DEF Ahead
  <2>2. Cardinality(P[i]) < Cardinality(P[j])
    OBVIOUS
  <2> HIDE DEF P
  <2>3. Cardinality(P[j]) < Cardinality(P[i])
    BY <1>1, <2>1, Smaller
  <2> QED
    BY <1>2, <2>2, <2>3
<1>4. i # j
  <2>1. Cardinality(P[i]) < Cardinality(P[j])
    OBVIOUS
  <2> HIDE DEF P
  <2> QED
    BY <1>2, <2>1
<1> QED
  BY <1>3, <1>4, RanksAreTotal

\* retrieve_knowledge: the cards come best first, and a card that a fact or a cue selects
\* is left out only when three others are taken and each of them ranks before it.
THEOREM BestCardsRetrieved ==
    ASSUME NEW ruleIds, NEW kinds, NEW text
    PROVE  LET must  == Mandatory(ruleIds, kinds)
               ids   == Deterministic(ruleIds, kinds, text)
               cards == Retrieved(ruleIds, kinds, text).cards
           IN  /\ Len(cards) <= MaxCards /\ ToSet(cards) \subseteq ids
               /\ \A m, n \in DOMAIN cards :
                     m < n => RanksBefore(cards[m], cards[n], must, text)
               /\ \A i \in ids \ ToSet(cards) :
                     /\ Len(cards) = MaxCards
                     /\ \A n \in DOMAIN cards : RanksBefore(cards[n], i, must, text)
<1> DEFINE must == Mandatory(ruleIds, kinds)
           ids  == Deterministic(ruleIds, kinds, text)
           s    == Ranked(must, text, ids)
           P    == Ahead(ids, must, text)
<1>1. ids \in SUBSET CardIds
  BY DEF Deterministic, Suggested, Mandatory, CardIds
<1> HIDE DEF must, ids
<1>2. s \in Seq(CardIds) /\ Len(s) = Cardinality(ids) /\ Cardinality(ids) \in Nat
  BY <1>1, RankedIs
<1>3. \A n \in 1 .. Cardinality(ids) : s[n] \in ids /\ Cardinality(P[s[n]]) = n - 1
  BY <1>1, RankedIs
<1>4. \A i \in ids : Cardinality(P[i]) + 1 \in 1 .. Cardinality(ids)
                    /\ s[Cardinality(P[i]) + 1] = i
  BY <1>1, RankedIs
<1>5. \A i, j \in ids : Cardinality(P[i]) < Cardinality(P[j]) => RanksBefore(i, j, must, text)
  BY <1>1, FewerAhead
<1>6. \A i \in ids : Cardinality(P[i]) \in Nat
  <2>1. Numbers(P, ids)
    BY <1>1, RankedIs
  <2> HIDE DEF P
  <2> QED
    BY <1>2, <2>1, Numbered
<1> HIDE DEF s, P
<1>7. PICK cards : cards = FirstOf(s)
  OBVIOUS
<1>8. /\ Len(cards) <= MaxCards /\ Len(cards) <= Len(s) /\ Len(cards) \in Nat
      /\ DOMAIN cards = 1 .. Len(cards)
      /\ \A n \in 1 .. Len(cards) : cards[n] = s[n]
      /\ \A n \in 1 .. Len(s) : n <= MaxCards => n \in 1 .. Len(cards)
  BY <1>2, <1>7, FirstOfIs
<1>9. \A n \in DOMAIN cards : cards[n] \in ids /\ Cardinality(P[cards[n]]) = n - 1
  BY <1>2, <1>3, <1>8
<1>10. ToSet(cards) \subseteq ids
  BY <1>9 DEF ToSet
<1>11. ASSUME NEW m \in DOMAIN cards, NEW n \in DOMAIN cards, m < n
       PROVE  RanksBefore(cards[m], cards[n], must, text)
  <2>1. /\ Cardinality(P[cards[m]]) = m - 1 /\ Cardinality(P[cards[n]]) = n - 1
        /\ cards[m] \in ids /\ cards[n] \in ids
    BY <1>9
  <2>2. m \in Int /\ n \in Int
    BY <1>8
  <2>3. Cardinality(P[cards[m]]) < Cardinality(P[cards[n]])
    BY <1>11, <2>1, <2>2
  <2> QED
    BY <1>5, <2>1, <2>3
<1>12. ASSUME NEW i \in ids \ ToSet(cards)
       PROVE  /\ Len(cards) = MaxCards
              /\ \A n \in DOMAIN cards : RanksBefore(cards[n], i, must, text)
  <2> DEFINE q == Cardinality(P[i]) + 1
  <2>1. q \in 1 .. Len(s) /\ s[q] = i /\ Cardinality(P[i]) \in Nat
    BY <1>2, <1>4, <1>6
  <2>2. Cardinality(P[i]) = q - 1 /\ q \in Nat
    BY <2>1
  <2> HIDE DEF q
  <2>3. q \notin 1 .. Len(cards)
    <3> SUFFICES ASSUME q \in 1 .. Len(cards) PROVE FALSE
      OBVIOUS
    <3>1. cards[q] = i /\ q \in DOMAIN cards
      BY <1>8, <2>1
    <3> QED
      BY <3>1 DEF ToSet
  <2>4. Len(cards) < q /\ MaxCards < q
    <3>1. Len(cards) < q
      BY <1>8, <2>1, <2>3
    <3>2. ~(q <= MaxCards)
      BY <1>8, <2>1, <2>3
    <3> QED
      BY <2>2, <3>1, <3>2 DEF MaxCards
  <2>5. Len(cards) = MaxCards
    <3>1. MaxCards \in 1 .. Len(s)
      BY <1>2, <2>1, <2>4 DEF MaxCards
    <3>2. MaxCards \in 1 .. Len(cards)
      BY <1>8, <3>1 DEF MaxCards
    <3> DEFINE l == Len(cards)
    <3>3. MaxCards \in 1 .. l /\ l <= MaxCards /\ l \in Nat
      BY <1>8, <3>2
    <3> HIDE DEF l
    <3>4. l = MaxCards
      BY <3>3 DEF MaxCards
    <3> QED
      BY <3>4 DEF l
  <2>6. ASSUME NEW n \in DOMAIN cards PROVE RanksBefore(cards[n], i, must, text)
    <3>1. cards[n] \in ids /\ Cardinality(P[cards[n]]) = n - 1
      BY <1>9
    <3>2. n \in Int /\ n < q
      BY <1>8, <2>2, <2>4
    <3>3. Cardinality(P[cards[n]]) < Cardinality(P[i])
      BY <2>2, <3>1, <3>2
    <3> QED
      BY <1>5, <3>1, <3>3
  <2> QED
    BY <2>5, <2>6
<1>13. Retrieved(ruleIds, kinds, text).cards = cards
  BY <1>7 DEF Retrieved, s, must, ids
<1> QED
  BY <1>8, <1>10, <1>11, <1>12, <1>13 DEF must, ids

\* What the router proposes: three known cards at most.
LEMMA RoutedIs ==
    ASSUME NEW named \in Proposals
    PROVE  Routed(named).cards \in Seq(CardIds) /\ Len(Routed(named).cards) <= MaxCards
<1>1. \A s \in Seq(STRING) : Distinct(s) \in Seq(STRING)
  <2> SUFFICES ASSUME NEW s \in Seq(STRING) PROVE Distinct(s) \in Seq(STRING)
    OBVIOUS
  <2>1. {k \in DOMAIN s : IsFirstAt(s, k)} \in SUBSET (DOMAIN s)
    OBVIOUS
  <2> QED
    BY <2>1, PickedIs DEF Distinct
<1>2. named \in Seq(STRING)
  BY DraftsAssumption
<1>3. Route(named) \in Seq(STRING)
  BY <1>1, <1>2, FirstOfIs DEF Route
<1>4. PICK s : s = Distinct(Route(named))
  OBVIOUS
<1>5. s \in Seq(STRING)
  BY <1>1, <1>3, <1>4
<1> DEFINE at == {k \in DOMAIN s : s[k] \in CardIds}
<1>6. at \in SUBSET (DOMAIN s) /\ \A k \in at : s[k] \in CardIds
  OBVIOUS
<1>7. Known(s) = Picked(s, at)
  BY DEF Known
<1> HIDE DEF at
<1>8. /\ Picked(s, at) \in Seq(STRING) /\ DOMAIN Picked(s, at) = 1 .. Cardinality(at)
      /\ Cardinality(at) \in Nat
      /\ \A n \in 1 .. Cardinality(at) : Nth(at, n) \in at /\ Picked(s, at)[n] = s[Nth(at, n)]
  BY <1>5, <1>6, PickedIs
<1>9. Picked(s, at) \in [1 .. Cardinality(at) -> CardIds]
  <2>1. Picked(s, at) = [n \in 1 .. Cardinality(at) |-> s[Nth(at, n)]]
    BY DEF Picked
  <2> QED
    BY <1>6, <1>8, <2>1
<1>10. Known(s) \in Seq(CardIds)
  BY <1>7, <1>8, <1>9, SeqDef
<1>11. Routed(named).cards = FirstOf(Known(s))
  BY <1>4 DEF Routed, Allowed
<1> QED
  BY <1>10, <1>11, FirstOfIs

-----------------------------------------------------------------------------
(* What an answer rests on *)

\* The cards are retrieved once, in the step that runs the rules or by the router's
\* answer, from the hits and signals that stay until the check ends.
Resting ==
    /\ language \in DOMAIN Wording /\ input \in Inputs
    /\ found.cards \in Seq(CardIds)
    /\ pc \in {"begin", "qr", "engine", "ocr", "text"} => found = NothingRetrieved
    /\ pc = "router" => Deterministic(IdsOf(hits), signals, Patterns(content.text)) = {}
    /\ AnswerIsGrounded

\* Nothing retrieved, and nothing asked of the router, rests on nothing.
LEMMA NothingIsJustified ==
    ASSUME found = NothingRetrieved, asked = <<>>
    PROVE  found.cards \in Seq(CardIds) /\ CardsAreJustified /\ ~HasAnswered({"router"})
<1>1. found.cards = <<>> /\ Len(<<>>) = 0 /\ <<>> \in Seq(CardIds) /\ DOMAIN <<>> = {}
  BY EmptySeq DEF NothingRetrieved
<1>2. ToSet(found.cards) = {} /\ ~HasAnswered({"router"})
  BY <1>1 DEF ToSet, HasAnswered
<1> QED
  BY <1>1, <1>2 DEF CardsAreJustified, MaxCards

\* So it is after a step.
LEMMA NothingIsJustifiedYet ==
    ASSUME found' = NothingRetrieved, asked' = <<>>
    PROVE  found'.cards \in Seq(CardIds) /\ CardsAreJustified' /\ ~HasAnswered({"router"})'
<1>1. found'.cards = <<>> /\ Len(<<>>) = 0 /\ <<>> \in Seq(CardIds) /\ DOMAIN <<>> = {}
  BY EmptySeq DEF NothingRetrieved
<1>2. ToSet(found'.cards) = {} /\ ~HasAnswered({"router"})'
  BY <1>1 DEF ToSet, HasAnswered
<1> QED
  BY <1>1, <1>2 DEF CardsAreJustified, MaxCards

\* Justified cards stay so while the facts do and the router says nothing more.
LEMMA CardsStayJustified ==
    ASSUME CardsAreJustified, UNCHANGED <<hits, signals, found, content>>,
           HasAnswered({"router"})' <=> HasAnswered({"router"})
    PROVE  CardsAreJustified'
BY DEF CardsAreJustified

\* A call to an answer model is none to the router.
LEMMA RouterIsSilent ==
    ASSUME asked \in Seq(Calls), NEW who, NEW how, who \in {"router", "primary", "fallback"},
           how \in {"answer", "failure"}, who # "router" \/ how = "failure",
           asked' = Append(asked, [who |-> who, how |-> how])
    PROVE  HasAnswered({"router"})' <=> HasAnswered({"router"})
<1>1. PICK old, new, call : old = asked /\ new = asked' /\ call = [who |-> who, how |-> how]
  OBVIOUS
<1>2. call \in Calls /\ call.who = who /\ call.how = how
  BY <1>1, ACall
<1>3. /\ Len(new) = Len(old) + 1 /\ Len(old) \in Nat
      /\ DOMAIN old = 1 .. Len(old) /\ DOMAIN new = 1 .. Len(new)
      /\ \A k \in 1 .. Len(old) : new[k] = old[k]
      /\ new[Len(new)] = call
  <2>1. IsExtendedBy(new, old, call) /\ old \in Seq(Calls)
    BY <1>1 DEF IsExtendedBy
  <2> QED
    BY <1>2, <2>1, OneMoreCall
<1>4. (\E k \in DOMAIN new : new[k].who \in {"router"} /\ new[k].how = "answer")
        <=> (\E k \in DOMAIN old : old[k].who \in {"router"} /\ old[k].how = "answer")
  <2>1. \A k \in DOMAIN new : k \in DOMAIN old \/ k = Len(new)
    BY <1>3
  <2>2. \A k \in DOMAIN old : k \in DOMAIN new
    BY <1>3
  <2>3. ~(new[Len(new)].who \in {"router"} /\ new[Len(new)].how = "answer")
    BY <1>2, <1>3
  <2> QED
    BY <1>3, <2>1, <2>2, <2>3
<1> QED
  BY <1>1, <1>4 DEF HasAnswered

LEMMA RestingInit == Init => Resting
<1> SUFFICES ASSUME Init PROVE Resting
  OBVIOUS
<1>1. /\ pc = "begin" /\ found = NothingRetrieved /\ asked = <<>>
      /\ input \in Inputs /\ language = input.language
  BY DEF Init
<1>2. language \in DOMAIN Wording
  BY <1>1, LanguagesAssumption
<1>3. ~Answered
  BY <1>1 DEF Answered, Done
<1> QED
  BY <1>1, <1>2, <1>3, NothingIsJustified
     DEF Resting, AnswerIsGrounded, ReviewedWordingIsShown, FlagsAreGrounded

\* The language of a text has its wording.
LEMMA LanguageHasWording ==
    ASSUME NEW text, NEW guess, input \in Inputs
    PROVE  ResolveContentLanguage(text, guess, input.language) \in DOMAIN Wording
<1>1. {"ru", "uz_latn", input.language} \subseteq DOMAIN Wording
  BY LanguagesAssumption
<1>2. ResolveContentLanguage(text, guess, input.language) \in {"ru", "uz_latn", input.language}
  BY DEF ResolveContentLanguage
<1> QED
  BY <1>1, <1>2

LEMMA RestingStep == Accounted /\ Resting /\ [Next]_vars => Resting'
<1> SUFFICES ASSUME Accounted, Resting, [Next]_vars PROVE Resting'
  OBVIOUS
<1> USE DEF Goto, Finish, read, analysed, model
<1>0. asked \in Seq(Calls) /\ (pc \in {"begin", "qr", "engine", "ocr", "text", "router"} => asked = <<>>)
  BY DEF Accounted
\* Unless the check ends with an answer, only the cards matter.
<1>a. ASSUME ~Answered' PROVE (ReviewedWordingIsShown /\ FlagsAreGrounded)'
  BY <1>a DEF ReviewedWordingIsShown, FlagsAreGrounded
<1>1. CASE \/ BeginText \/ BeginImage \/ BeginUnsupported \/ QrFails \/ QrDecoded
           \/ StartOcr \/ OcrFails \/ OcrReadsLittle \/ OcrReads \/ Shortcut
  <2>1. /\ pc \in {"begin", "qr", "engine", "ocr", "text"} /\ pc' # "router"
        /\ UNCHANGED <<input, language, hits, signals, found, asked>>
    BY <1>1 DEF BeginText, BeginImage, BeginUnsupported, QrFails, QrDecoded, StartOcr, OcrFails,
         OcrReadsLittle, OcrReads, Shortcut, WithoutOcr
  <2>2. pc' = "done" => EndsEarly
    BY <1>1 DEF BeginText, BeginImage, BeginUnsupported, QrFails, QrDecoded, StartOcr, OcrFails,
         OcrReadsLittle, OcrReads, Shortcut, WithoutOcr, Unsupported, TooLongStatus,
         EndsEarly, EarlyStatuses
  <2>3. ~Answered'
    BY <2>2 DEF Answered, Done, EndsEarly, EarlyStatuses, Plain
  <2>4. found' = NothingRetrieved /\ asked' = <<>>
    BY <1>0, <2>1 DEF Resting
  <2>5. CardsAreJustified' /\ found'.cards \in Seq(CardIds)
    BY <2>4, NothingIsJustifiedYet
  <2> QED
    BY <1>a, <2>1, <2>3, <2>4, <2>5 DEF Resting, AnswerIsGrounded
<1>2. CASE Analyse \/ AnalyseWithoutCards
  <2>1. /\ pc = "text" /\ pc' \in {"router", "prompt"}
        /\ UNCHANGED <<input, content, asked>> /\ asked = <<>> /\ found = NothingRetrieved
        /\ \E guess \in {"uz", "other"} :
              language' = ResolveContentLanguage(content.text, guess, input.language)
    BY <1>0, <1>2 DEF Analyse, AnalyseWithoutCards, RunRules, Resting
  <2>2. language' \in DOMAIN Wording /\ input' \in Inputs
    BY <2>1, LanguageHasWording DEF Resting
  <2>3. ~Answered'
    BY <2>1 DEF Answered, Done
  <2>4. ~HasAnswered({"router"})'
    BY <2>1, EmptySeq DEF HasAnswered
  <2>5. CASE Analyse
    <3>1. /\ found' = Retrieved(IdsOf(hits'), signals', Patterns(content.text))
          /\ pc' = "router" => Deterministic(IdsOf(hits'), signals', Patterns(content.text)) = {}
      BY <2>5 DEF Analyse
    <3>2. PICK ruleIds, kinds, text, cards :
            /\ ruleIds = IdsOf(hits') /\ kinds = signals' /\ text = Patterns(content.text)
            /\ cards = found'.cards
      OBVIOUS
    <3>3. /\ cards \in Seq(CardIds) /\ Len(cards) <= MaxCards
          /\ ToSet(cards) \subseteq Deterministic(ruleIds, kinds, text)
          /\ ~(Mandatory(ruleIds, kinds) \subseteq ToSet(cards))
                => ToSet(cards) \subseteq Mandatory(ruleIds, kinds)
      BY <3>1, <3>2, RetrievedIs
    <3>4. CardsAreJustified'
      BY <2>1, <2>4, <3>2, <3>3 DEF CardsAreJustified
    <3> QED
      BY <1>a, <2>1, <2>2, <2>3, <3>1, <3>2, <3>3, <3>4 DEF Resting, AnswerIsGrounded
  <2>6. CASE AnalyseWithoutCards
    <3>1. found' = NothingRetrieved /\ asked' = <<>> /\ pc' = "prompt"
      BY <2>1, <2>6 DEF AnalyseWithoutCards
    <3>2. CardsAreJustified' /\ found'.cards \in Seq(CardIds)
      BY <3>1, NothingIsJustifiedYet
    <3> QED
      BY <1>a, <2>2, <2>3, <3>1, <3>2 DEF Resting, AnswerIsGrounded
  <2> QED
    BY <1>2, <2>5, <2>6
<1>3. CASE RouterFails
  <2>1. /\ pc' = "prompt" /\ asked' = Append(asked, [who |-> "router", how |-> "failure"])
        /\ UNCHANGED <<input, language, content, hits, signals, found>>
    BY <1>3 DEF RouterFails
  <2>2. CardsAreJustified'
    BY <1>0, <2>1, RouterIsSilent, CardsStayJustified DEF Resting, AnswerIsGrounded
  <2>3. ~Answered'
    BY <2>1 DEF Answered, Done
  <2> QED
    BY <1>a, <2>1, <2>2, <2>3 DEF Resting, AnswerIsGrounded
<1>4. CASE RouterAnswers
  <2>1. /\ pc = "router" /\ pc' = "prompt" /\ asked' = Append(asked, [who |-> "router", how |-> "answer"])
        /\ UNCHANGED <<input, language, content, hits, signals>>
        /\ \E named \in Proposals : found' = Routed(named)
    BY <1>4 DEF RouterAnswers
  <2>2. found'.cards \in Seq(CardIds) /\ Len(found'.cards) <= MaxCards
    BY <2>1, RoutedIs
  <2>3. HasAnswered({"router"})'
    <3>1. PICK old, new, call : /\ old = asked /\ new = asked'
                                /\ call = [who |-> "router", how |-> "answer"]
      OBVIOUS
    <3>2. call \in Calls /\ call.who = "router" /\ call.how = "answer"
      BY <3>1, ACall
    <3>3. IsExtendedBy(new, old, call) /\ old \in Seq(Calls)
      BY <1>0, <2>1, <3>1 DEF IsExtendedBy
    <3>4. Len(new) \in DOMAIN new /\ new[Len(new)] = call
      BY <3>2, <3>3, OneMoreCall
    <3> QED
      BY <3>1, <3>2, <3>4 DEF HasAnswered
  <2>4. Deterministic(IdsOf(hits), signals, Patterns(content.text)) = {}
    BY <2>1 DEF Resting
  <2>5. Mandatory(IdsOf(hits), signals) = {}
    BY <2>4 DEF Deterministic
  <2>6. CardsAreJustified'
    BY <2>1, <2>2, <2>3, <2>4, <2>5 DEF CardsAreJustified
  <2>7. ~Answered'
    BY <2>1 DEF Answered, Done
  <2> QED
    BY <1>a, <2>1, <2>2, <2>6, <2>7 DEF Resting, AnswerIsGrounded
<1>5. CASE PrimaryAnswers \/ FallbackAnswers
  <2>1. PICK who \in {"primary", "fallback"}, draft \in Drafts : pc = who /\ Judge(who, draft)
    BY <1>5 DEF PrimaryAnswers, FallbackAnswers
  <2>2. /\ asked' = Append(asked, [who |-> who, how |-> "answer"])
        /\ UNCHANGED <<settings, input, language, content, hits, signals, found>>
        /\ pc' \in {"primary", "done"}
    BY <2>1 DEF Judge
  <2>3. CardsAreJustified'
    BY <1>0, <2>2, RouterIsSilent, CardsStayJustified DEF Resting, AnswerIsGrounded
  <2>4. ASSUME Answered'
        PROVE  \E d \in Drafts : result'.shown = Judged(d)
    <3>1. pc' = "done" /\ Next
      BY <1>5, <2>4 DEF Answered, Done, Next
    <3>2. EndsEarly \/ ModelFails \/ Redirects \/ FallsBack \/ ShowsADraft
      BY <3>1, Endings
    <3>3. ~(EndsEarly \/ ModelFails \/ Redirects \/ FallsBack)
      BY <2>4 DEF Answered, Done, EndsEarly, EarlyStatuses, Plain, ModelFails, Redirects, FallsBack, After
    <3> QED
      BY <3>2, <3>3 DEF ShowsADraft, After
  <2>5. ASSUME Answered' PROVE (ReviewedWordingIsShown /\ FlagsAreGrounded)'
    <3>1. PICK d \in Drafts : result'.shown = Judged(d)
      BY <2>4, <2>5
    <3>2. PICK shown, first, said :
            /\ shown = Judged(d)
            /\ first = Contributing(found.cards, found.must, language)
            /\ said = Wording[language][first[1]].flags
      OBVIOUS
    <3>3. /\ settings.grounding =>
                \/ Uncited(shown.flags)
                \/ \A k \in DOMAIN shown.flags : shown.flags[k].source \in Evidence
          /\ first # <<>> =>
                ToSet(Cut(Picked(said, {k \in DOMAIN said : ~IsFiller(said[k])})))
                    \subseteq Texts(shown.flags)
      BY <3>2, JudgedIs DEF Resting
    <3>4. Evidence' = Evidence
      BY <2>2 DEF Evidence
    <3>5. FlagsAreGrounded'
      BY <2>2, <3>1, <3>2, <3>3, <3>4 DEF FlagsAreGrounded
    <3>6. ReviewedWordingIsShown'
      BY <2>2, <3>1, <3>2, <3>3 DEF ReviewedWordingIsShown
    <3> QED
      BY <3>5, <3>6
  <2> QED
    BY <1>a, <2>1, <2>2, <2>3, <2>5 DEF Resting, AnswerIsGrounded
<1>6. CASE PrimaryFails \/ FallbackFails
  <2>1. PICK who \in {"primary", "fallback"} :
          /\ asked' = Append(asked, [who |-> who, how |-> "failure"])
          /\ UNCHANGED <<input, language, content, hits, signals, found>>
          /\ pc' = "fallback" \/ (pc' = "done" /\ result'.status \in {"timeout", "llm_error"})
    BY <1>6 DEF PrimaryFails, FallbackFails, LlmFailure, After
  <2>2. CardsAreJustified'
    BY <1>0, <2>1, RouterIsSilent, CardsStayJustified DEF Resting, AnswerIsGrounded
  <2>3. ~Answered'
    BY <2>1 DEF Answered, Done
  <2> QED
    BY <1>a, <2>1, <2>2, <2>3 DEF Resting, AnswerIsGrounded
<1>7. CASE Prompt \/ StageRaises \/ Publish
  <2>1. /\ UNCHANGED <<input, language, content, hits, signals, found, asked>>
        /\ pc' # "done" /\ (pc' = pc \/ pc' \in {"primary", "raised"})
    BY <1>7 DEF Prompt, StageRaises, Publish, Awaiting
  <2>2. CardsAreJustified'
    BY <2>1, CardsStayJustified DEF Resting, AnswerIsGrounded, HasAnswered
  <2>3. ~Answered'
    BY <2>1 DEF Answered, Done
  <2> QED
    BY <1>a, <2>1, <2>2, <2>3 DEF Resting, AnswerIsGrounded
<1>8. CASE UNCHANGED vars
  BY <1>8 DEF vars, Resting, AnswerIsGrounded, ReviewedWordingIsShown, FlagsAreGrounded,
              CardsAreJustified, Answered, Done, HasAnswered, Evidence
<1> QED
  BY <1>1, <1>2, <1>3, <1>4, <1>5, <1>6, <1>7, <1>8 DEF Next

\* What an answer says rests on reviewed cards and on the facts of this very check.
THEOREM AnswerGrounded == Spec => []AnswerIsGrounded
<1>1. Resting => AnswerIsGrounded
  BY DEF Resting
<1> QED
  BY <1>1, AccountedInit, AccountedStep, RestingInit, RestingStep, PTL DEF Spec

\* The cards of a check are what retrieval makes of its facts and its text, unless the
\* base could not be read, or there was nothing to retrieve.
FoundIsRetrieved ==
    LET text == Patterns(content.text) IN
    \/ found = NothingRetrieved
    \/ found = Retrieved(IdsOf(hits), signals, text)
    \/ Deterministic(IdsOf(hits), signals, text) = {}

LEMMA FoundStep == Resting /\ FoundIsRetrieved /\ [Next]_vars => FoundIsRetrieved'
<1> SUFFICES ASSUME Resting, FoundIsRetrieved, [Next]_vars PROVE FoundIsRetrieved'
  OBVIOUS
<1> USE DEF Goto, Finish, read, analysed, model
<1>1. CASE \/ BeginText \/ BeginImage \/ BeginUnsupported \/ QrFails \/ QrDecoded
           \/ StartOcr \/ OcrFails \/ OcrReadsLittle \/ OcrReads \/ Shortcut
           \/ AnalyseWithoutCards
  <2>1. pc \in {"begin", "qr", "engine", "ocr", "text"} /\ UNCHANGED found
    BY <1>1 DEF BeginText, BeginImage, BeginUnsupported, QrFails, QrDecoded, StartOcr, OcrFails,
         OcrReadsLittle, OcrReads, Shortcut, WithoutOcr, AnalyseWithoutCards, RunRules
  <2> QED
    BY <2>1 DEF Resting, FoundIsRetrieved
<1>2. CASE Analyse
  <2>1. found' = Retrieved(IdsOf(hits'), signals', Patterns(content.text)) /\ UNCHANGED content
    BY <1>2 DEF Analyse, RunRules
  <2> QED
    BY <2>1 DEF FoundIsRetrieved
<1>3. CASE RouterAnswers
  <2>1. pc = "router" /\ UNCHANGED <<hits, signals, content>>
    BY <1>3 DEF RouterAnswers
  <2> QED
    BY <2>1 DEF Resting, FoundIsRetrieved
<1>4. CASE UNCHANGED <<hits, signals, content, found>>
  BY <1>4 DEF FoundIsRetrieved
<1>5. CASE \/ RouterFails \/ Prompt \/ PrimaryAnswers \/ FallbackAnswers
           \/ PrimaryFails \/ FallbackFails \/ StageRaises \/ Publish \/ UNCHANGED vars
  <2>1. UNCHANGED <<hits, signals, content, found>>
    BY <1>5 DEF RouterFails, Prompt, PrimaryAnswers, FallbackAnswers, Judge, PrimaryFails,
         FallbackFails, LlmFailure, StageRaises, Publish, vars
  <2> QED
    BY <1>4, <2>1
<1> QED
  BY <1>1, <1>2, <1>3, <1>5 DEF Next

\* In every state of every check, of the cards that the facts or the text select, those
\* found rank before those left out, which happens for lack of room only.
BestCardsAreFound ==
    LET text  == Patterns(content.text)
        must  == Mandatory(IdsOf(hits), signals)
        ids   == Deterministic(IdsOf(hits), signals, text)
        cards == found.cards
    IN  found # NothingRetrieved =>
            \A i \in ids \ ToSet(cards) :
                /\ Len(cards) = MaxCards
                /\ \A n \in DOMAIN cards : RanksBefore(cards[n], i, must, text)

\* retrieve_knowledge as run_check uses it, from the hits, signals and text of this check.
THEOREM BestCardsFound == Spec => []BestCardsAreFound
<1>1. Init => FoundIsRetrieved
  BY DEF Init, FoundIsRetrieved
<1>2. FoundIsRetrieved => BestCardsAreFound
  <2> SUFFICES ASSUME NEW ruleIds, NEW kinds, NEW text,
                      ruleIds = IdsOf(hits), kinds = signals, text = Patterns(content.text),
                      FoundIsRetrieved, found # NothingRetrieved,
                      NEW i \in Deterministic(ruleIds, kinds, text) \ ToSet(found.cards)
               PROVE  /\ Len(found.cards) = MaxCards
                      /\ \A n \in DOMAIN found.cards :
                            RanksBefore(found.cards[n], i, Mandatory(ruleIds, kinds), text)
    BY DEF BestCardsAreFound
  <2>1. found = Retrieved(ruleIds, kinds, text)
    BY DEF FoundIsRetrieved
  <2> QED
    BY <2>1, BestCardsRetrieved
<1> QED
  BY <1>1, <1>2, FoundStep, AccountedInit, AccountedStep, RestingInit, RestingStep, PTL DEF Spec

-----------------------------------------------------------------------------
(* One letter apart *)

\* The places of two words, the second shifted by d, from i on that differ.
Apart(v, w, i, d) ==
    {k \in DOMAIN v : k >= i /\ k + d \in DOMAIN w /\ v[k] # w[k + d]}
FirstIn(places) == CHOOSE k \in places : \A j \in places : k <= j

\* How far the cursors move on an edit.
OnLeft(v, w)  == IF Len(v) >= Len(w) THEN 1 ELSE 0
OnRight(v, w) == IF Len(w) >= Len(v) THEN 1 ELSE 0

Cursors(v, w) == [i : 1..(Len(v) + 1), j : 1..(Len(w) + 1), edits : 0..1]
Onward(c)     == [i |-> c.i + 1, j |-> c.j + 1, edits |-> c.edits]
Edited(v, w, c) ==
    [i |-> IF Len(v) >= Len(w) THEN c.i + 1 ELSE c.i,
     j |-> IF Len(w) >= Len(v) THEN c.j + 1 ELSE c.j, edits |-> 1]
Scans(s, v, w) ==
    s = [c \in Cursors(v, w) |->
            IF c.i > Len(v) \/ c.j > Len(w) THEN c.edits
            ELSE IF v[c.i] = w[c.j] THEN s[Onward(c)]
            ELSE IF c.edits = 1 THEN 2
            ELSE s[Edited(v, w, c)]]

\* What the loop counts, without a loop.
Count(v, w, c) ==
    LET d      == c.j - c.i
        places == Apart(v, w, c.i, d)
        k      == FirstIn(places)
    IN  IF places = {} THEN c.edits
        ELSE IF c.edits = 1 THEN 2
        ELSE IF Apart(v, w, k + OnLeft(v, w), d + OnRight(v, w) - OnLeft(v, w)) = {} THEN 1
        ELSE 2

LEMMA CountFollows ==
    ASSUME NEW S, NEW v \in Seq(S), NEW w \in Seq(S), NEW c \in Cursors(v, w)
    PROVE  Count(v, w, c) =
             IF c.i > Len(v) \/ c.j > Len(w) THEN c.edits
             ELSE IF v[c.i] = w[c.j] THEN Count(v, w, Onward(c))
             ELSE IF c.edits = 1 THEN 2
             ELSE Count(v, w, Edited(v, w, c))
<1>0. /\ Len(v) \in Nat /\ Len(w) \in Nat /\ DOMAIN v = 1 .. Len(v) /\ DOMAIN w = 1 .. Len(w)
      /\ c.i \in 1 .. (Len(v) + 1) /\ c.j \in 1 .. (Len(w) + 1) /\ c.edits \in 0 .. 1
  BY DEF Cursors
<1> DEFINE d == c.j - c.i
           M == Apart(v, w, c.i, d)
<1>1. CASE c.i > Len(v) \/ c.j > Len(w)
  <2>1. M = {}
    BY <1>0, <1>1 DEF Apart
  <2> QED
    BY <1>1, <2>1 DEF Count
<1>2. CASE ~(c.i > Len(v) \/ c.j > Len(w)) /\ v[c.i] = w[c.j]
  <2>1. Onward(c).i = c.i + 1 /\ Onward(c).j = c.j + 1 /\ Onward(c).edits = c.edits
    BY DEF Onward
  <2>2. Onward(c).j - Onward(c).i = d
    <3>1. PICK i \in Int, j \in Int : i = c.i /\ j = c.j
      BY <1>0
    <3>2. (j + 1) - (i + 1) = j - i
      BY <3>1
    <3> QED
      BY <2>1, <3>1, <3>2
  <2>3. Apart(v, w, c.i + 1, d) = M
    BY <1>0, <1>2 DEF Apart
  <2>4. Count(v, w, Onward(c)) = Count(v, w, c)
    BY <2>1, <2>2, <2>3 DEF Count
  <2> QED
    BY <1>2, <2>4
<1>3. CASE ~(c.i > Len(v) \/ c.j > Len(w)) /\ v[c.i] # w[c.j]
  <2>1. c.i \in M /\ \A k \in M : k \in Int /\ c.i <= k
    BY <1>0, <1>3 DEF Apart
  <2>2. FirstIn(M) = c.i
    <3>1. FirstIn(M) \in M /\ \A j \in M : FirstIn(M) <= j
      BY <2>1 DEF FirstIn
    <3> QED
      BY <2>1, <3>1
  <2>3. CASE c.edits = 1
    BY <1>3, <2>1, <2>3 DEF Count
  <2>4. CASE c.edits # 1
    <3> DEFINE e == Edited(v, w, c)
               a == OnLeft(v, w)
               b == OnRight(v, w)
    <3>1. e.i = c.i + a /\ e.j = c.j + b /\ e.edits = 1 /\ a \in 0 .. 1 /\ b \in 0 .. 1
      BY <1>0 DEF Edited, OnLeft, OnRight
    <3>2. e.j - e.i = d + b - a
      <4>1. PICK i \in Int, j \in Int, m \in Int, n \in Int :
                i = c.i /\ j = c.j /\ m = a /\ n = b
        BY <1>0, <3>1
      <4>2. (j + n) - (i + m) = (j - i) + n - m
        BY <4>1
      <4> HIDE DEF e, a, b
      <4> QED
        BY <3>1, <4>1, <4>2
    <3>3. Count(v, w, c) = IF Apart(v, w, c.i + a, d + b - a) = {} THEN 1 ELSE 2
      BY <2>1, <2>2, <2>4 DEF Count
    <3>4. Count(v, w, e) = IF Apart(v, w, e.i, e.j - e.i) = {} THEN 1 ELSE 2
      BY <3>1 DEF Count
    <3>5. Count(v, w, c) = Count(v, w, e)
      BY <3>1, <3>2, <3>3, <3>4
    <3> QED
      BY <1>3, <2>4, <3>5
  <2> QED
    BY <2>3, <2>4
<1> QED
  BY <1>1, <1>2, <1>3

LEMMA CursorsMove ==
    ASSUME NEW S, NEW v \in Seq(S), NEW w \in Seq(S), NEW c \in Cursors(v, w),
           ~(c.i > Len(v) \/ c.j > Len(w))
    PROVE  /\ Onward(c) \in Cursors(v, w) /\ Edited(v, w, c) \in Cursors(v, w)
           /\ Onward(c).i + Onward(c).j > c.i + c.j
           /\ Edited(v, w, c).i + Edited(v, w, c).j > c.i + c.j
<1>0. /\ Len(v) \in Nat /\ Len(w) \in Nat
      /\ c.i \in 1 .. (Len(v) + 1) /\ c.j \in 1 .. (Len(w) + 1) /\ c.edits \in 0 .. 1
  BY DEF Cursors
<1>1. Onward(c) \in Cursors(v, w) /\ Onward(c).i + Onward(c).j > c.i + c.j
  BY <1>0 DEF Onward, Cursors
<1>2. Edited(v, w, c) \in Cursors(v, w) /\ Edited(v, w, c).i + Edited(v, w, c).j > c.i + c.j
  BY <1>0 DEF Edited, Cursors
<1> QED
  BY <1>1, <1>2

LEMMA ScanIs ==
    ASSUME NEW S, NEW v \in Seq(S), NEW w \in Seq(S)
    PROVE  /\ \E s : Scans(s, v, w)
           /\ \A s : Scans(s, v, w) => \A c \in Cursors(v, w) : s[c] = Count(v, w, c)
<1> DEFINE g == [c \in Cursors(v, w) |-> Count(v, w, c)]
<1>1. Scans(g, v, w)
  <2>1. ASSUME NEW c \in Cursors(v, w)
        PROVE  g[c] = IF c.i > Len(v) \/ c.j > Len(w) THEN c.edits
                      ELSE IF v[c.i] = w[c.j] THEN g[Onward(c)]
                      ELSE IF c.edits = 1 THEN 2
                      ELSE g[Edited(v, w, c)]
    <3>1. g[c] = Count(v, w, c)
      OBVIOUS
    <3>2. ~(c.i > Len(v) \/ c.j > Len(w)) =>
              /\ g[Onward(c)] = Count(v, w, Onward(c))
              /\ g[Edited(v, w, c)] = Count(v, w, Edited(v, w, c))
      BY CursorsMove
    <3> HIDE DEF g
    <3> QED
      BY <3>1, <3>2, CountFollows
  <2>2. g = [c \in Cursors(v, w) |-> g[c]]
    OBVIOUS
  <2> HIDE DEF g
  <2> QED
    BY <2>1, <2>2 DEF Scans
<1>2. ASSUME NEW s, Scans(s, v, w), NEW c0 \in Cursors(v, w), s[c0] # Count(v, w, c0) PROVE FALSE
  <2> DEFINE m == Len(v) + Len(w) + 2
             T == {n \in Nat : \E c \in Cursors(v, w) : n = m - (c.i + c.j) /\ s[c] # Count(v, w, c)}
  <2>0. Len(v) \in Nat /\ Len(w) \in Nat
    OBVIOUS
  <2>1. \A c \in Cursors(v, w) : m - (c.i + c.j) \in Nat /\ c.i + c.j \in Nat
    BY <2>0 DEF Cursors
  <2>2. T \in SUBSET Nat /\ T # {}
    BY <1>2, <2>1
  <2>3. PICK n \in T : \A k \in T : n <= k
    BY <2>2, Least
  <2>4. PICK c \in Cursors(v, w) : n = m - (c.i + c.j) /\ s[c] # Count(v, w, c)
    BY <2>3
  <2>5. ASSUME NEW e \in Cursors(v, w), e.i + e.j > c.i + c.j PROVE s[e] = Count(v, w, e)
    <3>1. m - (e.i + e.j) \in Nat /\ m - (e.i + e.j) < n
      BY <2>0, <2>1, <2>4, <2>5
    <3>2. m - (e.i + e.j) \notin T
      BY <2>3, <3>1
    <3> QED
      BY <3>1, <3>2
  <2>6. s[c] = IF c.i > Len(v) \/ c.j > Len(w) THEN c.edits
               ELSE IF v[c.i] = w[c.j] THEN s[Onward(c)]
               ELSE IF c.edits = 1 THEN 2
               ELSE s[Edited(v, w, c)]
    BY <1>2 DEF Scans
  <2>7. ~(c.i > Len(v) \/ c.j > Len(w)) =>
            /\ s[Onward(c)] = Count(v, w, Onward(c))
            /\ s[Edited(v, w, c)] = Count(v, w, Edited(v, w, c))
    BY <2>5, CursorsMove
  <2> HIDE DEF T, m
  <2> QED
    BY <2>4, <2>6, <2>7, CountFollows
<1> QED
  BY <1>1, <1>2

LEMMA LevenshteinIs ==
    ASSUME NEW S, NEW v \in Seq(S), NEW w \in Seq(S)
    PROVE  LevenshteinAtMostOne(v, w) <=>
             /\ Len(v) - Len(w) \in -1..1
             /\ Count(v, w, [i |-> 1, j |-> 1, edits |-> 0]) <= 1
<1> DEFINE first == [i |-> 1, j |-> 1, edits |-> 0]
           scan == CHOOSE s : Scans(s, v, w)
<1>1. Scans(scan, v, w)
  BY ScanIs
<1>2. first \in Cursors(v, w)
  BY DEF Cursors
<1>3. scan[first] = Count(v, w, first)
  BY <1>1, <1>2, ScanIs
<1>4. LevenshteinAtMostOne(v, w) <=> Len(v) - Len(w) \in -1..1 /\ scan[first] <= 1
  BY DEF LevenshteinAtMostOne, Scans, Cursors, Onward, Edited
<1> QED
  BY <1>3, <1>4

LEMMA RemovedIs ==
    ASSUME NEW S, NEW s \in Seq(S), NEW k \in DOMAIN s
    PROVE  /\ RemoveAt(s, k) \in Seq(S) /\ Len(RemoveAt(s, k)) = Len(s) - 1
           /\ DOMAIN RemoveAt(s, k) = 1 .. (Len(s) - 1)
           /\ \A i \in 1 .. (Len(s) - 1) : RemoveAt(s, k)[i] = IF i < k THEN s[i] ELSE s[i + 1]
<1>1. /\ Len(s) \in Nat /\ DOMAIN s = 1 .. Len(s) /\ k \in 1 .. Len(s)
      /\ \A i \in 1 .. Len(s) : s[i] \in S
  BY ElementOfSeq
<1> DEFINE a == SubSeq(s, 1, k - 1)
           b == SubSeq(s, k + 1, Len(s))
<1>2. a \in Seq(S) /\ Len(a) = k - 1 /\ \A i \in 1 .. (k - 1) : a[i] = s[i]
  <2>1. \A i \in 1 .. (k - 1) : s[i] \in S
    BY <1>1
  <2>2. 1 \in Int /\ k - 1 \in Int
    BY <1>1
  <2>3. /\ a \in Seq(S) /\ Len(a) = IF 1 <= k - 1 THEN k - 1 - 1 + 1 ELSE 0
        /\ \A i \in 1 .. (k - 1 - 1 + 1) : a[i] = s[1 + i - 1]
    BY <2>1, <2>2, SubSeqProperties
  <2> HIDE DEF a
  <2> QED
    BY <1>1, <2>3
<1>3. b \in Seq(S) /\ Len(b) = Len(s) - k /\ \A i \in 1 .. (Len(s) - k) : b[i] = s[k + i]
  <2>1. \A i \in (k + 1) .. Len(s) : s[i] \in S
    BY <1>1
  <2>2. k + 1 \in Int /\ Len(s) \in Int
    BY <1>1
  <2>3. /\ b \in Seq(S) /\ Len(b) = IF k + 1 <= Len(s) THEN Len(s) - (k + 1) + 1 ELSE 0
        /\ \A i \in 1 .. (Len(s) - (k + 1) + 1) : b[i] = s[(k + 1) + i - 1]
    BY <2>1, <2>2, SubSeqProperties
  <2> HIDE DEF b
  <2>4. Len(b) = Len(s) - k
    BY <1>1, <2>3
  <2>5. ASSUME NEW i \in 1 .. (Len(s) - k) PROVE b[i] = s[k + i]
    <3>1. i \in 1 .. (Len(s) - (k + 1) + 1) /\ (k + 1) + i - 1 = k + i
      BY <1>1
    <3> QED
      BY <2>3, <3>1
  <2> QED
    BY <2>3, <2>4, <2>5
<1>4. RemoveAt(s, k) = a \o b
  BY DEF RemoveAt
<1> HIDE DEF a, b
<1>5. /\ a \o b \in Seq(S) /\ Len(a \o b) = Len(a) + Len(b)
      /\ \A i \in 1 .. Len(a) + Len(b) : (a \o b)[i] = IF i <= Len(a) THEN a[i] ELSE b[i - Len(a)]
  BY <1>2, <1>3, ConcatProperties
<1>6. Len(a) + Len(b) = Len(s) - 1
  BY <1>1, <1>2, <1>3
<1>7. ASSUME NEW i \in 1 .. (Len(s) - 1)
      PROVE  (a \o b)[i] = IF i < k THEN s[i] ELSE s[i + 1]
  <2>1. CASE i < k
    BY <1>1, <1>2, <1>5, <1>6, <2>1
  <2>2. CASE ~(i < k)
    <3>1. (a \o b)[i] = b[i - (k - 1)]
      BY <1>1, <1>2, <1>5, <1>6, <2>2
    <3>2. i - (k - 1) \in 1 .. (Len(s) - k)
      BY <1>1, <2>2
    <3>3. k + (i - (k - 1)) = i + 1
      BY <1>1
    <3> QED
      BY <1>3, <2>2, <3>1, <3>2, <3>3
  <2> QED
    BY <2>1, <2>2
<1> QED
  BY <1>1, <1>4, <1>5, <1>6, <1>7, LenProperties

\* Two sequences are equal when they have the same length and elements.
LEMMA SameElements ==
    ASSUME NEW S, NEW s \in Seq(S), NEW t \in Seq(S), Len(s) = Len(t),
           \A i \in 1 .. Len(s) : s[i] = t[i]
    PROVE  s = t
BY SeqEqual

LEMMA FirstInIs ==
    ASSUME NEW M \in SUBSET Nat, M # {}
    PROVE  FirstIn(M) \in M /\ \A j \in M : FirstIn(M) <= j
<1>1. \E k \in M : \A j \in M : k <= j
  BY Least
<1> QED
  BY <1>1 DEF FirstIn

\* What the loop finds: one edit, or none, and the rest is the same.
LEMMA AtMostOneEdit ==
    ASSUME NEW S, NEW v \in Seq(S), NEW w \in Seq(S)
    PROVE  LevenshteinAtMostOne(v, w) <=>
             /\ Len(v) - Len(w) \in -1..1
             /\ \/ Apart(v, w, 1, 0) = {}
                \/ Apart(v, w, FirstIn(Apart(v, w, 1, 0)) + OnLeft(v, w),
                         OnRight(v, w) - OnLeft(v, w)) = {}
<1> DEFINE first == [i |-> 1, j |-> 1, edits |-> 0]
           M == Apart(v, w, 1, 0)
           rest == Apart(v, w, FirstIn(M) + OnLeft(v, w), OnRight(v, w) - OnLeft(v, w))
<1>1. first.i = 1 /\ first.j - first.i = 0 /\ first.edits = 0
  OBVIOUS
<1>2. 0 + OnRight(v, w) - OnLeft(v, w) = OnRight(v, w) - OnLeft(v, w)
  BY DEF OnRight, OnLeft
<1>3. Count(v, w, first) = IF M = {} THEN 0 ELSE IF rest = {} THEN 1 ELSE 2
  BY <1>1, <1>2 DEF Count
<1>4. Count(v, w, first) <= 1 <=> M = {} \/ rest = {}
  <2> HIDE DEF M, rest
  <2> QED
    BY <1>3
<1> QED
  BY <1>4, LevenshteinIs

LEMMA FoundIsApart ==
    ASSUME NEW S, NEW v \in Seq(S), NEW w \in Seq(S), LevenshteinAtMostOne(v, w)
    PROVE  OneLetterApart(v, w)
<1> DEFINE M == Apart(v, w, 1, 0)
           k == FirstIn(M)
           a == OnLeft(v, w)
           b == OnRight(v, w)
<1>0. Len(v) \in Nat /\ Len(w) \in Nat /\ DOMAIN v = 1 .. Len(v) /\ DOMAIN w = 1 .. Len(w)
  OBVIOUS
<1>4. Len(v) = Len(w) \/ Len(v) = Len(w) + 1 \/ Len(w) = Len(v) + 1
  BY LevenshteinIs
<1> HIDE DEF M, k, a, b
<1>1. M = {} \/ Apart(v, w, k + a, b - a) = {}
  BY AtMostOneEdit DEF M, k, a, b
<1>2. CASE M = {}
  <2>1. \A i \in 1 .. Len(v) : i \in 1 .. Len(w) => v[i] = w[i]
    <3>1. \A i \in 1 .. Len(v) : i \notin M
      BY <1>2
    <3> QED
      BY <1>0, <3>1 DEF Apart, M
  <2>2. CASE Len(v) = Len(w)
    <3>1. v = w
      BY <1>0, <2>1, <2>2, SameElements
    <3> QED
      BY <3>1 DEF OneLetterApart
  <2>3. CASE Len(v) = Len(w) + 1
    <3>1. Len(v) \in DOMAIN v
      BY <1>0, <2>3
    <3>2. RemoveAt(v, Len(v)) = w
      <4>1. /\ RemoveAt(v, Len(v)) \in Seq(S) /\ Len(RemoveAt(v, Len(v))) = Len(w)
            /\ \A i \in 1 .. Len(w) : RemoveAt(v, Len(v))[i] = v[i]
        <5>1. Len(v) - 1 = Len(w) /\ \A i \in 1 .. Len(w) : i < Len(v)
          BY <1>0, <2>3
        <5> QED
          BY <3>1, <5>1, RemovedIs
      <4>2. \A i \in 1 .. Len(w) : RemoveAt(v, Len(v))[i] = w[i]
        BY <1>0, <2>1, <2>3, <4>1
      <4> QED
        BY <4>1, <4>2, SameElements
    <3> QED
      BY <3>1, <3>2 DEF OneLetterApart
  <2>4. CASE Len(w) = Len(v) + 1
    <3>1. Len(w) \in DOMAIN w
      BY <1>0, <2>4
    <3>2. RemoveAt(w, Len(w)) = v
      <4>1. /\ RemoveAt(w, Len(w)) \in Seq(S) /\ Len(RemoveAt(w, Len(w))) = Len(v)
            /\ \A i \in 1 .. Len(v) : RemoveAt(w, Len(w))[i] = w[i]
        <5>1. Len(w) - 1 = Len(v) /\ \A i \in 1 .. Len(v) : i < Len(w)
          BY <1>0, <2>4
        <5> QED
          BY <3>1, <5>1, RemovedIs
      <4>2. \A i \in 1 .. Len(v) : RemoveAt(w, Len(w))[i] = v[i]
        BY <1>0, <2>1, <2>4, <4>1
      <4> QED
        BY <4>1, <4>2, SameElements
    <3> QED
      BY <3>1, <3>2 DEF OneLetterApart
  <2> QED
    BY <1>4, <2>2, <2>3, <2>4
<1>3. CASE M # {} /\ Apart(v, w, k + a, b - a) = {}
  <2>1. k \in M /\ \A j \in M : k <= j
    <3>1. M \in SUBSET Nat
      BY <1>0 DEF Apart, M
    <3> QED
      BY <1>3, <3>1, FirstInIs DEF k
  <2>2. k \in 1 .. Len(v) /\ k \in 1 .. Len(w) /\ k \in Nat
    BY <1>0, <2>1 DEF Apart, M
  <2>3. ASSUME NEW i \in 1 .. Len(v), i < k PROVE i \in 1 .. Len(w) /\ v[i] = w[i]
    <3>1. i \notin M
      BY <1>0, <2>1, <2>2, <2>3
    <3>2. i \in 1 .. Len(w) /\ i + 0 = i
      BY <1>0, <2>2, <2>3
    <3> QED
      BY <1>0, <3>1, <3>2 DEF Apart, M
  <2>4. \A i \in 1 .. Len(v) : i >= k + a /\ i + (b - a) \in 1 .. Len(w) => v[i] = w[i + (b - a)]
    BY <1>0, <1>3 DEF Apart
  <2>5. CASE Len(v) = Len(w)
    <3>1. a = 1 /\ b = 1 /\ b - a = 0
      BY <2>5 DEF OnLeft, OnRight, a, b
    <3>2. \A i \in 1 .. Len(v) : i # k => v[i] = w[i]
      <4>1. \A i \in 1 .. Len(v) : i >= k + 1 => v[i] = w[i + 0]
        BY <1>0, <2>4, <2>5, <3>1
      <4> QED
        BY <1>0, <2>2, <2>3, <4>1
    <3>3. RemoveAt(v, k) = RemoveAt(w, k)
      <4>1. /\ RemoveAt(v, k) \in Seq(S) /\ Len(RemoveAt(v, k)) = Len(v) - 1
            /\ \A i \in 1 .. (Len(v) - 1) : RemoveAt(v, k)[i] = IF i < k THEN v[i] ELSE v[i + 1]
        BY <1>0, <2>2, RemovedIs
      <4>2. /\ RemoveAt(w, k) \in Seq(S) /\ Len(RemoveAt(w, k)) = Len(v) - 1
            /\ \A i \in 1 .. (Len(v) - 1) : RemoveAt(w, k)[i] = IF i < k THEN w[i] ELSE w[i + 1]
        BY <1>0, <2>2, <2>5, RemovedIs
      <4>3. ASSUME NEW i \in 1 .. (Len(v) - 1) PROVE RemoveAt(v, k)[i] = RemoveAt(w, k)[i]
        <5>1. i \in 1 .. Len(v) /\ i + 1 \in 1 .. Len(v) /\ (i < k => i # k) /\ (~(i < k) => i + 1 # k)
          BY <1>0, <2>2
        <5> QED
          BY <3>2, <4>1, <4>2, <5>1
      <4> QED
        BY <4>1, <4>2, <4>3, SameElements
    <3> QED
      BY <1>0, <2>2, <2>5, <3>3 DEF OneLetterApart
  <2>6. CASE Len(v) = Len(w) + 1
    <3>1. a = 1 /\ b = 0 /\ b - a = -1
      BY <1>0, <2>6 DEF OnLeft, OnRight, a, b
    <3>2. \A i \in 1 .. Len(w) : i >= k => v[i + 1] = w[i]
      <4>1. ASSUME NEW i \in 1 .. Len(w), i >= k PROVE v[i + 1] = w[i]
        <5>1. i + 1 \in 1 .. Len(v) /\ i + 1 >= k + a /\ (i + 1) + (b - a) = i
          BY <1>0, <2>2, <2>6, <3>1, <4>1
        <5> QED
          BY <2>4, <5>1
      <4> QED
        BY <4>1
    <3>3. RemoveAt(v, k) = w
      <4>1. /\ RemoveAt(v, k) \in Seq(S) /\ Len(RemoveAt(v, k)) = Len(w)
            /\ \A i \in 1 .. Len(w) : RemoveAt(v, k)[i] = IF i < k THEN v[i] ELSE v[i + 1]
        <5>1. Len(v) - 1 = Len(w) /\ k \in DOMAIN v
          BY <1>0, <2>2, <2>6
        <5> QED
          BY <5>1, RemovedIs
      <4>2. ASSUME NEW i \in 1 .. Len(w) PROVE RemoveAt(v, k)[i] = w[i]
        <5>1. i \in 1 .. Len(v) /\ (i < k \/ i >= k)
          BY <1>0, <2>2, <2>6
        <5> QED
          BY <2>3, <3>2, <4>1, <5>1
      <4> QED
        BY <4>1, <4>2, SameElements
    <3> QED
      BY <1>0, <2>2, <3>3 DEF OneLetterApart
  <2>7. CASE Len(w) = Len(v) + 1
    <3>1. a = 0 /\ b = 1 /\ b - a = 1
      BY <1>0, <2>7 DEF OnLeft, OnRight, a, b
    <3>2. \A i \in 1 .. Len(v) : i >= k => v[i] = w[i + 1]
      BY <1>0, <2>2, <2>4, <2>7, <3>1
    <3>3. RemoveAt(w, k) = v
      <4>1. /\ RemoveAt(w, k) \in Seq(S) /\ Len(RemoveAt(w, k)) = Len(v)
            /\ \A i \in 1 .. Len(v) : RemoveAt(w, k)[i] = IF i < k THEN w[i] ELSE w[i + 1]
        <5>1. Len(w) - 1 = Len(v) /\ k \in DOMAIN w
          BY <1>0, <2>2, <2>7
        <5> QED
          BY <5>1, RemovedIs
      <4>2. ASSUME NEW i \in 1 .. Len(v) PROVE RemoveAt(w, k)[i] = v[i]
        <5>1. i < k \/ i >= k
          BY <2>2
        <5> QED
          BY <2>3, <3>2, <4>1, <5>1
      <4> QED
        BY <4>1, <4>2, SameElements
    <3> QED
      BY <1>0, <2>2, <3>3 DEF OneLetterApart
  <2> QED
    BY <1>4, <2>5, <2>6, <2>7
<1> QED
  BY <1>1, <1>2, <1>3

LEMMA ApartIsFound ==
    ASSUME NEW S, NEW v \in Seq(S), NEW w \in Seq(S), OneLetterApart(v, w)
    PROVE  LevenshteinAtMostOne(v, w)
<1> DEFINE M == Apart(v, w, 1, 0)
           k == FirstIn(M)
           a == OnLeft(v, w)
           b == OnRight(v, w)
<1>0. Len(v) \in Nat /\ Len(w) \in Nat /\ DOMAIN v = 1 .. Len(v) /\ DOMAIN w = 1 .. Len(w)
  OBVIOUS
<1>1. M # {} => /\ k \in 1 .. Len(v) /\ k \in 1 .. Len(w) /\ v[k] # w[k]
  <2>1. ASSUME M # {} PROVE k \in M
    <3>1. M \in SUBSET Nat
      BY <1>0 DEF Apart
    <3> QED
      BY <2>1, <3>1, FirstInIs
  <2>2. \A i \in M : i \in 1 .. Len(v) /\ i + 0 \in 1 .. Len(w) /\ v[i] # w[i + 0] /\ i + 0 = i
    BY <1>0 DEF Apart
  <2> QED
    BY <2>1, <2>2
<1> HIDE DEF M, k, a, b
\* It is enough that after the first difference nothing differs.
<1>2. ASSUME Len(v) - Len(w) \in -1 .. 1,
             M # {} => \A i \in 1 .. Len(v) :
                i >= k + a /\ i + (b - a) \in 1 .. Len(w) => v[i] = w[i + (b - a)]
      PROVE  LevenshteinAtMostOne(v, w)
  <2>1. M # {} => Apart(v, w, k + a, b - a) = {}
    BY <1>0, <1>2 DEF Apart
  <2> QED
    BY <1>2, <2>1, AtMostOneEdit DEF M, k, a, b
<1>3. CASE v = w
  <2>1. a = 1 /\ b = 1 /\ b - a = 0 /\ Len(v) - Len(w) \in -1 .. 1
    BY <1>0, <1>3 DEF OnLeft, OnRight, a, b
  <2> QED
    BY <1>1, <1>2, <1>3
<1>4. CASE \E m \in DOMAIN v : RemoveAt(v, m) = w
  <2>1. PICK m \in DOMAIN v : RemoveAt(v, m) = w
    BY <1>4
  <2>2. /\ Len(w) = Len(v) - 1
        /\ \A i \in 1 .. Len(w) : w[i] = IF i < m THEN v[i] ELSE v[i + 1]
    BY <2>1, RemovedIs
  <2>3. a = 1 /\ b = 0 /\ b - a = -1 /\ Len(v) - Len(w) \in -1 .. 1
    BY <1>0, <2>2 DEF OnLeft, OnRight, a, b
  <2>4. M # {} => k >= m
    BY <1>0, <1>1, <2>1, <2>2
  <2>5. ASSUME M # {}, NEW i \in 1 .. Len(v), i >= k + a, i + (b - a) \in 1 .. Len(w)
        PROVE  v[i] = w[i + (b - a)]
    <3>1. i - 1 \in 1 .. Len(w) /\ i - 1 >= m /\ (i - 1) + 1 = i /\ i + (b - a) = i - 1
      <4>1. PICK kk \in Int, mm \in Int, n \in Int : kk = k /\ mm = m /\ n = Len(w)
        <5>1. k \in Int
          BY <1>1, <2>5
        <5>2. m \in Int /\ Len(w) \in Int
          BY <1>0, <2>1
        <5> QED
          BY <5>1, <5>2
      <4>2. i >= kk + 1 /\ i + (-1) \in 1 .. n /\ kk >= mm
        BY <2>3, <2>4, <2>5, <4>1
      <4>3. i \in Int /\ i + (-1) = i - 1
        OBVIOUS
      <4>4. i - 1 \in 1 .. n /\ i - 1 >= mm /\ (i - 1) + 1 = i
        BY <4>1, <4>2, <4>3
      <4> QED
        BY <2>3, <4>1, <4>3, <4>4
    <3> QED
      BY <1>0, <2>1, <2>2, <3>1
  <2> QED
    BY <1>2, <2>3, <2>5
<1>5. CASE \E m \in DOMAIN w : RemoveAt(w, m) = v
  <2>1. PICK m \in DOMAIN w : RemoveAt(w, m) = v
    BY <1>5
  <2>2. /\ Len(v) = Len(w) - 1
        /\ \A i \in 1 .. Len(v) : v[i] = IF i < m THEN w[i] ELSE w[i + 1]
    BY <2>1, RemovedIs
  <2>3. a = 0 /\ b = 1 /\ b - a = 1 /\ Len(v) - Len(w) \in -1 .. 1
    BY <1>0, <2>2 DEF OnLeft, OnRight, a, b
  <2>4. M # {} => k >= m
    BY <1>0, <1>1, <2>1, <2>2
  <2>5. ASSUME M # {}, NEW i \in 1 .. Len(v), i >= k + a, i + (b - a) \in 1 .. Len(w)
        PROVE  v[i] = w[i + (b - a)]
    BY <1>0, <1>1, <2>1, <2>2, <2>3, <2>4, <2>5
  <2> QED
    BY <1>2, <2>3, <2>5
<1>6. CASE Len(v) = Len(w) /\ \E m \in DOMAIN v : RemoveAt(v, m) = RemoveAt(w, m)
  <2>1. PICK m \in DOMAIN v : RemoveAt(v, m) = RemoveAt(w, m)
    BY <1>6
  <2>2. m \in 1 .. Len(v) /\ m \in DOMAIN w
    BY <1>0, <1>6
  <2>3. a = 1 /\ b = 1 /\ b - a = 0 /\ Len(v) - Len(w) \in -1 .. 1
    BY <1>0, <1>6 DEF OnLeft, OnRight, a, b
  <2>4. ASSUME NEW i \in 1 .. Len(v), i # m PROVE v[i] = w[i]
    <3>1. CASE i < m
      <4>1. i \in 1 .. (Len(v) - 1)
        BY <1>0, <2>2, <3>1
      <4>2. RemoveAt(v, m)[i] = v[i] /\ RemoveAt(w, m)[i] = w[i]
        BY <1>0, <1>6, <2>2, <3>1, <4>1, RemovedIs
      <4> QED
        BY <2>1, <4>2
    <3>2. CASE i > m
      <4>1. i - 1 \in 1 .. (Len(v) - 1) /\ ~(i - 1 < m) /\ (i - 1) + 1 = i
        BY <1>0, <2>2, <3>2
      <4>2. RemoveAt(v, m)[i - 1] = v[i] /\ RemoveAt(w, m)[i - 1] = w[i]
        BY <1>0, <1>6, <2>2, <4>1, RemovedIs
      <4> QED
        BY <2>1, <4>2
    <3> QED
      BY <1>0, <2>2, <2>4, <3>1, <3>2
  <2>5. M # {} => k = m
    BY <1>1, <2>4
  <2>6. ASSUME M # {}, NEW i \in 1 .. Len(v), i >= k + a, i + (b - a) \in 1 .. Len(w)
        PROVE  v[i] = w[i + (b - a)]
    <3>1. i # m /\ i + (b - a) = i
      <4>1. k = m /\ i >= m + 1 /\ m \in Int /\ i \in Int
        <5>1. k = m /\ i >= k + a
          BY <2>5, <2>6
        <5>2. m \in Int /\ i \in Int /\ a = 1
          BY <2>2, <2>3
        <5> QED
          BY <5>1, <5>2
      <4> QED
        BY <2>3, <4>1
    <3> QED
      BY <2>4, <3>1
  <2> QED
    BY <1>2, <2>3, <2>6
<1> QED
  BY <1>3, <1>4, <1>5, <1>6 DEF OneLetterApart

\* _levenshtein_at_most_one: the loop finds exactly the words that are equal, or
\* become so when one letter is replaced or left out.
THEOREM OneLetterIsFound ==
    ASSUME NEW S, NEW v \in Seq(S), NEW w \in Seq(S)
    PROVE  LevenshteinAtMostOne(v, w) <=> OneLetterApart(v, w)
BY FoundIsApart, ApartIsFound

-----------------------------------------------------------------------------
(* What a link leaves *)

LEMMA PieceIs ==
    ASSUME NEW S, NEW s \in Seq(S), NEW k \in Nat, NEW l \in Nat, k <= l, l <= Len(s)
    PROVE  /\ SubSeq(s, k + 1, l) \in Seq(S) /\ Len(SubSeq(s, k + 1, l)) = l - k
           /\ \A i \in 1 .. (l - k) : SubSeq(s, k + 1, l)[i] = s[k + i]
<1>1. Len(s) \in Nat /\ \A i \in 1 .. Len(s) : s[i] \in S
  BY ElementOfSeq
<1>2. \A i \in (k + 1) .. l : s[i] \in S
  BY <1>1
<1> DEFINE b == SubSeq(s, k + 1, l)
<1>3. /\ b \in Seq(S) /\ Len(b) = IF k + 1 <= l THEN l - (k + 1) + 1 ELSE 0
      /\ \A i \in 1 .. (l - (k + 1) + 1) : b[i] = s[(k + 1) + i - 1]
  BY <1>2, SubSeqProperties
<1> HIDE DEF b
<1>4. Len(b) = l - k
  BY <1>3
<1>5. ASSUME NEW i \in 1 .. (l - k) PROVE b[i] = s[k + i]
  <2>1. i \in 1 .. (l - (k + 1) + 1) /\ (k + 1) + i - 1 = k + i
    OBVIOUS
  <2> QED
    BY <1>3, <2>1
<1> QED
  BY <1>3, <1>4, <1>5 DEF b

\* A word is at a place of a label when the label goes on with it from there.
LEMMA AtAPlace ==
    ASSUME NEW S, NEW word \in Seq(S), NEW label \in Seq(S), NEW k \in 0 .. Len(label)
    PROVE  IsPrefix(word, SubSeq(label, k + 1, Len(label)))
             <=> k <= Len(label) - Len(word) /\ SubSeq(label, k + 1, k + Len(word)) = word
<1>0. Len(word) \in Nat /\ Len(label) \in Nat /\ k \in Nat /\ k <= Len(label)
  OBVIOUS
<1> DEFINE rest == SubSeq(label, k + 1, Len(label))
           m    == Len(word)
           here == SubSeq(label, k + 1, k + m)
<1>1. /\ rest \in Seq(S) /\ Len(rest) = Len(label) - k
      /\ \A i \in 1 .. (Len(label) - k) : rest[i] = label[k + i]
  BY <1>0, PieceIs
<1>2. SubSeq(word, 1, m) = word
  <2>1. /\ SubSeq(word, 0 + 1, m) \in Seq(S) /\ Len(SubSeq(word, 0 + 1, m)) = m - 0
        /\ \A i \in 1 .. (m - 0) : SubSeq(word, 0 + 1, m)[i] = word[0 + i]
    BY <1>0, PieceIs
  <2>2. 0 + 1 = 1 /\ m - 0 = m /\ \A i \in 1 .. m : 0 + i = i
    BY <1>0
  <2>3. /\ SubSeq(word, 1, m) \in Seq(S) /\ Len(SubSeq(word, 1, m)) = m
        /\ \A i \in 1 .. m : SubSeq(word, 1, m)[i] = word[i]
    BY <2>1, <2>2
  <2> QED
    BY <2>3, SameElements
<1>3. CASE k + m <= Len(label)
  <2>1. /\ here \in Seq(S) /\ Len(here) = m
        /\ \A i \in 1 .. m : here[i] = label[k + i]
    <3>1. /\ here \in Seq(S) /\ Len(here) = (k + m) - k
          /\ \A i \in 1 .. ((k + m) - k) : here[i] = label[k + i]
      BY <1>0, <1>3, PieceIs
    <3>2. (k + m) - k = m
      BY <1>0
    <3> QED
      BY <3>1, <3>2
  <2>2. /\ SubSeq(rest, 1, m) \in Seq(S) /\ Len(SubSeq(rest, 1, m)) = m
        /\ \A i \in 1 .. m : SubSeq(rest, 1, m)[i] = label[k + i]
    <3>1. m <= Len(rest) /\ m \in Nat /\ 0 \in Nat /\ 0 <= m
      BY <1>0, <1>1, <1>3
    <3>2. /\ SubSeq(rest, 0 + 1, m) \in Seq(S) /\ Len(SubSeq(rest, 0 + 1, m)) = m - 0
          /\ \A i \in 1 .. (m - 0) : SubSeq(rest, 0 + 1, m)[i] = rest[0 + i]
      BY <1>1, <3>1, PieceIs
    <3>3. 0 + 1 = 1 /\ m - 0 = m /\ \A i \in 1 .. m : 0 + i = i /\ i \in 1 .. (Len(label) - k)
      BY <1>0, <1>3
    <3> QED
      BY <1>1, <3>2, <3>3
  <2>3. SubSeq(rest, 1, m) = here
    BY <2>1, <2>2, SameElements
  <2>4. m <= Len(rest) /\ k <= Len(label) - m
    BY <1>0, <1>1, <1>3
  <2> QED
    BY <1>2, <2>3, <2>4 DEF IsPrefix
<1>4. CASE ~(k + m <= Len(label))
  <2>1. ~(m <= Len(rest)) /\ ~(k <= Len(label) - m)
    BY <1>0, <1>1, <1>4
  <2> QED
    BY <2>1 DEF IsPrefix
<1> QED
  BY <1>3, <1>4

LEMMA OccursIs ==
    ASSUME NEW S, NEW word \in Seq(S), NEW label \in Seq(S)
    PROVE  Occurs(word, label)
             <=> \E k \in 0 .. Len(label) : IsPrefix(word, SubSeq(label, k + 1, Len(label)))
<1>0. Len(word) \in Nat /\ Len(label) \in Nat
  OBVIOUS
<1>1. \A k \in 0 .. (Len(label) - Len(word)) :
        k \in 0 .. Len(label) /\ k <= Len(label) - Len(word)
  BY <1>0
<1>2. \A k \in 0 .. Len(label) :
        k <= Len(label) - Len(word) => k \in 0 .. (Len(label) - Len(word))
  BY <1>0
<1> QED
  BY <1>1, <1>2, AtAPlace DEF Occurs

LEMMA FoldedIs ==
    ASSUME NEW label \in Seq(Alphabet)
    PROVE  Folded(label) \in Seq(Alphabet)
<1>1. \A k \in 1 .. Len(label) : label[k] \in Alphabet
  BY ElementOfSeq
<1>2. \A c \in Alphabet : Fold(c) \in Alphabet
  BY SpellingAssumption DEF Fold
<1> QED
  BY <1>1, <1>2 DEF Folded

LEMMA WordsAre ==
    ASSUME NEW label \in Seq(Alphabet), NEW w \in Words(label)
    PROVE  w \in Seq(Alphabet)
<1> DEFINE plain == {k \in DOMAIN label : label[k] # "-" /\ Script[label[k]] \in {"latin", "none"}}
<1>1. PICK p \in plain \X plain : w = SubSeq(label, p[1], p[2])
  BY DEF Words
<1>2. PICK i \in Int, j \in Int : /\ w = SubSeq(label, i, j) /\ i \in 1 .. Len(label)
                                  /\ j \in 1 .. Len(label)
  <2>1. p[1] \in plain /\ p[2] \in plain
    OBVIOUS
  <2>2. p[1] \in 1 .. Len(label) /\ p[2] \in 1 .. Len(label)
    BY <2>1
  <2> QED
    BY <1>1, <2>2
<1>3. \A k \in i .. j : label[k] \in Alphabet
  <2>1. \A k \in 1 .. Len(label) : label[k] \in Alphabet
    BY ElementOfSeq
  <2>2. \A k \in i .. j : k \in 1 .. Len(label)
    BY <1>2
  <2> QED
    BY <2>1, <2>2
<1> QED
  BY <1>2, <1>3, SubSeqProperties

LEMMA DomainIs ==
    ASSUME NEW link, link.host \in Named
    PROVE  DomainOf(link) \in Named
<1> DEFINE named == WithoutWww(link.host)
<1>1. named \in Named
  <2>1. CASE Len(link.host) > 1 /\ link.host[1] = Www
    <3>1. link.host # <<>>
      BY <2>1, EmptySeq
    <3>2. Tail(link.host) \in Named
      BY <3>1, HeadTailProperties DEF Named
    <3> QED
      BY <2>1, <3>2 DEF WithoutWww
  <2>2. CASE ~(Len(link.host) > 1 /\ link.host[1] = Www)
    BY <2>2 DEF WithoutWww
  <2> QED
    BY <2>1, <2>2
<1> HIDE DEF named
<1>2. \A k \in 1 .. Len(named) : Decode(named[k]) \in Seq(Alphabet)
  <2>1. \A k \in 1 .. Len(named) : named[k] \in Seq(Alphabet)
    BY <1>1, ElementOfSeq DEF Named
  <2> QED
    BY <2>1, SpellingAssumption DEF Decode
<1>3. [k \in DOMAIN named |-> Decode(named[k])] \in Named
  <2>1. Len(named) \in Nat /\ DOMAIN named = 1 .. Len(named)
    BY <1>1, LenProperties DEF Named
  <2> DEFINE decoded == [k \in 1 .. Len(named) |-> Decode(named[k])]
  <2>2. decoded \in [1 .. Len(named) -> Seq(Alphabet)]
    BY <1>2
  <2>3. decoded \in Seq(Seq(Alphabet))
    <3> HIDE DEF decoded
    <3> QED
      BY <2>1, <2>2
  <2> QED
    BY <2>1, <2>3 DEF Named
<1> QED
  BY <1>1, <1>3 DEF DomainOf, named

\* The classifier finds the imitations, and no others.
LEMMA LookalikeIs ==
    ASSUME NEW link, link.host \in Named, NEW brand \in DOMAIN Brands
    PROVE  Lookalike(DomainOf(link), brand) <=> Imitates(link, brand)
<1> DEFINE domain == DomainOf(link)
           labels == {Folded(l) : l \in ToSet(domain)}
<1>1. brand \in Seq(Alphabet) /\ domain \in Seq(Seq(Alphabet))
  BY SpellingAssumption, DomainIs DEF Named
<1>2. \A k \in DOMAIN domain : domain[k] \in Seq(Alphabet)
  BY <1>1, ElementOfSeq
<1>3. labels = {Folded(domain[k]) : k \in DOMAIN domain}
  BY DEF ToSet
<1>4. \A l \in labels : l \in Seq(Alphabet)
  BY <1>2, <1>3, FoldedIs
<1> HIDE DEF domain, labels
<1>5. \A l \in labels : Occurs(brand, l)
        <=> \E k \in 0 .. Len(l) : IsPrefix(brand, SubSeq(l, k + 1, Len(l)))
  BY <1>1, <1>4, OccursIs
<1>6. \A l \in labels : \A w \in Words(l) : LevenshteinAtMostOne(w, brand) <=> OneLetterApart(w, brand)
  BY <1>1, <1>4, WordsAre, OneLetterIsFound
<1>7. (\E k \in DOMAIN domain :
          LET label == Folded(domain[k])
          IN  Occurs(brand, label) \/ \E w \in Words(label) : LooksLikeBrand(w, brand))
        <=> \E l \in labels : Occurs(brand, l) \/ \E w \in Words(l) : LooksLikeBrand(w, brand)
  BY <1>3
<1>8. (\E l \in labels : Occurs(brand, l) \/ \E w \in Words(l) : LooksLikeBrand(w, brand))
        <=> \/ \E l \in labels : \E k \in 0 .. Len(l) : IsPrefix(brand, SubSeq(l, k + 1, Len(l)))
            \/ Len(brand) >= 4 /\ \E l \in labels : \E w \in Words(l) : OneLetterApart(w, brand)
  <2>1. \A l \in labels : (\E w \in Words(l) : LooksLikeBrand(w, brand))
            <=> Len(brand) >= 4 /\ \E w \in Words(l) : OneLetterApart(w, brand)
    BY <1>6 DEF LooksLikeBrand
  <2> QED
    BY <1>5, <2>1
<1>9. Lookalike(domain, brand) <=>
        /\ MixedScript(domain) \/ ~DomainIsAllowed(domain, brand)
        /\ \E l \in labels : Occurs(brand, l) \/ \E w \in Words(l) : LooksLikeBrand(w, brand)
  BY <1>7 DEF Lookalike
<1>10. Imitates(link, brand) <=>
        /\ ~(~MixedScript(domain) /\ DomainIsAllowed(domain, brand))
        /\ \/ \E l \in labels : \E k \in 0 .. Len(l) : IsPrefix(brand, SubSeq(l, k + 1, Len(l)))
           \/ Len(brand) >= 4 /\ \E l \in labels : \E w \in Words(l) : OneLetterApart(w, brand)
  BY DEF Imitates, OfficialOf, domain, labels
<1> QED
  BY <1>8, <1>9, <1>10 DEF domain

LinkLabels == {"credentials-in-url", "ip-address", "shortened", "lookalike-domain",
               "domain-in-subdomain", "mixed-script-domain"}

\* The rules read every label but none as a deception.
LEMMA LabelsDeceive ==
    ASSUME NEW label \in LinkLabels \cup {"none"}
    PROVE  KindOfLabel(label) \in Deceptions <=> label # "none"
BY DEF LinkLabels, KindOfLabel, Deceptions

LEMMA ClassifyIs ==
    ASSUME NEW link, link.host \in Named
    PROVE  /\ ClassifyLink(link) \in LinkLabels \cup {"none"}
           /\ \A b \in DOMAIN Brands : Imitates(link, b) => ClassifyLink(link) # "none"
           /\ Harmless(link) => ClassifyLink(link) = "none"
<1>1. ClassifyLink(link) \in LinkLabels \cup {"none"}
  BY DEF ClassifyLink, LinkLabels
<1>2. ASSUME NEW b \in DOMAIN Brands, Imitates(link, b) PROVE ClassifyLink(link) # "none"
  <2>1. Lookalike(DomainOf(link), b)
    BY <1>2, LookalikeIs
  <2>2. DomainOf(link) # <<>>
    <3>1. DOMAIN DomainOf(link) # {}
      BY <2>1 DEF Lookalike
    <3>2. DOMAIN <<>> = {}
      OBVIOUS
    <3> QED
      BY <3>1, <3>2
  <2> QED
    BY <2>1, <2>2 DEF ClassifyLink
<1>3. ASSUME Harmless(link) PROVE ClassifyLink(link) = "none"
  <2>1. \A b \in DOMAIN Brands : ~Lookalike(DomainOf(link), b)
    BY <1>3, LookalikeIs DEF Harmless
  <2> QED
    BY <1>3, <2>1 DEF Harmless, ClassifyLink
<1> QED
  BY <1>1, <1>2, <1>3

LEMMA LinksAreSpelled ==
    ASSUME NEW text, NEW l \in LinksIn(text)
    PROVE  l.host \in Named
BY SpellingAssumption DEF LinksIn

\* What the rules are told of the links of a text.
LEMMA StructuralIs ==
    ASSUME NEW text
    PROVE  /\ \A l \in LinksIn(text) :
                ~TakenForEmail(l) => KindOfLabel(ClassifyLink(l)) \in Structural(text)
           /\ (\A l \in LinksIn(text) : Harmless(l)) => Structural(text) \cap Deceptions = {}
<1>1. ASSUME NEW l \in LinksIn(text), ~TakenForEmail(l)
      PROVE  KindOfLabel(ClassifyLink(l)) \in Structural(text)
  <2>1. l \in UNION {Rest(k) : k \in LinksIn(text)}
    BY <1>1 DEF Rest
  <2> QED
    BY <2>1 DEF Structural
<1>2. ASSUME \A l \in LinksIn(text) : Harmless(l)
      PROVE  Structural(text) \cap Deceptions = {}
  <2>1. \A l \in LinksIn(text) : Rest(l) = {l}
    BY <1>2 DEF Harmless, Rest, TakenForEmail
  <2>2. UNION {Rest(l) : l \in LinksIn(text)} = LinksIn(text)
    BY <2>1
  <2>3. \A l \in LinksIn(text) : KindOfLabel(ClassifyLink(l)) \notin Deceptions
    BY <1>2, LinksAreSpelled, ClassifyIs, LabelsDeceive
  <2>4. \A t \in DOMAIN KindOfToken : KindOfToken[t] \notin Deceptions
    BY DEF KindOfToken, Deceptions
  <2>5. "email" \notin Deceptions /\ "card_personal" \notin Deceptions
    BY DEF Deceptions
  <2> HIDE DEF Deceptions
  <2> QED
    BY <2>2, <2>3, <2>4, <2>5 DEF Structural
<1> QED
  BY <1>1, <1>2

\* A label that a model may read is one that the rules were told of.
LEMMA ReadLabelsAreKnown ==
    ASSUME NEW text, NEW s \in Minimized(text, FALSE),
           s.what \in {ClassifyLink(l) : l \in LinksIn(text)} \ {"none"}
    PROVE  KindOfLabel(s.what) \in Structural(text)
<1>1. s.what \in LinkLabels
  BY LinksAreSpelled, ClassifyIs
<1>2. CASE \E p \in text \cap DOMAIN AddressOf : s = Token(LinkLabel(AddressOf[p]))
  <2>1. PICK p \in text \cap DOMAIN AddressOf : s = Token(LinkLabel(AddressOf[p]))
    BY <1>2
  <2>2. AddressOf[p] \in LinksIn(text) /\ s.what = LinkLabel(AddressOf[p])
    BY <2>1 DEF LinksIn, Token
  <2>3. ~TakenForEmail(AddressOf[p]) /\ s.what = ClassifyLink(AddressOf[p])
    BY <2>2 DEF LinkLabel
  <2> QED
    BY <2>2, <2>3, StructuralIs
<1>3. CASE \E p \in text \cap DOMAIN TokenOf : s = Token(TokenOf[p])
  <2>1. PICK p \in text \cap DOMAIN TokenOf : s.what = TokenOf[p]
    BY <1>3 DEF Token
  <2>2. s.what \in DOMAIN KindOfToken \cup {"NAME", "PASSPORT", "ADDRESS"}
    BY <2>1, TokensAssumption
  <2>3. FALSE
    BY <1>1, <2>2 DEF LinkLabels, KindOfToken
  <2> QED
    BY <2>3
<1> QED
  BY <1>2, <1>3 DEF Minimized

-----------------------------------------------------------------------------
(* What the rules have seen *)

\* While the text is analysed the signals are those of its links, and of rules that
\* fired on it; of what a QR code adds, none is a deception.
LinksSeen ==
    /\ qr.kinds \subseteq {"payment_qr"} /\ content.kinds \subseteq {"payment_qr"}
    /\ Analysed => /\ Structural(Patterns(content.text)) \subseteq signals
                   /\ signals \cap Deceptions
                        \subseteq Structural(Patterns(content.text)) \cup Emitted(hits)

LEMMA SeenIsRead == LinksSeen => LinksAreRead
<1> SUFFICES ASSUME LinksSeen, Analysed PROVE LinksAreRead
  BY DEF LinksAreRead
<1> DEFINE text == Patterns(content.text)
<1> HIDE DEF text
<1>1. Structural(text) \subseteq signals /\ signals \cap Deceptions \subseteq Structural(text) \cup Emitted(hits)
  BY DEF LinksSeen, text
<1>2. ASSUME NEW l \in LinksIn(text), NEW b \in DOMAIN Brands, Imitates(l, b), ~TakenForEmail(l)
      PROVE  signals \cap Deceptions # {}
  <2>1. ClassifyLink(l) \in LinkLabels /\ KindOfLabel(ClassifyLink(l)) \in Deceptions
    BY <1>2, LinksAreSpelled, ClassifyIs, LabelsDeceive
  <2>2. KindOfLabel(ClassifyLink(l)) \in signals
    BY <1>1, <1>2, StructuralIs
  <2> QED
    BY <2>1, <2>2
<1>3. ASSUME \A l \in LinksIn(text) : Harmless(l)
      PROVE  signals \cap Deceptions \subseteq Emitted(hits)
  BY <1>1, <1>3, StructuralIs
<1>4. ASSUME NEW s \in Minimized(text, FALSE),
             s.what \in {ClassifyLink(l) : l \in LinksIn(text)} \ {"none"}
      PROVE  KindOfLabel(s.what) \in signals
  BY <1>1, <1>4, ReadLabelsAreKnown
<1> QED
  BY <1>2, <1>3, <1>4 DEF LinksAreRead, text

LEMMA SeenInit == Init => LinksSeen
BY DEF Init, LinksSeen, NoQr, NoContent, Analysed

LEMMA SeenStep == LinksSeen /\ [Next]_vars => LinksSeen'
<1> SUFFICES ASSUME LinksSeen, [Next]_vars PROVE LinksSeen'
  OBVIOUS
<1> USE DEF Goto, Finish, read, analysed, model
<1>a. ASSUME ~Analysed', UNCHANGED <<qr, content>> PROVE LinksSeen'
  BY <1>a DEF LinksSeen
<1>b. ASSUME Analysed, UNCHANGED <<qr, content, signals, hits>> PROVE LinksSeen'
  BY <1>b DEF LinksSeen
<1>1. CASE BeginText
  <2>1. content'.kinds = {} /\ qr' = qr /\ pc' = "text"
    BY <1>1 DEF BeginText, NoContent
  <2> QED
    BY <2>1 DEF LinksSeen, Analysed
<1>2. CASE BeginImage \/ BeginUnsupported \/ QrFails \/ Shortcut
  BY <1>2, <1>a DEF BeginImage, BeginUnsupported, QrFails, Shortcut, Analysed
<1>3. CASE QrDecoded
  <2>1. /\ content' = content /\ pc' \in {"engine", "done"}
        /\ qr' = qr \/ \E p \in Payloads : qr' = QrOf(p)
    BY <1>3 DEF QrDecoded
  <2>2. qr'.kinds \subseteq {"payment_qr"}
    BY <2>1 DEF QrOf, LinksSeen
  <2> QED
    BY <2>1, <2>2 DEF LinksSeen, Analysed
<1>4. CASE StartOcr \/ OcrFails \/ OcrReadsLittle \/ OcrReads
  <2>1. qr' = qr /\ pc' \in {"ocr", "text", "done"}
    BY <1>4 DEF StartOcr, OcrFails, OcrReadsLittle, OcrReads, WithoutOcr
  <2>2. content'.kinds \in {content.kinds, qr.kinds}
    BY <1>4 DEF StartOcr, OcrFails, OcrReadsLittle, OcrReads, WithoutOcr, QrOnly
  <2> QED
    BY <2>1, <2>2 DEF LinksSeen, Analysed
<1>5. CASE Analyse \/ AnalyseWithoutCards
  <2> DEFINE text == Patterns(content.text)
  <2>1. /\ UNCHANGED <<qr, content>> /\ hits' = FiringRules(pack, text)
        /\ signals' = RuleSignals(pack, text) \cup content.kinds
    BY <1>5 DEF Analyse, AnalyseWithoutCards, RunRules
  <2>2. RuleSignals(pack, text) = Structural(text) \cup Emitted(FiringRules(pack, text))
    BY DEF RuleSignals, FiringRules, BaseSignals, Emitted
  <2>3. content.kinds \cap Deceptions = {}
    BY DEF LinksSeen, Deceptions
  <2>4. Patterns(content.text)' = text
    BY <2>1
  <2> HIDE DEF text
  <2>5. /\ Structural(text) \subseteq signals'
        /\ signals' \cap Deceptions \subseteq Structural(text) \cup Emitted(hits')
    BY <2>1, <2>2, <2>3
  <2> QED
    BY <2>1, <2>5 DEF LinksSeen, text
<1>6. CASE RouterFails \/ RouterAnswers \/ Prompt
  <2>1. Analysed /\ UNCHANGED <<qr, content, signals, hits>>
    BY <1>6 DEF RouterFails, RouterAnswers, Prompt, Analysed
  <2> QED
    BY <1>b, <2>1
<1>7. CASE PrimaryAnswers \/ FallbackAnswers
  <2>1. PICK who \in {"primary", "fallback"}, draft \in Drafts : pc = who /\ Judge(who, draft)
    BY <1>7 DEF PrimaryAnswers, FallbackAnswers
  <2>2. Analysed /\ UNCHANGED <<qr, content, signals, hits>>
    BY <2>1 DEF Judge, Analysed
  <2> QED
    BY <1>b, <2>2
<1>8. CASE PrimaryFails \/ FallbackFails
  <2>1. Analysed /\ UNCHANGED <<qr, content, signals, hits>>
    BY <1>8 DEF PrimaryFails, FallbackFails, LlmFailure, Analysed
  <2> QED
    BY <1>b, <2>1
<1>9. CASE StageRaises \/ Publish
  <2>1. UNCHANGED <<qr, content, signals, hits>> /\ (pc' = pc \/ pc' = "raised")
    BY <1>9 DEF StageRaises, Publish
  <2> QED
    BY <2>1 DEF LinksSeen, Analysed
<1>10. CASE UNCHANGED vars
  BY <1>10 DEF vars, LinksSeen, Analysed
<1> QED
  BY <1>1, <1>2, <1>3, <1>4, <1>5, <1>6, <1>7, <1>8, <1>9, <1>10 DEF Next

\* Every stage reads a link alike: whatever host carries a brand it does not belong
\* to, or is one letter away from it, leaves a signal; harmless links leave none that
\* no rule emits; and no model reads a label that the rules have not seen.
THEOREM LinksRead == Spec => []LinksAreRead
BY SeenIsRead, SeenInit, SeenStep, PTL DEF Spec

=============================================================================
