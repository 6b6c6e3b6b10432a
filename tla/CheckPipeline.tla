--------------------------- MODULE CheckPipeline ----------------------------
(***************************************************************************)
(* The stages of one check (app/engine/pipeline.py, _run_stages): what was *)
(* sent becomes a text, rules and signals are read from it, cards are      *)
(* retrieved, and a model's draft is judged before anybody reads it.       *)
(*                                                                         *)
(* The check yields to others only while it awaits the QR decoder, the OCR *)
(* engine, the router or a model; the rule pack in force may be replaced   *)
(* there and nowhere else (module OverrideStore).  The card base is read   *)
(* once, in one step, so that it is a constant here.                       *)
(*                                                                         *)
(* A text is a set of fragments: what the user wrote, what OCR read, what  *)
(* a QR code said.                                                         *)
(***************************************************************************)
EXTENDS RuleEngine, Retrieval, AnswerSafety, Functions

CONSTANTS
    Inputs,         \* what may be submitted: kind, fragments, image bytes or not
    SettingsSet,    \* configurations: ocr, router, fallback, grounding
    Packs,          \* the rule packs that may be published
    Fragments,
    PatternsIn,     \* the patterns in each fragment
    Length,         \* the characters in each fragment
    CyrillicWords, LatinWords,  \* the words of either script in each fragment
    UzbekInCyrillic, UzbekInLatin,  \* the fragments with a mark of Uzbek
    MetaPhrases,    \* the fragments that are chatter about the bot
    Payloads,       \* what a QR code may say
    PaymentPayloads,\* those of the EMVCo shape
    PaymentMark,    \* the fragment that stands for such a payload
    MaxChars,
    OcrTexts,       \* what OCR may read
    Drafts,         \* what a model may answer
    Proposals,      \* the ids that the router's model may name
    NoDraft, NoResult

ASSUME FragmentsAssumption ==
    /\ DOMAIN PatternsIn = Fragments
    /\ Length \in [Fragments -> Nat] /\ MaxChars \in Nat
    /\ CyrillicWords \in [Fragments -> Nat] /\ LatinWords \in [Fragments -> Nat]
    /\ PaymentMark \in Fragments /\ MetaPhrases \subseteq Fragments
    /\ Payloads \subseteq Fragments /\ PaymentPayloads \subseteq Payloads
    /\ OcrTexts \subseteq SUBSET Fragments
ASSUME DraftsAssumption ==
    /\ Drafts \subseteq [offTopic : BOOLEAN, flags : Seq([text : Bullets, source : STRING]),
                        pattern : Bullets, verify : Seq(Bullets), ask : Seq(Bullets),
                        addressed : SUBSET STRING]
    /\ Proposals \subseteq Seq(STRING)
\* Each language that may be answered in has its wording.
ASSUME LanguagesAssumption ==
    {"ru", "uz_latn"} \cup {i.language : i \in Inputs} \subseteq DOMAIN Wording
ASSUME PacksAssumption == \A p \in Packs : GatesOnUngated(p)

VARIABLES
    pc,         \* where the check stands
    settings,   \* the configuration
    input,      \* what was submitted
    qr,         \* the decoded QR code: decoded or not, its text and signals
    content,    \* the text that is analysed, its signals, and its QR mark
    pack,       \* the rule pack in force
    language,   \* the language of the answer
    hits,       \* the rules that fired
    signals,    \* the kinds of the signals
    found,      \* the cards retrieved, and which of them are mandatory
    seen,       \* the links and names that the answer model reads, or their tokens
    attempt,    \* 0 or 1
    tokens,     \* the usage added up so far, one per answer
    asked,      \* history: the paid calls and how they ended
    result

vars == <<pc, settings, input, qr, content, pack, language, hits, signals, found,
          seen, attempt, tokens, asked, result>>

read     == <<settings, input>>
analysed == <<language, hits, signals, found, seen>>
model    == <<attempt, tokens, asked>>

Awaiting == {"qr", "ocr", "router", "primary", "fallback"}

\* The outcomes that keep their daily-limit slot.
BillableStatuses == {"ok", "no_signal", "low_ocr", "off_topic", "safety_fallback"}

Patterns(text) == UNION {PatternsIn[f] : f \in text}
TooLong(text)  == SumFunctionOnSet(Length, text) > MaxChars
IsMeta(text)   == \E f \in MetaPhrases : text = {f}

\* The language of a text, of which langdetect guesses something or nothing: the
\* prevailing script first, then the marks of Uzbek, then the guess.
ResolveContentLanguage(text, guess, fallback) ==
    LET cyrillic == SumFunctionOnSet(CyrillicWords, text)
        latin    == SumFunctionOnSet(LatinWords, text)
        marked   == IF cyrillic > latin THEN UzbekInCyrillic ELSE UzbekInLatin
    IN  IF cyrillic = latin THEN fallback
        ELSE IF text \cap marked # {} \/ guess = "uz" THEN "uz_latn"
        ELSE IF cyrillic > latin THEN "ru" ELSE fallback

NoQr      == [decoded |-> FALSE, text |-> {}, kinds |-> {}]
NoContent == [text |-> {}, kinds |-> {}, strict |-> FALSE]

\* A result without anything the model wrote.
Plain(status) ==
    [status |-> status, shown |-> NoDraft, ruleIds |-> {}, cards |-> <<>>, tokens |-> 0]

Finish(r) == pc' = "done" /\ result' = r

Goto(step) == pc' = step /\ UNCHANGED result

Init ==
    /\ pc = "begin"
    /\ settings \in SettingsSet
    /\ input \in Inputs
    /\ qr = NoQr
    /\ content = NoContent
    /\ pack \in Packs
    /\ language = input.language
    /\ hits = {}
    /\ signals = {}
    /\ found = NothingRetrieved
    /\ seen = {}
    /\ attempt = 0
    /\ tokens = 0
    /\ asked = <<>>
    /\ result = NoResult

-----------------------------------------------------------------------------
(* From what was sent to a text: _content_from_input *)

BeginText ==
    /\ pc = "begin" /\ input.kind = "text"
    /\ content' = [NoContent EXCEPT !.text = input.text]
    /\ Goto("text")
    /\ UNCHANGED <<read, qr, pack, analysed, model>>

BeginImage ==
    /\ pc = "begin" /\ input.kind = "image" /\ input.bytes
    /\ Goto("qr")
    /\ UNCHANGED <<read, qr, content, pack, analysed, model>>

Unsupported == Plain("unsupported_media")

\* Another kind of media, or an image without its bytes.
BeginUnsupported ==
    /\ pc = "begin"
    /\ input.kind = "other" \/ (input.kind = "image" /\ ~input.bytes)
    /\ Finish(Unsupported)
    /\ UNCHANGED <<read, qr, content, pack, analysed, model>>

\* An unreadable image, a timeout or a decoder error: OCR decides alone.
QrFails ==
    /\ pc = "qr"
    /\ Goto("engine")
    /\ UNCHANGED <<read, qr, content, pack, analysed, model>>

QrOf(payload) ==
    IF payload \in PaymentPayloads
    THEN [decoded |-> TRUE, text |-> {PaymentMark}, kinds |-> {"payment_qr"}]
    ELSE [decoded |-> TRUE, text |-> {payload}, kinds |-> {}]

QrDecoded ==
    /\ pc = "qr"
    /\ \E payloads \in SUBSET Payloads :
        \/ /\ payloads = {}
           /\ UNCHANGED qr /\ Goto("engine")
        \/ /\ Cardinality(payloads) > 1
           /\ UNCHANGED qr /\ Finish(Plain("low_ocr"))
        \/ \E p \in payloads :
            /\ payloads = {p}
            /\ IF TooLong({p}) THEN UNCHANGED qr /\ Finish(Plain("low_ocr"))
                               ELSE qr' = QrOf(p) /\ Goto("engine")
    /\ UNCHANGED <<read, content, pack, analysed, model>>

\* The mark of decoded content is lost when OCR has nothing to add.
MutantQrOnly == [text |-> input.text \cup qr.text, kinds |-> qr.kinds, strict |-> FALSE]

\* The content when OCR failed or read nothing.
QrOnly == [text |-> input.text \cup qr.text, kinds |-> qr.kinds, strict |-> TRUE]

WithoutOcr(status) ==
    \/ qr.decoded /\ content' = QrOnly /\ Goto("text")
    \/ ~qr.decoded /\ UNCHANGED content /\ Finish(Plain(status))

StartOcr ==
    /\ pc = "engine"
    /\ \/ settings.ocr /\ Goto("ocr") /\ UNCHANGED content
       \/ ~settings.ocr /\ WithoutOcr("ocr_error")
    /\ UNCHANGED <<read, qr, pack, analysed, model>>

\* A timeout; bytes that are no image, or a stub provider; any other failure.
OcrFails ==
    /\ pc = "ocr"
    /\ \E status \in {"timeout", "unsupported_media", "ocr_error"} : WithoutOcr(status)
    /\ UNCHANGED <<read, qr, pack, analysed, model>>

\* Nothing was read, or with too little confidence.
OcrReadsLittle ==
    /\ pc = "ocr"
    /\ WithoutOcr("low_ocr")
    /\ UNCHANGED <<read, qr, pack, analysed, model>>

OcrReads ==
    /\ pc = "ocr"
    /\ \E words \in OcrTexts :
        content' = [text |-> input.text \cup words \cup qr.text, kinds |-> qr.kinds,
                    strict |-> qr.decoded]
    /\ Goto("text")
    /\ UNCHANGED <<read, qr, pack, analysed, model>>

-----------------------------------------------------------------------------
(* Rules, signals and cards *)

TooLongStatus == IF input.kind = "image" THEN "low_ocr" ELSE "unsupported_media"

\* The texts that no rule is run on.
Shortcut ==
    /\ pc = "text"
    /\ \/ content.text = {} /\ Finish(Plain("empty_input"))
       \/ TooLong(content.text) /\ Finish(Plain(TooLongStatus))
       \/ /\ content.text # {} /\ ~TooLong(content.text) /\ IsMeta(content.text)
          /\ Finish(Plain("meta"))
    /\ UNCHANGED <<read, qr, content, pack, analysed, model>>

RunRules ==
    LET text == Patterns(content.text) IN
    /\ pc = "text"
    /\ content.text # {} /\ ~TooLong(content.text) /\ ~IsMeta(content.text)
    /\ \E guess \in {"uz", "other"} :
        language' = ResolveContentLanguage(content.text, guess, input.language)
    /\ hits' = FiringRules(pack, text)
    /\ signals' = RuleSignals(pack, text) \cup content.kinds
    /\ UNCHANGED <<read, qr, content, pack, seen, model>>

\* The router is asked when it is on and no fact and no cue selects a card.
Analyse ==
    LET text == Patterns(content.text) IN
    /\ RunRules
    /\ found' = Retrieved(IdsOf(hits'), signals', text)
    /\ Goto(IF settings.router /\ Deterministic(IdsOf(hits'), signals', text) = {}
            THEN "router" ELSE "prompt")

\* KnowledgeLookupError: no cards, and no router.
AnalyseWithoutCards == RunRules /\ UNCHANGED found /\ Goto("prompt")

RouterFails ==
    /\ pc = "router"
    /\ asked' = Append(asked, [who |-> "router", how |-> "failure"])
    /\ Goto("prompt")
    /\ UNCHANGED <<read, qr, content, pack, analysed, attempt, tokens>>

RouterAnswers ==
    /\ pc = "router"
    /\ \E named \in Proposals : found' = Routed(named)
    /\ tokens' = tokens + 1
    /\ asked' = Append(asked, [who |-> "router", how |-> "answer"])
    /\ Goto("prompt")
    /\ UNCHANGED <<read, qr, content, pack, language, hits, signals, seen, attempt>>

-----------------------------------------------------------------------------
(* The answer model: _call_llm *)

\* Names and URLs stay in the prompt unless a QR code was decoded.
Prompt ==
    /\ pc = "prompt"
    /\ seen' = Minimized(Patterns(content.text), ~content.strict)
    /\ Goto("primary")
    /\ UNCHANGED <<read, qr, content, pack, language, hits, signals, found, model>>

\* A result after retrieval; answered is the usage it reports.
After(status, ruleIds, shown, answered) ==
    [status |-> status, shown |-> shown, ruleIds |-> ruleIds, cards |-> found.cards,
     tokens |-> answered]

\* The usage of the first attempt is forgotten when the second one fails.
MutantLlmFailure(status) == After(status, IdsOf(hits), NoDraft, 0)

LlmFailure(status) == After(status, IdsOf(hits), NoDraft, tokens)

OffTopic(draft) == hits = {} /\ draft.offTopic

\* The rules in force by now are reported, and not those that fired.
MutantReportedIds == IdsOf(FiringRules(pack, Patterns(content.text)))

ReportedIds == IdsOf(hits)

Evidence == IdsOf(hits) \cup signals \cup ToSet(found.cards)

Judged(draft) ==
    Normalized(ComposeCardText(draft, found.cards, found.must, language), Evidence,
               settings.grounding)

Verdict(draft) == IF hits = {} /\ draft.flags = <<>> THEN "no_signal" ELSE "ok"

\* A provider answered with a draft.
Judge(who, draft) ==
    LET judged == Judged(draft) IN
    /\ tokens' = tokens + 1
    /\ asked' = Append(asked, [who |-> who, how |-> "answer"])
    /\ IF OffTopic(draft)
       THEN /\ Finish(After("off_topic", {}, NoDraft, tokens'))
            /\ UNCHANGED attempt
       ELSE \/ /\ Acceptable(judged, hits, ToSet(found.cards), language)
               /\ Finish(After(Verdict(judged), ReportedIds, judged, tokens'))
               /\ UNCHANGED attempt
            \/ /\ ~Acceptable(judged, hits, ToSet(found.cards), language) /\ attempt = 0
               /\ attempt' = 1 /\ Goto("primary")
            \/ /\ ~Acceptable(judged, hits, ToSet(found.cards), language) /\ attempt = 1
               /\ Finish(After("safety_fallback", ReportedIds, NoDraft, tokens'))
               /\ UNCHANGED attempt
    /\ UNCHANGED <<read, qr, content, pack, analysed>>

PrimaryAnswers  == pc = "primary" /\ \E draft \in Drafts : Judge("primary", draft)
FallbackAnswers == pc = "fallback" /\ \E draft \in Drafts : Judge("fallback", draft)

PrimaryFails ==
    /\ pc = "primary"
    /\ asked' = Append(asked, [who |-> "primary", how |-> "failure"])
    /\ \/ settings.fallback /\ Goto("fallback")
       \/ /\ ~settings.fallback
          /\ \E status \in {"timeout", "llm_error"} : Finish(LlmFailure(status))
    /\ UNCHANGED <<read, qr, content, pack, analysed, attempt, tokens>>

FallbackFails ==
    /\ pc = "fallback"
    /\ asked' = Append(asked, [who |-> "fallback", how |-> "failure"])
    /\ \E status \in {"timeout", "llm_error"} : Finish(LlmFailure(status))
    /\ UNCHANGED <<read, qr, content, pack, analysed, attempt, tokens>>

-----------------------------------------------------------------------------
(* Others *)

\* Any other exception leaves _run_stages; retrieval lets none out.
StageRaises ==
    /\ pc \in Awaiting \ {"router"}
    /\ Goto("raised")
    /\ UNCHANGED <<read, qr, content, pack, analysed, model>>

\* A refresh publishes another pack while the check awaits.
Publish ==
    /\ pc \in Awaiting
    /\ pack' \in Packs \ {pack}
    /\ UNCHANGED <<pc, read, qr, content, analysed, model, result>>

Next ==
    \/ BeginText \/ BeginImage \/ BeginUnsupported
    \/ QrFails \/ QrDecoded \/ StartOcr \/ OcrFails \/ OcrReadsLittle \/ OcrReads
    \/ Shortcut \/ Analyse \/ AnalyseWithoutCards \/ RouterFails \/ RouterAnswers
    \/ Prompt \/ PrimaryAnswers \/ PrimaryFails \/ FallbackAnswers \/ FallbackFails
    \/ StageRaises \/ Publish

Spec == Init /\ [][Next]_vars

-----------------------------------------------------------------------------
(* Properties *)

Steps == {"begin", "engine", "text", "prompt", "done", "raised"} \cup Awaiting

Done(statuses) == pc = "done" /\ result.status \in statuses
Answered == Done({"ok", "no_signal"})
HasAnswered(who) == \E k \in DOMAIN asked : asked[k].who \in who /\ asked[k].how = "answer"

\* pipeline.py:702-705, 354-361: what the rules found outranks the model.  A
\* message that a rule fired on is never redirected as off-topic nor called free
\* of signals, a severe rule is never answered without a warning sign, and the
\* ids recorded are those of the rules that fired, whatever pack was published
\* while the check was awaiting.
FactsOutrankTheModel ==
    /\ Done({"off_topic", "no_signal"}) => hits = {}
    /\ Answered /\ Severe(hits) # {} => result.shown.flags # <<>>
    /\ Done({"ok", "no_signal", "safety_fallback"}) => result.ruleIds = IdsOf(hits)
    /\ Done({"llm_error"}) => result.ruleIds = IdsOf(hits)

Rejected ==
    BannedWords \cup VerdictMarks \cup LeakMarks \cup LureMarks \cup LookupMarks \cup ProofMarks

\* compose.py and validate.py: whoever wrote it, model or card, no sentence is
\* shown that the pattern scans reject or that names a card of the result, that
\* says a payment has arrived without denying it in the same breath, or that is in
\* Cyrillic for a reader of Uzbek; what is shown has something to verify and to
\* ask; and nothing the model wrote is shown with any other status.
ShownIsSafe ==
    /\ Answered =>
        /\ \A b \in Said(result.shown) : \A s \in Sentences[b] :
              /\ s \cap (Rejected \cup ToSet(result.cards)) = {}
              /\ "payment_claim" \in s => "disclaimer" \in s
              /\ language = "uz_latn" => "cyrillic" \notin s
        /\ result.shown.verify # <<>> /\ result.shown.ask # <<>>
    /\ pc = "done" /\ ~Answered => result.shown = NoDraft

\* PIPELINE_V2 section 4: the wording of the first card that a detected fact
\* selected reaches the reader, in the language of what was sent and however much
\* the model wrote.
ReviewedWordingIsShown ==
    LET first == Contributing(found.cards, found.must, language)
        said  == Wording[language][first[1]].flags IN
    Answered /\ first # <<>> =>
        ToSet(Cut(Picked(said, {k \in DOMAIN said : ~IsFiller(said[k])})))
            \subseteq Texts(result.shown.flags)

\* PIPELINE_V2 section 3: with grounding on, each warning shown rests on a rule
\* that fired, a signal or a retrieved card, unless none of them names a source.
FlagsAreGrounded ==
    Answered /\ settings.grounding =>
        \/ Uncited(result.shown.flags)
        \/ \A k \in DOMAIN result.shown.flags : result.shown.flags[k].source \in Evidence

\* retrieve.py: a card is in the prompt because a fact or a cue selects it, or
\* because the router proposed it when none did; and a card that a fact selects
\* is left out only for others that facts select.
CardsAreJustified ==
    LET text == Patterns(content.text)
        must == Mandatory(IdsOf(hits), signals)
        sel  == ToSet(found.cards) IN
    /\ Len(found.cards) <= MaxCards
    /\ sel \subseteq Deterministic(IdsOf(hits), signals, text) \/ HasAnswered({"router"})
    /\ HasAnswered({"router"}) => Deterministic(IdsOf(hits), signals, text) = {}
    /\ sel # {} /\ ~(must \subseteq sel) => sel \subseteq must

\* pipeline.py:644-698: a fallback call follows a failure of the primary one, a
\* second attempt follows a rejected draft and never a failure, and no more than
\* two drafts are paid for.
FailuresAreNotRetried ==
    \A k \in DOMAIN asked :
        /\ asked[k].who = "fallback" =>
              k > 1 /\ asked[k - 1] = [who |-> "primary", how |-> "failure"]
        /\ asked[k].who = "primary" /\ k > 1 =>
              asked[k - 1].who = "router" \/ asked[k - 1].how = "answer"
        /\ Cardinality({j \in 1..k : asked[j].who # "router" /\ asked[j].how = "answer"}) <= 2

\* pipeline.py:700-701: every answer that could be read, the router's and a rejected
\* draft's included, is in the usage that the result reports, however the check
\* ends.  What was paid for an answer that is no draft is in no result.
SpendIsReported ==
    pc = "done" =>
        result.tokens = Cardinality({k \in DOMAIN asked : asked[k].how = "answer"})

\* pipeline.py:303-314: the answer model sees names and links only if no QR code
\* was decoded, whatever became of OCR.
QrStaysStrict == qr.decoded => \A s \in seen : s.as = "token"

\* pipeline.py:473-533: once a QR code was decoded, OCR that is misconfigured,
\* fails or reads nothing neither ends the check nor loses what the code said.
DecodedQrSurvives ==
    qr.decoded =>
        /\ ~Done({"ocr_error", "unsupported_media", "empty_input"})
        /\ Done({"timeout"}) => asked # <<>>
        /\ pc \notin {"engine", "ocr", "raised"} => qr.text \subseteq content.text

\* pipeline.py:69-77: a slot is kept only by a check whose image was read or
\* that a model answered.
BilledOnlyForWork ==
    Done(BillableStatuses) =>
        (input.kind = "image" /\ input.bytes) \/ HasAnswered({"primary", "fallback"})

\* engine.py:78-86: two passes are enough.  Gating every rule on all the rules
\* that fire, gated ones included, admits the same rules.
TwoPassesSuffice ==
    LET text  == Patterns(content.text)
        fires == FiringRules(pack, text) IN
    fires = {r \in pack :
        /\ RuleMatches(r, text)
        /\ r.requires = NoGate \/ RequirementsMet(r.requires, IdsOf(fires),
                                      BaseSignals(Fired(pack, text), text))}

\* engine.py:203-211: the preview of a rule says what production will do once
\* the rule is in the pack.
PreviewAgrees ==
    LET text == Patterns(content.text) IN
    \A r \in UNION Packs :
        PreviewFires(r, pack, text) <=> r \in FiringRules(Replacing(pack, r), text)

\* Two words that are equal, or become so when one letter is replaced or left out.
OneLetterApart(v, w) ==
    \/ v = w
    \/ \E k \in DOMAIN v : RemoveAt(v, k) = w
    \/ \E k \in DOMAIN w : RemoveAt(w, k) = v
    \/ Len(v) = Len(w) /\ \E k \in DOMAIN v : RemoveAt(v, k) = RemoveAt(w, k)

OfficialOf(link, brand) ==
    ~MixedScript(DomainOf(link)) /\ DomainIsAllowed(DomainOf(link), brand)

Imitates(link, brand) ==
    LET labels == {Folded(l) : l \in ToSet(DomainOf(link))} IN
    /\ ~OfficialOf(link, brand)
    /\ \/ \E l \in labels : \E k \in 0..Len(l) : IsPrefix(brand, SubSeq(l, k + 1, Len(l)))
       \/ Len(brand) >= 4 /\ \E l \in labels : \E w \in Words(l) : OneLetterApart(w, brand)

Deceptions == {"link_lookalike", "link_userinfo", "link_ip", "link_shortened"}
Analysed   == pc \in {"router", "prompt", "primary", "fallback"}

\* Nothing about the link deceives.
Harmless(link) ==
    /\ link.front = <<>> /\ DomainOf(link) \notin Literals \cup Shorteners
    /\ ~MixedScript(DomainOf(link)) /\ ~HasNestedSuffix(DomainOf(link))
    /\ \A b \in DOMAIN Brands : ~Imitates(link, b)

\* url.py:1-6: every stage reads a link alike.  Whatever the link came from, a
\* host that carries a brand or is one letter away from it leaves a signal, unless
\* the brand owns it; harmless links alone leave none of deception but what a rule
\* that fired emits; and a label that a model may read in the place of a link is one
\* that the rules have seen.
LinksAreRead ==
    LET text  == Patterns(content.text)
        links == LinksIn(text) IN
    Analysed =>
        /\ \A l \in links, b \in DOMAIN Brands :
              Imitates(l, b) /\ ~TakenForEmail(l) => signals \cap Deceptions # {}
        /\ (\A l \in links : Harmless(l)) => signals \cap Deceptions \subseteq Emitted(hits)
        /\ \A s \in Minimized(text, FALSE) :
              s.what \in {ClassifyLink(l) : l \in links} \ {"none"} => KindOfLabel(s.what) \in signals

\* engine.py:62-63: each label that classify_link gives a submitted link reaches
\* the rules as the signal of its class of deception.  The code does otherwise
\* when the link is blanked out as an e-mail address before it is read.
LabelsReachTheRules ==
    Analysed =>
        \A l \in LinksIn(Patterns(content.text)) :
            ClassifyLink(l) # "none" => KindOfLabel(ClassifyLink(l)) \in signals

-----------------------------------------------------------------------------
(* The promises of a check, each of several of the parts above *)

\* pipeline.py:715-740: what an answer says rests on reviewed cards and on facts:
\* the cards retrieved are justified, the wording of the one that a fact selects
\* is shown, and each warning names one of the facts of this very check.
AnswerIsGrounded == ReviewedWordingIsShown /\ FlagsAreGrounded /\ CardsAreJustified

\* pipeline.py:425-552: what a QR code said is neither lost nor shown in the open,
\* whatever became of OCR.
QrIsHonoured == QrStaysStrict /\ DecodedQrSurvives

\* engine.py:75-131, 203-243: the rules agree with each other in whatever order they
\* are applied, and the operator's preview agrees with them.
RulesAgree == TwoPassesSuffice /\ PreviewAgrees

\* pipeline.py:69-95, 644-701: the model is paid for what is needed, all of it is
\* reported, and the user pays a slot only for work.
SpendIsAccounted == FailuresAreNotRetried /\ SpendIsReported /\ BilledOnlyForWork

=============================================================================
