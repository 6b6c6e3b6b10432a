---------------------------- MODULE AnswerSafety ----------------------------
(***************************************************************************)
(* What happens to a model's draft before a user may read it: reviewed     *)
(* card wording is merged in (app/engine/knowledge/compose.py), then the   *)
(* whole is filtered, cut and judged (app/engine/validate.py).             *)
(*                                                                         *)
(* A draft is a record with fields offTopic, flags, pattern, verify, ask   *)
(* and addressed.  A flag is a bullet and the id of the fact it rests on,  *)
(* "" for none.  A bullet is a set of sentences, and a sentence is the set *)
(* of what the pattern scans of the validator find in it, which are some   *)
(* eighty regular expressions: one mark stands for those of one reason.    *)
(***************************************************************************)
EXTENDS Selections, SequencesExt

CONSTANTS
    Filler,     \* bullets that are a stock safety phrase and nothing else
    Sentences,  \* the sentences of each bullet
    Wording     \* the reviewed wording of the cards that have one, by language and card id

\* A card's wording is three lists of bullets.
Bullets == DOMAIN Sentences
ASSUME WordingAssumption ==
    \A l \in DOMAIN Wording : \A i \in DOMAIN Wording[l] :
        Wording[l][i] \in [flags : Seq(Bullets), verify : Seq(Bullets), ask : Seq(Bullets)]

MaxBullets == 3
RedFlagMinSeverity == 2

Texts(flags) == {flags[k].text : k \in DOMAIN flags}

\* compose_card_text: the mandatory cards' wording, then what the draft adds.
Contributing(cards, must, language) ==
    Picked(cards, {k \in DOMAIN cards : cards[k] \in must \cap DOMAIN Wording[language]})

Gathered(cards, lists) == FlattenSeq([k \in DOMAIN cards |-> lists[cards[k]]])

CardFlags(w) == [i \in DOMAIN w |->
    [k \in DOMAIN w[i].flags |-> [text |-> w[i].flags[k], source |-> i]]]
CardVerify(w) == [i \in DOMAIN w |-> w[i].verify]
CardAsk(w)    == [i \in DOMAIN w |-> w[i].ask]

MergeEvidence(composed, own) ==
    composed \o Picked(own, {k \in DOMAIN own : own[k].text \notin Texts(composed)})
Merge(composed, own) ==
    composed \o Picked(own, {k \in DOMAIN own : own[k] \notin ToSet(composed)})

ComposeCardText(draft, cards, must, language) ==
    LET from == Contributing(cards, must, language)
        w    == Wording[language]
    IN  [draft EXCEPT !.flags  = MergeEvidence(Gathered(from, CardFlags(w)), @),
                      !.verify = Merge(Gathered(from, CardVerify(w)), @),
                      !.ask    = Merge(Gathered(from, CardAsk(w)), @)]

\* The compatibility floor: not one flag names a source.
Uncited(flags) == \A k \in DOMAIN flags : flags[k].source = ""

PartitionRedFlags(flags, evidence) ==
    IF Uncited(flags) THEN flags
    ELSE Picked(flags, {k \in DOMAIN flags : flags[k].source \in evidence})

IsFiller(b) == b \in Filler

FilteredOrLast(bullets) ==
    LET kept == Picked(bullets, {k \in DOMAIN bullets : ~IsFiller(bullets[k])})
    IN  IF kept = <<>> /\ bullets # <<>> THEN <<bullets[1]>> ELSE kept

Cut(s) == SubSeq(s, 1, IF Len(s) > MaxBullets THEN MaxBullets ELSE Len(s))

\* _drop_filler on warning signs, which may be left without any.
WithoutFiller(flags) == Picked(flags, {k \in DOMAIN flags : ~IsFiller(flags[k].text)})

Normalized(draft, evidence, grounding) ==
    LET kept == IF grounding THEN PartitionRedFlags(draft.flags, evidence) ELSE draft.flags
    IN  [draft EXCEPT !.flags  = Cut(WithoutFiller(kept)),
                      !.verify = Cut(FilteredOrLast(@)),
                      !.ask    = Cut(FilteredOrLast(@))]

Said(draft) ==
    Texts(draft.flags) \cup {draft.pattern} \cup ToSet(draft.verify) \cup ToSet(draft.ask)

-----------------------------------------------------------------------------
(* What the validator rejects *)

\* A verdict in one word, of either language, either script, or English.
BannedWords == {"banned_word"}

\* A verdict in several words, and a score.
VerdictMarks == {"direct_verdict", "risk_score"}

\* Something that identifies: e-mail or link, phone, card, passport, code or password.
LeakMarks == {"contact", "phone", "card_number", "passport", "secret"}

\* An instruction to use the channel that is in doubt.
LureMarks == {"unsafe_path"}

\* A search or an enquiry that nobody has made.
LookupMarks == {"lookup"}

\* A reviewed case as a proof; the id of a family of cards; a list of bad sites.
ProofMarks == {"case_proof", "internal_id", "blocklist"}

\* One disclaimer anywhere in the answer covers every claim.
MutantClaimsPaymentConfirmed(sentences) ==
    /\ \E s \in sentences : "payment_claim" \in s
    /\ \A s \in sentences : "disclaimer" \notin s

\* A payment is said to have arrived, and not denied in the same sentence.
Confirms(s) == "payment_claim" \in s /\ "disclaimer" \notin s

ClaimsPaymentConfirmed(sentences) == \E s \in sentences : Confirms(s)

UsesWrongScript(sentences, language) ==
    language = "uz_latn" /\ \E s \in sentences : "cyrillic" \in s

SentencesOf(draft) == UNION {Sentences[b] : b \in Said(draft)}

Marks(draft) == UNION SentencesOf(draft)

\* Hits are the rules that fired.
Severe(hits) == {h \in hits : h.severity >= RedFlagMinSeverity}

\* The reasons of _first_rejection_reason, of which the code names the first; ids
\* are those of the cards that were retrieved.
Acceptable(draft, hits, ids, language) ==
    /\ Marks(draft) \cap (BannedWords \cup VerdictMarks \cup LeakMarks \cup LureMarks) = {}
    /\ Marks(draft) \cap (ProofMarks \cup LookupMarks \cup ids) = {}
    /\ ~ClaimsPaymentConfirmed(SentencesOf(draft))
    /\ ~UsesWrongScript(SentencesOf(draft), language)
    /\ draft.verify # <<>> /\ draft.ask # <<>>
    /\ Severe(hits) # {} => draft.flags # <<>>
    /\ draft.addressed \subseteq {h.id : h \in hits}
    /\ {h.id : h \in Severe(hits)} \subseteq draft.addressed

=============================================================================
