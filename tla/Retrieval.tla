----------------------------- MODULE Retrieval ------------------------------
(***************************************************************************)
(* Selection of reviewed knowledge cards (app/engine/knowledge/retrieve.py)*)
(* for a text, the rules that fired and the signals it carries.  A card is *)
(* a record with fields id, rules, kinds and cues (sets of rule ids, of    *)
(* signal kinds and of patterns).                                          *)
(***************************************************************************)
EXTENDS Selections, SequencesExt

CONSTANTS
    Cards,          \* the approved cards of the knowledge base
    Precedes(_, _)  \* the order of card ids

MaxCards == 3

CardIds == {c.id : c \in Cards}

ASSUME CardsAssumption == IsFiniteSet(Cards) /\ \A c \in Cards : IsFiniteSet(c.cues)
ASSUME PrecedesAssumption ==
    /\ \A i, j \in CardIds : i = j \/ Precedes(i, j) \/ Precedes(j, i)
    /\ \A i, j \in CardIds : Precedes(i, j) => ~Precedes(j, i)
    /\ \A i, j, k \in CardIds : Precedes(i, j) /\ Precedes(j, k) => Precedes(i, k)

CardOf(i) == CHOOSE c \in Cards : c.id = i

\* The cards that a detected fact selects, and those an alias cue suggests.
Mandatory(ruleIds, kinds) ==
    {c.id : c \in {d \in Cards : d.rules \cap ruleIds # {} \/ d.kinds \cap kinds # {}}}
CueScore(i, text) == Cardinality(CardOf(i).cues \cap text)
Suggested(text) == {i \in CardIds : CueScore(i, text) > 0}

Deterministic(ruleIds, kinds, text) == Mandatory(ruleIds, kinds) \cup Suggested(text)

FirstOf(s) == SubSeq(s, 1, IF Len(s) > MaxCards THEN MaxCards ELSE Len(s))

\* The cue score alone ranks the cards.
MutantRanksBefore(i, j, must, text) ==
    \/ CueScore(i, text) > CueScore(j, text)
    \/ CueScore(i, text) = CueScore(j, text) /\ Precedes(i, j)

\* Mandatory cards before the others, then by score, then by id.
RanksBefore(i, j, must, text) ==
    \/ i \in must /\ j \notin must
    \/ /\ i \in must <=> j \in must
       /\ \/ CueScore(i, text) > CueScore(j, text)
          \/ CueScore(i, text) = CueScore(j, text) /\ Precedes(i, j)

\* At place n stands the id that n - 1 others rank before.
Ranked(must, text, ids) ==
    [n \in 1..Cardinality(ids) |->
        CHOOSE i \in ids : Cardinality({j \in ids : RanksBefore(j, i, must, text)}) = n - 1]

Retrieved(ruleIds, kinds, text) ==
    LET must == Mandatory(ruleIds, kinds)
        sel  == FirstOf(Ranked(must, text, Deterministic(ruleIds, kinds, text)))
    IN  [cards |-> sel, must |-> must \cap ToSet(sel)]

IsFirstAt(s, k) == \A j \in 1..(k - 1) : s[j] # s[k]
Distinct(s) == Picked(s, {k \in DOMAIN s : IsFirstAt(s, k)})
Known(s)    == Picked(s, {k \in DOMAIN s : s[k] \in CardIds})

\* What the router returns of the ids that its model names, and what retrieval
\* takes of that: an unknown id is dropped only after the router's cut.
Route(named)      == FirstOf(Distinct(named))
Allowed(proposed) == FirstOf(Known(Distinct(proposed)))

Routed(named) == [cards |-> Allowed(Route(named)), must |-> {}]

NothingRetrieved == [cards |-> <<>>, must |-> {}]

=============================================================================
