------------------------------- MODULE Links --------------------------------
(***************************************************************************)
(* The shape of a link, read without opening it (app/engine/url.py), and   *)
(* what becomes of links and other identifiers on their way to the rules   *)
(* (extract_structural_signals) and to a model (app/engine/minimize.py).   *)
(*                                                                         *)
(* A link is a record: front, the labels of what is written before an "@"  *)
(* (<<>> for nothing); password, whether a ":" and more follow them; host, *)
(* the labels of its host (<<>> if no parser accepts it).  A label is a    *)
(* sequence of letters, after NFKC and case folding, and defanged or       *)
(* escaped spellings and punctuation at the end are read as what they      *)
(* stand for.                                                              *)
(***************************************************************************)
EXTENDS Integers, Sequences, FiniteSets, SequencesExt

CONSTANTS
    Script,         \* the writing system of each letter, "none" for digits and marks
    LooksLike,      \* the Latin letter that a confusable letter renders like
    Unpunycoded,    \* what each punycode label stands for
    Brands,         \* the official domains of each brand; a brand is a word
    Shorteners,     \* domains
    NestedSuffixes, \* labels
    Literals,       \* the hosts that are IP addresses
    Www,            \* the label
    AddressOf,      \* the links among the patterns
    TokenOf,        \* the token of each pattern that is another identifier
    TransferPhrases \* the patterns that ask for a transfer to a card

\* The letters that words are made of, labels and brands alike.
Alphabet == DOMAIN Script
Named    == Seq(Seq(Alphabet))
ASSUME SpellingAssumption ==
    /\ DOMAIN Brands \subseteq Seq(Alphabet)
    /\ \A c \in DOMAIN LooksLike : LooksLike[c] \in Alphabet
    /\ \A l \in DOMAIN Unpunycoded : Unpunycoded[l] \in Seq(Alphabet)
    /\ \A p \in DOMAIN AddressOf :
          AddressOf[p] \in [front : Named, password : BOOLEAN, host : Named]

Letters(domain) == UNION {ToSet(domain[k]) : k \in DOMAIN domain}
Ascii(domain)   == \A c \in Letters(domain) : Script[c] \in {"latin", "none"}
Scripts(domain) == {Script[c] : c \in Letters(domain)} \ {"none"}
MixedScript(domain) == Cardinality(Scripts(domain)) > 1

WithoutWww(host) == IF Len(host) > 1 /\ host[1] = Www THEN Tail(host) ELSE host

Decode(label) == IF label \in DOMAIN Unpunycoded THEN Unpunycoded[label] ELSE label

\* describe_link: a host with a letter beyond ASCII is taken as it is written.
DomainOf(link) ==
    LET named == WithoutWww(link.host)
    IN  IF Ascii(named) THEN [k \in DOMAIN named |-> Decode(named[k])] ELSE named

Fold(c) == IF c \in DOMAIN LooksLike THEN LooksLike[c] ELSE c
Folded(label) == [k \in DOMAIN label |-> Fold(label[k])]

\* The longest runs of Latin letters and digits in a label.
Words(label) ==
    LET plain == {k \in DOMAIN label : label[k] # "-" /\ Script[label[k]] \in {"latin", "none"}}
    IN  {SubSeq(label, p[1], p[2]) : p \in {q \in plain \X plain :
            /\ q[1] <= q[2] /\ q[1]..q[2] \subseteq plain
            /\ q[1] - 1 \notin plain /\ q[2] + 1 \notin plain}}

\* Words are compared place by place, so that only a replaced letter is found.
MutantLevenshteinAtMostOne(left, right) ==
    /\ Len(left) - Len(right) \in -1..1
    /\ Cardinality({k \in DOMAIN left \cap DOMAIN right : left[k] # right[k]}) <= 1

\* The loop with a cursor in each word, and the edits counted when it ends; past the
\* end of one word, nothing more counts.
LevenshteinAtMostOne(left, right) ==
    LET Cursors == [i : 1..(Len(left) + 1), j : 1..(Len(right) + 1), edits : 0..1]
        scan[c \in Cursors] ==
            IF c.i > Len(left) \/ c.j > Len(right) THEN c.edits
            ELSE IF left[c.i] = right[c.j]
            THEN scan[[i |-> c.i + 1, j |-> c.j + 1, edits |-> c.edits]]
            ELSE IF c.edits = 1 THEN 2
            ELSE scan[[i |-> IF Len(left) >= Len(right) THEN c.i + 1 ELSE c.i,
                       j |-> IF Len(right) >= Len(left) THEN c.j + 1 ELSE c.j,
                       edits |-> 1]]
    IN  /\ Len(left) - Len(right) \in -1..1
        /\ scan[[i |-> 1, j |-> 1, edits |-> 0]] <= 1

LooksLikeBrand(word, brand) == Len(brand) >= 4 /\ LevenshteinAtMostOne(word, brand)

\* The domain of the brand or one below it.
DomainIsAllowed(domain, brand) == \E d \in Brands[brand] : IsSuffix(d, domain)

Occurs(word, label) ==
    \E k \in 0..(Len(label) - Len(word)) : SubSeq(label, k + 1, k + Len(word)) = word

\* The allowlist is asked about the host as it is, the brand about its folded form.
Lookalike(domain, brand) ==
    /\ MixedScript(domain) \/ ~DomainIsAllowed(domain, brand)
    /\ \E k \in DOMAIN domain :
        LET label == Folded(domain[k])
        IN  Occurs(brand, label) \/ \E w \in Words(label) : LooksLikeBrand(w, brand)

\* A public suffix left of the registrable name.
HasNestedSuffix(domain) == \E k \in 1..(Len(domain) - 2) : domain[k] \in NestedSuffixes

\* The first label that applies, the most deceptive first.
ClassifyLink(link) ==
    LET domain == DomainOf(link)
    IN  IF domain = <<>> THEN "none"
        ELSE IF link.front # <<>> THEN "credentials-in-url"
        ELSE IF domain \in Literals THEN "ip-address"
        ELSE IF domain \in Shorteners THEN "shortened"
        ELSE IF \E b \in DOMAIN Brands : Lookalike(domain, b) THEN "lookalike-domain"
        ELSE IF HasNestedSuffix(domain) THEN "domain-in-subdomain"
        ELSE IF MixedScript(domain) THEN "mixed-script-domain"
        ELSE "none"

-----------------------------------------------------------------------------
(* What the rules read *)

\* "name@host.tld" inside a link has the shape of an e-mail address.
TakenForEmail(link) ==
    /\ link.front # <<>> /\ Len(link.host) > 1 /\ link.host \notin Literals
    /\ Ascii(link.host)
    /\ Cardinality(DOMAIN Last(link.host)) > 1

\* What is left of it once addresses are blanked out: "https://name:", if the
\* address began at a password, or nothing that is a link.
Rest(link) ==
    IF ~TakenForEmail(link) THEN {link}
    ELSE IF link.password THEN {[front |-> <<>>, password |-> FALSE, host |-> link.front]}
    ELSE {}

KindOfLabel(label) ==
    CASE label = "none"               -> "link"
      [] label = "shortened"          -> "link_shortened"
      [] label = "credentials-in-url" -> "link_userinfo"
      [] label = "ip-address"         -> "link_ip"
      [] OTHER                        -> "link_lookalike"

LinksIn(text) == {AddressOf[p] : p \in text \cap DOMAIN AddressOf}

KindOfToken == [EMAIL |-> "email", HANDLE |-> "handle", PHONE |-> "phone",
                CODE |-> "code", CARD |-> "card"]
\* None of them is the label of a link.
ASSUME TokensAssumption ==
    \A p \in DOMAIN TokenOf :
        TokenOf[p] \in DOMAIN KindOfToken \cup {"NAME", "PASSPORT", "ADDRESS"}
TokensIn(text) == {TokenOf[p] : p \in text \cap DOMAIN TokenOf}

Structural(text) ==
    {KindOfLabel(ClassifyLink(l)) : l \in UNION {Rest(l) : l \in LinksIn(text)}}
    \cup {KindOfToken[t] : t \in TokensIn(text) \cap DOMAIN KindOfToken}
    \cup {"email" : l \in {k \in LinksIn(text) : TakenForEmail(k)}}
    \cup {"card_personal" : p \in {q \in text \cap TransferPhrases : "CARD" \in TokensIn(text)}}

-----------------------------------------------------------------------------
(* What a model reads *)

Written(p)  == [as |-> "written", what |-> p]
Token(t)    == [as |-> "token", what |-> t]
\* The address is replaced before the link is read, and hides its host.
LinkLabel(link) == IF TakenForEmail(link) THEN "none" ELSE ClassifyLink(link)

\* minimize: names and links as they are written, or a token for everything.
Minimized(text, preserve) ==
    {IF preserve THEN Written(p) ELSE Token(LinkLabel(AddressOf[p])) :
        p \in text \cap DOMAIN AddressOf}
    \cup {IF preserve /\ TokenOf[p] = "NAME" THEN Written(p) ELSE Token(TokenOf[p]) :
        p \in text \cap DOMAIN TokenOf}

=============================================================================
