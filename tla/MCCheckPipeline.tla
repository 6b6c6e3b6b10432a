-------------------------- MODULE MCCheckPipeline ---------------------------
(***************************************************************************)
(* Instances of CheckPipeline for TLC: three rules in two packs, five      *)
(* cards, three of them with reviewed wording, and drafts that differ in   *)
(* what the validator tells apart.                                         *)
(***************************************************************************)
EXTENDS CheckPipeline

\* Letters: some Latin ones, a digit, a mark, and two Cyrillic ones of which one
\* renders like "o".
MCScript == [l \in {"a", "b", "e", "h", "i", "l", "m", "o", "r", "s", "t", "u", "v",
                   "w", "x", "y", "z"} |-> "latin"]
    @@ [l \in {"0", "-"} |-> "none"] @@ [l \in {"Cyr_o", "Cyr_zh"} |-> "cyrillic"]
MCLooksLike == "Cyr_o" :> "o"
Humo == <<"h", "u", "m", "o">>
Olx  == <<"o", "l", "x">>
Uz   == <<"u", "z">>
Evil == <<"e", "v", "i", "l">>
MCWww == <<"w", "w", "w">>
MCBrands == (Humo :> {<<Humo, Uz>>, <<Humo \o <<"a">>, Uz>>}) @@ (Olx :> {<<Olx, Uz>>})
MCShorteners == {<<<<"b", "i", "t">>, <<"l", "y">>>>}
MCNestedSuffixes == {Uz}
MCLiterals == {<<<<"0">>>>}
\* A punycode label, and the imitation in Cyrillic that it stands for.
MCUnpunycoded == <<"x", "-", "-", "0">> :> <<"h", "u", "m", "Cyr_o">>

Link(front, password, host) == [front |-> front, password |-> password, host |-> host]
Plainly(host) == Link(<<>>, FALSE, host)
MCAddressOf ==
    ("link" :> Plainly(<<Evil, Uz>>)) @@
    ("official" :> Plainly(<<MCWww, <<"m", "y">>, Humo, Uz>>)) @@
    ("longer" :> Plainly(<<<<"h", "u", "a", "m", "o">>, Uz>>)) @@
    ("shorter" :> Plainly(<<<<"u", "m", "o">>, Evil>>)) @@
    ("replaced" :> Plainly(<<<<"h", "u", "m", "0">>, Uz>>)) @@
    ("twice" :> Plainly(<<<<"h", "u", "a", "a">>, Uz>>)) @@
    ("carries" :> Plainly(<<<<"a", "-">> \o Olx, Uz>>)) @@
    ("almost" :> Plainly(<<<<"o", "l", "a">>, Uz>>)) @@
    ("punycode" :> Plainly(<<<<"x", "-", "-", "0">>, Uz>>)) @@
    ("mixed" :> Plainly(<<<<"Cyr_zh", "a">>, Uz>>)) @@
    ("nested" :> Plainly(<<<<"b">>, Uz, Evil, Uz>>)) @@
    ("short" :> Plainly(<<<<"b", "i", "t">>, <<"l", "y">>>>)) @@
    ("address" :> Plainly(<<<<"0">>>>)) @@ ("broken" :> Plainly(<<>>)) @@
    ("userip" :> Link(<<Humo, Uz>>, FALSE, <<<<"0">>>>)) @@
    ("username" :> Link(<<Humo, Uz>>, FALSE, <<Evil, Uz>>)) @@
    ("password" :> Link(<<Humo, Uz>>, TRUE, <<Evil, Uz>>))
MCTokenOf == ("card" :> "CARD") @@ ("name" :> "NAME") @@ ("pin" :> "CODE")
LinkPatterns == DOMAIN MCAddressOf

\* One rule with an exclusion and a signal of its own, a gated version of the
\* same rule, a rule gated on another one and on a signal, and a mild rule.
RuleCode == [id |-> "fs.code", match |-> {"code"}, exclude |-> {"known"},
             requires |-> NoGate, severity |-> 2, emits |-> "code_request"]
RuleCodeGated == [RuleCode EXCEPT !.requires =
                    [anyOf |-> {}, allOf |-> {}, signals |-> {"code_request"}]]
RuleUrgent == [id |-> "fs.urgent", match |-> {"urgent"}, exclude |-> {},
               requires |-> [anyOf |-> {"fs.parcel", "fs.code"}, allOf |-> {"fs.parcel"},
                             signals |-> {"link"}],
               severity |-> 2, emits |-> NoSignal]
RuleParcel == [id |-> "fs.parcel", match |-> {"parcel"}, exclude |-> {},
               requires |-> NoGate, severity |-> 1, emits |-> "link"]

MCPacks == {{RuleCode, RuleUrgent, RuleParcel},
            {RuleCodeGated, RuleParcel, [RuleUrgent EXCEPT !.requires.anyOf = {}]}}

MCPatternsIn ==
    ("otp" :> {"code", "urgent"}) @@ ("parcel" :> {"parcel", "urgent"}) @@
    ("bank" :> {"known", "name", "pin"}) @@ ("url" :> {"link"}) @@
    ("transfer" :> {"card", "send"}) @@ [p \in LinkPatterns |-> {p}] @@
    [f \in {"hello", "weather", "paycode", "mark", "long"} |-> {}]
MCFragments == DOMAIN MCPatternsIn
MCLength == [f \in MCFragments |->
    CASE f = "long" -> 101 [] f \in {"otp", "parcel", "url"} -> 40 [] OTHER -> 10]

\* Words of either script; an address is made of Latin ones.
MCCyrillicWords == [f \in MCFragments |->
    CASE f = "transfer" -> 4 [] f = "parcel" -> 2 [] OTHER -> 0]
MCLatinWords == [f \in MCFragments |->
    CASE f \in {"transfer", "parcel"} -> 0 [] f \in {"otp", "weather"} -> 2 [] OTHER -> 3]

Sent(kind, text, bytes) ==
    [kind |-> kind, text |-> text, bytes |-> bytes,
     language |-> IF text \cap {"otp", "weather"} = {} THEN "ru" ELSE "uz_latn"]
MCInputs == {Sent("text", t, FALSE) : t \in
                {{}, {"hello"}, {"weather"}, {"otp"}, {"otp", "bank"}, {"otp", "parcel"}, {"transfer"}}
                \cup {{p} : p \in LinkPatterns}
                \cup {{"official", "transfer", p} : p \in {"longer", "bank"}}}
    \cup {Sent("image", {}, TRUE), Sent("image", {"otp"}, TRUE),
          Sent("image", {}, FALSE), Sent("other", {}, FALSE)}

MCSettings == [ocr : BOOLEAN, router : BOOLEAN, fallback : BOOLEAN, grounding : BOOLEAN]

MCOcrTexts == {{"otp"}, {"parcel"}, {"hello"}, {"weather"}}

Card(id, rules, kinds, cues) == [id |-> id, rules |-> rules, kinds |-> kinds, cues |-> cues]
MCCards == {Card("c1", {"fs.code"}, {}, {}), Card("c2", {}, {"link"}, {}),
            Card("c3", {}, {}, {"urgent"}), Card("c4", {}, {}, {"urgent", "parcel"}),
            Card("c5", {}, {"payment_qr"}, {})}
CardOrder == <<"c1", "c2", "c3", "c4", "c5">>
MCPrecedes(i, j) == \E m, n \in DOMAIN CardOrder : CardOrder[m] = i /\ CardOrder[n] = j /\ m < n
\* The wording of c5 is one that the validator rejects.
Worded(flags, verify, ask) == [flags |-> flags, verify |-> verify, ask |-> ask]
MCWording ==
    ("ru" :> (("c1" :> Worded(<<"r1", "filler">>, <<"v1">>, <<>>)) @@
              ("c2" :> Worded(<<"r2", "w1", "r3">>, <<>>, <<"a2">>)) @@
              ("c5" :> Worded(<<"leak">>, <<>>, <<>>)))) @@
    ("uz_latn" :> (("c1" :> Worded(<<"u1">>, <<"v1">>, <<>>)) @@
                   ("c5" :> Worded(<<"leak">>, <<>>, <<>>))))

\* What the scans find in each bullet, sentence by sentence.
MCSentences ==
    ("leak" :> {{}, {"phone"}}) @@ ("named" :> {{"c2"}}) @@ ("cyr" :> {{"cyrillic"}}) @@
    ("denied" :> {{"payment_claim", "disclaimer"}, {}}) @@
    ("paid" :> {{"payment_claim"}, {"disclaimer"}}) @@
    [b \in {"", "filler", "a", "a2", "p", "r1", "r2", "r3", "u1", "v", "v1",
            "w1", "w2", "w3", "w4"} |-> {{}}]
MCProposals == {<<>>, <<"c9", "c4", "c4", "c3", "c2">>}

Flag(text, source) == [text |-> text, source |-> source]
Draft(flags, pattern, verify, addressed) ==
    [offTopic |-> FALSE, flags |-> flags, pattern |-> pattern, verify |-> verify,
     ask |-> <<"a">>, addressed |-> addressed]
Severest == {"fs.code", "fs.urgent"}
MCDrafts ==
    {[Draft(<<>>, "", <<"v">>, {}) EXCEPT !.offTopic = TRUE],
     Draft(<<>>, "", <<"v">>, {}),
     Draft(<<>>, "", <<"v">>, {"fs.code"}),
     Draft(<<Flag("w1", "fs.code")>>, "p", <<"v">>, {"fs.code"}),
     Draft(<<Flag("w1", ""), Flag("w2", "")>>, "", <<"v">>, {"fs.code"}),
     Draft(<<Flag("w1", "fs.code"), Flag("w2", "bogus"), Flag("w3", "")>>, "", <<"v">>, {"fs.code"}),
     Draft(<<Flag("w1", "fs.code"), Flag("w2", "c1"), Flag("w3", "link"), Flag("w4", "fs.urgent")>>,
           "p", <<"v">>, Severest),
     Draft(<<Flag("filler", "fs.code")>>, "", <<"filler">>, {"fs.code"}),
     Draft(<<Flag("w1", "fs.code")>>, "leak", <<"v">>, {"fs.code"}),
     Draft(<<Flag("w1", "fs.code")>>, "paid", <<"v">>, {"fs.code"}),
     Draft(<<Flag("denied", "fs.code"), Flag("named", "fs.code")>>, "", <<"v">>, {"fs.code"}),
     Draft(<<>>, "cyr", <<"v">>, {}),
     Draft(<<Flag("leak", "bogus"), Flag("w1", "fs.urgent")>>, "", <<>>, {"fs.urgent"})}

=============================================================================
