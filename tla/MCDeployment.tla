---------------------------- MODULE MCDeployment ----------------------------
(***************************************************************************)
(* Three releases: with the tables of the start, after the migrations that *)
(* touch rows, and of today, after tables were created and dropped.  One   *)
(* user, seen under two faces before DropFace, and one address.            *)
(***************************************************************************)
EXTENDS Deployment, TLC

CONSTANTS alice, office

ThreeReleases == {1, 8, Head}

TextOrder == ("family" :> 1) @@ ("merchant" :> 2) @@ ("web_ip:family" :> 3)
AddressFaces == {"web_ip:family"}

Accepted(face, when) == [user |-> alice, label |-> face, ts |-> when]
Counted(user, label) == [user |-> user, label |-> label]

OldConsents ==
    {{Accepted("family", 2), Accepted("merchant", 1)}, {Accepted("family", 1), Accepted("merchant", 1)}}
OldCounters ==
    {Counted(alice, "family"), Counted(alice, "merchant"), Counted(office, "web_ip:family")}
NewCounters == {Counted(alice, "user"), Counted(office, "web_ip")}

UsedRows ==
    [consents : OldConsents, counters : {OldCounters}, unanswered : {FALSE}]
    \cup [consents : {{Accepted("none", 1)}}, counters : {NewCounters}, unanswered : {TRUE}]
=============================================================================
