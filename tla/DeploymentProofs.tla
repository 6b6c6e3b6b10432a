--------------------------- MODULE DeploymentProofs --------------------------
(***************************************************************************)
(* Theorems of Deployment, for any releases and any rows: what rows say of *)
(* their users survives every migration, failure, restore and downgrade;   *)
(* the app serves only databases that have the tables it knows; and every  *)
(* migration can be undone.  The fourteen schemas are written out, and each*)
(* migration is shown to lead from one to the next and back.               *)
(***************************************************************************)
EXTENDS Deployment, FiniteSetTheorems, WellFoundedInduction, TLAPS

-----------------------------------------------------------------------------
(* The newest of finitely many *)

\* Some natural number of a set is its least.
LEMMA Least ==
    ASSUME NEW T \in SUBSET Nat, T # {}
    PROVE  \E n \in T : \A m \in T : n <= m
<1>1. PICK R : R = OpToRel(<, Nat)
  BY Zenon
<1>2. R = {p \in Nat \X Nat : p[1] < p[2]}
  BY <1>1 DEF OpToRel
<1>3. IsWellFoundedOn(R, Nat)
  BY <1>1, NatLessThanWellFounded, Zenon
<1>4. \A x, y \in Nat : x < y => <<x, y>> \in R
  BY <1>2
<1>5. PICK n \in T : \A m \in T : ~(<<m, n>> \in R)
  BY <1>3, WFMin
<1>6. ASSUME NEW m \in T PROVE n <= m
  <2>1. m \in Nat /\ n \in Nat /\ ~(<<m, n>> \in R)
    BY <1>5
  <2>2. ~(m < n)
    BY <1>4, <2>1
  <2> QED
    BY <2>1, <2>2
<1> QED
  BY <1>6

\* In a finite set, an irreflexive transitive relation has a last element: one that
\* the fewest others come after.
LEMMA LastOfMany ==
    ASSUME NEW S, IsFiniteSet(S), S # {}, NEW R,
           \A x \in S : <<x, x>> \notin R,
           \A x, y, z \in S : <<x, y>> \in R /\ <<y, z>> \in R => <<x, z>> \in R
    PROVE  \E x \in S : \A y \in S : <<x, y>> \notin R
<1>1. PICK after : after = [x \in S |-> {y \in S : <<x, y>> \in R}]
  OBVIOUS
<1>2. \A x, y \in S : y \in after[x] <=> <<x, y>> \in R
  BY <1>1
<1>3. \A x \in S : after[x] \in SUBSET S
  BY <1>1
<1>4. \A x \in S : IsFiniteSet(after[x]) /\ Cardinality(after[x]) \in Nat
  BY <1>3, FS_Subset, FS_CardinalityType
<1>5. PICK sizes : sizes = {n \in Nat : \E x \in S : n = Cardinality(after[x])}
  OBVIOUS
<1>6. sizes \in SUBSET Nat /\ sizes # {}
  BY <1>4, <1>5
<1>7. PICK n \in sizes : \A m \in sizes : n <= m
  BY <1>6, Least
<1>8. PICK x \in S : n = Cardinality(after[x])
  BY <1>5
<1>9. ASSUME NEW y \in S, <<x, y>> \in R PROVE FALSE
  <2>1. after[y] \in SUBSET (after[x] \ {y})
    BY <1>2, <1>3, <1>9
  <2>2. y \in after[x]
    BY <1>2, <1>9
  <2>3. Cardinality(after[x]) <= Cardinality(after[y])
    BY <1>4, <1>5, <1>7, <1>8
  <2>4. /\ IsFiniteSet(after[x] \ {y})
        /\ Cardinality(after[x] \ {y}) = Cardinality(after[x]) - 1
    BY <1>4, <2>2, FS_RemoveElement
  <2>5. Cardinality(after[y]) <= Cardinality(after[x] \ {y})
    BY <2>1, <2>4, FS_Subset
  <2>6. Cardinality(after[y]) \in Nat /\ Cardinality(after[x]) \in Nat
    BY <1>4
  <2> QED
    BY <2>3, <2>4, <2>5, <2>6
<1> QED
  BY <1>9

LEMMA FiniteImage ==
    ASSUME NEW S, IsFiniteSet(S), NEW f, NEW T, f \in [S -> T], \A t \in T : \E x \in S : f[x] = t
    PROVE  IsFiniteSet(T)
<1>1. f \in Surjection(S, T)
  BY DEF Surjection
<1> QED
  BY <1>1, FS_Surjection

-----------------------------------------------------------------------------
(* The rows of migration 0007 *)

\* The two parts of Meaning.
Accepted(consents) ==
    {[user |-> a.user, ts |-> a.ts] :
        a \in {c \in consents : \A b \in consents : b.user = c.user => b.ts <= c.ts}}
Counted(counters) ==
    {[user |-> c.user, ip |-> c.label \in IpFaces \cup {"web_ip"}] : c \in counters}

LEMMA MeaningOf == ASSUME NEW rows
                   PROVE  Meaning(rows) = [accepted |-> Accepted(rows.consents),
                                           counted |-> Counted(rows.counters)]
BY DEF Meaning, Accepted, Counted

LEMMA RelabelledConsent ==
    ASSUME NEW a, IsConsent(a), NEW label \in Labels, NEW b, b = [a EXCEPT !.label = label]
    PROVE  /\ b.user = a.user /\ b.ts = a.ts /\ b.label = label
           /\ IsConsent(b)
BY DEF IsConsent

\* Rows that agree in the columns of a key are one if the key holds.
KeyHolds(rows) == \A a, b \in rows : a.user = b.user /\ a.label = b.label => a = b

\* Users that say the same, with the same newest acceptance each, are accepted alike.
LEMMA AcceptedAlike ==
    ASSUME NEW C, \A c \in C : IsConsent(c), NEW D, \A d \in D : IsConsent(d),
           \A c \in C : \E d \in D : d.user = c.user /\ c.ts <= d.ts,
           \A d \in D : \E c \in C : c.user = d.user /\ c.ts = d.ts
    PROVE  Accepted(C) = Accepted(D)
<1> USE DEF IsConsent
<1>1. ASSUME NEW x \in Accepted(C) PROVE x \in Accepted(D)
  <2>1. PICK c \in C : /\ x = [user |-> c.user, ts |-> c.ts]
                       /\ \A b \in C : b.user = c.user => b.ts <= c.ts
    BY <1>1 DEF Accepted
  <2>2. PICK d \in D : d.user = c.user /\ c.ts <= d.ts
    OBVIOUS
  <2>3. ASSUME NEW e \in D, e.user = c.user PROVE e.ts <= c.ts
    BY <2>1, <2>3
  <2>4. d.ts = c.ts
    BY <2>2, <2>3
  <2> QED
    BY <2>1, <2>2, <2>3, <2>4 DEF Accepted
<1>2. ASSUME NEW x \in Accepted(D) PROVE x \in Accepted(C)
  <2>1. PICK d \in D : /\ x = [user |-> d.user, ts |-> d.ts]
                       /\ \A b \in D : b.user = d.user => b.ts <= d.ts
    BY <1>2 DEF Accepted
  <2>2. PICK c \in C : c.user = d.user /\ c.ts = d.ts
    OBVIOUS
  <2>3. ASSUME NEW b \in C, b.user = c.user PROVE b.ts <= c.ts
    <3>1. PICK e \in D : e.user = b.user /\ b.ts <= e.ts
      OBVIOUS
    <3>2. e.ts <= d.ts
      BY <2>1, <2>2, <2>3, <3>1
    <3> QED
      BY <2>2, <3>1, <3>2
  <2> QED
    BY <2>1, <2>2, <2>3 DEF Accepted
<1> QED
  BY <1>1, <1>2

\* Migration 0007 keeps one acceptance of each user, and it is the newest.
LEMMA ConsentsCollapse ==
    ASSUME NEW C, IsFiniteSet(C), \A c \in C : IsConsent(c) /\ c.label \in DOMAIN FaceOrder
    PROVE  /\ IsFiniteSet(CollapsedConsents(C))
           /\ \A b \in CollapsedConsents(C) : IsConsent(b) /\ b.label = "none"
           /\ Accepted(CollapsedConsents(C)) = Accepted(C)
           /\ KeyHolds(C) => KeyHolds(CollapsedConsents(C))
<1>1. PICK last : last = {c \in C : ~ \E b \in C : b.user = c.user /\ IsNewer(b, c)}
  OBVIOUS
<1>2. PICK D : D = CollapsedConsents(C)
  OBVIOUS
<1>3. D = {[a EXCEPT !.label = "none"] : a \in last}
  BY <1>1, <1>2 DEF CollapsedConsents
<1>4. last \in SUBSET C /\ "none" \in Labels
  BY <1>1 DEF Labels
<1>5. ASSUME NEW b \in D
      PROVE  /\ IsConsent(b) /\ b.label = "none"
             /\ \E a \in last : b.user = a.user /\ b.ts = a.ts /\ b = [a EXCEPT !.label = "none"]
  <2>1. PICK a \in last : b = [a EXCEPT !.label = "none"]
    BY <1>3
  <2>2. IsConsent(a) /\ "none" \in Labels
    BY <1>4
  <2>3. b.user = a.user /\ b.ts = a.ts /\ b.label = "none" /\ IsConsent(b)
    BY <2>1, <2>2 DEF IsConsent
  <2> QED
    BY <2>1, <2>3
<1>6. IsFiniteSet(D)
  <2>1. IsFiniteSet(last)
    BY <1>4, FS_Subset
  <2>2. PICK f : f = [a \in last |-> [a EXCEPT !.label = "none"]]
    OBVIOUS
  <2>3. f \in [last -> D] /\ \A b \in D : \E a \in last : f[a] = b
    BY <1>3, <2>2
  <2> QED
    BY <2>1, <2>3, FiniteImage
<1>7. ASSUME NEW c \in C PROVE \E d \in D : d.user = c.user /\ c.ts <= d.ts
  <2>1. PICK own : own = {b \in C : b.user = c.user}
    OBVIOUS
  <2>2. PICK R : R = {p \in own \X own : IsNewer(p[2], p[1])}
    OBVIOUS
  <2>3. \A x, y \in own : <<x, y>> \in R <=> IsNewer(y, x)
    BY <2>2
  <2>4. \A x \in own : x.ts \in Int /\ FaceOrder[x.label] \in Int
    BY <2>1, FacesAssumption DEF IsConsent
  <2>5. \A x \in own : <<x, x>> \notin R
    BY <2>3, <2>4 DEF IsNewer
  <2>6. \A x, y, z \in own : <<x, y>> \in R /\ <<y, z>> \in R => <<x, z>> \in R
    BY <2>3, <2>4 DEF IsNewer
  <2>7. own # {} /\ own \in SUBSET C /\ c \in own
    BY <2>1
  <2>8. IsFiniteSet(own)
    BY <2>7, FS_Subset
  <2>9. PICK a \in own : \A y \in own : <<a, y>> \notin R
    BY <2>5, <2>6, <2>7, <2>8, LastOfMany
  <2>10. a \in last
    BY <1>1, <2>1, <2>3, <2>7, <2>9
  <2>11. c.ts <= a.ts
    <3>1. ~IsNewer(c, a)
      BY <2>3, <2>7, <2>9
    <3> QED
      BY <2>4, <2>7, <2>9, <3>1 DEF IsNewer
  <2>12. PICK d : d = [a EXCEPT !.label = "none"]
    OBVIOUS
  <2>13. d \in D /\ d.user = a.user /\ d.ts = a.ts
    BY <1>3, <1>4, <2>10, <2>12, RelabelledConsent
  <2> QED
    BY <2>1, <2>11, <2>13
<1>8. Accepted(C) = Accepted(D)
  <2>1. \A d \in D : \E c \in C : c.user = d.user /\ c.ts = d.ts
    BY <1>4, <1>5
  <2> QED
    BY <1>5, <1>7, <2>1, AcceptedAlike
<1>9. ASSUME KeyHolds(C) PROVE KeyHolds(D)
  <2>1. ASSUME NEW x \in D, NEW y \in D, x.user = y.user PROVE x = y
    <3>1. PICK a \in last : x.user = a.user /\ x.ts = a.ts /\ x = [a EXCEPT !.label = "none"]
      BY <1>5
    <3>2. PICK b \in last : y.user = b.user /\ y.ts = b.ts /\ y = [b EXCEPT !.label = "none"]
      BY <1>5
    <3>3. /\ a \in C /\ b \in C /\ a.user = b.user
          /\ a.ts \in Int /\ b.ts \in Int
          /\ a.label \in DOMAIN FaceOrder /\ b.label \in DOMAIN FaceOrder
      BY <1>4, <2>1, <3>1, <3>2 DEF IsConsent
    <3>4. ~IsNewer(a, b) /\ ~IsNewer(b, a)
      BY <1>1, <3>3
    <3>5. FaceOrder[a.label] = FaceOrder[b.label]
      <4>1. FaceOrder[a.label] \in Int /\ FaceOrder[b.label] \in Int
        BY <3>3, FacesAssumption
      <4> QED
        BY <3>3, <3>4, <4>1 DEF IsNewer
    <3>6. a = b
      BY <1>9, <3>3, <3>5, FacesAssumption DEF KeyHolds
    <3> QED
      BY <3>1, <3>2, <3>6
  <2> QED
    BY <2>1 DEF KeyHolds
<1> QED
  BY <1>2, <1>5, <1>6, <1>8, <1>9

\* Migration 0007 keeps one counter of each user and scope, and knows whose it was.
LEMMA CountersAreScoped ==
    ASSUME NEW C, IsFiniteSet(C), \A c \in C : IsCounter(c) /\ c.label \in DOMAIN FaceOrder
    PROVE  /\ IsFiniteSet(ScopedCounters(C))
           /\ \A b \in ScopedCounters(C) : IsCounter(b) /\ b.label \in {"user", "web_ip"}
           /\ Counted(ScopedCounters(C)) = Counted(C)
           /\ KeyHolds(C) => KeyHolds(ScopedCounters(C))
<1>1. PICK first : first = {c \in C : ~ \E b \in C :
                              /\ b.user = c.user /\ ScopeOf(b.label) = ScopeOf(c.label)
                              /\ FaceOrder[c.label] > FaceOrder[b.label]}
  OBVIOUS
<1>2. PICK D : D = ScopedCounters(C)
  OBVIOUS
<1>3. D = {[a EXCEPT !.label = ScopeOf(a.label)] : a \in first}
  BY <1>1, <1>2 DEF ScopedCounters
<1>4. /\ first \in SUBSET C
      /\ \A c \in C : ScopeOf(c.label) \in {"user", "web_ip"}
      /\ {"user", "web_ip"} \subseteq Labels
  BY <1>1 DEF Labels, ScopeOf
<1>5. ASSUME NEW a \in first, NEW b, b = [a EXCEPT !.label = ScopeOf(a.label)]
      PROVE  b.user = a.user /\ b.label = ScopeOf(a.label) /\ IsCounter(b)
  <2>1. IsCounter(a) /\ ScopeOf(a.label) \in Labels
    BY <1>4
  <2> QED
    BY <1>5, <2>1 DEF IsCounter
<1>6. ASSUME NEW b \in D
      PROVE  /\ IsCounter(b) /\ b.label \in {"user", "web_ip"}
             /\ \E a \in first : /\ b.user = a.user /\ b.label = ScopeOf(a.label)
                                 /\ b = [a EXCEPT !.label = ScopeOf(a.label)]
  <2>1. PICK a \in first : b = [a EXCEPT !.label = ScopeOf(a.label)]
    BY <1>3
  <2>2. b.user = a.user /\ b.label = ScopeOf(a.label) /\ IsCounter(b)
    BY <1>5, <2>1
  <2> QED
    BY <1>4, <2>1, <2>2
<1>7. IsFiniteSet(D)
  <2>1. IsFiniteSet(first)
    BY <1>4, FS_Subset
  <2>2. PICK f : f = [a \in first |-> [a EXCEPT !.label = ScopeOf(a.label)]]
    OBVIOUS
  <2>3. f \in [first -> D] /\ \A b \in D : \E a \in first : f[a] = b
    BY <1>3, <2>2
  <2> QED
    BY <2>1, <2>3, FiniteImage
<1>8. ASSUME NEW c \in C PROVE \E d \in D : d.user = c.user /\ d.label = ScopeOf(c.label)
  <2>1. PICK own : own = {b \in C : b.user = c.user /\ ScopeOf(b.label) = ScopeOf(c.label)}
    OBVIOUS
  <2>2. PICK R : R = {p \in own \X own : FaceOrder[p[1].label] > FaceOrder[p[2].label]}
    OBVIOUS
  <2>3. \A x, y \in own : <<x, y>> \in R <=> FaceOrder[x.label] > FaceOrder[y.label]
    BY <2>2
  <2>4. \A x \in own : FaceOrder[x.label] \in Int
    BY <2>1, FacesAssumption
  <2>5. \A x \in own : <<x, x>> \notin R
    BY <2>3, <2>4
  <2>6. \A x, y, z \in own : <<x, y>> \in R /\ <<y, z>> \in R => <<x, z>> \in R
    BY <2>3, <2>4
  <2>7. own # {} /\ own \in SUBSET C /\ c \in own
    BY <2>1
  <2>8. IsFiniteSet(own)
    BY <2>7, FS_Subset
  <2>9. PICK a \in own : \A y \in own : <<a, y>> \notin R
    BY <2>5, <2>6, <2>7, <2>8, LastOfMany
  <2>10. a \in first
    BY <1>1, <2>1, <2>3, <2>7, <2>9
  <2>11. PICK d : d = [a EXCEPT !.label = ScopeOf(a.label)]
    OBVIOUS
  <2>12. d \in D /\ d.user = a.user /\ d.label = ScopeOf(a.label)
    BY <1>3, <1>5, <2>10, <2>11
  <2> QED
    BY <2>1, <2>12
<1>9. Counted(C) = Counted(D)
  <2>1. \A c \in C : ScopeOf(c.label) \in IpFaces \cup {"web_ip"}
                       <=> c.label \in IpFaces \cup {"web_ip"}
    BY FacesAssumption DEF ScopeOf
  <2>2. ASSUME NEW x \in Counted(C) PROVE x \in Counted(D)
    <3>1. PICK c \in C : x = [user |-> c.user, ip |-> c.label \in IpFaces \cup {"web_ip"}]
      BY <2>2 DEF Counted
    <3>2. PICK d \in D : d.user = c.user /\ d.label = ScopeOf(c.label)
      BY <1>8
    <3> QED
      BY <2>1, <3>1, <3>2 DEF Counted
  <2>3. ASSUME NEW x \in Counted(D) PROVE x \in Counted(C)
    <3>1. PICK d \in D : x = [user |-> d.user, ip |-> d.label \in IpFaces \cup {"web_ip"}]
      BY <2>3 DEF Counted
    <3>2. PICK c \in first : d.user = c.user /\ d.label = ScopeOf(c.label)
      BY <1>6
    <3> QED
      BY <1>4, <2>1, <3>1, <3>2 DEF Counted
  <2> QED
    BY <2>2, <2>3
<1>10. ASSUME KeyHolds(C) PROVE KeyHolds(D)
  <2>1. ASSUME NEW x \in D, NEW y \in D, x.user = y.user, x.label = y.label PROVE x = y
    <3>1. PICK a \in first : x.user = a.user /\ x.label = ScopeOf(a.label)
                             /\ x = [a EXCEPT !.label = ScopeOf(a.label)]
      BY <1>6
    <3>2. PICK b \in first : y.user = b.user /\ y.label = ScopeOf(b.label)
                             /\ y = [b EXCEPT !.label = ScopeOf(b.label)]
      BY <1>6
    <3>3. /\ a \in C /\ b \in C /\ a.user = b.user /\ ScopeOf(a.label) = ScopeOf(b.label)
          /\ a.label \in DOMAIN FaceOrder /\ b.label \in DOMAIN FaceOrder
          /\ FaceOrder[a.label] \in Int /\ FaceOrder[b.label] \in Int
      BY <1>4, <2>1, <3>1, <3>2, FacesAssumption
    <3>4. FaceOrder[a.label] = FaceOrder[b.label]
      BY <1>1, <3>3
    <3>5. a = b
      BY <1>10, <3>3, <3>4, FacesAssumption DEF KeyHolds
    <3> QED
      BY <3>1, <3>2, <3>5
  <2> QED
    BY <2>1 DEF KeyHolds
<1> QED
  BY <1>2, <1>6, <1>7, <1>9, <1>10

\* Its downgrade keeps every row.
LEMMA ConsentsAreFaced ==
    ASSUME NEW C, IsFiniteSet(C), \A c \in C : IsConsent(c) /\ c.label = "none"
    PROVE  /\ IsFiniteSet(FacedConsents(C))
           /\ \A b \in FacedConsents(C) : IsConsent(b) /\ b.label \in DOMAIN FaceOrder
           /\ Accepted(FacedConsents(C)) = Accepted(C)
           /\ KeyHolds(C) => KeyHolds(FacedConsents(C))
<1>1. PICK D : D = FacedConsents(C)
  OBVIOUS
<1>2. D = {[a EXCEPT !.label = "family"] : a \in C}
  BY <1>1 DEF FacedConsents
<1>3. "family" \in Labels /\ "family" \in DOMAIN FaceOrder
  BY FacesAssumption DEF Labels
<1>4. ASSUME NEW a \in C, NEW b, b = [a EXCEPT !.label = "family"]
      PROVE  b.user = a.user /\ b.ts = a.ts /\ b.label = "family" /\ IsConsent(b)
  <2>1. IsConsent(a) /\ "family" \in Labels
    BY <1>3
  <2> QED
    BY <1>4, <2>1 DEF IsConsent
<1>5. ASSUME NEW b \in D
      PROVE  /\ IsConsent(b) /\ b.label = "family"
             /\ \E a \in C : b.user = a.user /\ b.ts = a.ts /\ b = [a EXCEPT !.label = "family"]
  <2>1. PICK a \in C : b = [a EXCEPT !.label = "family"]
    BY <1>2
  <2>2. b.user = a.user /\ b.ts = a.ts /\ b.label = "family" /\ IsConsent(b)
    BY <1>4, <2>1
  <2> QED
    BY <2>1, <2>2
<1>6. IsFiniteSet(D)
  <2>1. PICK f : f = [a \in C |-> [a EXCEPT !.label = "family"]]
    OBVIOUS
  <2>3. IsFiniteSet(C)
    OBVIOUS
  <2>2. f \in [C -> D] /\ \A b \in D : \E a \in C : f[a] = b
    BY <1>2, <2>1
  <2> QED
    BY <2>2, <2>3, FiniteImage
<1>7. ASSUME NEW c \in C PROVE \E d \in D : d.user = c.user /\ c.ts <= d.ts
  <2>1. PICK d : d = [c EXCEPT !.label = "family"]
    OBVIOUS
  <2>2. d \in D /\ d.user = c.user /\ d.ts = c.ts
    BY <1>2, <1>4, <2>1
  <2>3. c.ts \in Int
    BY DEF IsConsent
  <2>4. c.ts <= d.ts
    BY <2>2, <2>3
  <2> QED
    BY <2>2, <2>4
<1>8. Accepted(C) = Accepted(D)
  <2>1. \A d \in D : \E c \in C : c.user = d.user /\ c.ts = d.ts
    BY <1>5
  <2> QED
    BY <1>5, <1>7, <2>1, AcceptedAlike
<1>9. ASSUME KeyHolds(C), NEW x \in D, NEW y \in D, x.user = y.user PROVE x = y
  <2>1. PICK a \in C : x.user = a.user /\ x = [a EXCEPT !.label = "family"]
    BY <1>5
  <2>2. PICK b \in C : y.user = b.user /\ y = [b EXCEPT !.label = "family"]
    BY <1>5
  <2>3. a = b
    BY <1>9, <2>1, <2>2 DEF KeyHolds
  <2> QED
    BY <2>1, <2>2, <2>3
<1>10. KeyHolds(C) => KeyHolds(D)
  BY <1>9 DEF KeyHolds
<1> QED
  BY <1>1, <1>3, <1>5, <1>6, <1>8, <1>10

FaceOf(scope) == IF scope = "web_ip" THEN "web_ip:family" ELSE "family"

LEMMA CountersAreFaced ==
    ASSUME NEW C, IsFiniteSet(C), \A c \in C : IsCounter(c) /\ c.label \in {"user", "web_ip"}
    PROVE  /\ IsFiniteSet(FacedCounters(C))
           /\ \A b \in FacedCounters(C) : IsCounter(b) /\ b.label \in DOMAIN FaceOrder
           /\ Counted(FacedCounters(C)) = Counted(C)
           /\ KeyHolds(C) => KeyHolds(FacedCounters(C))
<1>1. PICK D : D = FacedCounters(C)
  OBVIOUS
<1>2. D = {[a EXCEPT !.label = FaceOf(a.label)] : a \in C}
  BY <1>1 DEF FacedCounters, FaceOf
<1>3. /\ \A c \in C : FaceOf(c.label) \in Labels /\ FaceOf(c.label) \in DOMAIN FaceOrder
      /\ \A c \in C : FaceOf(c.label) \in IpFaces \cup {"web_ip"}
                        <=> c.label \in IpFaces \cup {"web_ip"}
      /\ \A c, d \in C : FaceOf(c.label) = FaceOf(d.label) => c.label = d.label
  BY FacesAssumption DEF Labels, FaceOf
<1>4. ASSUME NEW a \in C, NEW b, b = [a EXCEPT !.label = FaceOf(a.label)]
      PROVE  b.user = a.user /\ b.label = FaceOf(a.label) /\ IsCounter(b)
  BY <1>3, <1>4 DEF IsCounter
<1>5. ASSUME NEW b \in D
      PROVE  \E a \in C : /\ b.user = a.user /\ b.label = FaceOf(a.label) /\ IsCounter(b)
                          /\ b = [a EXCEPT !.label = FaceOf(a.label)]
  <2>1. PICK a \in C : b = [a EXCEPT !.label = FaceOf(a.label)]
    BY <1>2
  <2>2. b.user = a.user /\ b.label = FaceOf(a.label) /\ IsCounter(b)
    BY <1>4, <2>1
  <2> QED
    BY <2>1, <2>2
<1>6. IsFiniteSet(D)
  <2>1. PICK f : f = [a \in C |-> [a EXCEPT !.label = FaceOf(a.label)]]
    OBVIOUS
  <2>2. f \in [C -> D] /\ \A b \in D : \E a \in C : f[a] = b
    BY <1>2, <2>1
  <2> QED
    BY <2>2, FiniteImage
<1>7. Counted(C) = Counted(D)
  <2>1. ASSUME NEW x \in Counted(C) PROVE x \in Counted(D)
    <3>1. PICK c \in C : x = [user |-> c.user, ip |-> c.label \in IpFaces \cup {"web_ip"}]
      BY <2>1 DEF Counted
    <3>2. PICK d : d = [c EXCEPT !.label = FaceOf(c.label)]
      OBVIOUS
    <3>3. d \in D /\ d.user = c.user /\ d.label = FaceOf(c.label)
      BY <1>2, <1>4, <3>2
    <3> QED
      BY <1>3, <3>1, <3>3 DEF Counted
  <2>2. ASSUME NEW x \in Counted(D) PROVE x \in Counted(C)
    <3>1. PICK d \in D : x = [user |-> d.user, ip |-> d.label \in IpFaces \cup {"web_ip"}]
      BY <2>2 DEF Counted
    <3>2. PICK c \in C : d.user = c.user /\ d.label = FaceOf(c.label)
      BY <1>5
    <3> QED
      BY <1>3, <3>1, <3>2 DEF Counted
  <2> QED
    BY <2>1, <2>2
<1>8. ASSUME KeyHolds(C), NEW x \in D, NEW y \in D, x.user = y.user, x.label = y.label PROVE x = y
  <2>1. PICK a \in C : /\ x.user = a.user /\ x.label = FaceOf(a.label)
                       /\ x = [a EXCEPT !.label = FaceOf(a.label)]
    BY <1>5
  <2>2. PICK b \in C : /\ y.user = b.user /\ y.label = FaceOf(b.label)
                       /\ y = [b EXCEPT !.label = FaceOf(b.label)]
    BY <1>5
  <2>3. a.user = b.user /\ a.label = b.label
    <3>1. a.user = b.user /\ FaceOf(a.label) = FaceOf(b.label)
      BY <1>8, <2>1, <2>2
    <3> QED
      BY <1>3, <3>1
  <2>4. a = b
    BY <1>8, <2>3 DEF KeyHolds
  <2> QED
    BY <2>1, <2>2, <2>4
<1>9. KeyHolds(C) => KeyHolds(D)
  BY <1>8 DEF KeyHolds
<1> QED
  BY <1>1, <1>3, <1>5, <1>6, <1>7, <1>9

-----------------------------------------------------------------------------
(* All migrations *)

RowsOf(consents, counters, unanswered) ==
    [consents |-> consents, counters |-> counters, unanswered |-> unanswered]

LEMMA RowsReplaced ==
    ASSUME NEW rows, IsRows(rows), NEW X, NEW Y, NEW r,
           r = [rows EXCEPT !.consents = X, !.counters = Y]
    PROVE  r = RowsOf(X, Y, rows.unanswered)
<1>1. PICK consents, counters, unanswered : rows = RowsOf(consents, counters, unanswered)
  BY DEF IsRows, RowsOf
<1> QED
  BY <1>1 DEF RowsOf

LEMMA RowsOfFields ==
    ASSUME NEW X, NEW Y, NEW z, NEW r, r = RowsOf(X, Y, z)
    PROVE  r.consents = X /\ r.counters = Y /\ r.unanswered = z
BY DEF RowsOf

\* What a revision knows of its rows.
Good(i, rows) == IsRows(rows) /\ LabelsFit(i, rows) /\ RowsFit(i, rows)

LEMMA GoodRows ==
    ASSUME NEW rows, NEW i, Good(i, rows)
    PROVE  /\ IsFiniteSet(rows.consents) /\ \A a \in rows.consents : IsConsent(a)
           /\ IsFiniteSet(rows.counters) /\ \A a \in rows.counters : IsCounter(a)
           /\ rows.unanswered \in BOOLEAN /\ (rows.unanswered => i >= FeedbackRevision)
           /\ KeyHolds(rows.consents) /\ KeyHolds(rows.counters)
           /\ i < FaceRevision =>
                /\ \A a \in rows.consents : a.label \in DOMAIN FaceOrder
                /\ \A a \in rows.counters : a.label \in DOMAIN FaceOrder
           /\ ~(i < FaceRevision) =>
                /\ \A a \in rows.consents : a.label = "none"
                /\ \A a \in rows.counters : a.label \in {"user", "web_ip"}
BY DEF Good, IsRows, LabelsFit, RowsFit, KeyHolds

LEMMA RowsAreGood ==
    ASSUME NEW X, NEW Y, NEW z \in BOOLEAN, NEW r, r = RowsOf(X, Y, z), NEW i,
           IsFiniteSet(X), \A a \in X : IsConsent(a), KeyHolds(X),
           IsFiniteSet(Y), \A a \in Y : IsCounter(a), KeyHolds(Y),
           z => i >= FeedbackRevision,
           i < FaceRevision =>
                /\ \A a \in X : a.label \in DOMAIN FaceOrder
                /\ \A a \in Y : a.label \in DOMAIN FaceOrder,
           ~(i < FaceRevision) =>
                /\ \A a \in X : a.label = "none"
                /\ \A a \in Y : a.label \in {"user", "web_ip"}
    PROVE  Good(i, r)
<1>1. r.consents = X /\ r.counters = Y /\ r.unanswered = z
  BY RowsOfFields
<1>2. r = [consents |-> r.consents, counters |-> r.counters, unanswered |-> r.unanswered]
  BY DEF RowsOf
<1>3. IsRows(r)
  BY <1>1, <1>2 DEF IsRows
<1>4. LabelsFit(i, r)
  BY <1>1 DEF LabelsFit
<1>5. RowsFit(i, r)
  BY <1>1 DEF RowsFit, KeyHolds
<1> QED
  BY <1>3, <1>4, <1>5 DEF Good

\* Each migration leads from rows of its revision to rows of the next that say the same.
LEMMA UpKeepsRows ==
    ASSUME NEW i \in 1 .. Head, NEW rows, Good(i - 1, rows)
    PROVE  Good(i, RowsUp(i, rows)) /\ Meaning(RowsUp(i, rows)) = Meaning(rows)
<1> USE DEF FaceRevision, FeedbackRevision, Head
<1>1. CASE i # FaceRevision
  <2>1. RowsUp(i, rows) = rows
    BY <1>1 DEF RowsUp
  <2>2. Good(i, rows)
    BY <1>1, GoodRows DEF Good, LabelsFit, RowsFit
  <2> QED
    BY <2>1, <2>2
<1>2. CASE i = FaceRevision
  <2>1. PICK X, Y, z : /\ X = CollapsedConsents(rows.consents)
                       /\ Y = ScopedCounters(rows.counters)
                       /\ z = rows.unanswered
    OBVIOUS
  <2>2. PICK r : r = RowsUp(i, rows)
    OBVIOUS
  <2>3. r = RowsOf(X, Y, z)
    <3>1. r = [rows EXCEPT !.consents = X, !.counters = Y]
      BY <1>2, <2>1, <2>2 DEF RowsUp
    <3> QED
      BY <2>1, <3>1, RowsReplaced DEF Good
  <2>4. /\ IsFiniteSet(X) /\ (\A b \in X : IsConsent(b) /\ b.label = "none") /\ KeyHolds(X)
        /\ Accepted(X) = Accepted(rows.consents)
    BY <1>2, <2>1, GoodRows, ConsentsCollapse
  <2>5. /\ IsFiniteSet(Y) /\ (\A b \in Y : IsCounter(b) /\ b.label \in {"user", "web_ip"})
        /\ KeyHolds(Y) /\ Counted(Y) = Counted(rows.counters)
    BY <1>2, <2>1, GoodRows, CountersAreScoped
  <2>6. Good(i, r)
    BY <1>2, <2>1, <2>3, <2>4, <2>5, GoodRows, RowsAreGood
  <2>7. Meaning(r) = Meaning(rows)
    BY <2>3, <2>4, <2>5, RowsOfFields, MeaningOf
  <2> QED
    BY <2>2, <2>6, <2>7
<1> QED
  BY <1>1, <1>2

\* And back.
LEMMA DownKeepsRows ==
    ASSUME NEW i \in 2 .. Head, NEW rows, Good(i, rows)
    PROVE  Good(i - 1, RowsDown(i, rows)) /\ Meaning(RowsDown(i, rows)) = Meaning(rows)
<1> USE DEF FaceRevision, FeedbackRevision, Head
<1>1. CASE i # FaceRevision /\ i # FeedbackRevision
  <2>1. RowsDown(i, rows) = rows
    BY <1>1 DEF RowsDown
  <2>2. Good(i - 1, rows)
    BY <1>1, GoodRows DEF Good, LabelsFit, RowsFit
  <2> QED
    BY <2>1, <2>2
<1>2. CASE i = FeedbackRevision
  <2>1. PICK X, Y, no : X = rows.consents /\ Y = rows.counters /\ no = FALSE
    OBVIOUS
  <2>2. PICK r : r = RowsDown(i, rows)
    OBVIOUS
  <2>3. r = RowsOf(X, Y, no)
    <3>1. PICK z : rows = RowsOf(X, Y, z)
      BY <2>1 DEF Good, IsRows, RowsOf
    <3>2. RowsDown(i, rows) = [rows EXCEPT !.unanswered = FALSE]
      BY <1>2 DEF RowsDown
    <3>3. r = [rows EXCEPT !.unanswered = no]
      BY <2>1, <2>2, <3>2, Zenon
    <3> QED
      BY <3>1, <3>3 DEF RowsOf
  <2>4. no \in BOOLEAN /\ ~no
    BY <2>1
  <2>5. i - 1 < FaceRevision /\ i < FaceRevision
    BY <1>2
  <2>6. Good(i - 1, r)
    BY <2>1, <2>3, <2>4, <2>5, GoodRows, RowsAreGood
  <2>7. r.consents = X /\ r.counters = Y
    BY <2>3, RowsOfFields
  <2>8. Meaning(r) = Meaning(rows)
    BY <2>1, <2>7, MeaningOf
  <2> QED
    BY <2>2, <2>6, <2>8
<1>3. CASE i = FaceRevision
  <2>1. PICK X, Y, z : /\ X = FacedConsents(rows.consents)
                       /\ Y = FacedCounters(rows.counters)
                       /\ z = rows.unanswered
    OBVIOUS
  <2>2. PICK r : r = RowsDown(i, rows)
    OBVIOUS
  <2>3. r = RowsOf(X, Y, z)
    <3>1. r = [rows EXCEPT !.consents = X, !.counters = Y]
      BY <1>3, <2>1, <2>2 DEF RowsDown
    <3> QED
      BY <2>1, <3>1, RowsReplaced DEF Good
  <2>4. /\ IsFiniteSet(X) /\ (\A b \in X : IsConsent(b) /\ b.label \in DOMAIN FaceOrder)
        /\ KeyHolds(X) /\ Accepted(X) = Accepted(rows.consents)
    BY <1>3, <2>1, GoodRows, ConsentsAreFaced
  <2>5. /\ IsFiniteSet(Y) /\ (\A b \in Y : IsCounter(b) /\ b.label \in DOMAIN FaceOrder)
        /\ KeyHolds(Y) /\ Counted(Y) = Counted(rows.counters)
    BY <1>3, <2>1, GoodRows, CountersAreFaced
  <2>6. Good(i - 1, r)
    BY <1>3, <2>1, <2>3, <2>4, <2>5, GoodRows, RowsAreGood
  <2>7. Meaning(r) = Meaning(rows)
    BY <2>3, <2>4, <2>5, RowsOfFields, MeaningOf
  <2> QED
    BY <2>2, <2>6, <2>7
<1> QED
  BY <1>1, <1>2, <1>3

-----------------------------------------------------------------------------
(* Rows in deploys, rollbacks, backups and restores *)

\* A database whose rows are sound, and say what was said.
Holds(d, said) ==
    /\ d = [rev |-> d.rev, schema |-> d.schema, rows |-> d.rows]
    /\ d.rev \in 0 .. Head /\ Good(d.rev, d.rows) /\ Meaning(d.rows) = said

\* What is meant changes with the service's own writes and with a restore; the first
\* need a running container, the second a stopped one, so that no migration is under
\* way that knows other rows.
RowsInv ==
    /\ tag \in Releases /\ app \in Containers /\ script \in Scripts
    /\ Holds(db, meant)
    /\ app.does = "migrating" => Holds(tx, meant)
    /\ dump # NoDump => Holds(dump.db, dump.meant)
    /\ script.step = "psql" => app.does = "stopped" /\ Holds(dump.db, dump.meant)

LEMMA NothingIsGood == Good(0, EmptyRows)
<1>1. IsFiniteSet({})
  BY FS_EmptySet
<1> QED
  BY <1>1 DEF Good, EmptyRows, IsRows, LabelsFit, RowsFit, FaceRevision

LEMMA RowsInit == Init => RowsInv
<1> SUFFICES ASSUME Init PROVE RowsInv
  OBVIOUS
<1>1. tag \in Releases /\ app \in Containers /\ app.does = "stopped"
  BY DEF Init, Containers
<1>2. script \in Scripts /\ script.step = "none"
  BY AttemptsAssumption DEF Init, Idle, Scripts
<1>3. Holds(db, meant)
  BY NothingIsGood DEF Init, Holds, Head
<1>4. dump = NoDump
  BY DEF Init
<1> QED
  BY <1>1, <1>2, <1>3, <1>4 DEF RowsInv

\* The container.
LEMMA DoesIs ==
    ASSUME app \in Containers, NEW what \in {"stopped", "migrating", "exited", "started", "healthy"},
           NEW a, a = Does(what)
    PROVE  a \in Containers /\ a.does = what /\ a.image = app.image
BY DEF Containers, Does

LEMMA AtIs ==
    ASSUME script \in Scripts, NEW step \in {"none", "pull", "up", "wait", "psql"},
           NEW t, t = At(step)
    PROVE  t \in Scripts /\ t.step = step /\ t.left = script.left
BY DEF Scripts, At

\* A container that starts sees the database.
LEMMA StartingKeeps ==
    ASSUME RowsInv, NEW image \in Releases, Starting(image), UNCHANGED <<db, meant>>
    PROVE  /\ app' \in Containers /\ app'.does = "migrating"
           /\ Holds(db', meant') /\ Holds(tx', meant')
<1>1. app' \in Containers /\ app'.does = "migrating"
  BY DEF Starting, Containers
<1>2. tx' = db /\ db' = db /\ meant' = meant
  BY DEF Starting
<1> QED
  BY <1>1, <1>2 DEF RowsInv, Holds

LEMMA MigrateOneKeeps ==
    ASSUME RowsInv, MigrateOne
    PROVE  Holds(tx', meant')
<1>1. PICK i, rows : i = tx.rev + 1 /\ rows = tx.rows
  OBVIOUS
<1>2. i \in 1 .. Head /\ Good(i - 1, rows) /\ Meaning(rows) = meant
  BY <1>1, ReleasesAssumption DEF RowsInv, MigrateOne, Holds, Containers, Head
<1>3. Good(i, RowsUp(i, rows)) /\ Meaning(RowsUp(i, rows)) = meant
  BY <1>2, UpKeepsRows
<1>4. tx' = [rev |-> i, schema |-> Result(Up(i), tx.schema), rows |-> RowsUp(i, rows)] /\ meant' = meant
  BY <1>1 DEF MigrateOne, history
<1>5. tx'.rev = i /\ tx'.rows = RowsUp(i, rows)
      /\ tx' = [rev |-> tx'.rev, schema |-> tx'.schema, rows |-> tx'.rows]
  BY <1>4
<1> QED
  BY <1>2, <1>3, <1>4, <1>5 DEF Holds, Head

LEMMA IsUsedKeeps ==
    ASSUME RowsInv, NEW rows \in RowSets, IsUsed(rows)
    PROVE  Holds(db', meant')
<1>1. Good(db.rev, rows)
  BY RowSetsAssumption DEF IsUsed, Good
<1>2. db' = [db EXCEPT !.rows = rows] /\ meant' = Meaning(rows)
  BY DEF IsUsed
<1>3. db'.rev = db.rev /\ db'.rows = rows
      /\ db' = [rev |-> db'.rev, schema |-> db'.schema, rows |-> db'.rows]
  BY <1>2 DEF RowsInv, Holds
<1> QED
  BY <1>1, <1>2, <1>3 DEF RowsInv, Holds

LEMMA PsqlKeeps ==
    ASSUME RowsInv, Psql
    PROVE  Holds(db', meant')
<1>1. Holds(dump.db, dump.meant)
  BY DEF RowsInv, Psql
<1>2. CASE dump.db.rev = 0
  BY <1>2 DEF RowsInv, Psql, RestoredOver
<1>3. CASE dump.db.rev # 0
  <2>1. PICK d, kept : d = dump.db /\ kept = {c \in db.schema : c.table \notin TablesIn(d.schema)}
    OBVIOUS
  <2>2. db' = [d EXCEPT !.schema = @ \cup kept] /\ meant' = dump.meant
    BY <1>3, <2>1 DEF Psql, RestoredOver
  <2>3. db'.rev = d.rev /\ db'.rows = d.rows
      /\ db' = [rev |-> db'.rev, schema |-> db'.schema, rows |-> db'.rows]
    BY <1>1, <2>1, <2>2 DEF Holds
  <2> QED
    BY <1>1, <2>1, <2>2, <2>3 DEF Holds
<1> QED
  BY <1>2, <1>3

LEMMA DowngradeKeeps ==
    ASSUME RowsInv, Downgrade
    PROVE  Holds(db', meant')
<1>1. PICK i, rows : i = db.rev /\ rows = db.rows
  OBVIOUS
<1>2. i \in 2 .. Head /\ Good(i, rows) /\ Meaning(rows) = meant
  BY <1>1, ReleasesAssumption DEF RowsInv, Downgrade, Holds, Head
<1>3. Good(i - 1, RowsDown(i, rows)) /\ Meaning(RowsDown(i, rows)) = meant
  BY <1>2, DownKeepsRows
<1>4. /\ db' = [rev |-> i - 1, schema |-> Result(Down(i), db.schema), rows |-> RowsDown(i, rows)]
      /\ meant' = meant
  BY <1>1 DEF Downgrade, history
<1>5. /\ db'.rev = i - 1 /\ db'.rows = RowsDown(i, rows)
      /\ db' = [rev |-> db'.rev, schema |-> db'.schema, rows |-> db'.rows]
  BY <1>4
<1> QED
  BY <1>2, <1>3, <1>4, <1>5 DEF Holds, Head

LEMMA RowsStep == RowsInv /\ [Next]_vars => RowsInv'
<1> SUFFICES ASSUME RowsInv, [Next]_vars PROVE RowsInv'
  OBVIOUS
<1> USE DEF history
<1>0. app \in Containers /\ script \in Scripts /\ tag \in Releases
  BY DEF RowsInv
<1>1. CASE UnknownRevision \/ MigrationFails \/ Dies
  <2>1. app' = Does("exited") /\ UNCHANGED <<tag, db, dump, script, history>>
    BY <1>1 DEF UnknownRevision, MigrationFails, Dies
  <2>2. app' \in Containers /\ app'.does = "exited"
    BY <1>0, <2>1, DoesIs
  <2>3. script.step # "psql"
    BY <1>1 DEF RowsInv, UnknownRevision, MigrationFails, Dies
  <2> QED
    BY <2>1, <2>2, <2>3 DEF RowsInv, Holds
<1>2. CASE MigrateOne
  <2>1. app.does = "migrating" /\ UNCHANGED <<tag, app, db, dump, script, history>>
    BY <1>2 DEF MigrateOne
  <2> QED
    BY <1>2, <2>1, MigrateOneKeeps DEF RowsInv, Holds
<1>3. CASE MigrationsCommit
  <2>1. /\ app.does = "migrating" /\ app' = Does("started") /\ db' = tx
        /\ UNCHANGED <<tag, dump, script, history>>
    BY <1>3 DEF MigrationsCommit
  <2>2. app' \in Containers /\ app'.does = "started"
    BY <1>0, <2>1, DoesIs
  <2> QED
    BY <2>1, <2>2 DEF RowsInv, Holds
<1>4. CASE BecomesHealthy
  <2>1. /\ app.does = "started" /\ app' = Does("healthy")
        /\ UNCHANGED <<tag, tx, db, dump, script, history>>
    BY <1>4 DEF BecomesHealthy
  <2>2. app' \in Containers /\ app'.does = "healthy"
    BY <1>0, <2>1, DoesIs
  <2> QED
    BY <2>1, <2>2 DEF RowsInv, Holds
<1>5. CASE RestartPolicy
  <2>1. /\ app.does = "exited" /\ Starting(app.image) /\ app.image \in Releases
        /\ UNCHANGED <<tag, db, dump, script, history>>
    BY <1>0, <1>5 DEF RestartPolicy, Containers
  <2> QED
    BY <2>1, StartingKeeps DEF RowsInv, Holds
<1>6. ASSUME NEW rows \in RowSets, IsUsed(rows) PROVE RowsInv'
  <2>1. Running /\ UNCHANGED <<tag, app, tx, dump, script>>
    BY <1>6 DEF IsUsed
  <2> QED
    BY <1>6, <2>1, IsUsedKeeps DEF RowsInv, Holds, Running
<1>7. ASSUME NEW t \in Releases, Pin(t) PROVE RowsInv'
  <2>1. script' \in Scripts /\ script'.step = "pull"
    BY <1>7, AttemptsAssumption DEF Pin, Scripts
  <2> QED
    BY <1>7, <2>1 DEF RowsInv, Holds, Pin
<1>8. CASE Pull \/ PullFails \/ Healthy \/ Unhealthy \/ PsqlFails
  <2>1. script' \in Scripts /\ script'.step # "psql"
    <3>1. CASE script' = Idle
      BY <3>1, AttemptsAssumption DEF Idle, Scripts
    <3>2. CASE script' = At("up")
      BY <1>0, <3>2, AtIs
    <3>3. CASE Unhealthy /\ script' # Idle
      <4>1. PICK t : t = At("up")
        OBVIOUS
      <4>2. t \in Scripts /\ t.step = "up" /\ t.left > 1 /\ script' = [t EXCEPT !.left = @ - 1]
        BY <1>0, <3>3, <4>1, AtIs DEF Unhealthy
      <4> QED
        BY <4>2, AttemptsAssumption DEF Scripts
    <3> QED
      BY <1>8, <3>1, <3>2, <3>3 DEF Pull, PullFails, Healthy, Unhealthy, PsqlFails
  <2>2. UNCHANGED <<tag, app, tx, db, dump, history>>
    BY <1>8 DEF Pull, PullFails, Healthy, Unhealthy, PsqlFails
  <2> QED
    BY <2>1, <2>2 DEF RowsInv, Holds
<1>9. CASE ComposeUp
  <2>1. script' \in Scripts /\ script'.step = "wait" /\ UNCHANGED <<tag, db, dump, history>>
    BY <1>0, <1>9, AtIs DEF ComposeUp
  <2>2. CASE Starting(tag)
    BY <1>0, <2>1, <2>2, StartingKeeps DEF RowsInv, Holds
  <2>3. CASE UNCHANGED <<app, tx>>
    BY <2>1, <2>3 DEF RowsInv, Holds
  <2> QED
    BY <1>9, <2>2, <2>3 DEF ComposeUp
<1>10. CASE ComposeUpFails
  <2>1. app' = Does("stopped") /\ UNCHANGED <<tag, db, dump, history>>
    BY <1>10 DEF ComposeUpFails
  <2>2. app' \in Containers /\ app'.does = "stopped"
    BY <1>0, <2>1, DoesIs
  <2>3. script' \in Scripts /\ script'.step # "psql"
    BY <1>0, <1>10, AttemptsAssumption DEF ComposeUpFails, Idle, Scripts
  <2> QED
    BY <2>1, <2>2, <2>3 DEF RowsInv, Holds
<1>11. CASE Backup
  <2>1. dump' = [db |-> db, meant |-> meant] /\ UNCHANGED <<tag, app, tx, db, script, history>>
    BY <1>11 DEF Backup
  <2>2. dump'.db = db /\ dump'.meant = meant
    BY <2>1
  <2> QED
    BY <2>1, <2>2 DEF RowsInv, Holds
<1>12. CASE Stop
  <2>1. dump # NoDump /\ app' = Does("stopped") /\ UNCHANGED <<tag, db, dump, history>>
    BY <1>12 DEF Stop
  <2>2. app' \in Containers /\ app'.does = "stopped"
    BY <1>0, <2>1, DoesIs
  <2>3. script' \in Scripts
    BY <1>12, AttemptsAssumption DEF Stop, Scripts
  <2> QED
    BY <2>1, <2>2, <2>3 DEF RowsInv, Holds
<1>13. CASE Psql
  <2>1. script.step = "psql" /\ script' = At("up") /\ UNCHANGED <<tag, app, tx, dump>>
    BY <1>13 DEF Psql
  <2>2. script' \in Scripts /\ script'.step = "up"
    BY <1>0, <2>1, AtIs
  <2> QED
    BY <1>13, <2>1, <2>2, PsqlKeeps DEF RowsInv, Holds
<1>14. CASE Downgrade
  <2>1. script = Idle /\ app.does = "stopped" /\ UNCHANGED <<tag, app, tx, dump, script>>
    BY <1>14 DEF Downgrade
  <2> QED
    BY <1>14, <2>1, DowngradeKeeps DEF RowsInv, Holds, Idle
<1>15. CASE UNCHANGED vars
  BY <1>15 DEF vars, RowsInv, Holds
<1> QED
  BY <1>1, <1>2, <1>3, <1>4, <1>5, <1>6, <1>7, <1>8, <1>9, <1>10, <1>11, <1>12, <1>13, <1>14, <1>15
     DEF Next

\* Every state is well typed: whatever is deployed, interrupted, restored or undone, the
\* rows have the columns of their revision, faces before DropFace and scopes after it.
THEOREM TypeCorrect == Spec => []TypeOK
<1>1. RowsInv => TypeOK
  BY DEF RowsInv, TypeOK, Holds, Good, IsDatabase
<1> QED
  BY <1>1, RowsInit, RowsStep, PTL DEF Spec

\* Through all migrations, in both directions, failures and restores, the rows say of
\* every user what they said when they were written, and hold the keys of their
\* revision (alembic 0002 and 0007, backup.sh, restore.sh).
THEOREM RowsKept == Spec => []RowsKeepTheirMeaning
<1>1. RowsInv => RowsKeepTheirMeaning
  BY DEF RowsInv, RowsKeepTheirMeaning, Holds, Good
<1> QED
  BY <1>1, RowsInit, RowsStep, PTL DEF Spec

-----------------------------------------------------------------------------
(* Changes of a schema, and their undoing *)

FreshUpTo(f, n) == f = [i \in 0 .. n |-> IF i = 0 THEN {} ELSE Result(Up(i), f[i - 1])]

\* There are such schemas, revision by revision.
LEMMA FreshExists == \E f : FreshUpTo(f, Head)
<1> DEFINE bad == {n \in 0 .. Head : \A f : ~FreshUpTo(f, n)}
<1>1. SUFFICES ASSUME bad # {} PROVE FALSE
  BY DEF Head
<1>2. bad \in SUBSET Nat
  BY DEF Head
<1>3. PICK n \in bad : \A m \in bad : n <= m
  <2> HIDE DEF bad
  <2> QED
    BY <1>1, <1>2, Least
<1>4. CASE n = 0
  <2>1. PICK f : f = [i \in 0 .. 0 |-> {}]
    OBVIOUS
  <2>2. FreshUpTo(f, 0)
    BY <2>1 DEF FreshUpTo
  <2> QED
    BY <1>3, <1>4, <2>2
<1>5. CASE n # 0
  <2>1. n - 1 \in 0 .. Head /\ n \in 1 .. Head /\ ~(n <= n - 1)
    BY <1>3, <1>5 DEF Head
  <2>2. n - 1 \notin bad
    BY <1>3, <2>1
  <2>3. PICK f : FreshUpTo(f, n - 1)
    BY <2>1, <2>2
  <2>4. PICK g : g = [i \in 0 .. n |-> IF i = n THEN Result(Up(n), f[n - 1]) ELSE f[i]]
    OBVIOUS
  <2>5. PICK h : h = [i \in 0 .. n |-> IF i = 0 THEN {} ELSE Result(Up(i), g[i - 1])]
    OBVIOUS
  <2>6. ASSUME NEW i \in 0 .. n PROVE g[i] = h[i]
    <3>1. CASE i = n
      <4>1. g[n - 1] = f[n - 1]
        BY <2>1, <2>4
      <4> QED
        BY <2>1, <2>4, <2>5, <3>1, <4>1
    <3>2. CASE i # n
      <4>1. i \in 0 .. n - 1
        BY <2>1, <3>2
      <4>2. i # 0 => i - 1 \in 0 .. n - 1 /\ g[i - 1] = f[i - 1]
        BY <2>1, <2>4, <4>1
      <4>3. f[i] = IF i = 0 THEN {} ELSE Result(Up(i), f[i - 1])
        BY <2>3, <4>1 DEF FreshUpTo
      <4> QED
        BY <2>4, <2>5, <3>2, <4>2, <4>3
    <3> QED
      BY <3>1, <3>2
  <2>7. g = h
    BY <2>4, <2>5, <2>6
  <2>8. FreshUpTo(g, n)
    BY <2>5, <2>7 DEF FreshUpTo
  <2> QED
    BY <1>3, <2>8
<1> QED
  BY <1>4, <1>5

LEMMA FreshIs ==
    /\ Fresh[0] = {}
    /\ \A i \in 1 .. Head : Fresh[i] = Result(Up(i), Fresh[i - 1])
<1>1. PICK f : FreshUpTo(f, Head)
  BY FreshExists
<1>2. Fresh = [i \in 0 .. Head |-> IF i = 0 THEN {} ELSE Result(Up(i), Fresh[i - 1])]
  BY <1>1 DEF Fresh, FreshUpTo
<1>3. 0 \in 0 .. Head /\ \A i \in 1 .. Head : i \in 0 .. Head /\ i # 0
  BY DEF Head
<1> QED
  BY <1>2, <1>3

\* The part of a schema that another one knows the tables of.
KnownTo(F, S) == {c \in S : c.table \in TablesIn(F)}

\* What a change makes of the known part does not depend on the rest.
LEMMA ResultFits ==
    ASSUME NEW change, NEW F, NEW S, KnownTo(F, S) = F, Possible(change, F), Possible(change, S)
    PROVE  KnownTo(Result(change, F), Result(change, S)) = Result(change, F)
<1>1. PICK G, H : G = Result(change, F) /\ H = Result(change, S)
  OBVIOUS
<1>2. F \subseteq S /\ \A c \in S : c.table \in TablesIn(F) => c \in F
  BY DEF KnownTo
<1>3. ASSUME NEW c \in G PROVE c \in H /\ c.table \in TablesIn(G)
  BY <1>1, <1>2, <1>3 DEF Result, Dropping, TablesIn
<1>4. ASSUME NEW c \in H, NEW g \in G, c.table = g.table PROVE c \in G
  <2>1. CASE c \in change.creates \/ c \in change.adds \/ c \in F
    BY <1>1, <1>4, <2>1 DEF Result, Dropping
  <2>2. CASE c \in Dropping(change, S) /\ c \notin F
    <3>1. c.table \notin TablesIn(F)
      BY <1>2, <2>2 DEF Dropping
    <3>2. g \notin Dropping(change, F)
      BY <1>4, <3>1 DEF Dropping, TablesIn
    <3>3. g \notin change.creates
      BY <1>4, <2>2 DEF Possible, TablesIn
    <3>4. g \notin change.adds
      BY <1>4, <3>1 DEF Possible, Dropping, TablesIn
    <3> QED
      BY <1>1, <3>2, <3>3, <3>4 DEF Result
  <2> QED
    BY <1>1, <1>4, <2>1, <2>2 DEF Result
<1> QED
  BY <1>1, <1>3, <1>4 DEF KnownTo, TablesIn

\* A column and a key have one form each.
NameKey(F) == \A c, d \in F : c.table = d.table /\ c.name = d.name => c = d

\* When the statements of one direction are undone by those of the other: the columns
\* removed are there, in tables that stay; the tables dropped are as they will be created
\* again; and what is created or added is new.
Undoable(up, down, F) ==
    LET kept == Dropping(up, F) IN
    /\ down.drops = TablesIn(up.creates) /\ down.removes = up.adds /\ down.adds = up.removes
    /\ down.creates = {c \in F : c.table \in up.drops} /\ up.drops \subseteq TablesIn(F)
    /\ up.removes \subseteq F /\ \A c \in up.removes : c.table \in TablesIn(kept)
    /\ TablesIn(up.creates) \cap TablesIn(F) = {}
    /\ \A c \in up.adds : /\ c.table \in TablesIn(kept)
                          /\ \A d \in kept : d.table = c.table => d.name # c.name
    /\ NameKey(F)

LEMMA UndoneBySteps ==
    ASSUME NEW up, NEW down, NEW F, Undoable(up, down, F)
    PROVE  /\ Possible(up, F) /\ Possible(down, Result(up, F))
           /\ Result(down, Result(up, F)) = F
<1>1. PICK kept, G : kept = Dropping(up, F) /\ G = Result(up, F)
  OBVIOUS
<1>2. /\ down.drops = TablesIn(up.creates) /\ down.removes = up.adds /\ down.adds = up.removes
      /\ down.creates = {c \in F : c.table \in up.drops} /\ up.drops \subseteq TablesIn(F)
      /\ up.removes \subseteq F /\ \A c \in up.removes : c.table \in TablesIn(kept)
      /\ TablesIn(up.creates) \cap TablesIn(F) = {}
      /\ \A c \in up.adds : /\ c.table \in TablesIn(kept)
                            /\ \A d \in kept : d.table = c.table => d.name # c.name
      /\ \A c, d \in F : c.table = d.table /\ c.name = d.name => c = d
  BY <1>1 DEF Undoable, NameKey
<1>3. /\ kept = {c \in F : c \notin up.removes /\ c.table \notin up.drops}
      /\ G = kept \cup up.creates \cup up.adds
  BY <1>1 DEF Result, Dropping
<1>4. Possible(up, F)
  <2>1. TablesIn(kept) \subseteq TablesIn(F)
    BY <1>3 DEF TablesIn
  <2> QED
    BY <1>1, <1>2, <2>1 DEF Possible
<1>5. Dropping(down, G) = kept
  <2>1. ASSUME NEW c \in Dropping(down, G) PROVE c \in kept
    BY <1>2, <1>3, <2>1 DEF Dropping, TablesIn
  <2>2. ASSUME NEW c \in kept PROVE c \in Dropping(down, G)
    <3>1. c \notin up.adds
      BY <1>2, <2>2
    <3>2. c.table \notin TablesIn(up.creates)
      BY <1>2, <1>3, <2>2 DEF TablesIn
    <3> QED
      BY <1>2, <1>3, <3>1, <3>2 DEF Dropping
  <2> QED
    BY <2>1, <2>2
<1>6. Possible(down, G)
  <2>1. down.removes \subseteq G /\ down.drops \subseteq TablesIn(G)
    BY <1>2, <1>3 DEF TablesIn
  <2>2. TablesIn(down.creates) \cap TablesIn(kept) = {}
    BY <1>2, <1>3 DEF TablesIn
  <2>3. ASSUME NEW c \in down.adds, NEW d \in kept, d.table = c.table PROVE d.name # c.name
    BY <1>2, <1>3, <2>3
  <2> QED
    BY <1>2, <1>5, <2>1, <2>2, <2>3 DEF Possible
<1>7. Result(down, G) = F
  <2>1. Result(down, G) = kept \cup down.creates \cup up.removes
    BY <1>2, <1>5 DEF Result
  <2> QED
    BY <1>2, <1>3, <2>1
<1> QED
  BY <1>1, <1>4, <1>6, <1>7

-----------------------------------------------------------------------------
(* The cells of the tables *)

LEMMA CellsAre ==
    ASSUME NEW t, NEW k, NEW N
    PROVE  /\ \A c \in Cells(t, k, N) : c.table = t /\ c.kind = k /\ c.name \in N
           /\ \A c, d \in Cells(t, k, N) : c.name = d.name => c = d
BY DEF Cells

\* Columns and keys of two such sets, none of which has a name of the other's.
Apart(S, T) == \A c \in S, d \in T : c.table = d.table => c.name # d.name

LEMMA CellsKeyed == ASSUME NEW t, NEW k, NEW N PROVE NameKey(Cells(t, k, N))
BY CellsAre DEF NameKey

LEMMA KeyedTogether ==
    ASSUME NEW S, NEW T, NameKey(S), NameKey(T), Apart(S, T)
    PROVE  NameKey(S \cup T)
BY DEF NameKey, Apart

LEMMA KeyedAfter ==
    ASSUME NEW up, NEW down, NEW F, Undoable(up, down, F),
           NameKey(up.creates), NameKey(up.adds)
    PROVE  NameKey(Result(up, F))
<1>1. PICK kept, G : kept = Dropping(up, F) /\ G = Result(up, F)
  OBVIOUS
<1>2. kept \subseteq F /\ G = kept \cup up.creates \cup up.adds
  BY <1>1 DEF Result, Dropping
<1>3. /\ TablesIn(up.creates) \cap TablesIn(F) = {}
      /\ \A c \in up.adds : /\ c.table \in TablesIn(kept)
                            /\ \A d \in kept : d.table = c.table => d.name # c.name
      /\ NameKey(F)
  BY <1>1 DEF Undoable
<1>4. NameKey(kept)
  BY <1>2, <1>3 DEF NameKey
<1>5. Apart(kept, up.creates) /\ Apart(up.adds, up.creates)
  BY <1>2, <1>3 DEF Apart, TablesIn
<1>6. Apart(kept, up.adds)
  BY <1>3 DEF Apart
<1> QED
  BY <1>1, <1>2, <1>4, <1>5, <1>6 DEF NameKey, Apart

Among(S, X) == \A c \in S : c.table \in X

\* New tables and columns can be dropped again.
LEMMA AddedIsUndone ==
    ASSUME NEW F, NEW tables, NEW columns, NameKey(F),
           TablesIn(tables) \cap TablesIn(F) = {}, TablesIn(columns) \subseteq TablesIn(F),
                Apart(columns, F)
    PROVE  LET up == Change(tables, columns, {}, {})
           IN  /\ Undoable(up, Change({}, {}, columns, TablesIn(tables)), F)
               /\ Result(up, F) = F \cup tables \cup columns
<1>1. PICK up, down : /\ up = Change(tables, columns, {}, {})
                      /\ down = Change({}, {}, columns, TablesIn(tables))
  OBVIOUS
<1>2. /\ up.creates = tables /\ up.adds = columns /\ up.removes = {} /\ up.drops = {}
      /\ down.creates = {} /\ down.adds = {} /\ down.removes = columns
      /\ down.drops = TablesIn(tables)
  BY <1>1 DEF Change
<1>3. Dropping(up, F) = F
  BY <1>2 DEF Dropping
<1>4. Undoable(up, down, F)
  BY <1>2, <1>3 DEF Undoable, Apart, TablesIn
<1> QED
  BY <1>1, <1>2, <1>3, <1>4 DEF Result

\* Columns and keys can be exchanged.
LEMMA SwappedIsUndone ==
    ASSUME NEW kept, NEW old, NEW new, NameKey(kept \cup old), (\A c \in old : c \notin kept),
           TablesIn(old) \subseteq TablesIn(kept), TablesIn(new) \subseteq TablesIn(kept),
           Apart(new, kept)
    PROVE  /\ Undoable(Swap(old, new), Swap(new, old), kept \cup old)
           /\ Result(Swap(old, new), kept \cup old) = kept \cup new
<1>1. PICK up, down : up = Swap(old, new) /\ down = Swap(new, old)
  OBVIOUS
<1>2. /\ up.creates = {} /\ up.adds = new /\ up.removes = old /\ up.drops = {}
      /\ down.creates = {} /\ down.adds = old /\ down.removes = new /\ down.drops = {}
  BY <1>1 DEF Swap, Change
<1>3. Dropping(up, kept \cup old) = kept
  BY <1>2 DEF Dropping
<1>4. TablesIn({}) = {}
  BY DEF TablesIn
<1>5. Undoable(up, down, kept \cup old)
  BY <1>2, <1>3, <1>4 DEF Undoable, Apart, TablesIn
<1> QED
  BY <1>1, <1>2, <1>3, <1>5 DEF Result

\* A table can be dropped, and created again as it was.
LEMMA DroppedIsUndone ==
    ASSUME NEW rest, NEW S, NEW t, TablesIn(S) = {t}, (\A c \in rest : c.table # t),
           NameKey(rest \cup S)
    PROVE  /\ Undoable(DropTables({t}), Creating(S), rest \cup S)
           /\ Result(DropTables({t}), rest \cup S) = rest
<1>1. PICK up, down : up = DropTables({t}) /\ down = Creating(S)
  OBVIOUS
<1>2. /\ up.creates = {} /\ up.adds = {} /\ up.removes = {} /\ up.drops = {t}
      /\ down.creates = S /\ down.adds = {} /\ down.removes = {} /\ down.drops = {}
  BY <1>1 DEF DropTables, Creating, Change
<1>3. (\A c \in S : c.table = t) /\ (\A c \in rest : c.table # t)
  BY DEF TablesIn
<1>4. Dropping(up, rest \cup S) = rest
  BY <1>2, <1>3 DEF Dropping
<1>5. TablesIn({}) = {} /\ t \in TablesIn(rest \cup S)
  BY DEF TablesIn
<1>6. S = {c \in rest \cup S : c.table \in up.drops}
  BY <1>2, <1>3
<1>7. Undoable(up, down, rest \cup S)
  BY <1>2, <1>4, <1>5, <1>6 DEF Undoable
<1> QED
  BY <1>1, <1>2, <1>4, <1>7 DEF Result

-----------------------------------------------------------------------------
(* The schemas of the revisions *)

\* All cells are of a table, and have names of a set.
Named(S, t, N) == S # {} /\ \A c \in S : c.table = t /\ c.name \in N

LEMMA NamedCells ==
    /\ \A t, k, N : N # {} => Named(Cells(t, k, N), t, N)
    /\ \A S, T, t, N, M : Named(S, t, N) /\ Named(T, t, M) => Named(S \cup T, t, N \cup M)
<1>1. ASSUME NEW t, NEW k, NEW N, N # {} PROVE Named(Cells(t, k, N), t, N)
  <2>1. PICK n \in N : TRUE
    BY <1>1
  <2>2. [table |-> t, kind |-> k, name |-> n] \in Cells(t, k, N)
    BY DEF Cells
  <2> QED
    BY <2>2, CellsAre DEF Named
<1> QED
  BY <1>1 DEF Named

LEMMA NamedApart ==
    ASSUME NEW S, NEW T, NEW t, NEW u, NEW N, NEW M, Named(S, t, N), Named(T, u, M),
           t # u \/ N \cap M = {}
    PROVE  Apart(S, T) /\ S \cap T = {}
BY DEF Named, Apart

LEMMA TablesOf ==
    /\ TablesIn({}) = {}
    /\ \A S, t, N : Named(S, t, N) => TablesIn(S) = {t}
    /\ \A S, T : TablesIn(S \cup T) = TablesIn(S) \cup TablesIn(T)
<1>1. ASSUME NEW S, NEW t, NEW N, Named(S, t, N) PROVE TablesIn(S) = {t}
  <2>1. S # {} /\ \A c \in S : c.table = t
    BY <1>1 DEF Named
  <2> QED
    BY <2>1 DEF TablesIn
<1>2. \A S, T : TablesIn(S \cup T) = TablesIn(S) \cup TablesIn(T)
  BY DEF TablesIn
<1>3. TablesIn({}) = {}
  BY DEF TablesIn
<1> QED
  BY <1>1, <1>2, <1>3

\* What the tables of the first revision keep, and what they lose.
ConsentColumns  == Required("consent", {"user_key", "notice_version", "language", "ts"})
EventColumns ==
    UNION { Required("check_event", {"id", "user_key", "ts", "input_type", "language", "rule_ids",
                                     "no_signal", "status", "latency_ms", "safety_blocked"}),
            Optional("check_event", {"error_class", "ocr_confidence", "ocr_ms", "llm_ms",
                                     "input_tokens", "output_tokens", "cost_usd"}),
            PrimaryKey("check_event", "(id)") }
FeedbackColumns == Required("feedback", {"check_id", "usefulness", "ts"})
     \cup PrimaryKey("feedback", "(check_id)")
RateColumns     == Required("rate_limit", {"user_key", "day", "count"})
LogColumns ==
    UNION { Required("deletion_log", {"id", "user_key", "requested_ts"}),
            Optional("deletion_log", {"completed_ts"}),
            PrimaryKey("deletion_log", "(id)") }
Answer(kind)    == Cells("feedback", kind, {"next_action"})

Kept == ConsentColumns \cup EventColumns \cup FeedbackColumns \cup RateColumns \cup LogColumns

ConsentFace == PrimaryKey("consent", "(user_key, face)") \cup Face("consent")
RateFace    == PrimaryKey("rate_limit", "(user_key, face, day)") \cup Face("rate_limit")
Faces       == ConsentFace \cup RateFace \cup Face("check_event")
ConsentKey  == PrimaryKey("consent", "(user_key)")
RateScope   == Required("rate_limit", {"scope"}) \cup PrimaryKey("rate_limit", "(user_key, scope, day)")
Scoped      == ConsentKey \cup RateScope

LEMMA CellsSplit ==
    ASSUME NEW t, NEW k, NEW N, NEW M
    PROVE  Cells(t, k, N \cup M) = Cells(t, k, N) \cup Cells(t, k, M)
BY DEF Cells

LEMMA InitialTablesAre == InitialTables = Kept \cup Faces \cup Answer("required")
<1>1. Required("consent", {"user_key", "face", "notice_version", "language", "ts"})
        = ConsentColumns \cup Face("consent")
  <2>1. {"user_key", "face", "notice_version", "language", "ts"}
          = {"user_key", "notice_version", "language", "ts"} \cup {"face"}
    OBVIOUS
  <2> QED
    BY <2>1, CellsSplit DEF ConsentColumns, Face, Required
<1>2. Required("rate_limit", {"user_key", "face", "day", "count"}) = RateColumns \cup Face("rate_limit")
  <2>1. {"user_key", "face", "day", "count"} = {"user_key", "day", "count"} \cup {"face"}
    OBVIOUS
  <2> QED
    BY <2>1, CellsSplit DEF RateColumns, Face, Required
<1>3. Required("feedback", {"check_id", "usefulness", "next_action", "ts"})
        = Required("feedback", {"check_id", "usefulness", "ts"}) \cup Answer("required")
  <2>1. {"check_id", "usefulness", "next_action", "ts"}
          = {"check_id", "usefulness", "ts"} \cup {"next_action"}
    OBVIOUS
  <2> QED
    BY <2>1, CellsSplit DEF Answer, Required
<1>4. Required("check_event", {"id", "user_key", "face", "ts", "input_type", "language",
                               "rule_ids", "no_signal", "status", "latency_ms", "safety_blocked"})
        = Required("check_event", {"id", "user_key", "ts", "input_type", "language", "rule_ids",
                                   "no_signal", "status", "latency_ms", "safety_blocked"})
          \cup Face("check_event")
  <2>1. {"id", "user_key", "face", "ts", "input_type", "language",
         "rule_ids", "no_signal", "status", "latency_ms", "safety_blocked"}
          = {"id", "user_key", "ts", "input_type", "language", "rule_ids",
             "no_signal", "status", "latency_ms", "safety_blocked"} \cup {"face"}
    OBVIOUS
  <2> QED
    BY <2>1, CellsSplit DEF Face, Required
<1>5. PICK a, b, c, d, e, f, g, h, i, j, k, l :
        /\ a = Required("consent", {"user_key", "face", "notice_version", "language", "ts"})
        /\ b = PrimaryKey("consent", "(user_key, face)")
        /\ c = Required("check_event", {"id", "user_key", "face", "ts", "input_type", "language",
                               "rule_ids", "no_signal", "status", "latency_ms", "safety_blocked"})
        /\ d = Optional("check_event", {"error_class", "ocr_confidence", "ocr_ms", "llm_ms",
                                     "input_tokens", "output_tokens", "cost_usd"})
        /\ e = PrimaryKey("check_event", "(id)")
        /\ f = Required("feedback", {"check_id", "usefulness", "next_action", "ts"})
        /\ g = PrimaryKey("feedback", "(check_id)")
        /\ h = Required("rate_limit", {"user_key", "face", "day", "count"})
        /\ i = PrimaryKey("rate_limit", "(user_key, face, day)")
        /\ j = Required("deletion_log", {"id", "user_key", "requested_ts"})
        /\ k = Optional("deletion_log", {"completed_ts"})
        /\ l = PrimaryKey("deletion_log", "(id)")
  OBVIOUS
<1>6. InitialTables = UNION {a, b, c, d, e, f, g, h, i, j, k, l}
  BY <1>5, Zenon DEF InitialTables
<1>7. UNION {a, b, c, d, e, f, g, h, i, j, k, l}
        = a \cup b \cup c \cup d \cup e \cup f \cup g \cup h \cup i \cup j \cup k \cup l
  OBVIOUS
<1>8. LogColumns = UNION {j, k, l}
  BY <1>5, Zenon DEF LogColumns
<1>9. EventColumns = UNION {Required("check_event",
        {"id", "user_key", "ts", "input_type", "language", "rule_ids",
                                   "no_signal", "status", "latency_ms", "safety_blocked"}), d, e}
  BY <1>5, Zenon DEF EventColumns
<1>10. PICK m : m = Required("check_event",
         {"id", "user_key", "ts", "input_type", "language", "rule_ids",
                                   "no_signal", "status", "latency_ms", "safety_blocked"})
  OBVIOUS
<1>11. c = m \cup Face("check_event") /\ EventColumns = m \cup d \cup e /\ LogColumns = j \cup k \cup l
  <2>1. UNION {m, d, e} = m \cup d \cup e /\ UNION {j, k, l} = j \cup k \cup l
    OBVIOUS
  <2> QED
    BY <1>4, <1>5, <1>8, <1>9, <1>10, <2>1, Zenon
<1>12. PICK n : n = Required("feedback", {"check_id", "usefulness", "ts"})
  OBVIOUS
<1>13. /\ a = ConsentColumns \cup Face("consent") /\ h = RateColumns \cup Face("rate_limit")
       /\ f = n \cup Answer("required") /\ FeedbackColumns = n \cup g
       /\ ConsentFace = b \cup Face("consent") /\ RateFace = i \cup Face("rate_limit")
  BY <1>1, <1>2, <1>3, <1>5, <1>12, Zenon DEF FeedbackColumns, ConsentFace, RateFace
<1>14. Kept = ConsentColumns \cup EventColumns \cup FeedbackColumns \cup RateColumns \cup LogColumns
       /\ Faces = ConsentFace \cup RateFace \cup Face("check_event")
  BY Zenon DEF Kept, Faces
<1> HIDE DEF Kept, Faces
<1> QED
  BY <1>6, <1>7, <1>11, <1>13, <1>14

\* Revision i has a schema in which names identify columns and keys.
Reached(i, S) == Fresh[i] = S /\ NameKey(S)

LEMMA NextRevision ==
    ASSUME NEW i \in 1 .. Head, NEW up, NEW down, NEW F, NEW G, Reached(i - 1, F),
           Up(i) = up, Down(i) = down, Undoable(up, down, F), Result(up, F) = G,
           NameKey(up.creates), NameKey(up.adds)
    PROVE  Reached(i, G) /\ RevisionIsSound(i)
<1>1. Fresh[i - 1] = F /\ Fresh[i] = G
  BY FreshIs DEF Reached
<1>2. NameKey(G)
  BY KeyedAfter
<1>3. Possible(up, F) /\ Possible(down, G) /\ Result(down, G) = F
  BY UndoneBySteps
<1> QED
  BY <1>1, <1>2, <1>3 DEF Reached, RevisionIsSound

LEMMA MigrationOf == \A u, d : Migration(u, d).up = u /\ Migration(u, d).down = d
BY DEF Migration

LEMMA ChangesAre ==
    /\ Up(1) = Creating(InitialTables) /\ Down(1) = DropTables(TablesIn(InitialTables))
    /\ Up(2) = Swap(Answer("required"), Answer("optional"))
    /\ Down(2) = Swap(Answer("optional"), Answer("required"))
    /\ Up(3) = Creating(StorySubmission \cup Face("story_submission"))
    /\ Down(3) = DropTables({"story_submission"})
    /\ Up(4) = Swap({}, KnowledgeColumns) /\ Down(4) = Swap(KnowledgeColumns, {})
    /\ Up(5) = Change(UrlBlocklist, RouterColumn, {}, {})
    /\ Down(5) = Change({}, {}, RouterColumn, {"url_blocklist"})
    /\ Up(6) = Creating(EditorialPost(UzLatn \cup UzCyrl \cup Ru))
    /\ Down(6) = DropTables({"editorial_post"})
    /\ Up(7) = Swap(Faces \cup Face("story_submission"), Scoped)
    /\ Down(7) = Swap(Scoped, Faces \cup Face("story_submission"))
    /\ Up(8) = Swap(UzCyrl, {}) /\ Down(8) = Swap({}, UzCyrl)
    /\ Up(9) = Creating(RuleOverride) /\ Down(9) = DropTables({"rule_override"})
    /\ Up(10) = Creating(KnowledgeCardOverride) /\ Down(10) = DropTables({"knowledge_card_override"})
    /\ Up(11) = Swap({}, CoverColumns) /\ Down(11) = Swap(CoverColumns, {})
    /\ Up(12) = Swap({}, PrecisionColumns) /\ Down(12) = Swap(PrecisionColumns, {})
    /\ Up(13) = DropTables({"story_submission"}) /\ Down(13) = Creating(StorySubmission)
    /\ Up(14) = DropTables({"url_blocklist"}) /\ Down(14) = Creating(UrlBlocklist)
<1>1. /\ Migrations[1] = InitialSchema /\ Migrations[2] = FeedbackNullable
      /\ Migrations[3] = StorySubmissions /\ Migrations[4] = KnowledgeMetadata
      /\ Migrations[5] = ImprovementBacklog /\ Migrations[6] = EditorialPosts
      /\ Migrations[7] = DropFace /\ Migrations[8] = DropEditorialUzCyrl
      /\ Migrations[9] = RuleOverrides /\ Migrations[10] = KnowledgeCardOverrides
      /\ Migrations[11] = EditorialPostCovers /\ Migrations[12] = RulePrecisionFields
      /\ Migrations[13] = DropStorySubmission /\ Migrations[14] = DropUrlBlocklist
  BY DEF Migrations
<1>2. /\ Up(1) = Creating(InitialTables) /\ Down(1) = DropTables(TablesIn(InitialTables))
  BY <1>1, MigrationOf DEF Up, Down, InitialSchema
<1>3. /\ Up(2) = Swap(Answer("required"), Answer("optional"))
      /\ Down(2) = Swap(Answer("optional"), Answer("required"))
  BY <1>1, MigrationOf DEF Up, Down, FeedbackNullable, Answer, Required, Optional
<1>4. /\ Up(3) = Creating(StorySubmission \cup Face("story_submission"))
      /\ Down(3) = DropTables({"story_submission"})
  BY <1>1, MigrationOf DEF Up, Down, StorySubmissions
<1>5. Up(4) = Swap({}, KnowledgeColumns) /\ Down(4) = Swap(KnowledgeColumns, {})
  BY <1>1, MigrationOf DEF Up, Down, KnowledgeMetadata
<1>6. /\ Up(5) = Change(UrlBlocklist, RouterColumn, {}, {})
      /\ Down(5) = Change({}, {}, RouterColumn, {"url_blocklist"})
  BY <1>1, MigrationOf DEF Up, Down, ImprovementBacklog
<1>7. /\ Up(6) = Creating(EditorialPost(UzLatn \cup UzCyrl \cup Ru))
      /\ Down(6) = DropTables({"editorial_post"})
  BY <1>1, MigrationOf DEF Up, Down, EditorialPosts
<1>8. /\ Up(7) = Swap(Faces \cup Face("story_submission"), Scoped)
      /\ Down(7) = Swap(Scoped, Faces \cup Face("story_submission"))
  <2>1. PICK a, b, c, d, e, f, g, h, i :
          /\ a = PrimaryKey("consent", "(user_key, face)") /\ b = Face("consent")
          /\ c = PrimaryKey("rate_limit", "(user_key, face, day)") /\ d = Face("rate_limit")
          /\ e = Face("check_event") /\ f = Face("story_submission")
          /\ g = PrimaryKey("consent", "(user_key)") /\ h = Required("rate_limit", {"scope"})
          /\ i = PrimaryKey("rate_limit", "(user_key, scope, day)")
    OBVIOUS
  <2>2. UNION {a, b, c, d, e, f} = ((a \cup b) \cup (c \cup d) \cup e) \cup f
        /\ UNION {g, h, i} = g \cup (h \cup i)
    OBVIOUS
  <2>3. Faces \cup f = ((a \cup b) \cup (c \cup d) \cup e) \cup f /\ Scoped = g \cup (h \cup i)
    BY <2>1, Zenon DEF Faces, ConsentFace, RateFace, Scoped, ConsentKey, RateScope
  <2>4. DropFace = Migration(Swap(UNION {a, b, c, d, e, f}, UNION {g, h, i}),
                             Swap(UNION {g, h, i}, UNION {a, b, c, d, e, f}))
    BY <2>1, Zenon DEF DropFace
  <2>5. DropFace = Migration(Swap(Faces \cup f, Scoped), Swap(Scoped, Faces \cup f))
    BY <2>2, <2>3, <2>4, Zenon
  <2>6. Up(7) = DropFace.up /\ Down(7) = DropFace.down
    BY <1>1 DEF Up, Down
  <2> QED
    BY <2>1, <2>5, <2>6, MigrationOf, Zenon
<1>9. Up(8) = Swap(UzCyrl, {}) /\ Down(8) = Swap({}, UzCyrl)
  BY <1>1, MigrationOf DEF Up, Down, DropEditorialUzCyrl
<1>10. Up(9) = Creating(RuleOverride) /\ Down(9) = DropTables({"rule_override"})
  BY <1>1, MigrationOf DEF Up, Down, RuleOverrides
<1>11. /\ Up(10) = Creating(KnowledgeCardOverride)
       /\ Down(10) = DropTables({"knowledge_card_override"})
  BY <1>1, MigrationOf DEF Up, Down, KnowledgeCardOverrides
<1>12. Up(11) = Swap({}, CoverColumns) /\ Down(11) = Swap(CoverColumns, {})
  BY <1>1, MigrationOf DEF Up, Down, EditorialPostCovers
<1>13. Up(12) = Swap({}, PrecisionColumns) /\ Down(12) = Swap(PrecisionColumns, {})
  BY <1>1, MigrationOf DEF Up, Down, RulePrecisionFields
<1>14. /\ Up(13) = DropTables({"story_submission"}) /\ Down(13) = Creating(StorySubmission)
       /\ Up(14) = DropTables({"url_blocklist"}) /\ Down(14) = Creating(UrlBlocklist)
  BY <1>1, MigrationOf DEF Up, Down, DropStorySubmission, DropUrlBlocklist
<1> QED
  BY <1>2, <1>3, <1>4, <1>5, <1>6, <1>7, <1>8, <1>9, <1>10, <1>11, <1>12, <1>13, <1>14

-----------------------------------------------------------------------------
(* The cells of each piece of a schema *)

PostColumns ==
    UNION { Required("editorial_post", {"id", "slug", "category", "state", "created_ts", "updated_ts"}),
            Optional("editorial_post", {"published_ts"}),
            PrimaryKey("editorial_post", "(id)"), Unique("editorial_post", "(slug)") }

LEMMA EditorialPostIs == \A texts : EditorialPost(texts) = PostColumns \cup texts
<1>1. PICK a, b, c, d :
        /\ a = Required("editorial_post", {"id", "slug", "category", "state", "created_ts",
             "updated_ts"})
        /\ b = Optional("editorial_post", {"published_ts"})
        /\ c = PrimaryKey("editorial_post", "(id)") /\ d = Unique("editorial_post", "(slug)")
  OBVIOUS
<1>2. ASSUME NEW texts PROVE EditorialPost(texts) = PostColumns \cup texts
  <2>0. a \cup b \cup texts \cup c \cup d = (a \cup b \cup c \cup d) \cup texts
    OBVIOUS
  <2>1. EditorialPost(texts) = UNION {a, b, texts, c, d} /\ PostColumns = UNION {a, b, c, d}
    BY <1>1, Zenon DEF EditorialPost, PostColumns
  <2>2. UNION {a, b, texts, c, d} = a \cup b \cup texts \cup c \cup d
        /\ UNION {a, b, c, d} = a \cup b \cup c \cup d
    OBVIOUS
  <2> QED
    BY <2>0, <2>1, <2>2, Zenon
<1> QED
  BY <1>2

EventNames == {"id", "user_key", "ts", "input_type", "language", "rule_ids",
               "no_signal", "status", "latency_ms", "safety_blocked",
               "error_class", "ocr_confidence", "ocr_ms", "llm_ms",
               "input_tokens", "output_tokens", "cost_usd", "(id)"}
KnowledgeNames == {"knowledge_card_ids", "reviewed_case_ids", "retrieval_mode", "retrieval_status",
     "kb_version"}
StoryNames == {"id", "user_key", "language", "minimized_text", "status", "created_ts",
     "reviewed_ts", "(id)"}
PostNames == {"id", "slug", "category", "state", "created_ts", "updated_ts", "published_ts",
     "(id)", "(slug)"}
RuleNames == {"id", "rule_id", "family", "description", "message_key", "severity",
              "patterns", "disabled", "created_ts", "updated_ts", "emits_signal", "(id)", "(rule_id)"}
CardNames == {"id", "card_id", "card_version", "status", "reviewer", "trigger_rule_ids",
              "trigger_signal_kinds", "retrieval_aliases", "mechanism", "red_flags",
              "verify_steps", "questions", "reviewed_case_ids", "created_ts", "updated_ts",
              "(id)", "(card_id)"}

\* One form for each name, all in one table.
Piece(S, t, N) == Named(S, t, N) /\ NameKey(S)

LEMMA PieceIs == \A t, k, N : N # {} => Piece(Cells(t, k, N), t, N)
BY NamedCells, CellsKeyed DEF Piece

LEMMA PiecesTogether ==
    ASSUME NEW S, NEW T, NEW t, NEW N, NEW M, Piece(S, t, N), Piece(T, t, M), N \cap M = {}
    PROVE  Piece(S \cup T, t, N \cup M)
<1>1. Named(S \cup T, t, N \cup M)
  BY NamedCells DEF Piece
<1>2. NameKey(S \cup T)
  BY NamedApart, KeyedTogether DEF Piece
<1> QED
  BY <1>1, <1>2 DEF Piece

LEMMA UserPieces ==
    /\ Piece(ConsentColumns, "consent", {"user_key", "notice_version", "language", "ts"})
    /\ Piece(RateColumns, "rate_limit", {"user_key", "day", "count"})
    /\ Piece(FeedbackColumns, "feedback", {"check_id", "usefulness", "ts", "(check_id)"})
    /\ Piece(LogColumns, "deletion_log", {"id", "user_key", "requested_ts", "completed_ts", "(id)"})
    /\ Piece(EventColumns, "check_event", EventNames)
    /\ \A kind : Piece(Answer(kind), "feedback", {"next_action"})
    /\ \A t : Piece(Face(t), t, {"face"})
    /\ Piece(ConsentFace, "consent", {"(user_key, face)", "face"})
    /\ Piece(RateFace, "rate_limit", {"(user_key, face, day)", "face"})
    /\ Piece(ConsentKey, "consent", {"(user_key)"})
    /\ Piece(RateScope, "rate_limit", {"scope", "(user_key, scope, day)"})
    /\ Piece(KnowledgeColumns, "check_event", KnowledgeNames)
    /\ Piece(RouterColumn, "check_event", {"router_status"})
<1>1. Piece(ConsentColumns, "consent", {"user_key", "notice_version", "language", "ts"})
      /\ Piece(RateColumns, "rate_limit", {"user_key", "day", "count"})
      /\ Piece(ConsentKey, "consent", {"(user_key)"})
      /\ Piece(RouterColumn, "check_event", {"router_status"})
  BY PieceIs DEF ConsentColumns, RateColumns, ConsentKey, RouterColumn, Required, Optional, PrimaryKey
<1>2. (\A kind : Piece(Answer(kind), "feedback", {"next_action"}))
      /\ (\A t : Piece(Face(t), t, {"face"}))
  BY PieceIs DEF Answer, Face, Required
<1>3. Piece(FeedbackColumns, "feedback", {"check_id", "usefulness", "ts", "(check_id)"})
  <2>1. Piece(Required("feedback", {"check_id", "usefulness", "ts"}), "feedback",
              {"check_id", "usefulness", "ts"})
        /\ Piece(PrimaryKey("feedback", "(check_id)"), "feedback", {"(check_id)"})
    BY PieceIs DEF Required, PrimaryKey
  <2>2. {"check_id", "usefulness", "ts"} \cap {"(check_id)"} = {}
        /\ {"check_id", "usefulness", "ts"} \cup {"(check_id)"} = {"check_id", "usefulness", "ts",
             "(check_id)"}
    OBVIOUS
  <2>3. Piece(Required("feedback", {"check_id", "usefulness", "ts"})
                \cup PrimaryKey("feedback", "(check_id)"),
              "feedback", {"check_id", "usefulness", "ts"} \cup {"(check_id)"})
    BY <2>1, <2>2, PiecesTogether, Zenon
  <2> QED
    BY <2>2, <2>3, Zenon DEF FeedbackColumns
<1>4. Piece(LogColumns, "deletion_log", {"id", "user_key", "requested_ts", "completed_ts", "(id)"})
  <2>1. PICK a, b, c :
          /\ a = Required("deletion_log", {"id", "user_key", "requested_ts"})
          /\ b = Optional("deletion_log", {"completed_ts"})
          /\ c = PrimaryKey("deletion_log", "(id)")
    OBVIOUS
  <2>2. PICK na, nb, nc :
          /\ na = {"id", "user_key", "requested_ts"}
          /\ nb = {"completed_ts"}
          /\ nc = {"(id)"}
    OBVIOUS
  <2>3. Piece(a, "deletion_log", na) /\ Piece(b, "deletion_log", nb) /\ Piece(c, "deletion_log", nc)
    BY <2>1, <2>2, PieceIs DEF Required, Optional, PrimaryKey, Unique
  <2>4. na \cap nb = {}
    BY <2>2
  <2>5. Piece(a \cup b, "deletion_log", na \cup nb)
    BY <2>3, <2>4, PiecesTogether, Zenon
  <2>6. (na \cup nb) \cap nc = {}
    BY <2>2
  <2>7. Piece(a \cup b \cup c, "deletion_log", na \cup nb \cup nc)
    BY <2>3, <2>5, <2>6, PiecesTogether, Zenon
  <2>8. na \cup nb \cup nc = {"id", "user_key", "requested_ts", "completed_ts", "(id)"}
    BY <2>2
  <2>9. LogColumns = a \cup b \cup c
    <3>1. UNION {a, b, c} = a \cup b \cup c
      OBVIOUS
    <3> QED
      BY <2>1, <3>1, Zenon DEF LogColumns
  <2> QED
    BY <2>7, <2>8, <2>9, Zenon
<1>5. Piece(EventColumns, "check_event", EventNames)
  <2>1. PICK a, b, c :
          /\ a = Required("check_event", {"id", "user_key", "ts", "input_type", "language",
                  "rule_ids", "no_signal", "status", "latency_ms", "safety_blocked"})
          /\ b = Optional("check_event", {"error_class", "ocr_confidence", "ocr_ms", "llm_ms",
                  "input_tokens", "output_tokens", "cost_usd"})
          /\ c = PrimaryKey("check_event", "(id)")
    OBVIOUS
  <2>2. PICK na, nb, nc :
          /\ na = {"id", "user_key", "ts", "input_type", "language", "rule_ids", "no_signal",
                  "status", "latency_ms", "safety_blocked"}
          /\ nb = {"error_class", "ocr_confidence", "ocr_ms", "llm_ms", "input_tokens",
                  "output_tokens", "cost_usd"}
          /\ nc = {"(id)"}
    OBVIOUS
  <2>3. Piece(a, "check_event", na) /\ Piece(b, "check_event", nb) /\ Piece(c, "check_event", nc)
    BY <2>1, <2>2, PieceIs DEF Required, Optional, PrimaryKey, Unique
  <2>4. na \cap nb = {}
    BY <2>2
  <2>5. Piece(a \cup b, "check_event", na \cup nb)
    BY <2>3, <2>4, PiecesTogether, Zenon
  <2>6. (na \cup nb) \cap nc = {}
    BY <2>2
  <2>7. Piece(a \cup b \cup c, "check_event", na \cup nb \cup nc)
    BY <2>3, <2>5, <2>6, PiecesTogether, Zenon
  <2>8. na \cup nb \cup nc = EventNames
    BY <2>2 DEF EventNames
  <2>9. EventColumns = a \cup b \cup c
    <3>1. UNION {a, b, c} = a \cup b \cup c
      OBVIOUS
    <3> QED
      BY <2>1, <3>1, Zenon DEF EventColumns
  <2> QED
    BY <2>7, <2>8, <2>9, Zenon
<1>6. Piece(ConsentFace, "consent", {"(user_key, face)", "face"})
  <2>1. {"(user_key, face)"} \cap {"face"} = {} /\ {"(user_key, face)"} \cup {"face"}
          = {"(user_key, face)", "face"}
    OBVIOUS
  <2>2. Piece(PrimaryKey("consent", "(user_key, face)"), "consent", {"(user_key, face)"})
          /\ Piece(Face("consent"), "consent", {"face"})
    BY PieceIs DEF PrimaryKey, Face, Required
  <2>3. Piece(ConsentFace, "consent", {"(user_key, face)"} \cup {"face"})
    BY <2>1, <2>2, PiecesTogether, Zenon DEF ConsentFace
  <2> QED
    BY <2>1, <2>3, Zenon
<1>7. Piece(RateFace, "rate_limit", {"(user_key, face, day)", "face"})
  <2>1. {"(user_key, face, day)"} \cap {"face"} = {} /\ {"(user_key, face, day)"} \cup {"face"}
          = {"(user_key, face, day)", "face"}
    OBVIOUS
  <2>2. Piece(PrimaryKey("rate_limit", "(user_key, face, day)"), "rate_limit",
              {"(user_key, face, day)"})
        /\ Piece(Face("rate_limit"), "rate_limit", {"face"})
    BY PieceIs DEF PrimaryKey, Face, Required
  <2>3. Piece(RateFace, "rate_limit", {"(user_key, face, day)"} \cup {"face"})
    BY <2>1, <2>2, PiecesTogether, Zenon DEF RateFace
  <2> QED
    BY <2>1, <2>3, Zenon
<1>8. Piece(RateScope, "rate_limit", {"scope", "(user_key, scope, day)"})
  <2>1. PICK a, b :
          /\ a = Required("rate_limit", {"scope"})
          /\ b = PrimaryKey("rate_limit", "(user_key, scope, day)")
    OBVIOUS
  <2>2. PICK na, nb :
          /\ na = {"scope"}
          /\ nb = {"(user_key, scope, day)"}
    OBVIOUS
  <2>3. Piece(a, "rate_limit", na) /\ Piece(b, "rate_limit", nb)
    BY <2>1, <2>2, PieceIs DEF Required, Optional, PrimaryKey, Unique
  <2>4. na \cap nb = {}
    BY <2>2
  <2>5. Piece(a \cup b, "rate_limit", na \cup nb)
    BY <2>3, <2>4, PiecesTogether, Zenon
  <2>6. na \cup nb = {"scope", "(user_key, scope, day)"}
    BY <2>2
  <2>7. RateScope = a \cup b
    BY <2>1, Zenon DEF RateScope
  <2> QED
    BY <2>5, <2>6, <2>7, Zenon
<1>9. Piece(KnowledgeColumns, "check_event", KnowledgeNames)
  <2>1. PICK a, b :
          /\ a = Required("check_event", {"knowledge_card_ids", "reviewed_case_ids"})
          /\ b = Optional("check_event", {"retrieval_mode", "retrieval_status", "kb_version"})
    OBVIOUS
  <2>2. PICK na, nb :
          /\ na = {"knowledge_card_ids", "reviewed_case_ids"}
          /\ nb = {"retrieval_mode", "retrieval_status", "kb_version"}
    OBVIOUS
  <2>3. Piece(a, "check_event", na) /\ Piece(b, "check_event", nb)
    BY <2>1, <2>2, PieceIs DEF Required, Optional, PrimaryKey, Unique
  <2>4. na \cap nb = {}
    BY <2>2
  <2>5. Piece(a \cup b, "check_event", na \cup nb)
    BY <2>3, <2>4, PiecesTogether, Zenon
  <2>6. na \cup nb = KnowledgeNames
    BY <2>2 DEF KnowledgeNames
  <2>7. KnowledgeColumns = a \cup b
    BY <2>1, Zenon DEF KnowledgeColumns
  <2> QED
    BY <2>5, <2>6, <2>7, Zenon
<1> QED
  BY <1>1, <1>2, <1>3, <1>4, <1>5, <1>6, <1>7, <1>8, <1>9

LEMMA ServicePieces ==
    /\ Piece(StorySubmission, "story_submission", StoryNames)
    /\ Piece(UrlBlocklist, "url_blocklist", {"domain_hash", "source", "first_seen", "last_seen",
         "(domain_hash, source)"})
    /\ Piece(PostColumns, "editorial_post", PostNames)
    /\ Piece(UzLatn, "editorial_post", {"title_uz_latn", "summary_uz_latn", "article_uz_latn"})
    /\ Piece(UzCyrl, "editorial_post", {"title_uz_cyrl", "summary_uz_cyrl", "article_uz_cyrl"})
    /\ Piece(Ru, "editorial_post", {"title_ru", "summary_ru", "article_ru"})
    /\ Piece(CoverColumns, "editorial_post", {"cover_bytes", "cover_media_type",
         "cover_alt_uz_latn", "cover_alt_ru"})
    /\ Piece(RuleOverride, "rule_override", RuleNames)
    /\ Piece(PrecisionColumns, "rule_override", {"exclude_patterns", "match_mode", "requires"})
    /\ Piece(KnowledgeCardOverride, "knowledge_card_override", CardNames)
<1>1. /\ Piece(UzLatn, "editorial_post", {"title_uz_latn", "summary_uz_latn", "article_uz_latn"})
      /\ Piece(UzCyrl, "editorial_post", {"title_uz_cyrl", "summary_uz_cyrl", "article_uz_cyrl"})
      /\ Piece(Ru, "editorial_post", {"title_ru", "summary_ru", "article_ru"})
      /\ Piece(CoverColumns, "editorial_post", {"cover_bytes", "cover_media_type",
           "cover_alt_uz_latn", "cover_alt_ru"})
      /\ Piece(PrecisionColumns, "rule_override", {"exclude_patterns", "match_mode", "requires"})
  BY PieceIs DEF UzLatn, UzCyrl, Ru, CoverColumns, PrecisionColumns, Required, Optional
<1>2. Piece(StorySubmission, "story_submission", StoryNames)
  <2>1. PICK a, b, c :
          /\ a = Required("story_submission", {"id", "user_key", "language", "minimized_text",
                  "status", "created_ts"})
          /\ b = Optional("story_submission", {"reviewed_ts"})
          /\ c = PrimaryKey("story_submission", "(id)")
    OBVIOUS
  <2>2. PICK na, nb, nc :
          /\ na = {"id", "user_key", "language", "minimized_text", "status", "created_ts"}
          /\ nb = {"reviewed_ts"}
          /\ nc = {"(id)"}
    OBVIOUS
  <2>3. Piece(a, "story_submission", na) /\ Piece(b, "story_submission", nb)
        /\ Piece(c, "story_submission", nc)
    BY <2>1, <2>2, PieceIs DEF Required, Optional, PrimaryKey, Unique
  <2>4. na \cap nb = {}
    BY <2>2
  <2>5. Piece(a \cup b, "story_submission", na \cup nb)
    BY <2>3, <2>4, PiecesTogether, Zenon
  <2>6. (na \cup nb) \cap nc = {}
    BY <2>2
  <2>7. Piece(a \cup b \cup c, "story_submission", na \cup nb \cup nc)
    BY <2>3, <2>5, <2>6, PiecesTogether, Zenon
  <2>8. na \cup nb \cup nc = StoryNames
    BY <2>2 DEF StoryNames
  <2>9. StorySubmission = a \cup b \cup c
    BY <2>1, Zenon DEF StorySubmission
  <2> QED
    BY <2>7, <2>8, <2>9, Zenon
<1>3. Piece(UrlBlocklist, "url_blocklist", {"domain_hash", "source", "first_seen", "last_seen",
        "(domain_hash, source)"})
  <2>1. PICK a, b :
          /\ a = Required("url_blocklist", {"domain_hash", "source", "first_seen",
                  "last_seen"})
          /\ b = PrimaryKey("url_blocklist", "(domain_hash, source)")
    OBVIOUS
  <2>2. PICK na, nb :
          /\ na = {"domain_hash", "source", "first_seen", "last_seen"}
          /\ nb = {"(domain_hash, source)"}
    OBVIOUS
  <2>3. Piece(a, "url_blocklist", na) /\ Piece(b, "url_blocklist", nb)
    BY <2>1, <2>2, PieceIs DEF Required, Optional, PrimaryKey, Unique
  <2>4. na \cap nb = {}
    BY <2>2
  <2>5. Piece(a \cup b, "url_blocklist", na \cup nb)
    BY <2>3, <2>4, PiecesTogether, Zenon
  <2>6. na \cup nb = {"domain_hash", "source", "first_seen", "last_seen", "(domain_hash, source)"}
    BY <2>2
  <2>7. UrlBlocklist = a \cup b
    BY <2>1, Zenon DEF UrlBlocklist
  <2> QED
    BY <2>5, <2>6, <2>7, Zenon
<1>4. Piece(PostColumns, "editorial_post", PostNames)
  <2>1. PICK a, b, c, d :
          /\ a = Required("editorial_post", {"id", "slug", "category", "state", "created_ts",
                  "updated_ts"})
          /\ b = Optional("editorial_post", {"published_ts"})
          /\ c = PrimaryKey("editorial_post", "(id)")
          /\ d = Unique("editorial_post", "(slug)")
    OBVIOUS
  <2>2. PICK na, nb, nc, nd :
          /\ na = {"id", "slug", "category", "state", "created_ts", "updated_ts"}
          /\ nb = {"published_ts"}
          /\ nc = {"(id)"}
          /\ nd = {"(slug)"}
    OBVIOUS
  <2>3. Piece(a, "editorial_post", na) /\ Piece(b, "editorial_post", nb)
        /\ Piece(c, "editorial_post", nc) /\ Piece(d, "editorial_post", nd)
    BY <2>1, <2>2, PieceIs DEF Required, Optional, PrimaryKey, Unique
  <2>4. na \cap nb = {}
    BY <2>2
  <2>5. Piece(a \cup b, "editorial_post", na \cup nb)
    BY <2>3, <2>4, PiecesTogether, Zenon
  <2>6. (na \cup nb) \cap nc = {}
    BY <2>2
  <2>7. Piece(a \cup b \cup c, "editorial_post", na \cup nb \cup nc)
    BY <2>3, <2>5, <2>6, PiecesTogether, Zenon
  <2>8. (na \cup nb \cup nc) \cap nd = {}
    BY <2>2
  <2>9. Piece(a \cup b \cup c \cup d, "editorial_post", na \cup nb \cup nc \cup nd)
    BY <2>3, <2>7, <2>8, PiecesTogether, Zenon
  <2>10. na \cup nb \cup nc \cup nd = PostNames
    BY <2>2 DEF PostNames
  <2>11. PostColumns = a \cup b \cup c \cup d
    <3>1. UNION {a, b, c, d} = a \cup b \cup c \cup d
      OBVIOUS
    <3> QED
      BY <2>1, <3>1, Zenon DEF PostColumns
  <2> QED
    BY <2>9, <2>10, <2>11, Zenon
<1>5. Piece(RuleOverride, "rule_override", RuleNames)
  <2>1. PICK a, b, c, d :
          /\ a = Required("rule_override", {"id", "rule_id", "family", "description",
                  "message_key", "severity", "patterns", "disabled", "created_ts",
                  "updated_ts"})
          /\ b = Optional("rule_override", {"emits_signal"})
          /\ c = PrimaryKey("rule_override", "(id)")
          /\ d = Unique("rule_override", "(rule_id)")
    OBVIOUS
  <2>2. PICK na, nb, nc, nd :
          /\ na = {"id", "rule_id", "family", "description", "message_key", "severity",
                  "patterns", "disabled", "created_ts", "updated_ts"}
          /\ nb = {"emits_signal"}
          /\ nc = {"(id)"}
          /\ nd = {"(rule_id)"}
    OBVIOUS
  <2>3. Piece(a, "rule_override", na) /\ Piece(b, "rule_override", nb)
        /\ Piece(c, "rule_override", nc) /\ Piece(d, "rule_override", nd)
    BY <2>1, <2>2, PieceIs DEF Required, Optional, PrimaryKey, Unique
  <2>4. na \cap nb = {}
    BY <2>2
  <2>5. Piece(a \cup b, "rule_override", na \cup nb)
    BY <2>3, <2>4, PiecesTogether, Zenon
  <2>6. (na \cup nb) \cap nc = {}
    BY <2>2
  <2>7. Piece(a \cup b \cup c, "rule_override", na \cup nb \cup nc)
    BY <2>3, <2>5, <2>6, PiecesTogether, Zenon
  <2>8. (na \cup nb \cup nc) \cap nd = {}
    BY <2>2
  <2>9. Piece(a \cup b \cup c \cup d, "rule_override", na \cup nb \cup nc \cup nd)
    BY <2>3, <2>7, <2>8, PiecesTogether, Zenon
  <2>10. na \cup nb \cup nc \cup nd = RuleNames
    BY <2>2 DEF RuleNames
  <2>11. RuleOverride = a \cup b \cup c \cup d
    BY <2>1, Zenon DEF RuleOverride
  <2> QED
    BY <2>9, <2>10, <2>11, Zenon
<1>6. Piece(KnowledgeCardOverride, "knowledge_card_override", CardNames)
  <2>1. PICK a, b, c :
          /\ a = Required("knowledge_card_override", {"id", "card_id", "card_version",
                  "status", "reviewer", "trigger_rule_ids", "trigger_signal_kinds",
                  "retrieval_aliases", "mechanism", "red_flags", "verify_steps", "questions",
                  "reviewed_case_ids", "created_ts", "updated_ts"})
          /\ b = PrimaryKey("knowledge_card_override", "(id)")
          /\ c = Unique("knowledge_card_override", "(card_id)")
    OBVIOUS
  <2>2. PICK na, nb, nc :
          /\ na = {"id", "card_id", "card_version", "status", "reviewer", "trigger_rule_ids",
                  "trigger_signal_kinds", "retrieval_aliases", "mechanism", "red_flags",
                  "verify_steps", "questions", "reviewed_case_ids", "created_ts", "updated_ts"}
          /\ nb = {"(id)"}
          /\ nc = {"(card_id)"}
    OBVIOUS
  <2>3. Piece(a, "knowledge_card_override", na) /\ Piece(b, "knowledge_card_override", nb)
          /\ Piece(c, "knowledge_card_override", nc)
    BY <2>1, <2>2, PieceIs DEF Required, Optional, PrimaryKey, Unique
  <2>4. na \cap nb = {}
    BY <2>2
  <2>5. Piece(a \cup b, "knowledge_card_override", na \cup nb)
    BY <2>3, <2>4, PiecesTogether, Zenon
  <2>6. (na \cup nb) \cap nc = {}
    BY <2>2
  <2>7. Piece(a \cup b \cup c, "knowledge_card_override", na \cup nb \cup nc)
    BY <2>3, <2>5, <2>6, PiecesTogether, Zenon
  <2>8. na \cup nb \cup nc = CardNames
    BY <2>2 DEF CardNames
  <2>9. KnowledgeCardOverride = a \cup b \cup c
    BY <2>1, Zenon DEF KnowledgeCardOverride
  <2> QED
    BY <2>7, <2>8, <2>9, Zenon
<1> QED
  BY <1>1, <1>2, <1>3, <1>4, <1>5, <1>6

-----------------------------------------------------------------------------
(* The schemas, revision by revision *)

Schema1 == Kept \cup Faces \cup Answer("required")
Schema2 == Kept \cup Faces \cup Answer("optional")
Schema3 == Schema2 \cup (StorySubmission \cup Face("story_submission"))
Schema4 == Schema3 \cup KnowledgeColumns
Schema5 == Schema4 \cup UrlBlocklist \cup RouterColumn
Schema6 == Schema5 \cup EditorialPost(UzLatn \cup UzCyrl \cup Ru)
Faceless == Kept \cup Answer("optional") \cup Scoped \cup KnowledgeColumns \cup RouterColumn
Articles == PostColumns \cup UzLatn \cup Ru
Schema7 == Faceless \cup StorySubmission \cup UrlBlocklist \cup Articles \cup UzCyrl
Schema8 == Faceless \cup StorySubmission \cup UrlBlocklist \cup Articles
Schema9 == Schema8 \cup RuleOverride
Schema10 == Schema9 \cup KnowledgeCardOverride
Schema11 == Schema10 \cup CoverColumns
Schema12 == Schema11 \cup PrecisionColumns
Today ==
    Faceless \cup Articles \cup RuleOverride \cup KnowledgeCardOverride \cup CoverColumns
    \cup PrecisionColumns
Schema13 == Today \cup UrlBlocklist

LEMMA PieceTables ==
    ASSUME NEW S, NEW t, NEW N, Piece(S, t, N)
    PROVE  TablesIn(S) = {t} /\ Among(S, {t}) /\ NameKey(S)
BY TablesOf DEF Piece, Named, Among

LEMMA PiecesApart ==
    ASSUME NEW S, NEW T, NEW t, NEW u, NEW N, NEW M, Piece(S, t, N), Piece(T, u, M),
           t # u \/ N \cap M = {}
    PROVE  Apart(S, T) /\ S \cap T = {}
BY NamedApart DEF Piece

FirstTables == {"consent", "check_event", "feedback", "rate_limit", "deletion_log"}

\* The table of each piece.
LEMMA TablesAre ==
    /\ Among(ConsentColumns, {"consent"}) /\ Among(RateColumns, {"rate_limit"})
    /\ Among(FeedbackColumns, {"feedback"}) /\ Among(LogColumns, {"deletion_log"})
    /\ Among(EventColumns, {"check_event"})
    /\ (\A kind : Among(Answer(kind), {"feedback"})) /\ (\A t : Among(Face(t), {t}))
    /\ Among(ConsentFace, {"consent"}) /\ Among(RateFace, {"rate_limit"})
    /\ Among(ConsentKey, {"consent"}) /\ Among(RateScope, {"rate_limit"})
    /\ Among(KnowledgeColumns, {"check_event"}) /\ Among(RouterColumn, {"check_event"})
    /\ Among(StorySubmission, {"story_submission"}) /\ Among(UrlBlocklist, {"url_blocklist"})
    /\ Among(PostColumns, {"editorial_post"}) /\ Among(UzLatn, {"editorial_post"})
    /\ Among(UzCyrl, {"editorial_post"}) /\ Among(Ru, {"editorial_post"})
    /\ Among(CoverColumns, {"editorial_post"}) /\ Among(RuleOverride, {"rule_override"})
    /\ Among(PrecisionColumns, {"rule_override"})
    /\ Among(KnowledgeCardOverride, {"knowledge_card_override"})
<1>1. \A S, t, N : Piece(S, t, N) => Among(S, {t})
  BY PieceTables
<1> QED
  BY <1>1, UserPieces, ServicePieces, Zenon

LEMMA SchemaTables ==
    /\ Among(Schema1, FirstTables) /\ Among(Schema2, FirstTables) /\ Among(Faceless, FirstTables)
    /\ Among(Schema3, FirstTables \cup {"story_submission"})
    /\ Among(Schema4, FirstTables \cup {"story_submission"})
    /\ Among(Schema5, FirstTables \cup {"story_submission", "url_blocklist"})
    /\ Among(Articles, {"editorial_post"})
    /\ Among(Schema8, FirstTables \cup {"story_submission", "url_blocklist", "editorial_post"})
    /\ Among(Schema9, FirstTables \cup {"story_submission", "url_blocklist", "editorial_post",
                                        "rule_override"})
    /\ Among(Today, FirstTables \cup {"editorial_post", "rule_override", "knowledge_card_override"})
<1>1. Among(Kept, FirstTables) /\ Among(Faces, FirstTables) /\ Among(Scoped, FirstTables)
  BY TablesAre DEF Among, FirstTables, Kept, Faces, Scoped
<1>2. Among(Schema1, FirstTables) /\ Among(Schema2, FirstTables) /\ Among(Faceless, FirstTables)
  BY <1>1, TablesAre DEF Among, FirstTables, Schema1, Schema2, Faceless
<1>3. Among(Schema3, FirstTables \cup {"story_submission"})
  BY <1>2, TablesAre DEF Among, Schema3
<1>4. Among(Schema4, FirstTables \cup {"story_submission"})
  BY <1>3, TablesAre DEF Among, Schema4, FirstTables
<1>5. Among(Schema5, FirstTables \cup {"story_submission", "url_blocklist"})
  BY <1>4, TablesAre DEF Among, Schema5, FirstTables
<1>6. Among(Articles, {"editorial_post"})
  BY TablesAre DEF Among, Articles
<1>7. Among(Schema8, FirstTables \cup {"story_submission", "url_blocklist", "editorial_post"})
  BY <1>2, <1>6, TablesAre DEF Among, Schema8
<1>8. Among(Schema9, FirstTables \cup {"story_submission", "url_blocklist", "editorial_post",
                                      "rule_override"})
  BY <1>7, TablesAre DEF Among, Schema9
<1>9. Among(Today, FirstTables \cup {"editorial_post", "rule_override", "knowledge_card_override"})
  BY <1>2, <1>6, TablesAre DEF Among, Today
<1> QED
  BY <1>2, <1>3, <1>4, <1>5, <1>6, <1>7, <1>8, <1>9

LEMMA NothingReached == Reached(0, {})
BY FreshIs DEF Reached, NameKey

LEMMA CreatesAre ==
    /\ \A S : Creating(S).creates = S /\ Creating(S).adds = {}
    /\ \A S, T : Swap(S, T).creates = {} /\ Swap(S, T).adds = T
    /\ \A N : DropTables(N).creates = {} /\ DropTables(N).adds = {}
    /\ NameKey({})
BY DEF Creating, Swap, DropTables, Change, NameKey

LEMMA FirstKeyed == NameKey(Schema1)
<1>0. \A S, t, N : Piece(S, t, N) => NameKey(S)
  BY DEF Piece
<1>1. NameKey(ConsentColumns \cup ConsentFace)
  <2>1. {"user_key", "notice_version", "language", "ts"} \cap {"(user_key, face)", "face"} = {}
    OBVIOUS
  <2> QED
    BY <1>0, <2>1, UserPieces, PiecesTogether, Zenon
<1>2. NameKey(RateColumns \cup RateFace)
  <2>1. {"user_key", "day", "count"} \cap {"(user_key, face, day)", "face"} = {}
    OBVIOUS
  <2> QED
    BY <1>0, <2>1, UserPieces, PiecesTogether, Zenon
<1>3. NameKey(EventColumns \cup Face("check_event"))
  <2>1. EventNames \cap {"face"} = {}
    BY DEF EventNames
  <2> QED
    BY <1>0, <2>1, UserPieces, PiecesTogether, Zenon
<1>4. NameKey(FeedbackColumns \cup Answer("required"))
  <2>1. {"check_id", "usefulness", "ts", "(check_id)"} \cap {"next_action"} = {}
    OBVIOUS
  <2> QED
    BY <1>0, <2>1, UserPieces, PiecesTogether, Zenon
<1>5. NameKey(LogColumns)
  BY <1>0, UserPieces, Zenon
<1>6. PICK a, b, c, d, e :
        /\ a = ConsentColumns \cup ConsentFace /\ b = RateColumns \cup RateFace
        /\ c = EventColumns \cup Face("check_event") /\ d = FeedbackColumns \cup Answer("required")
        /\ e = LogColumns
  OBVIOUS
<1>7. /\ \A x \in a : x.table = "consent"
      /\ \A x \in b : x.table = "rate_limit"
      /\ \A x \in c : x.table = "check_event"
      /\ \A x \in d : x.table = "feedback"
      /\ \A x \in e : x.table = "deletion_log"
  BY <1>6, TablesAre DEF Among
<1>8. NameKey(a) /\ NameKey(b) /\ NameKey(c) /\ NameKey(d) /\ NameKey(e)
  BY <1>1, <1>2, <1>3, <1>4, <1>5, <1>6, Zenon
<1>9. NameKey(a \cup b \cup c \cup d \cup e)
  BY <1>7, <1>8 DEF NameKey
<1>10. Schema1 = a \cup b \cup c \cup d \cup e
  BY <1>6 DEF Schema1, Kept, Faces
<1> QED
  BY <1>9, <1>10

\* No cell of a schema is of one of these tables.
Elsewhere(S, X) == \A c \in S : c.table \notin X

\* From F to G a revision creates tables and adds columns to others.
Extends(F, G, tables, columns) ==
    /\ G = F \cup tables \cup columns
    /\ Elsewhere(F, TablesIn(tables)) /\ TablesIn(columns) \subseteq TablesIn(F) /\ Apart(columns, F)
    /\ NameKey(tables) /\ NameKey(columns)

\* It exchanges columns and keys of tables Y.
Exchanges(F, G, rest, own, old, new, Y) ==
    /\ F = rest \cup own \cup old /\ G = rest \cup own \cup new
    /\ Among(old, Y) /\ Among(new, Y) /\ Y \subseteq TablesIn(own) /\ Elsewhere(rest, Y)
    /\ own \cap old = {} /\ Apart(new, own) /\ NameKey(new)

\* It drops a table.
Loses(F, G, S, t) == F = G \cup S /\ TablesIn(S) = {t} /\ Elsewhere(G, {t})

LEMMA ExtendStep ==
    ASSUME NEW i \in 1 .. Head, NEW F, NEW G, NEW tables, NEW columns, Reached(i - 1, F),
           Extends(F, G, tables, columns), Up(i) = Change(tables, columns, {}, {}),
           Down(i) = Change({}, {}, columns, TablesIn(tables))
    PROVE  Reached(i, G) /\ RevisionIsSound(i)
<1>1. NameKey(F)
  BY DEF Reached
<1>2. TablesIn(tables) \cap TablesIn(F) = {}
  BY DEF Extends, Elsewhere, TablesIn
<1>3. Undoable(Up(i), Down(i), F) /\ Result(Up(i), F) = F \cup tables \cup columns
  BY <1>1, <1>2, AddedIsUndone DEF Extends
<1>4. Up(i).creates = tables /\ Up(i).adds = columns
  BY DEF Change
<1> QED
  BY <1>3, <1>4, NextRevision DEF Extends

LEMMA ExchangeStep ==
    ASSUME NEW i \in 1 .. Head, NEW F, NEW G, NEW rest, NEW own, NEW old, NEW new, NEW Y,
           Reached(i - 1, F), Exchanges(F, G, rest, own, old, new, Y),
           Up(i) = Swap(old, new), Down(i) = Swap(new, old)
    PROVE  Reached(i, G) /\ RevisionIsSound(i)
<1>1. PICK kept : kept = rest \cup own
  OBVIOUS
<1>2. F = kept \cup old /\ G = kept \cup new /\ NameKey(kept \cup old)
  BY <1>1 DEF Exchanges, Reached
<1>3. (\A c \in old \cup new : c.table \in Y) /\ (\A c \in rest : c.table \notin Y)
  BY DEF Exchanges, Among, Elsewhere
<1>4. kept \cap old = {}
  BY <1>1, <1>3 DEF Exchanges
<1>5. Apart(new, kept)
  BY <1>1, <1>3 DEF Apart, Exchanges
<1>6. TablesIn(old) \subseteq TablesIn(kept) /\ TablesIn(new) \subseteq TablesIn(kept)
  BY <1>1, <1>3 DEF TablesIn, Exchanges
<1>7. Undoable(Up(i), Down(i), F) /\ Result(Up(i), F) = G
  <2>1. \A c \in old : c \notin kept
    BY <1>4
  <2>2. Undoable(Swap(old, new), Swap(new, old), kept \cup old)
        /\ Result(Swap(old, new), kept \cup old) = kept \cup new
    BY <1>2, <2>1, <1>5, <1>6, SwappedIsUndone
  <2> QED
    BY <1>2, <2>2, Zenon
<1>8. NameKey(Up(i).creates) /\ NameKey(Up(i).adds)
  <2>1. Up(i).creates = {} /\ Up(i).adds = new
    BY DEF Swap, Change
  <2> QED
    BY <2>1, CreatesAre DEF Exchanges
<1> QED
  BY <1>7, <1>8, NextRevision

LEMMA LoseStep ==
    ASSUME NEW i \in 1 .. Head, NEW F, NEW G, NEW S, NEW t, Reached(i - 1, F), Loses(F, G, S, t),
           Up(i) = DropTables({t}), Down(i) = Creating(S)
    PROVE  Reached(i, G) /\ RevisionIsSound(i)
<1>1. NameKey(G \cup S)
  BY DEF Reached, Loses
<1>2. Undoable(Up(i), Down(i), F) /\ Result(Up(i), F) = G
  <2>1. TablesIn(S) = {t} /\ \A c \in G : c.table # t
    BY DEF Loses, Elsewhere
  <2>2. Undoable(DropTables({t}), Creating(S), G \cup S) /\ Result(DropTables({t}), G \cup S) = G
    BY <1>1, <2>1, DroppedIsUndone
  <2> QED
    BY <2>2, Zenon DEF Loses
<1>3. NameKey(Up(i).creates) /\ NameKey(Up(i).adds)
  BY CreatesAre
<1> QED
  BY <1>2, <1>3, NextRevision

\* Some cells, all of one table.
Single(S, t) == TablesIn(S) = {t}

LEMMA PieceFacts ==
    /\ Single(ConsentColumns, "consent") /\ Single(RateColumns, "rate_limit")
    /\ Single(FeedbackColumns, "feedback") /\ Single(EventColumns, "check_event")
    /\ Single(KnowledgeColumns, "check_event") /\ Single(RouterColumn, "check_event")
    /\ Single(Face("story_submission"), "story_submission")
    /\ Single(StorySubmission, "story_submission") /\ Single(UrlBlocklist, "url_blocklist")
    /\ Single(PostColumns, "editorial_post") /\ Single(UzLatn, "editorial_post")
    /\ Single(UzCyrl, "editorial_post") /\ Single(Ru, "editorial_post")
    /\ Single(CoverColumns, "editorial_post") /\ Single(RuleOverride, "rule_override")
    /\ Single(PrecisionColumns, "rule_override")
    /\ Single(KnowledgeCardOverride, "knowledge_card_override")
<1>1. \A S, t, N : Piece(S, t, N) => Single(S, t)
  BY PieceTables DEF Single
<1> QED
  BY <1>1, UserPieces, ServicePieces, Zenon

LEMMA PiecesKeyed ==
    /\ NameKey(KnowledgeColumns) /\ NameKey(RouterColumn) /\ NameKey(Answer("optional"))
    /\ NameKey(ConsentKey) /\ NameKey(RateScope)
    /\ NameKey(StorySubmission) /\ NameKey(UrlBlocklist) /\ NameKey(PostColumns)
    /\ NameKey(UzLatn) /\ NameKey(UzCyrl) /\ NameKey(Ru) /\ NameKey(CoverColumns)
    /\ NameKey(RuleOverride) /\ NameKey(PrecisionColumns) /\ NameKey(KnowledgeCardOverride)
<1>1. \A S, t, N : Piece(S, t, N) => NameKey(S)
  BY PieceTables
<1> QED
  BY <1>1, UserPieces, ServicePieces, Zenon

LEMMA SingleTogether ==
    ASSUME NEW S, NEW T, NEW t, Single(S, t), Single(T, t)
    PROVE  Single(S \cup T, t)
BY TablesOf DEF Single

LEMMA Revision1 == Reached(1, Schema1) /\ RevisionIsSound(1)
<1>1. InitialTables = Schema1
  BY InitialTablesAre, Zenon DEF Schema1
<1>6. Extends({}, Schema1, Schema1, {})
  BY FirstKeyed DEF Extends, Elsewhere, Apart, TablesIn, NameKey
<1>7. Up(1) = Change(Schema1, {}, {}, {})
      /\ Down(1) = Change({}, {}, {}, TablesIn(Schema1))
  BY <1>1, ChangesAre, Zenon DEF Creating, DropTables, Swap
<1>8. 1 \in 1 .. Head /\ 1 - 1 = 0
  BY DEF Head
<1>9. Reached(1 - 1, {})
  BY <1>8, NothingReached
<1> QED
  BY <1>6, <1>7, <1>8, <1>9, ExtendStep, Zenon

LEMMA Revision2 == Reached(2, Schema2) /\ RevisionIsSound(2)
<1>1. PICK old, new, own, rest :
        /\ old = Answer("required") /\ new = Answer("optional") /\ own = FeedbackColumns
        /\ rest = ConsentColumns \cup EventColumns \cup RateColumns \cup LogColumns \cup Faces
  OBVIOUS
<1>2. Schema1 = rest \cup own \cup old /\ Schema2 = rest \cup own \cup new
  BY <1>1 DEF Schema1, Schema2, Kept
<1>3. Among(old, {"feedback"}) /\ Among(new, {"feedback"}) /\ Elsewhere(rest, {"feedback"})
  BY <1>1, TablesAre DEF Among, Elsewhere, Faces
<1>4. {"feedback"} \subseteq TablesIn(own) /\ NameKey(new)
  BY <1>1, PieceFacts, PiecesKeyed DEF Single
<1>5. own \cap old = {} /\ Apart(new, own)
  <2>1. {"check_id", "usefulness", "ts", "(check_id)"} \cap {"next_action"} = {}
        /\ {"next_action"} \cap {"check_id", "usefulness", "ts", "(check_id)"} = {}
    OBVIOUS
  <2> QED
    BY <1>1, <2>1, UserPieces, PiecesApart, Zenon
<1>6. Exchanges(Schema1, Schema2, rest, own, old, new, {"feedback"})
  BY <1>2, <1>3, <1>4, <1>5, Zenon DEF Exchanges
<1>7. Up(2) = Swap(old, new) /\ Down(2) = Swap(new, old)
  BY <1>1, ChangesAre, Zenon
<1>8. 2 \in 1 .. Head /\ 2 - 1 = 1
  BY DEF Head
<1>9. Reached(2 - 1, Schema1)
  BY <1>8, Revision1
<1> QED
  BY <1>6, <1>7, <1>8, <1>9, ExchangeStep, Zenon

LEMMA Revision3 == Reached(3, Schema3) /\ RevisionIsSound(3)
<1>1. TablesIn(StorySubmission \cup Face("story_submission")) = {"story_submission"}
  <2>1. Single(StorySubmission \cup Face("story_submission"), "story_submission")
    BY PieceFacts, SingleTogether
  <2> QED
    BY <2>1 DEF Single
<1>2. NameKey(StorySubmission \cup Face("story_submission"))
  <2>1. StoryNames \cap {"face"} = {}
    BY DEF StoryNames
  <2>2. NameKey(StorySubmission) /\ NameKey(Face("story_submission"))
        /\ Apart(StorySubmission, Face("story_submission"))
    BY <2>1, ServicePieces, UserPieces, PiecesApart, Zenon DEF Piece
  <2> QED
    BY <2>2, KeyedTogether
<1>3. Elsewhere(Schema2, {"story_submission"})
  BY SchemaTables DEF Among, Elsewhere, FirstTables
<1>6. Extends(Schema2, Schema3, StorySubmission \cup Face("story_submission"), {})
  <2>1. Schema3 = Schema2 \cup StorySubmission \cup Face("story_submission") \cup {}
    BY DEF Schema3
  <2>2. NameKey({}) /\ Apart({}, Schema2) /\ TablesIn({}) \subseteq TablesIn(Schema2)
    BY DEF NameKey, Apart, TablesIn
  <2> QED
    BY <1>1, <1>2, <1>3, <2>1, <2>2 DEF Extends
<1>7. Up(3) = Change(StorySubmission \cup Face("story_submission"), {}, {}, {})
      /\ Down(3) = Change({}, {}, {}, TablesIn(StorySubmission \cup Face("story_submission")))
  BY <1>1, ChangesAre, Zenon DEF Creating, DropTables, Swap
<1>8. 3 \in 1 .. Head /\ 3 - 1 = 2
  BY DEF Head
<1>9. Reached(3 - 1, Schema2)
  BY <1>8, Revision2
<1> QED
  BY <1>6, <1>7, <1>8, <1>9, ExtendStep, Zenon

LEMMA Revision4 == Reached(4, Schema4) /\ RevisionIsSound(4)
<1>3. TablesIn(KnowledgeColumns) \subseteq TablesIn(Schema3) /\ NameKey(KnowledgeColumns)
  <2>1. "check_event" \in TablesIn(EventColumns) /\ TablesIn(KnowledgeColumns) = {"check_event"}
        /\ NameKey(KnowledgeColumns)
    BY PieceFacts, PiecesKeyed DEF Single
  <2> QED
    BY <2>1 DEF TablesIn, Schema3, Schema2, Kept
<1>4. NameKey(KnowledgeColumns)
  BY <1>3
<1>5. Apart(KnowledgeColumns, Schema3)
  <2>1. Apart(KnowledgeColumns, EventColumns) /\ Apart(KnowledgeColumns, Face("check_event"))
    <3>1. KnowledgeNames \cap EventNames = {} /\ KnowledgeNames \cap {"face"} = {}
      BY DEF KnowledgeNames, EventNames
    <3> QED
      BY <3>1, UserPieces, PiecesApart, Zenon
  <2>2. \A c \in Schema3 : c.table = "check_event" => c \in EventColumns \cup Face("check_event")
    BY TablesAre DEF Among, Schema3, Schema2, Kept, Faces
  <2>3. \A c \in KnowledgeColumns : c.table = "check_event"
    BY TablesAre DEF Among
  <2> QED
    BY <2>1, <2>2, <2>3 DEF Apart
<1>6. Extends(Schema3, Schema4, {}, KnowledgeColumns)
  <2>1. Schema4 = Schema3 \cup {} \cup KnowledgeColumns
    BY DEF Schema4
  <2>2. NameKey({}) /\ Elsewhere(Schema3, TablesIn({}))
    BY TablesOf DEF NameKey, Elsewhere
  <2> QED
    BY <1>3, <1>4, <1>5, <2>1, <2>2 DEF Extends
<1>7. Up(4) = Change({}, KnowledgeColumns, {}, {})
      /\ Down(4) = Change({}, {}, KnowledgeColumns, TablesIn({}))
  BY TablesOf, ChangesAre, Zenon DEF Creating, DropTables, Swap
<1>8. 4 \in 1 .. Head /\ 4 - 1 = 3
  BY DEF Head
<1>9. Reached(4 - 1, Schema3)
  BY <1>8, Revision3
<1> QED
  BY <1>6, <1>7, <1>8, <1>9, ExtendStep, Zenon

LEMMA Revision5 == Reached(5, Schema5) /\ RevisionIsSound(5)
<1>1. TablesIn(UrlBlocklist) = {"url_blocklist"} /\ NameKey(UrlBlocklist)
  BY PieceFacts, PiecesKeyed DEF Single
<1>2. Elsewhere(Schema4, {"url_blocklist"})
  BY SchemaTables DEF Among, Elsewhere, FirstTables
<1>3. TablesIn(RouterColumn) \subseteq TablesIn(Schema4)
  <2>1. "check_event" \in TablesIn(EventColumns) /\ TablesIn(RouterColumn) = {"check_event"}
    BY PieceFacts DEF Single
  <2> QED
    BY <2>1 DEF TablesIn, Schema4, Schema3, Schema2, Kept, Faces
<1>4. NameKey(RouterColumn)
  BY PiecesKeyed
<1>5. Apart(RouterColumn, Schema4)
  <2>1. Apart(RouterColumn, EventColumns) /\ Apart(RouterColumn, Face("check_event"))
          /\ Apart(RouterColumn, KnowledgeColumns)
    <3>1. {"router_status"} \cap EventNames = {} /\ {"router_status"} \cap {"face"} = {}
          /\ {"router_status"} \cap KnowledgeNames = {}
      BY DEF KnowledgeNames, EventNames
    <3> QED
      BY <3>1, UserPieces, ServicePieces, PiecesApart, Zenon
  <2>2. \A c \in Schema4 : c.table = "check_event" => c \in EventColumns \cup Face("check_event")
          \cup KnowledgeColumns
    BY TablesAre DEF Among, Schema4, Schema3, Schema2, Kept, Faces
  <2>3. \A c \in RouterColumn : c.table = "check_event"
    BY TablesAre DEF Among
  <2> QED
    BY <2>1, <2>2, <2>3 DEF Apart
<1>6. Extends(Schema4, Schema5, UrlBlocklist, RouterColumn)
  BY <1>1, <1>2, <1>3, <1>4, <1>5 DEF Extends, Schema5
<1>7. Up(5) = Change(UrlBlocklist, RouterColumn, {}, {})
      /\ Down(5) = Change({}, {}, RouterColumn, TablesIn(UrlBlocklist))
  BY <1>1, ChangesAre, Zenon DEF Creating, DropTables, Swap
<1>8. 5 \in 1 .. Head /\ 5 - 1 = 4
  BY DEF Head
<1>9. Reached(5 - 1, Schema4)
  BY <1>8, Revision4
<1> QED
  BY <1>6, <1>7, <1>8, <1>9, ExtendStep, Zenon

AllLanguages == UzLatn \cup UzCyrl \cup Ru

LEMMA PostFacts ==
    /\ EditorialPost(AllLanguages) = Articles \cup UzCyrl
    /\ Single(EditorialPost(AllLanguages), "editorial_post")
    /\ NameKey(EditorialPost(AllLanguages))
<1>1. EditorialPost(AllLanguages) = PostColumns \cup AllLanguages
  BY EditorialPostIs
<1>2. EditorialPost(AllLanguages) = Articles \cup UzCyrl
  BY <1>1 DEF AllLanguages, Articles
<1>3. Single(AllLanguages, "editorial_post")
  BY PieceFacts, SingleTogether DEF AllLanguages
<1>4. Single(PostColumns \cup AllLanguages, "editorial_post")
  BY <1>3, PieceFacts, SingleTogether
<1>5. NameKey(PostColumns \cup AllLanguages)
  <2>1. /\ Apart(PostColumns, UzLatn) /\ Apart(PostColumns, UzCyrl) /\ Apart(PostColumns, Ru)
        /\ Apart(UzLatn, UzCyrl) /\ Apart(UzLatn, Ru) /\ Apart(UzCyrl, Ru)
    <3>1. PICK a, b, c : /\ a = {"title_uz_latn", "summary_uz_latn", "article_uz_latn"}
                         /\ b = {"title_uz_cyrl", "summary_uz_cyrl", "article_uz_cyrl"}
                         /\ c = {"title_ru", "summary_ru", "article_ru"}
      OBVIOUS
    <3>2. /\ PostNames \cap a = {} /\ PostNames \cap b = {} /\ PostNames \cap c = {}
          /\ a \cap b = {} /\ a \cap c = {} /\ b \cap c = {}
      BY <3>1 DEF PostNames
    <3>3. /\ Piece(PostColumns, "editorial_post", PostNames) /\ Piece(UzLatn, "editorial_post", a)
          /\ Piece(UzCyrl, "editorial_post", b) /\ Piece(Ru, "editorial_post", c)
      BY <3>1, ServicePieces, Zenon
    <3> QED
      BY <3>2, <3>3, PiecesApart
  <2> QED
    BY <2>1, PiecesKeyed DEF NameKey, Apart, AllLanguages
<1> QED
  BY <1>1, <1>2, <1>4, <1>5, Zenon

LEMMA Revision6 == Reached(6, Schema6) /\ RevisionIsSound(6)
<1>1. TablesIn(EditorialPost(AllLanguages)) = {"editorial_post"}
  BY PostFacts DEF Single
<1>3. Elsewhere(Schema5, {"editorial_post"})
  BY SchemaTables DEF Among, Elsewhere, FirstTables
<1>6. Extends(Schema5, Schema6, EditorialPost(AllLanguages), {})
  <2>1. Schema6 = Schema5 \cup EditorialPost(AllLanguages) \cup {}
    BY DEF Schema6, AllLanguages
  <2>2. NameKey({}) /\ Apart({}, Schema5) /\ TablesIn({}) \subseteq TablesIn(Schema5)
    BY DEF NameKey, Apart, TablesIn
  <2> QED
    BY <1>1, <1>3, <2>1, <2>2, PostFacts DEF Extends
<1>7. Up(6) = Change(EditorialPost(AllLanguages), {}, {}, {})
      /\ Down(6) = Change({}, {}, {}, TablesIn(EditorialPost(AllLanguages)))
  BY <1>1, ChangesAre, Zenon DEF AllLanguages, Creating, DropTables, Swap
<1>8. 6 \in 1 .. Head /\ 6 - 1 = 5
  BY DEF Head
<1>9. Reached(6 - 1, Schema5)
  BY <1>8, Revision5
<1> QED
  BY <1>6, <1>7, <1>8, <1>9, ExtendStep, Zenon

LEMMA Revision7 == Reached(7, Schema7) /\ RevisionIsSound(7)
<1>1. PICK old, new, own, rest :
        /\ old = Faces \cup Face("story_submission") /\ new = Scoped
        /\ own = ConsentColumns \cup RateColumns \cup EventColumns \cup KnowledgeColumns
                   \cup RouterColumn \cup StorySubmission
        /\ rest = LogColumns \cup FeedbackColumns \cup Answer("optional") \cup UrlBlocklist
                    \cup Articles \cup UzCyrl
  OBVIOUS
<1>2. Schema6 = rest \cup own \cup old /\ Schema7 = rest \cup own \cup new
  <2>1. Schema6 = Schema5 \cup Articles \cup UzCyrl
    BY PostFacts DEF Schema6, AllLanguages
  <2>2. Schema6 = rest \cup own \cup old
    BY <1>1, <2>1 DEF Schema5, Schema4, Schema3, Schema2, Kept
  <2>3. Schema7 = rest \cup own \cup new
    BY <1>1 DEF Schema7, Faceless, Kept
  <2> QED
    BY <2>2, <2>3
<1>3. PICK Y : Y = {"consent", "rate_limit", "check_event", "story_submission"}
  OBVIOUS
<1>4. Among(old, Y) /\ Among(new, Y) /\ Elsewhere(rest, Y)
  BY <1>1, <1>3, TablesAre, SchemaTables DEF Among, Elsewhere, Faces, Scoped
<1>5. Y \subseteq TablesIn(own)
  <2>1. /\ "consent" \in TablesIn(ConsentColumns) /\ "rate_limit" \in TablesIn(RateColumns)
        /\ "check_event" \in TablesIn(EventColumns)
        /\ "story_submission" \in TablesIn(StorySubmission)
    BY PieceFacts DEF Single
  <2> QED
    BY <1>1, <1>3, <2>1 DEF TablesIn
<1>6. own \cap old = {}
  <2>1. /\ ConsentColumns \cap ConsentFace = {} /\ RateColumns \cap RateFace = {}
        /\ EventColumns \cap Face("check_event") = {} /\ KnowledgeColumns \cap Face("check_event") = {}
        /\ RouterColumn \cap Face("check_event") = {}
        /\ StorySubmission \cap Face("story_submission") = {}
    <3>1. PICK a, b, c, d, e, f, g :
            /\ a = {"user_key", "notice_version", "language", "ts"} /\ b = {"(user_key, face)", "face"}
            /\ c = {"user_key", "day", "count"} /\ d = {"(user_key, face, day)", "face"}
            /\ e = {"face"} /\ f = {"router_status"} /\ g = {"story_submission"}
      OBVIOUS
    <3>2. /\ a \cap b = {} /\ c \cap d = {} /\ EventNames \cap e = {} /\ KnowledgeNames \cap e = {}
          /\ f \cap e = {} /\ StoryNames \cap e = {}
      BY <3>1 DEF EventNames, KnowledgeNames, StoryNames
    <3>3. /\ Piece(ConsentColumns, "consent", a) /\ Piece(ConsentFace, "consent", b)
          /\ Piece(RateColumns, "rate_limit", c) /\ Piece(RateFace, "rate_limit", d)
          /\ Piece(EventColumns, "check_event", EventNames)
          /\ Piece(Face("check_event"), "check_event", e)
          /\ Piece(KnowledgeColumns, "check_event", KnowledgeNames)
          /\ Piece(RouterColumn, "check_event", f)
          /\ Piece(Face("story_submission"), "story_submission", e)
          /\ Piece(StorySubmission, "story_submission", StoryNames)
      BY <3>1, UserPieces, ServicePieces, Zenon
    <3> QED
      BY <3>2, <3>3, PiecesApart
  <2>2. ASSUME NEW c \in own, c \in old PROVE FALSE
    BY <1>1, <2>1, <2>2, TablesAre DEF Among, Faces
  <2> QED
    BY <2>2
<1>7. Apart(new, own) /\ NameKey(new)
  <2>1. Apart(ConsentKey, ConsentColumns) /\ Apart(RateScope, RateColumns)
    <3>1. PICK a, b, c, d :
            /\ a = {"user_key", "notice_version", "language", "ts"} /\ b = {"(user_key)"}
            /\ c = {"user_key", "day", "count"} /\ d = {"scope", "(user_key, scope, day)"}
      OBVIOUS
    <3>2. b \cap a = {} /\ d \cap c = {}
      BY <3>1
    <3>3. /\ Piece(ConsentColumns, "consent", a) /\ Piece(ConsentKey, "consent", b)
          /\ Piece(RateColumns, "rate_limit", c) /\ Piece(RateScope, "rate_limit", d)
      BY <3>1, UserPieces, Zenon
    <3> QED
      BY <3>2, <3>3, PiecesApart
  <2>2. ASSUME NEW c \in new, NEW d \in own, c.table = d.table PROVE c.name # d.name
    BY <1>1, <2>1, <2>2, TablesAre DEF Apart, Among, Scoped
  <2>3. NameKey(ConsentKey \cup RateScope)
    BY PiecesKeyed, TablesAre DEF NameKey, Among
  <2> QED
    BY <1>1, <2>2, <2>3 DEF Apart, Scoped
<1>8. Exchanges(Schema6, Schema7, rest, own, old, new, Y)
  BY <1>2, <1>4, <1>5, <1>6, <1>7, Zenon DEF Exchanges
<1>9. Up(7) = Swap(old, new) /\ Down(7) = Swap(new, old)
  BY <1>1, ChangesAre, Zenon
<1>10. 7 \in 1 .. Head /\ 7 - 1 = 6
  BY DEF Head
<1>11. Reached(7 - 1, Schema6)
  BY <1>10, Revision6
<1> QED
  BY <1>8, <1>9, <1>10, <1>11, ExchangeStep, Zenon

LEMMA Revision8 == Reached(8, Schema8) /\ RevisionIsSound(8)
<1>1. PICK rest : rest = Faceless \cup StorySubmission \cup UrlBlocklist
  OBVIOUS
<1>2. Schema7 = rest \cup Articles \cup UzCyrl /\ Schema8 = rest \cup Articles \cup {}
  BY <1>1 DEF Schema7, Schema8
<1>3. Among(UzCyrl, {"editorial_post"}) /\ Among({}, {"editorial_post"})
      /\ Elsewhere(rest, {"editorial_post"})
  BY <1>1, TablesAre, SchemaTables DEF Among, Elsewhere, FirstTables
<1>4. {"editorial_post"} \subseteq TablesIn(Articles)
  BY PieceFacts DEF Single, Articles, TablesIn
<1>5. Articles \cap UzCyrl = {}
  <2>1. PostColumns \cap UzCyrl = {} /\ UzLatn \cap UzCyrl = {} /\ Ru \cap UzCyrl = {}
    <3>1. PICK a, b, c : /\ a = {"title_uz_latn", "summary_uz_latn", "article_uz_latn"}
                         /\ b = {"title_uz_cyrl", "summary_uz_cyrl", "article_uz_cyrl"}
                         /\ c = {"title_ru", "summary_ru", "article_ru"}
      OBVIOUS
    <3>2. PostNames \cap b = {} /\ a \cap b = {} /\ c \cap b = {}
      BY <3>1 DEF PostNames
    <3>3. /\ Piece(PostColumns, "editorial_post", PostNames) /\ Piece(UzLatn, "editorial_post", a)
          /\ Piece(UzCyrl, "editorial_post", b) /\ Piece(Ru, "editorial_post", c)
      BY <3>1, ServicePieces, Zenon
    <3> QED
      BY <3>2, <3>3, PiecesApart
  <2> QED
    BY <2>1 DEF Articles
<1>6. Apart({}, Articles) /\ NameKey({})
  BY DEF Apart, NameKey
<1>7. Exchanges(Schema7, Schema8, rest, Articles, UzCyrl, {}, {"editorial_post"})
  BY <1>2, <1>3, <1>4, <1>5, <1>6, Zenon DEF Exchanges
<1>8. 8 \in 1 .. Head /\ 8 - 1 = 7
  BY DEF Head
<1>9. Reached(8 - 1, Schema7)
  BY <1>8, Revision7
<1> QED
  BY <1>7, <1>8, <1>9, ChangesAre, ExchangeStep, Zenon

LEMMA Revision9 == Reached(9, Schema9) /\ RevisionIsSound(9)
<1>1. TablesIn(RuleOverride) = {"rule_override"}
  BY PieceFacts DEF Single
<1>2. NameKey(RuleOverride)
  BY PiecesKeyed
<1>3. Elsewhere(Schema8, {"rule_override"})
  BY SchemaTables DEF Among, Elsewhere, FirstTables
<1>6. Extends(Schema8, Schema9, RuleOverride, {})
  <2>1. Schema9 = Schema8 \cup RuleOverride \cup {}
    BY DEF Schema9
  <2>2. NameKey({}) /\ Apart({}, Schema8) /\ TablesIn({}) \subseteq TablesIn(Schema8)
    BY DEF NameKey, Apart, TablesIn
  <2> QED
    BY <1>1, <1>2, <1>3, <2>1, <2>2 DEF Extends
<1>7. Up(9) = Change(RuleOverride, {}, {}, {})
      /\ Down(9) = Change({}, {}, {}, TablesIn(RuleOverride))
  BY <1>1, ChangesAre, Zenon DEF Creating, DropTables, Swap
<1>8. 9 \in 1 .. Head /\ 9 - 1 = 8
  BY DEF Head
<1>9. Reached(9 - 1, Schema8)
  BY <1>8, Revision8
<1> QED
  BY <1>6, <1>7, <1>8, <1>9, ExtendStep, Zenon

LEMMA Revision10 == Reached(10, Schema10) /\ RevisionIsSound(10)
<1>1. TablesIn(KnowledgeCardOverride) = {"knowledge_card_override"}
  BY PieceFacts DEF Single
<1>2. NameKey(KnowledgeCardOverride)
  BY PiecesKeyed
<1>3. Elsewhere(Schema9, {"knowledge_card_override"})
  BY SchemaTables DEF Among, Elsewhere, FirstTables
<1>6. Extends(Schema9, Schema10, KnowledgeCardOverride, {})
  <2>1. Schema10 = Schema9 \cup KnowledgeCardOverride \cup {}
    BY DEF Schema10
  <2>2. NameKey({}) /\ Apart({}, Schema9) /\ TablesIn({}) \subseteq TablesIn(Schema9)
    BY DEF NameKey, Apart, TablesIn
  <2> QED
    BY <1>1, <1>2, <1>3, <2>1, <2>2 DEF Extends
<1>7. Up(10) = Change(KnowledgeCardOverride, {}, {}, {})
      /\ Down(10) = Change({}, {}, {}, TablesIn(KnowledgeCardOverride))
  BY <1>1, ChangesAre, Zenon DEF Creating, DropTables, Swap
<1>8. 10 \in 1 .. Head /\ 10 - 1 = 9
  BY DEF Head
<1>9. Reached(10 - 1, Schema9)
  BY <1>8, Revision9
<1> QED
  BY <1>6, <1>7, <1>8, <1>9, ExtendStep, Zenon

LEMMA Revision11 == Reached(11, Schema11) /\ RevisionIsSound(11)
<1>3. TablesIn(CoverColumns) \subseteq TablesIn(Schema10)
  <2>1. "editorial_post" \in TablesIn(PostColumns) /\ TablesIn(CoverColumns) = {"editorial_post"}
    BY PieceFacts DEF Single
  <2> QED
    BY <2>1 DEF TablesIn, Schema10, Schema9, Schema8, Faceless, Kept, Scoped, Articles
<1>4. NameKey(CoverColumns)
  BY PiecesKeyed
<1>5. Apart(CoverColumns, Schema10)
  <2>1. Apart(CoverColumns, PostColumns) /\ Apart(CoverColumns, UzLatn) /\ Apart(CoverColumns, Ru)
    <3>1. PICK a, b, c : /\ a = {"title_uz_latn", "summary_uz_latn", "article_uz_latn"}
                       /\ b = {"cover_bytes", "cover_media_type", "cover_alt_uz_latn", "cover_alt_ru"}
                       /\ c = {"title_ru", "summary_ru", "article_ru"}
      OBVIOUS
    <3>2. b \cap PostNames = {} /\ b \cap a = {} /\ b \cap c = {}
      BY <3>1 DEF PostNames
    <3>3. /\ Piece(PostColumns, "editorial_post", PostNames) /\ Piece(UzLatn, "editorial_post", a)
          /\ Piece(CoverColumns, "editorial_post", b) /\ Piece(Ru, "editorial_post", c)
      BY <3>1, ServicePieces, Zenon
    <3> QED
      BY <3>2, <3>3, PiecesApart
  <2>2. \A c \in Schema10 : c.table = "editorial_post" => c \in PostColumns \cup UzLatn \cup Ru
    BY TablesAre DEF Among, Schema10, Schema9, Schema8, Faceless, Kept, Scoped, Articles
  <2>3. \A c \in CoverColumns : c.table = "editorial_post"
    BY TablesAre DEF Among
  <2> QED
    BY <2>1, <2>2, <2>3 DEF Apart
<1>6. Extends(Schema10, Schema11, {}, CoverColumns)
  <2>1. Schema11 = Schema10 \cup {} \cup CoverColumns
    BY DEF Schema11
  <2>2. NameKey({}) /\ Elsewhere(Schema10, TablesIn({}))
    BY TablesOf DEF NameKey, Elsewhere
  <2> QED
    BY <1>3, <1>4, <1>5, <2>1, <2>2 DEF Extends
<1>7. Up(11) = Change({}, CoverColumns, {}, {})
      /\ Down(11) = Change({}, {}, CoverColumns, TablesIn({}))
  BY TablesOf, ChangesAre, Zenon DEF Creating, DropTables, Swap
<1>8. 11 \in 1 .. Head /\ 11 - 1 = 10
  BY DEF Head
<1>9. Reached(11 - 1, Schema10)
  BY <1>8, Revision10
<1> QED
  BY <1>6, <1>7, <1>8, <1>9, ExtendStep, Zenon

LEMMA Revision12 == Reached(12, Schema12) /\ RevisionIsSound(12)
<1>3. TablesIn(PrecisionColumns) \subseteq TablesIn(Schema11)
  <2>1. "rule_override" \in TablesIn(RuleOverride) /\ TablesIn(PrecisionColumns) = {"rule_override"}
    BY PieceFacts DEF Single
  <2> QED
    BY <2>1 DEF TablesIn, Schema11, Schema10, Schema9, Schema8, Faceless, Kept, Scoped, Articles
<1>4. NameKey(PrecisionColumns)
  BY PiecesKeyed
<1>5. Apart(PrecisionColumns, Schema11)
  <2>1. Apart(PrecisionColumns, RuleOverride)
    <3>1. {"exclude_patterns", "match_mode", "requires"} \cap RuleNames = {}
      BY DEF RuleNames
    <3> QED
      BY <3>1, UserPieces, ServicePieces, PiecesApart, Zenon
  <2>2. \A c \in Schema11 : c.table = "rule_override" => c \in RuleOverride
    BY TablesAre DEF Among, Schema11, Schema10, Schema9, Schema8, Faceless, Kept, Scoped, Articles
  <2>3. \A c \in PrecisionColumns : c.table = "rule_override"
    BY TablesAre DEF Among
  <2> QED
    BY <2>1, <2>2, <2>3 DEF Apart
<1>6. Extends(Schema11, Schema12, {}, PrecisionColumns)
  <2>1. Schema12 = Schema11 \cup {} \cup PrecisionColumns
    BY DEF Schema12
  <2>2. NameKey({}) /\ Elsewhere(Schema11, TablesIn({}))
    BY TablesOf DEF NameKey, Elsewhere
  <2> QED
    BY <1>3, <1>4, <1>5, <2>1, <2>2 DEF Extends
<1>7. Up(12) = Change({}, PrecisionColumns, {}, {})
      /\ Down(12) = Change({}, {}, PrecisionColumns, TablesIn({}))
  BY TablesOf, ChangesAre, Zenon DEF Creating, DropTables, Swap
<1>8. 12 \in 1 .. Head /\ 12 - 1 = 11
  BY DEF Head
<1>9. Reached(12 - 1, Schema11)
  BY <1>8, Revision11
<1> QED
  BY <1>6, <1>7, <1>8, <1>9, ExtendStep, Zenon

LEMMA Revision13 == Reached(13, Schema13) /\ RevisionIsSound(13)
<1>1. Schema12 = Schema13 \cup StorySubmission
  BY DEF Schema12, Schema11, Schema10, Schema9, Schema8, Schema13, Today
<1>2. Elsewhere(Schema13, {"story_submission"}) /\ TablesIn(StorySubmission) = {"story_submission"}
  BY TablesAre, SchemaTables, PieceFacts DEF Among, Elsewhere, FirstTables, Single, Schema13
<1>3. Loses(Schema12, Schema13, StorySubmission, "story_submission")
  BY <1>1, <1>2 DEF Loses
<1>4. 13 \in 1 .. Head /\ 13 - 1 = 12
  BY DEF Head
<1>5. Reached(13 - 1, Schema12)
  BY <1>4, Revision12
<1> QED
  BY <1>3, <1>4, <1>5, ChangesAre, LoseStep, Zenon

LEMMA Revision14 == Reached(14, Today) /\ RevisionIsSound(14)
<1>1. Schema13 = Today \cup UrlBlocklist
  BY DEF Schema13
<1>2. Elsewhere(Today, {"url_blocklist"}) /\ TablesIn(UrlBlocklist) = {"url_blocklist"}
  BY TablesAre, SchemaTables, PieceFacts DEF Among, Elsewhere, FirstTables, Single, Schema13
<1>3. Loses(Schema13, Today, UrlBlocklist, "url_blocklist")
  BY <1>1, <1>2 DEF Loses
<1>4. 14 \in 1 .. Head /\ 14 - 1 = 13
  BY DEF Head
<1>5. Reached(14 - 1, Schema13)
  BY <1>4, Revision13
<1> QED
  BY <1>3, <1>4, <1>5, ChangesAre, LoseStep, Zenon

\* Every revision can be reached and left on a clean database.
LEMMA Sound == \A i \in 1 .. Head : RevisionIsSound(i)
<1>1. \A i \in 1 .. Head : i \in {1, 2, 3, 4, 5, 6, 7, 8, 9, 10, 11, 12, 13, 14}
  BY DEF Head
<1> QED
  BY <1>1, Revision1, Revision2, Revision3, Revision4, Revision5, Revision6, Revision7, Revision8,
     Revision9, Revision10, Revision11, Revision12, Revision13, Revision14

\* The last one has the tables that the models declare.
LEMMA TodayIsDeclared == Fresh[Head] = Declared
<1>1. PICK a, b, c, d, e, f, g, h, i, j, k, l, m, n :
        /\ a = ConsentColumns /\ b = ConsentKey
        /\ c = Required("check_event", {"id", "user_key", "ts", "input_type", "language", "rule_ids",
                             "knowledge_card_ids", "reviewed_case_ids", "no_signal",
                             "status", "latency_ms", "safety_blocked"})
        /\ d = Optional("check_event", {"retrieval_mode", "retrieval_status", "router_status",
                             "kb_version", "error_class", "ocr_confidence", "ocr_ms",
                             "llm_ms", "input_tokens", "output_tokens", "cost_usd"})
        /\ e = PrimaryKey("check_event", "(id)")
        /\ f = Required("feedback", {"check_id", "usefulness", "ts"})
        /\ g = Answer("optional")
        /\ h = PrimaryKey("feedback", "(check_id)")
        /\ i = Required("rate_limit", {"user_key", "scope", "day", "count"})
        /\ j = PrimaryKey("rate_limit", "(user_key, scope, day)")
        /\ k = Required("deletion_log", {"id", "user_key", "requested_ts"})
        /\ l = Optional("deletion_log", {"completed_ts"})
        /\ m = PrimaryKey("deletion_log", "(id)")
        /\ n = Required("rate_limit", {"scope"})
  OBVIOUS
<1>2. DeclaredUserData = UNION {a, b, c, d, e, f, g, h, i, j, k, l, m}
  BY <1>1, Zenon DEF DeclaredUserData, ConsentColumns, ConsentKey, Answer, Optional
<1>3. UNION {a, b, c, d, e, f, g, h, i, j, k, l, m}
        = a \cup b \cup c \cup d \cup e \cup f \cup g \cup h \cup i \cup j \cup k \cup l \cup m
  OBVIOUS
<1>4. i = RateColumns \cup n
  <2>1. {"user_key", "scope", "day", "count"} = {"user_key", "day", "count"} \cup {"scope"}
    OBVIOUS
  <2>2. Required("rate_limit", {"user_key", "scope", "day", "count"})
          = RateColumns \cup Required("rate_limit", {"scope"})
    BY <2>1, CellsSplit DEF RateColumns, Required
  <2> QED
    BY <1>1, <2>2, Zenon
<1>5. RateScope = n \cup j /\ FeedbackColumns = f \cup h /\ LogColumns = k \cup l \cup m
  <2>1. UNION {k, l, m} = k \cup l \cup m
    OBVIOUS
  <2> QED
    BY <1>1, <2>1, Zenon DEF RateScope, FeedbackColumns, LogColumns
<1>6. PICK o, p, q, r, s :
        /\ o = Required("check_event", {"id", "user_key", "ts", "input_type", "language", "rule_ids",
                             "no_signal", "status", "latency_ms", "safety_blocked"})
        /\ p = Required("check_event", {"knowledge_card_ids", "reviewed_case_ids"})
        /\ q = Optional("check_event", {"error_class", "ocr_confidence", "ocr_ms", "llm_ms",
                             "input_tokens", "output_tokens", "cost_usd"})
        /\ r = Optional("check_event", {"retrieval_mode", "retrieval_status", "kb_version"})
        /\ s = Optional("check_event", {"router_status"})
  OBVIOUS
<1>7. c = o \cup p
  <2>1. {"id", "user_key", "ts", "input_type", "language", "rule_ids", "knowledge_card_ids",
         "reviewed_case_ids", "no_signal", "status", "latency_ms", "safety_blocked"}
          = {"id", "user_key", "ts", "input_type", "language", "rule_ids",
             "no_signal", "status", "latency_ms", "safety_blocked"}
            \cup {"knowledge_card_ids", "reviewed_case_ids"}
    OBVIOUS
  <2>2. Required("check_event", {"id", "user_key", "ts", "input_type", "language", "rule_ids",
                    "knowledge_card_ids", "reviewed_case_ids", "no_signal", "status", "latency_ms",
                    "safety_blocked"})
          = Required("check_event", {"id", "user_key", "ts", "input_type", "language", "rule_ids",
                        "no_signal", "status", "latency_ms", "safety_blocked"})
            \cup Required("check_event", {"knowledge_card_ids", "reviewed_case_ids"})
    BY <2>1, CellsSplit DEF Required
  <2> QED
    BY <1>1, <1>6, <2>2, Zenon
<1>8. d = q \cup (r \cup s)
  <2>1. PICK N, A, B, C :
          /\ N = {"retrieval_mode", "retrieval_status", "router_status", "kb_version", "error_class",
                  "ocr_confidence", "ocr_ms", "llm_ms", "input_tokens", "output_tokens", "cost_usd"}
          /\ A = {"error_class", "ocr_confidence", "ocr_ms", "llm_ms",
                  "input_tokens", "output_tokens", "cost_usd"}
          /\ B = {"retrieval_mode", "retrieval_status", "kb_version"}
          /\ C = {"router_status"}
    OBVIOUS
  <2>2. N = A \cup (B \cup C)
    BY <2>1
  <2>3. d = Optional("check_event", N) /\ q = Optional("check_event", A)
        /\ r = Optional("check_event", B) /\ s = Optional("check_event", C)
    BY <1>1, <1>6, <2>1, Zenon
  <2>4. Optional("check_event", N)
          = Optional("check_event", A) \cup (Optional("check_event", B) \cup Optional("check_event", C))
    <3>1. Optional("check_event", A \cup (B \cup C))
            = Optional("check_event", A) \cup Optional("check_event", B \cup C)
      BY CellsSplit DEF Optional
    <3>2. Optional("check_event", B \cup C)
            = Optional("check_event", B) \cup Optional("check_event", C)
      BY CellsSplit DEF Optional
    <3> QED
      BY <2>2, <3>1, <3>2, Zenon
  <2> QED
    BY <2>3, <2>4
<1>9. EventColumns = o \cup q \cup e /\ KnowledgeColumns = p \cup r /\ RouterColumn = s
  <2>1. UNION {o, q, e} = o \cup q \cup e
    OBVIOUS
  <2> QED
    BY <1>1, <1>6, <2>1, Zenon DEF EventColumns, KnowledgeColumns, RouterColumn
<1>10. Faceless = a \cup EventColumns \cup FeedbackColumns \cup RateColumns \cup LogColumns \cup g
                  \cup (b \cup RateScope) \cup KnowledgeColumns \cup RouterColumn
  BY <1>1, Zenon DEF Faceless, Kept, Scoped
<1>11. Faceless = DeclaredUserData
  BY <1>2, <1>3, <1>4, <1>5, <1>7, <1>8, <1>9, <1>10
<1>12. DeclaredEditorial = Articles \cup CoverColumns
  <2>1. DeclaredEditorial = (PostColumns \cup (UzLatn \cup Ru)) \cup CoverColumns
    BY EditorialPostIs, Zenon DEF DeclaredEditorial
  <2> QED
    BY <2>1 DEF Articles
<1>13. Today = Declared
  <2>1. DeclaredRules = RuleOverride \cup PrecisionColumns /\ DeclaredCards = KnowledgeCardOverride
    BY Zenon DEF DeclaredRules, DeclaredCards
  <2> QED
    BY <1>11, <1>12, <2>1 DEF Today, Declared
<1> QED
  BY <1>13, Revision14 DEF Reached, Head

-----------------------------------------------------------------------------
(* Schemas in deploys, rollbacks, backups and restores *)

\* The tables of the database's revision are as on a clean database.
Knows(d) == KnownTo(Fresh[d.rev], d.schema) = Fresh[d.rev]

\* A restored database may have tables of a later revision as well, over which a
\* migration may fail, but never one that lacks a column; one that was never restored
\* is what the migrations make of a clean one.
SchemaInv ==
    /\ Knows(db)
    /\ app.does = "migrating" => Knows(tx)
    /\ dump # NoDump => Knows(dump.db)
    /\ script.step = "psql" => Knows(dump.db)
    /\ Running => db.rev = app.image
    /\ ~restored => /\ db.schema = Fresh[db.rev]
                    /\ app.does = "migrating" => tx.schema = Fresh[tx.rev]

LEMMA SchemaInit == Init => SchemaInv
<1> SUFFICES ASSUME Init PROVE SchemaInv
  OBVIOUS
<1>1. db.schema = Fresh[db.rev] /\ Knows(db)
  BY FreshIs DEF Init, Knows, KnownTo
<1>2. app.does = "stopped" /\ dump = NoDump /\ script.step = "none"
  BY DEF Init, Idle
<1> QED
  BY <1>1, <1>2 DEF SchemaInv, Running

LEMMA UpKnows ==
    ASSUME NEW i \in 1 .. Head, NEW S, KnownTo(Fresh[i - 1], S) = Fresh[i - 1], Possible(Up(i), S)
    PROVE  KnownTo(Fresh[i], Result(Up(i), S)) = Fresh[i]
<1>1. Possible(Up(i), Fresh[i - 1]) /\ Fresh[i] = Result(Up(i), Fresh[i - 1])
  BY Sound, FreshIs DEF RevisionIsSound
<1> QED
  BY <1>1, ResultFits

LEMMA DownKnows ==
    ASSUME NEW i \in 1 .. Head, NEW S, KnownTo(Fresh[i], S) = Fresh[i], Possible(Down(i), S)
    PROVE  KnownTo(Fresh[i - 1], Result(Down(i), S)) = Fresh[i - 1]
<1>1. Possible(Down(i), Fresh[i]) /\ Fresh[i - 1] = Result(Down(i), Fresh[i])
  BY Sound DEF RevisionIsSound
<1> QED
  BY <1>1, ResultFits

LEMMA MigrateOneKnows ==
    ASSUME RowsInv, SchemaInv, MigrateOne
    PROVE  Knows(tx') /\ (~restored => tx'.schema = Fresh[tx'.rev])
<1>1. PICK i, S : i = tx.rev + 1 /\ S = tx.schema
  OBVIOUS
<1>2. i \in 1 .. Head /\ i - 1 = tx.rev
  BY <1>1, ReleasesAssumption DEF RowsInv, MigrateOne, Holds, Containers, Head
<1>3. KnownTo(Fresh[i - 1], S) = Fresh[i - 1] /\ Possible(Up(i), S)
  BY <1>1, <1>2 DEF SchemaInv, Knows, MigrateOne, Applicable
<1>4. tx'.rev = i /\ tx'.schema = Result(Up(i), S)
  BY <1>1 DEF MigrateOne
<1>5. Knows(tx')
  BY <1>2, <1>3, <1>4, UpKnows DEF Knows
<1>6. ~restored => S = Fresh[i - 1]
  BY <1>1, <1>2 DEF SchemaInv, MigrateOne
<1> QED
  BY <1>2, <1>4, <1>5, <1>6, FreshIs

LEMMA DowngradeKnows ==
    ASSUME RowsInv, SchemaInv, Downgrade
    PROVE  Knows(db') /\ (~restored => db'.schema = Fresh[db'.rev])
<1>1. PICK i, S : i = db.rev /\ S = db.schema
  OBVIOUS
<1>2. i \in 1 .. Head
  BY <1>1, ReleasesAssumption DEF RowsInv, Downgrade, Holds, Head
<1>3. KnownTo(Fresh[i], S) = Fresh[i] /\ Possible(Down(i), S)
  BY <1>1 DEF SchemaInv, Knows, Downgrade
<1>4. db'.rev = i - 1 /\ db'.schema = Result(Down(i), S)
  BY <1>1 DEF Downgrade
<1>5. Knows(db')
  BY <1>2, <1>3, <1>4, DownKnows DEF Knows
<1>6. ~restored => S = Fresh[i]
  BY <1>1 DEF SchemaInv
<1> QED
  BY <1>2, <1>4, <1>5, <1>6, Sound DEF RevisionIsSound

LEMMA PsqlKnows ==
    ASSUME RowsInv, SchemaInv, Psql
    PROVE  Knows(db')
<1>1. Knows(dump.db) /\ Knows(db)
  BY DEF SchemaInv, Psql
<1>2. CASE dump.db.rev = 0
  BY <1>1, <1>2 DEF Psql, RestoredOver
<1>3. CASE dump.db.rev # 0
  <2>1. PICK d, kept : d = dump.db /\ kept = {c \in db.schema : c.table \notin TablesIn(d.schema)}
    OBVIOUS
  <2>2. db' = [d EXCEPT !.schema = @ \cup kept]
    BY <1>3, <2>1 DEF Psql, RestoredOver
  <2>3. d = [rev |-> d.rev, schema |-> d.schema, rows |-> d.rows]
    BY <2>1 DEF RowsInv, Psql, Holds
  <2>4. db'.rev = d.rev /\ db'.schema = d.schema \cup kept
    BY <2>2, <2>3
  <2>5. PICK F : F = Fresh[d.rev]
    OBVIOUS
  <2>6. KnownTo(F, d.schema) = F
    BY <1>1, <2>1, <2>5 DEF Knows
  <2>7. \A c \in kept : c.table \notin TablesIn(F)
    BY <2>1, <2>6 DEF KnownTo, TablesIn
  <2>8. KnownTo(F, d.schema \cup kept) = F
    BY <2>6, <2>7 DEF KnownTo
  <2> QED
    BY <2>4, <2>5, <2>8 DEF Knows
<1> QED
  BY <1>2, <1>3

LEMMA SchemaStep == RowsInv /\ SchemaInv /\ [Next]_vars => SchemaInv'
<1> SUFFICES ASSUME RowsInv, SchemaInv, [Next]_vars PROVE SchemaInv'
  OBVIOUS
<1> USE DEF history
<1>0. app \in Containers /\ script \in Scripts /\ tag \in Releases
  BY DEF RowsInv
<1>1. CASE UnknownRevision \/ MigrationFails \/ Dies
  <2>1. app' = Does("exited") /\ UNCHANGED <<tag, db, dump, script, history>>
    BY <1>1 DEF UnknownRevision, MigrationFails, Dies
  <2>2. app'.does = "exited"
    BY <1>0, <2>1, DoesIs
  <2> QED
    BY <2>1, <2>2 DEF SchemaInv, Knows, Running
<1>2. CASE MigrateOne
  <2>1. app.does = "migrating" /\ UNCHANGED <<tag, app, db, dump, script, history>>
    BY <1>2 DEF MigrateOne
  <2> QED
    BY <1>2, <2>1, MigrateOneKnows DEF SchemaInv, Knows, Running
<1>3. CASE MigrationsCommit
  <2>1. /\ app.does = "migrating" /\ tx.rev = app.image /\ app' = Does("started") /\ db' = tx
        /\ UNCHANGED <<tag, dump, script, history>>
    BY <1>3 DEF MigrationsCommit
  <2>2. app'.does = "started" /\ app'.image = app.image
    BY <1>0, <2>1, DoesIs
  <2> QED
    BY <2>1, <2>2 DEF SchemaInv, Knows, Running
<1>4. CASE BecomesHealthy
  <2>1. /\ app.does = "started" /\ app' = Does("healthy")
        /\ UNCHANGED <<tag, tx, db, dump, script, history>>
    BY <1>4 DEF BecomesHealthy
  <2>2. app'.does = "healthy" /\ app'.image = app.image
    BY <1>0, <2>1, DoesIs
  <2> QED
    BY <2>1, <2>2 DEF SchemaInv, Knows, Running
<1>5. ASSUME NEW image, Starting(image), UNCHANGED <<db, dump, history>>, script'.step # "psql"
      PROVE SchemaInv'
  <2>1. app'.does = "migrating" /\ tx' = db
    BY <1>5 DEF Starting
  <2> QED
    BY <1>5, <2>1 DEF SchemaInv, Knows, Running
<1>6. CASE RestartPolicy
  <2>1. /\ app.does = "exited" /\ Starting(app.image) /\ UNCHANGED <<tag, db, dump, script, history>>
    BY <1>6 DEF RestartPolicy
  <2>2. script'.step # "psql"
    BY <2>1 DEF RowsInv
  <2> QED
    BY <1>5, <2>1, <2>2
<1>7. ASSUME NEW rows \in RowSets, IsUsed(rows) PROVE SchemaInv'
  <2>1. /\ UNCHANGED <<tag, app, tx, dump, script, restored>>
        /\ db' = [db EXCEPT !.rows = rows]
    BY <1>7 DEF IsUsed
  <2>2. db'.rev = db.rev /\ db'.schema = db.schema
    BY <2>1 DEF RowsInv, Holds
  <2> QED
    BY <2>1, <2>2 DEF SchemaInv, Knows, Running
<1>8. ASSUME UNCHANGED <<app, tx, db, dump, restored>>, script'.step # "psql" PROVE SchemaInv'
  BY <1>8 DEF SchemaInv, Knows, Running
<1>9. ASSUME NEW t \in Releases, Pin(t) PROVE SchemaInv'
  <2>1. script'.step = "pull" /\ UNCHANGED <<app, tx, db, dump, restored>>
    BY <1>9 DEF Pin
  <2> QED
    BY <1>8, <2>1
<1>10. CASE Pull \/ PullFails \/ Healthy \/ Unhealthy \/ PsqlFails
  <2>1. script'.step # "psql"
    <3>1. CASE script' = Idle
      BY <3>1 DEF Idle
    <3>2. CASE script' = At("up")
      BY <1>0, <3>2, AtIs
    <3>3. CASE Unhealthy /\ script' # Idle
      <4>1. PICK t : t = At("up")
        OBVIOUS
      <4>2. t \in Scripts /\ t.step = "up" /\ script' = [t EXCEPT !.left = @ - 1]
        BY <1>0, <3>3, <4>1, AtIs DEF Unhealthy
      <4> QED
        BY <4>2 DEF Scripts
    <3> QED
      BY <1>10, <3>1, <3>2, <3>3 DEF Pull, PullFails, Healthy, Unhealthy, PsqlFails
  <2>2. UNCHANGED <<app, tx, db, dump, restored>>
    BY <1>10 DEF Pull, PullFails, Healthy, Unhealthy, PsqlFails
  <2> QED
    BY <1>8, <2>1, <2>2
<1>11. CASE ComposeUp
  <2>1. script'.step = "wait" /\ UNCHANGED <<tag, db, dump, history>>
    BY <1>0, <1>11, AtIs DEF ComposeUp
  <2>2. CASE Starting(tag)
    BY <1>5, <2>1, <2>2
  <2>3. CASE UNCHANGED <<app, tx>>
    BY <1>8, <2>1, <2>3
  <2> QED
    BY <1>11, <2>2, <2>3 DEF ComposeUp
<1>12. CASE ComposeUpFails
  <2>1. app' = Does("stopped") /\ UNCHANGED <<tag, db, dump, history>>
    BY <1>12 DEF ComposeUpFails
  <2>2. app'.does = "stopped"
    BY <1>0, <2>1, DoesIs
  <2>3. script'.step # "psql"
    BY <1>0, <1>12 DEF ComposeUpFails, Idle, Scripts
  <2> QED
    BY <2>1, <2>2, <2>3 DEF SchemaInv, Knows, Running
<1>13. CASE Backup
  <2>1. dump' = [db |-> db, meant |-> meant] /\ UNCHANGED <<tag, app, tx, db, script, history>>
    BY <1>13 DEF Backup
  <2>2. dump'.db = db
    BY <2>1
  <2> QED
    BY <2>1, <2>2 DEF SchemaInv, Knows, Running
<1>14. CASE Stop
  <2>1. dump # NoDump /\ app' = Does("stopped") /\ UNCHANGED <<tag, db, dump, history>>
    BY <1>14 DEF Stop
  <2>2. app'.does = "stopped"
    BY <1>0, <2>1, DoesIs
  <2> QED
    BY <2>1, <2>2 DEF SchemaInv, Knows, Running
<1>15. CASE Psql
  <2>1. /\ script.step = "psql" /\ script' = At("up") /\ UNCHANGED <<tag, app, tx, dump>>
        /\ restored' = TRUE
    BY <1>15 DEF Psql
  <2>2. script'.step = "up"
    BY <1>0, <2>1, AtIs
  <2>3. app'.does = "stopped"
    BY <2>1 DEF RowsInv
  <2> QED
    BY <1>15, <2>1, <2>2, <2>3, PsqlKnows DEF SchemaInv, Knows, Running
<1>16. CASE Downgrade
  <2>1. script = Idle /\ app.does = "stopped" /\ UNCHANGED <<tag, app, tx, dump, script, history>>
    BY <1>16 DEF Downgrade
  <2> QED
    BY <1>16, <2>1, DowngradeKnows DEF SchemaInv, Knows, Running, Idle
<1>17. CASE UNCHANGED vars
  BY <1>17 DEF vars, SchemaInv, Knows, Running
<1> QED
  BY <1>1, <1>2, <1>3, <1>4, <1>6, <1>7, <1>9, <1>10, <1>11, <1>12, <1>13, <1>14, <1>15, <1>16, <1>17
     DEF Next

\* The app answers requests only on a database at its own revision that has every table
\* it knows as its migrations made it, and today's image on one with the tables its
\* models declare (the container's "alembic upgrade head && python -m app.main").
THEOREM ServedFits == Spec => []ServedSchemaFits
<1>1. RowsInv /\ SchemaInv => ServedSchemaFits
  <2> SUFFICES ASSUME RowsInv, SchemaInv, Running PROVE
        /\ db.rev = app.image /\ Fits(db.schema, app.image)
        /\ app.image = Head => {c \in db.schema : c.table \in TablesIn(Declared)} = Declared
    BY DEF ServedSchemaFits
  <2>1. db.rev = app.image
    BY DEF SchemaInv
  <2>2. Fits(db.schema, app.image)
    BY <2>1 DEF SchemaInv, Knows, KnownTo, Fits
  <2>3. app.image = Head => {c \in db.schema : c.table \in TablesIn(Declared)} = Declared
    <3>1. Fresh[Head] = Declared
      BY TodayIsDeclared
    <3> QED
      BY <2>2, <3>1, Zenon DEF Fits
  <2> QED
    BY <2>1, <2>2, <2>3
<1> QED
  BY <1>1, RowsInit, RowsStep, SchemaInit, SchemaStep, PTL DEF Spec

\* There is a way out of a bad deploy: every migration of a database that was never
\* restored can be undone, with the rows that are there (the downgrade() of each file of
\* alembic/versions).
THEOREM CanBeUndone == Spec => []MigrationsCanBeUndone
<1>1. RowsInv /\ SchemaInv => MigrationsCanBeUndone
  <2> SUFFICES ASSUME RowsInv, SchemaInv, ~restored, db.rev > 1 PROVE
        /\ db.schema = Fresh[db.rev] /\ RevisionIsSound(db.rev)
        /\ RowsFit(db.rev - 1, RowsDown(db.rev, db.rows))
    BY DEF MigrationsCanBeUndone
  <2>1. PICK i, rows : i = db.rev /\ rows = db.rows
    OBVIOUS
  <2>2. i \in 2 .. Head /\ Good(i, rows)
    BY <2>1 DEF RowsInv, Holds, Head
  <2>3. RowsFit(i - 1, RowsDown(i, rows))
    BY <2>2, DownKeepsRows DEF Good
  <2>4. RevisionIsSound(i)
    BY <2>2, Sound
  <2>5. db.schema = Fresh[db.rev]
    BY DEF SchemaInv
  <2> QED
    BY <2>1, <2>3, <2>4, <2>5
<1> QED
  BY <1>1, RowsInit, RowsStep, SchemaInit, SchemaStep, PTL DEF Spec
====
