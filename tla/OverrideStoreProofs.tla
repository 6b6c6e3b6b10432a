------------------------- MODULE OverrideStoreProofs -------------------------
(***************************************************************************)
(* Proofs about OverrideStore, for any entries, drafts, requests and       *)
(* bounds, and for any way of merging and accepting a table that accepts   *)
(* the empty one: so for the rule pack and for the knowledge base.  The    *)
(* last theorem is about the version stamp of the knowledge base.          *)
(***************************************************************************)
EXTENDS KnowledgeStore, WellFoundedInduction, TLAPS

USE DEF At, Goto

-----------------------------------------------------------------------------
(* Tables *)

LEMMA DraftIsBody ==
    ASSUME NEW d \in Drafts
    PROVE  IsBody(d)
BY DraftsAssumption DEF IsBody

LEMMA RowOfIsRow ==
    ASSUME TypeOK, NEW body, IsBody(body)
    PROVE  IsRow(RowOf(body))
BY DEF IsRow, RowOf, TypeOK

LEMMA OverwriteIsBody ==
    ASSUME NEW current, IsBody(current), NEW read, NEW draft \in Drafts
    PROVE  IsBody(Overwrite(current, read, draft))
BY DEF IsBody, Overwrite

LEMMA WithIsTable ==
    ASSUME NEW rows, IsTable(rows), NEW x \in Requests, NEW row, IsRow(row)
    PROVE  IsTable(With(rows, x, row))
BY DEF IsTable, With

LEMMA WithoutIsTable ==
    ASSUME NEW rows, IsTable(rows), NEW x
    PROVE  IsTable(Without(rows, x))
BY DEF IsTable, Without

LEMMA OnlyIsTable ==
    ASSUME NEW x \in Requests, NEW row, IsRow(row)
    PROVE  IsTable(Only(x, row))
BY DEF IsTable, Only

LEMMA NoRowsIsTable == IsTable(NoRows)
BY DEF IsTable, NoRows

LEMMA YieldsIsTable ==
    ASSUME TypeOK, NEW own, IsTable(own)
    PROVE  IsTable(Yields(own))
BY DEF TypeOK, IsTable, Yields

LEMMA NothingSeenIsRead == IsRead(NothingSeen)
BY NoRowsIsTable DEF IsRead, NothingSeen

-----------------------------------------------------------------------------
(* Types *)

LEMMA InitType == Init => TypeOK
<1> SUFFICES ASSUME Init PROVE TypeOK
    OBVIOUS
<1>1. clock \in 0 .. MaxClock /\ faults \in 0 .. MaxFaults /\ edition \in Nat
    BY BoundsAssumption DEF Init
<1>2. IsTable(table) /\ DOMAIN held = Requests /\ \A r \in Requests : IsTable(held[r])
    BY NoRowsIsTable DEF Init
<1>3. DOMAIN active = {"content", "edition"} /\ active.edition \in Nat
    BY DEF Init, Baseline, Snapshot, NothingSeen
<1>4. pc \in [Refreshers -> Labels] /\ made \in [Requests -> Nat]
    BY DEF Init, Labels
<1>5. DOMAIN seen = Refreshers /\ \A p \in Refreshers : IsRead(seen[p])
    BY NothingSeenIsRead DEF Init
<1> QED
    BY <1>1, <1>2, <1>3, <1>4, <1>5 DEF TypeOK

\* A committed write is well typed if its rows are, and so is a refused one.
LEMMA WriteType ==
    ASSUME TypeOK, NEW r \in Requests, NEW rows, IsTable(rows),
           Write(r, rows) \/ WriteUnique(r, rows)
    PROVE  /\ IsTable(table')
           /\ edition' \in Nat
           /\ pc' \in [Refreshers -> Labels]
           /\ made' \in [Requests -> Nat]
<1>1. CASE Write(r, rows)
    BY <1>1 DEF TypeOK, Write, Labels, Refreshers
<1>2. CASE ~Write(r, rows)
    BY <1>2 DEF TypeOK, WriteUnique, Labels, Ended, Refreshers
<1> QED
    BY <1>1, <1>2

LEMMA CreateType ==
    ASSUME TypeOK, NEW r \in Requests, NEW draft \in Drafts, Create(r, draft)
    PROVE  TypeOK'
<1>1. IsTable(With(table, r, RowOf(draft)))
    BY DraftIsBody, RowOfIsRow, WithIsTable DEF TypeOK
<1>2. /\ WriteUnique(r, With(table, r, RowOf(draft)))
      /\ UNCHANGED <<clock, faults, active, held, seen>>
    BY DEF Create
<1> QED
    BY <1>1, <1>2, WriteType DEF TypeOK, IsTable, IsRead, IsRow

LEMMA GetType ==
    ASSUME TypeOK, NEW r \in Requests, NEW x \in Requests, Get(r, x)
    PROVE  TypeOK'
<1>1. IsTable(Only(x, table[x]))
    BY OnlyIsTable DEF TypeOK, Get, IsTable
<1> QED
    BY <1>1 DEF TypeOK, Get, Labels, Refreshers, IsTable, IsRead, IsRow

LEMMA UpdateType ==
    ASSUME TypeOK, NEW r \in Requests, NEW x \in Requests, NEW draft \in Drafts,
           Update(r, x, draft)
    PROVE  TypeOK'
<1> DEFINE row == RowOf(Overwrite(table[x].body, held[r][x].body, draft))
<1>1. UNCHANGED <<clock, faults, active, seen>>
    BY DEF Update
<1>2. DOMAIN held' = Requests /\ \A y \in Requests : IsTable(held'[y])
    <2>1. IsTable(Only(x, RowOf(draft)))
        BY DraftIsBody, RowOfIsRow, OnlyIsTable
    <2>2. held' = [held EXCEPT ![r] = Only(x, RowOf(draft))]
        BY DEF Update, Assigned
    <2> QED
        BY <2>1, <2>2 DEF TypeOK
<1>3. CASE x \in DOMAIN table
    <2>1. IsTable(With(table, x, row))
        <3>1. IsBody(table[x].body)
            BY <1>3 DEF TypeOK, IsTable, IsRow
        <3>2. IsRow(row)
            BY <3>1, OverwriteIsBody, RowOfIsRow
        <3> QED
            BY <3>2, WithIsTable DEF TypeOK
    <2>2. WriteUnique(r, With(table, x, row))
        BY <1>3 DEF Update
    <2> HIDE DEF row
    <2> QED
        BY <1>1, <1>2, <2>1, <2>2, WriteType DEF TypeOK, IsTable, IsRead, IsRow
<1>4. CASE x \notin DOMAIN table
    BY <1>1, <1>2, <1>4 DEF TypeOK, Update, Labels, Ended, Refreshers, IsTable, IsRead, IsRow
<1> QED
    BY <1>3, <1>4

LEMMA DeleteType ==
    ASSUME TypeOK, NEW r \in Requests, NEW x \in Requests, Delete(r, x)
    PROVE  TypeOK'
<1>1. UNCHANGED <<clock, faults, active, seen>> /\ held' = [held EXCEPT ![r] = NoRows]
    BY DEF Delete
<1>2. DOMAIN held' = Requests /\ \A y \in Requests : IsTable(held'[y])
    BY <1>1, NoRowsIsTable DEF TypeOK
<1>3. CASE x \in DOMAIN table
    <2>1. Write(r, Without(table, x))
        BY <1>3 DEF Delete
    <2>2. IsTable(Without(table, x))
        BY WithoutIsTable DEF TypeOK
    <2> QED
        BY <1>1, <1>2, <2>1, <2>2, WriteType DEF TypeOK, IsTable, IsRead, IsRow
<1>4. CASE x \notin DOMAIN table
    BY <1>1, <1>2, <1>4 DEF TypeOK, Delete, Labels, Refreshers, IsTable, IsRead, IsRow
<1> QED
    BY <1>3, <1>4

LEMMA LoadType ==
    ASSUME TypeOK, NEW p \in Refreshers, Load(p)
    PROVE  TypeOK'
<1> DEFINE read == [rows |-> IF p = Job THEN table ELSE Yields(held[p]), edition |-> edition]
<1>1. IsRead(read)
    <2>1. IsTable(read.rows)
        BY YieldsIsTable DEF TypeOK, Refreshers
    <2> QED
        BY <2>1 DEF IsRead, TypeOK
<1>2. seen' = [seen EXCEPT ![p] = read]
    BY DEF Load
<1> HIDE DEF read
<1> QED
    BY <1>1, <1>2 DEF TypeOK, Load, Labels, IsTable, IsRead, IsRow

LEMMA PublishType ==
    ASSUME TypeOK, NEW p \in Refreshers, Publish(p)
    PROVE  TypeOK'
<1>1. DOMAIN active' = {"content", "edition"} /\ active'.edition \in Nat
    BY DEF TypeOK, Publish, Snapshot, IsRead
<1>2. pc' \in [Refreshers -> Labels]
    BY DEF TypeOK, Publish, Labels, Ended
<1>3. seen' = [seen EXCEPT ![p] = NothingSeen]
    BY DEF Publish
<1>4. UNCHANGED <<clock, faults, table, edition, held, made>>
    BY DEF Publish
<1> QED
    BY <1>1, <1>2, <1>3, <1>4, NothingSeenIsRead DEF TypeOK, IsTable, IsRead, IsRow

LEMMA RestartType ==
    ASSUME TypeOK, Restart
    PROVE  TypeOK'
<1>1. active' = Baseline /\ DOMAIN active' = {"content", "edition"} /\ active'.edition \in Nat
    BY DEF Restart, Baseline, Snapshot, NothingSeen
<1>2. pc' \in [Refreshers -> Labels]
    BY DEF TypeOK, Restart, Labels, Ended
<1>3. DOMAIN seen' = Refreshers /\ \A p \in Refreshers : IsRead(seen'[p])
    BY NothingSeenIsRead DEF Restart
<1>4. UNCHANGED <<clock, table, edition, held, made>> /\ faults' \in 0 .. MaxFaults
    BY BoundsAssumption DEF Restart, TypeOK
<1> QED
    BY <1>1, <1>2, <1>3, <1>4 DEF TypeOK, IsTable, IsRead, IsRow

LEMMA TypeStep == TypeOK /\ [Next]_vars => TypeOK'
<1> SUFFICES ASSUME TypeOK, [Next]_vars PROVE TypeOK'
    OBVIOUS
<1>1. ASSUME NEW r \in Requests, Request(r) PROVE TypeOK'
    <2>1. ASSUME NotFound(r) PROVE TypeOK'
        BY <2>1 DEF NotFound, TypeOK, Labels, Ended, Refreshers, IsTable, IsRead, IsRow
    <2>2. ASSUME Interrupted(r) PROVE TypeOK'
        BY <2>2, BoundsAssumption
           DEF Interrupted, TypeOK, Labels, Ended, Refreshers, IsTable, IsRead, IsRow
    <2> QED
        BY <1>1, <2>1, <2>2, CreateType, UpdateType, GetType, DeleteType DEF Request
<1>2. ASSUME NEW p \in Refreshers, Load(p) \/ Publish(p) PROVE TypeOK'
    BY <1>2, LoadType, PublishType
<1>3. CASE Restart
    BY <1>3, RestartType
<1>4. CASE Tick
    BY <1>4, BoundsAssumption DEF Tick, TypeOK, IsTable, IsRead, IsRow
<1>5. CASE UNCHANGED vars
    BY <1>5 DEF vars, TypeOK, IsTable, IsRead, IsRow
<1> QED
    BY <1>1, <1>2, <1>3, <1>4, <1>5 DEF Next

\* Every state of the store is well typed; in particular, a stored row holds in every
\* column a value that an operator submitted (update_override, update_card).
THEOREM TypeCorrect == Spec => []TypeOK
BY InitType, TypeStep, PTL DEF Spec

-----------------------------------------------------------------------------
(* Publication *)

\* Whatever is stored and whoever publishes, the checks run on a snapshot that could
\* be built (refresh_rule_pack, refresh_knowledge_base).
THEOREM InForceAcceptable == Spec => []InForceIsAcceptable
<1>1. Init => InForceIsAcceptable
    BY BaselineAssumption DEF Init, InForceIsAcceptable, Baseline, Snapshot, NothingSeen
<1>2. InForceIsAcceptable /\ [Next]_vars => InForceIsAcceptable'
    <2> SUFFICES ASSUME InForceIsAcceptable, [Next]_vars PROVE InForceIsAcceptable'
        OBVIOUS
    <2>1. ASSUME NEW p \in Refreshers, Publish(p) PROVE InForceIsAcceptable'
        BY <2>1 DEF Publish, Snapshot, InForceIsAcceptable
    <2>2. CASE Restart
        BY <2>2, BaselineAssumption
           DEF Restart, InForceIsAcceptable, Baseline, Snapshot, NothingSeen
    <2>3. ASSUME UNCHANGED active PROVE InForceIsAcceptable'
        BY <2>3 DEF InForceIsAcceptable
    <2> QED
        BY <2>1, <2>2, <2>3
           DEF Next, Request, Create, NotFound, Get, Update, Delete, Load, Interrupted,
               Tick, vars
<1> QED
    BY <1>1, <1>2, PTL DEF Spec

\* The edition that a refresh was served is at least the one its own request made.
ReadsItsOwnWrite ==
    \A r \in Requests :
        /\ made[r] <= edition
        /\ At(r, "loaded") => made[r] <= seen[r].edition

LEMMA ReadsItsOwnWriteStep ==
    TypeOK /\ ReadsItsOwnWrite /\ [Next]_vars => ReadsItsOwnWrite'
<1> SUFFICES ASSUME TypeOK, ReadsItsOwnWrite, [Next]_vars,
                    NEW x \in Requests
             PROVE  /\ made'[x] <= edition'
                    /\ pc'[x] = "loaded" => made'[x] <= seen'[x].edition
    BY DEF ReadsItsOwnWrite
<1> USE DEF TypeOK, ReadsItsOwnWrite, Refreshers, IsRead
<1>1. ASSUME NEW r \in Requests, NEW rows, Write(r, rows), UNCHANGED seen
      PROVE  /\ made'[x] <= edition'
             /\ pc'[x] = "loaded" => made'[x] <= seen'[x].edition
    BY <1>1 DEF Write
<1>2. ASSUME NEW r \in Requests, UNCHANGED <<edition, seen, made>>,
             \E label \in Labels \ {"loaded"} : Goto(r, label)
      PROVE  /\ made'[x] <= edition'
             /\ pc'[x] = "loaded" => made'[x] <= seen'[x].edition
    BY <1>2
<1>3. ASSUME NEW r \in Requests, Request(r)
      PROVE  /\ made'[x] <= edition'
             /\ pc'[x] = "loaded" => made'[x] <= seen'[x].edition
    <2>1. ASSUME NEW d \in Drafts, Create(r, d)
          PROVE  /\ made'[x] <= edition'
                 /\ pc'[x] = "loaded" => made'[x] <= seen'[x].edition
        BY <1>1, <1>2, <2>1 DEF Create, WriteUnique, Labels, Ended
    <2>2. ASSUME NEW y \in Requests, NEW d \in Drafts, Update(r, y, d)
          PROVE  /\ made'[x] <= edition'
                 /\ pc'[x] = "loaded" => made'[x] <= seen'[x].edition
        BY <1>1, <1>2, <2>2 DEF Update, WriteUnique, Labels, Ended
    <2>3. ASSUME NEW y \in Requests, Delete(r, y)
          PROVE  /\ made'[x] <= edition'
                 /\ pc'[x] = "loaded" => made'[x] <= seen'[x].edition
        BY <1>1, <1>2, <2>3 DEF Delete, Labels, Ended
    <2>4. ASSUME (\E y \in Requests : Get(r, y)) \/ NotFound(r) \/ Interrupted(r)
          PROVE  /\ made'[x] <= edition'
                 /\ pc'[x] = "loaded" => made'[x] <= seen'[x].edition
        BY <1>2, <2>4 DEF Get, NotFound, Interrupted, Labels, Ended
    <2> QED
        BY <1>3, <2>1, <2>2, <2>3, <2>4 DEF Request
<1>4. ASSUME NEW p \in Refreshers, Load(p)
      PROVE  /\ made'[x] <= edition'
             /\ pc'[x] = "loaded" => made'[x] <= seen'[x].edition
    BY <1>4 DEF Load
<1>5. ASSUME NEW p \in Refreshers, Publish(p)
      PROVE  /\ made'[x] <= edition'
             /\ pc'[x] = "loaded" => made'[x] <= seen'[x].edition
    BY <1>5, RequestsAssumption DEF Publish
<1>6. CASE Restart
    BY <1>6, RequestsAssumption DEF Restart, Ended
<1>7. CASE Tick
    BY <1>7 DEF Tick
<1>8. CASE UNCHANGED vars
    BY <1>8 DEF vars
<1> QED
    BY <1>3, <1>4, <1>5, <1>6, <1>7, <1>8 DEF Next

\* An operator is told that an edit was accepted only in a step that publishes a
\* snapshot no older than the edit (admin_rule_save, admin_card_save).
THEOREM EditsPublished == Spec => AcceptedEditsArePublished
<1>1. Init => ReadsItsOwnWrite
    BY DEF Init, ReadsItsOwnWrite, Refreshers
<1>2. TypeOK /\ ReadsItsOwnWrite /\ [Next]_vars =>
        [\A r \in Requests : ~At(r, "accepted") /\ pc'[r] = "accepted" =>
             active'.edition >= made[r]]_vars
    <2> SUFFICES ASSUME TypeOK, ReadsItsOwnWrite, Next,
                        NEW r \in Requests, pc[r] # "accepted", pc'[r] = "accepted"
                 PROVE  active'.edition >= made[r]
        BY DEF vars
    <2> USE DEF TypeOK, Refreshers
    <2>1. ASSUME NEW p \in Refreshers, Publish(p) PROVE active'.edition >= made[r]
        BY <2>1, RequestsAssumption DEF Publish, Snapshot, ReadsItsOwnWrite, IsRead
    <2>2. ~\E q \in Requests : Request(q)
        BY DEF Request, Create, Update, Get, Delete, NotFound, Interrupted, Write, WriteUnique
    <2>3. ~\E p \in Refreshers : Load(p)
        BY DEF Load
    <2>4. ~Restart /\ ~Tick
        BY RequestsAssumption DEF Restart, Tick
    <2> QED
        BY <2>1, <2>2, <2>3, <2>4 DEF Next
<1> QED
    BY <1>1, <1>2, InitType, TypeStep, ReadsItsOwnWriteStep, PTL
       DEF Spec, AcceptedEditsArePublished

\* A deleted row never comes back through somebody's update: the rows that appear are
\* those that a request creates (update_override, update_card).
THEOREM DeletionsLast == Spec => NoRowComesBack
<1>1. TypeOK /\ [Next]_vars =>
        [\A x \in DOMAIN table' \ DOMAIN table : At(x, "idle")]_vars
    <2> SUFFICES ASSUME TypeOK, Next, NEW x \in DOMAIN table' \ DOMAIN table
                 PROVE  pc[x] = "idle"
        BY DEF vars
    <2>1. ASSUME NEW r \in Requests, NEW d \in Drafts, Create(r, d)
          PROVE  pc[x] = "idle"
        BY <2>1 DEF Create, WriteUnique, Write, With
    <2>2. ASSUME NEW r \in Requests, NEW y \in Requests, NEW d \in Drafts, Update(r, y, d)
          PROVE  FALSE
        BY <2>2 DEF Update, WriteUnique, Write, With
    <2>3. ASSUME NEW r \in Requests, NEW y \in Requests, Delete(r, y)
          PROVE  FALSE
        BY <2>3 DEF Delete, Write, Without
    <2>4. UNCHANGED table => FALSE
        OBVIOUS
    <2> QED
        BY <2>1, <2>2, <2>3, <2>4
           DEF Next, Request, Get, NotFound, Interrupted, Load, Publish, Restart, Tick
<1> QED
    BY <1>1, InitType, TypeStep, PTL DEF Spec, NoRowComesBack

-----------------------------------------------------------------------------
(* Errors *)

\* Until its write is committed a request has made nothing, and it is refused before.
RefusedBeforeTheWrite ==
    \A r \in Requests : pc[r] \in {"idle", "read", "refused"} => made[r] = 0

\* An edit that is answered with an error was not stored, in any store where every
\* snapshot can be built, as the base of knowledge cards can (merge_knowledge_base,
\* admin_card_save).  Where some cannot, as a rule pack, TLC finds it violated.
THEOREM RefusalsLeaveNoTrace ==
    ASSUME \A rows : Acceptable(Merge(rows))
    PROVE  Spec => []RefusedEditsLeaveNoTrace
<1>1. Init => RefusedBeforeTheWrite
    BY DEF Init, RefusedBeforeTheWrite, Refreshers
<1>2. TypeOK /\ RefusedBeforeTheWrite /\ [Next]_vars => RefusedBeforeTheWrite'
    <2> SUFFICES ASSUME TypeOK, RefusedBeforeTheWrite, [Next]_vars, NEW x \in Requests,
                        pc'[x] \in {"idle", "read", "refused"}
                 PROVE  made'[x] = 0
        BY DEF RefusedBeforeTheWrite
    <2> USE DEF TypeOK, Refreshers
    <2>1. ASSUME NEW r \in Requests, NEW rows, Write(r, rows) PROVE made'[x] = 0
        BY <2>1 DEF Write, RefusedBeforeTheWrite
    <2>2. ASSUME NEW r \in Requests, UNCHANGED made,
                 \/ pc[r] \in {"idle", "read"} /\ \E label \in Labels : Goto(r, label)
                 \/ \E label \in Labels \ {"idle", "read", "refused"} : Goto(r, label)
          PROVE  made'[x] = 0
        BY <2>2 DEF RefusedBeforeTheWrite
    <2>3. ASSUME NEW r \in Requests, Request(r) PROVE made'[x] = 0
        <3>1. ASSUME NEW d \in Drafts, Create(r, d) PROVE made'[x] = 0
            BY <2>1, <2>2, <3>1 DEF Create, WriteUnique, Labels, Ended
        <3>2. ASSUME NEW y \in Requests, NEW d \in Drafts, Update(r, y, d) PROVE made'[x] = 0
            BY <2>1, <2>2, <3>2 DEF Update, WriteUnique, Labels, Ended
        <3>3. ASSUME NEW y \in Requests, Delete(r, y) PROVE made'[x] = 0
            BY <2>1, <2>2, <3>3 DEF Delete, Labels, Ended
        <3>4. ASSUME (\E y \in Requests : Get(r, y)) \/ NotFound(r) \/ Interrupted(r)
              PROVE  made'[x] = 0
            BY <2>2, <3>4 DEF Get, NotFound, Interrupted, Labels, Ended
        <3> QED
            BY <2>3, <3>1, <3>2, <3>3, <3>4 DEF Request
    <2>4. ASSUME NEW p \in Refreshers, Load(p) \/ Publish(p) PROVE made'[x] = 0
        BY <2>4, RequestsAssumption DEF Load, Publish, RefusedBeforeTheWrite
    <2>5. CASE Restart
        BY <2>5, RequestsAssumption DEF Restart, RefusedBeforeTheWrite, Ended
    <2>6. CASE Tick \/ UNCHANGED vars
        BY <2>6 DEF Tick, vars, RefusedBeforeTheWrite
    <2> QED
        BY <2>3, <2>4, <2>5, <2>6 DEF Next
<1>3. RefusedBeforeTheWrite => RefusedEditsLeaveNoTrace
    BY DEF RefusedBeforeTheWrite, RefusedEditsLeaveNoTrace
<1> QED
    BY <1>1, <1>2, <1>3, InitType, TypeStep, PTL DEF Spec

\* Before its write is committed a request has made nothing.
NothingMadeYet == \A r \in Requests : pc[r] \in {"idle", "read"} => made[r] = 0

LEMMA NothingMadeYetStep == TypeOK /\ NothingMadeYet /\ [Next]_vars => NothingMadeYet'
<1> SUFFICES ASSUME TypeOK, NothingMadeYet, [Next]_vars, NEW x \in Requests,
                    pc'[x] \in {"idle", "read"}
             PROVE  made'[x] = 0
    BY DEF NothingMadeYet
<1> USE DEF TypeOK, Refreshers
<1>1. ASSUME NEW r \in Requests, NEW rows, Write(r, rows) PROVE made'[x] = 0
    BY <1>1 DEF Write, NothingMadeYet
<1>2. ASSUME NEW r \in Requests, UNCHANGED made,
             \/ pc[r] = "idle" /\ Goto(r, "read")
             \/ \E label \in Labels \ {"idle", "read"} : Goto(r, label)
      PROVE  made'[x] = 0
    BY <1>2 DEF NothingMadeYet
<1>3. ASSUME NEW r \in Requests, Request(r) PROVE made'[x] = 0
    <2>1. ASSUME NEW d \in Drafts, Create(r, d) PROVE made'[x] = 0
        BY <1>1, <1>2, <2>1 DEF Create, WriteUnique, Labels, Ended
    <2>2. ASSUME NEW y \in Requests, NEW d \in Drafts, Update(r, y, d) PROVE made'[x] = 0
        BY <1>1, <1>2, <2>2 DEF Update, WriteUnique, Labels, Ended
    <2>3. ASSUME NEW y \in Requests, Delete(r, y) PROVE made'[x] = 0
        BY <1>1, <1>2, <2>3 DEF Delete, Labels, Ended
    <2>4. ASSUME (\E y \in Requests : Get(r, y)) \/ NotFound(r) \/ Interrupted(r)
          PROVE  made'[x] = 0
        BY <1>2, <2>4 DEF Get, NotFound, Interrupted, Labels, Ended
    <2> QED
        BY <1>3, <2>1, <2>2, <2>3, <2>4 DEF Request
<1>4. ASSUME NEW p \in Refreshers, Load(p) \/ Publish(p) PROVE made'[x] = 0
    BY <1>4, RequestsAssumption DEF Load, Publish, NothingMadeYet
<1>5. CASE Restart
    BY <1>5, RequestsAssumption DEF Restart, NothingMadeYet, Ended
<1>6. CASE Tick \/ UNCHANGED vars
    BY <1>6 DEF Tick, vars, NothingMadeYet
<1> QED
    BY <1>3, <1>4, <1>5, <1>6 DEF Next

\* Where an operator is answered with an error although the edit was stored, it is
\* because the rows that the refresh was served make no snapshot: rows not older than
\* the edit, whoever wrote the others; and what is in force stays in force
\* (admin_rule_save, refresh_rule_pack).
RefusedForItsRows ==
    [][\A r \in Requests :
         ~At(r, "refused") /\ pc'[r] = "refused" /\ made'[r] # 0 =>
            /\ ~Acceptable(Merge(seen[r].rows))
            /\ seen[r].edition >= made[r]
            /\ UNCHANGED active]_vars

\* The hypothesis-free companion of RefusalsLeaveNoTrace: what is true of a rule pack,
\* of which some snapshots cannot be built.
THEOREM RefusalsExplained == Spec => RefusedForItsRows
<1>1. Init => ReadsItsOwnWrite /\ NothingMadeYet
    BY DEF Init, ReadsItsOwnWrite, NothingMadeYet, Refreshers
<1>2. ASSUME TypeOK, ReadsItsOwnWrite, NothingMadeYet, Next,
             NEW r \in Requests, pc[r] # "refused", pc'[r] = "refused", made'[r] # 0
      PROVE  /\ ~Acceptable(Merge(seen[r].rows))
             /\ seen[r].edition >= made[r]
             /\ UNCHANGED active
    <2> USE DEF TypeOK, Refreshers
    <2>1. ASSUME NEW q \in Requests, Request(q) PROVE FALSE
        <3>1. ASSUME NEW d \in Drafts, Create(q, d) PROVE FALSE
            BY <1>2, <3>1 DEF Create, WriteUnique, Write, NothingMadeYet
        <3>2. ASSUME NEW y \in Requests, NEW d \in Drafts, Update(q, y, d) PROVE FALSE
            BY <1>2, <3>2 DEF Update, WriteUnique, Write, NothingMadeYet
        <3>3. ASSUME NEW y \in Requests, Delete(q, y) PROVE FALSE
            BY <1>2, <3>3 DEF Delete, Write, NothingMadeYet
        <3>4. ASSUME (\E y \in Requests : Get(q, y)) \/ NotFound(q) \/ Interrupted(q)
              PROVE  FALSE
            BY <1>2, <3>4 DEF Get, NotFound, Interrupted, NothingMadeYet
        <3> QED
            BY <2>1, <3>1, <3>2, <3>3, <3>4 DEF Request
    <2>2. ~\E p \in Refreshers : Load(p)
        BY <1>2 DEF Load
    <2>3. ~Restart /\ ~Tick
        BY <1>2, RequestsAssumption DEF Restart, Tick
    <2>4. PICK p \in Refreshers : Publish(p)
        BY <1>2, <2>1, <2>2, <2>3 DEF Next
    <2>5. p = r /\ pc[r] = "loaded" /\ made'[r] = made[r]
        BY <1>2, <2>4, RequestsAssumption DEF Publish
    <2>6. ~Acceptable(Merge(seen[r].rows)) /\ UNCHANGED active
        BY <1>2, <2>4, <2>5, RequestsAssumption DEF Publish
    <2>7. made[r] <= seen[r].edition /\ made[r] \in Nat /\ seen[r].edition \in Nat
        BY <1>2, <2>5 DEF ReadsItsOwnWrite, IsRead
    <2> QED
        BY <2>6, <2>7
<1>3. TypeOK /\ ReadsItsOwnWrite /\ NothingMadeYet /\ [Next]_vars =>
        [\A r \in Requests :
           ~At(r, "refused") /\ pc'[r] = "refused" /\ made'[r] # 0 =>
              /\ ~Acceptable(Merge(seen[r].rows))
              /\ seen[r].edition >= made[r]
              /\ UNCHANGED active]_vars
    BY <1>2
<1> QED
    BY <1>1, <1>3, InitType, TypeStep, ReadsItsOwnWriteStep, NothingMadeYetStep, PTL
       DEF Spec, RefusedForItsRows

-----------------------------------------------------------------------------
(* Convergence, but for its liveness *)

\* A refresh of the job that no write has overtaken holds the stored rows.
JobReadsTheTable ==
    At(Job, "loaded") =>
        /\ seen[Job].edition <= edition
        /\ seen[Job].edition = edition => seen[Job].rows = table

LEMMA JobReadsTheTableStep ==
    TypeOK /\ JobReadsTheTable /\ [Next]_vars => JobReadsTheTable'
<1> SUFFICES ASSUME TypeOK, JobReadsTheTable, [Next]_vars, pc'[Job] = "loaded"
             PROVE  /\ seen'[Job].edition <= edition'
                    /\ seen'[Job].edition = edition' => seen'[Job].rows = table'
    BY DEF JobReadsTheTable
<1> USE RequestsAssumption DEF TypeOK, Refreshers, IsRead
<1>1. ASSUME NEW r \in Requests, NEW rows, Write(r, rows), UNCHANGED seen
      PROVE  JobReadsTheTable'
    BY <1>1 DEF Write, JobReadsTheTable
<1>2. ASSUME UNCHANGED <<table, edition, seen>>, pc[Job] = "loaded"
      PROVE  JobReadsTheTable'
    BY <1>2 DEF JobReadsTheTable
<1>3. ASSUME NEW r \in Requests, Request(r) PROVE JobReadsTheTable'
    <2>1. pc[Job] = "loaded"
        BY <1>3 DEF Request, Create, Update, Get, Delete, NotFound, Interrupted, WriteUnique, Write
    <2>2. UNCHANGED seen
        BY <1>3 DEF Request, Create, Update, Get, Delete, NotFound, Interrupted
    <2>3. (\E rows : Write(r, rows)) \/ UNCHANGED <<table, edition>>
        BY <1>3 DEF Request, Create, Update, Get, Delete, NotFound, Interrupted, WriteUnique
    <2> QED
        BY <1>1, <1>2, <2>1, <2>2, <2>3
<1>4. ASSUME NEW p \in Refreshers, Load(p) PROVE JobReadsTheTable'
    <2>1. CASE p = Job
        BY <1>4, <2>1 DEF Load, JobReadsTheTable
    <2>2. CASE p # Job
        BY <1>4, <2>2 DEF Load, JobReadsTheTable
    <2> QED
        BY <2>1, <2>2
<1>5. ASSUME NEW p \in Refreshers, Publish(p) PROVE JobReadsTheTable'
    <2>1. p # Job
        BY <1>5 DEF Publish
    <2> QED
        BY <1>5, <2>1 DEF Publish, JobReadsTheTable
<1>6. CASE Restart
    BY <1>6 DEF Restart
<1>7. CASE Tick \/ UNCHANGED vars
    BY <1>7 DEF Tick, vars, JobReadsTheTable
<1> QED
    BY <1>3, <1>4, <1>5, <1>6, <1>7 DEF Next, JobReadsTheTable

\* What the stored rows make is in force, if they make something; no request can write
\* or publish any more, and the job is not about to publish older rows.
Settled ==
    /\ \A r \in Requests : pc[r] \in Ended
    /\ At(Job, "loaded") => seen[Job].rows = table
    /\ Acceptable(Merge(table)) => active.content = Merge(table)

\* One refresh of the job that no write overtakes puts in force what the stored rows
\* make; and once that is in force and every request has ended, only a restart takes
\* it out again (run_rule_pack_refresh_job, refresh_rule_pack).
JobConverges ==
    [][/\ Publish(Job) /\ seen[Job].edition = edition /\ Acceptable(Merge(table))
            => active'.content = Merge(table)
       /\ Settled => Settled' \/ Restart]_vars

\* What InForceConverges rests on besides the fairness of the job: its passing refresh
\* converges, and what it converged to is stable.
THEOREM JobPublishesTheStore == Spec => JobConverges
<1>1. Init => JobReadsTheTable
    BY DEF Init, JobReadsTheTable, Refreshers
<1>2. ASSUME TypeOK, JobReadsTheTable, Publish(Job), seen[Job].edition = edition,
             Acceptable(Merge(table))
      PROVE  active'.content = Merge(table)
    BY <1>2 DEF Publish, JobReadsTheTable, Snapshot
<1>3. ASSUME TypeOK, Settled, Next, ~Restart
      PROVE  Settled'
    <2> USE RequestsAssumption DEF TypeOK, Refreshers
    <2>1. ~\E r \in Requests : Request(r)
        BY <1>3 DEF Settled, Ended, Request, Create, Update, Get, Delete, NotFound, Interrupted
    <2>2. ASSUME NEW p \in Refreshers, Load(p) PROVE Settled'
        <3>1. p = Job
            BY <1>3, <2>2 DEF Load, Settled, Ended
        <3> QED
            BY <1>3, <2>2, <3>1 DEF Load, Settled
    <2>3. ASSUME NEW p \in Refreshers, Publish(p) PROVE Settled'
        <3>1. p = Job
            BY <1>3, <2>3 DEF Publish, Settled, Ended
        <3> QED
            BY <1>3, <2>3, <3>1 DEF Publish, Settled, Snapshot
    <2>4. ASSUME Tick PROVE Settled'
        BY <1>3, <2>4 DEF Tick, Settled
    <2> QED
        BY <1>3, <2>1, <2>2, <2>3, <2>4 DEF Next
<1>4. TypeOK /\ JobReadsTheTable /\ [Next]_vars =>
        [/\ Publish(Job) /\ seen[Job].edition = edition /\ Acceptable(Merge(table))
              => active'.content = Merge(table)
         /\ Settled => Settled' \/ Restart]_vars
    BY <1>2, <1>3
<1> QED
    BY <1>1, <1>4, InitType, TypeStep, JobReadsTheTableStep, PTL DEF Spec, JobConverges

-----------------------------------------------------------------------------
(* The version of the knowledge base *)

\* Some natural number of a set is its least.
LEMMA Least ==
    ASSUME NEW T \in SUBSET Nat, T # {}
    PROVE  \E n \in T : \A m \in T : n <= m
<1>1. PICK R : R = OpToRel(<, Nat)
    BY Zenon
<1>2. R = {p \in Nat \X Nat : p[1] < p[2]}
    BY <1>1 DEF OpToRel
<1>3. IsWellFoundedOn(R, Nat)
    BY <1>1, NatLessThanWellFounded, Zenon
<1>4. \A x, y \in Nat : x < y => <<x, y>> \in R
    BY <1>2
<1>5. PICK n \in T : \A m \in T : ~(<<m, n>> \in R)
    BY <1>3, WFMin
<1>6. ASSUME NEW m \in T PROVE n <= m
    <2>1. m \in Nat /\ n \in Nat /\ ~(<<m, n>> \in R)
        BY <1>5
    <2>2. ~(m < n)
        BY <1>4, <2>1
    <2> QED
        BY <2>1, <2>2
<1> QED
    BY <1>6

\* The maximum of integers that have a bound is one of them.
LEMMA MaxOfBounded ==
    ASSUME NEW S \in SUBSET Int, NEW bound \in Int, \A v \in S : v <= bound, NEW v0 \in S
    PROVE  Max(S) \in S /\ \A v \in S : Max(S) >= v
<1> DEFINE gaps == {n \in Nat : bound - n \in S}
<1>1. gaps \subseteq Nat /\ gaps # {}
    <2>1. bound - v0 \in Nat /\ bound - (bound - v0) = v0
        OBVIOUS
    <2> QED
        BY <2>1
<1>2. PICK n \in gaps : \A m \in gaps : n <= m
    <2> HIDE DEF gaps
    <2> QED
        BY <1>1, Least
<1>3. n \in Nat /\ bound - n \in S
    BY <1>2
<1>4. ASSUME NEW v \in S PROVE bound - n >= v
    <2>1. bound - v \in Nat /\ bound - (bound - v) = v
        OBVIOUS
    <2>2. bound - v \in gaps
        BY <2>1
    <2> HIDE DEF gaps
    <2> QED
        BY <1>2, <1>3, <2>1, <2>2
<1> QED
    BY <1>3, <1>4 DEF Max

\* The seconds of the stored rows, and the stamp of a base without overrides.
Stamps(rows) == {rows[x].at : x \in DOMAIN rows} \cup {Unstamped}

LEMMA VersionIsTheNewest ==
    ASSUME NEW rows, IsTable(rows)
    PROVE  KbVersion(rows) \in Stamps(rows) /\ \A v \in Stamps(rows) : KbVersion(rows) >= v
<1>1. Stamps(rows) \in SUBSET Int /\ \A v \in Stamps(rows) : v <= MaxClock
    BY BoundsAssumption DEF Stamps, Unstamped, IsTable, IsRow
<1>2. Unstamped \in Stamps(rows) /\ MaxClock \in Int
    BY BoundsAssumption DEF Stamps
<1>3. KbVersion(rows) = Max(Stamps(rows))
    BY DEF KbVersion, Stamps
<1> QED
    BY <1>1, <1>2, <1>3, MaxOfBounded

\* An edit made in a later second than every stored row moves the version of the
\* knowledge base (derive_kb_version, update_card, create_card).
THEOREM VersionMoves == Spec => VersionFollowsEdits
<1>1. ASSUME TypeOK, TypeOK', [Next]_vars, LaterEdit PROVE KbVersion(table') # KbVersion(table)
    <2>1. PICK x \in DOMAIN table' : x \notin DOMAIN table \/ table'[x] # table[x]
        BY <1>1 DEF LaterEdit
    <2>2. table'[x].at = clock
        <3>1. ASSUME NEW r \in Requests, NEW d \in Drafts, Create(r, d)
              PROVE  table'[x].at = clock
            BY <2>1, <3>1 DEF Create, WriteUnique, Write, With, RowOf
        <3>2. ASSUME NEW r \in Requests, NEW y \in Requests, NEW d \in Drafts, Update(r, y, d)
              PROVE  table'[x].at = clock
            BY <2>1, <3>2 DEF Update, WriteUnique, Write, With, RowOf
        <3>3. ASSUME NEW r \in Requests, NEW y \in Requests, Delete(r, y)
              PROVE  FALSE
            BY <2>1, <3>3 DEF Delete, Write, Without
        <3>4. UNCHANGED table => FALSE
            BY <2>1
        <3> QED
            BY <1>1, <3>1, <3>2, <3>3, <3>4
               DEF Next, Request, Get, NotFound, Interrupted, Load, Publish, Restart, Tick, vars
    <2>3. clock \in Stamps(table') /\ clock \in Nat
        BY <1>1, <2>1, <2>2, BoundsAssumption DEF Stamps, TypeOK
    <2>4. \A v \in Stamps(table) : v < clock
        BY <1>1, <2>3 DEF Stamps, LaterEdit, Unstamped
    <2>5. KbVersion(table') >= clock
        BY <1>1, <2>3, VersionIsTheNewest DEF TypeOK
    <2>6. KbVersion(table) < clock
        BY <1>1, <2>4, VersionIsTheNewest DEF TypeOK
    <2>7. KbVersion(table) \in Int /\ KbVersion(table') \in Int
        BY <1>1, VersionIsTheNewest, BoundsAssumption
           DEF TypeOK, Stamps, Unstamped, IsTable, IsRow
    <2> QED
        BY <2>3, <2>5, <2>6, <2>7
<1>2. TypeOK /\ TypeOK' /\ [Next]_vars => [LaterEdit => KbVersion(table') # KbVersion(table)]_vars
    BY <1>1
<1> QED
    BY <1>2, InitType, TypeStep, PTL DEF Spec, VersionFollowsEdits
=============================================================================
