------------------------------ MODULE RowProofs ------------------------------
(* What the stores that keep rows ensure, on Postgres and in memory: the kill *)
(* switch and its audit, sign requests, wallets with their policies, and the *)
(* records of token launches.                                                *)
EXTENDS KillSwitchRow, SigningStores, WalletPolicies, LaunchRecords, SequenceTheorems,
        FiniteSetTheorems, TLAPS

Version == [mode : Modes, version : Nat]
AuditEntry   == [id : Nat, from : Modes, to : Modes]
TxSteps   == {"idle", "read", "create", "update", "audit", "commit"}
Tx      == [pc : TxSteps, to : Modes, from : Modes, row : Version \cup {NoRow}, id : Nat]

SwitchTyped ==
  /\ switchRow \in Version \cup {NoRow}
  /\ auditRows \in Seq(AuditEntry)
  /\ auditIds \in Nat
  /\ tx \in [Requests -> Tx]

\* One transaction at most holds the row, and none at its beginning; one that is
\* to update a row it does not hold has seen a committed one.
OneHolds ==
  /\ \A r, q \in Requests : Holds(r) /\ Holds(q) => r = q
  /\ \A r \in Requests :
       /\ tx[r].pc \in {"idle", "read", "create"} => ~Holds(r)
       /\ tx[r].pc = "update" /\ ~Holds(r) => switchRow # NoRow
       /\ tx[r].pc \in {"audit", "commit"} => Holds(r)

\* The row that a transaction holds is the next version after the committed one:
\* it has set the mode it was asked for, or it has just made the first row.
NextVersion ==
  \A r \in Requests : Holds(r) =>
    /\ tx[r].pc \in {"audit", "commit"} =>
         tx[r].row.mode = tx[r].to /\ tx[r].row.version = Len(auditRows) + 1
    /\ tx[r].pc = "update" => tx[r].row = FirstRow /\ switchRow = NoRow

\* The number a transaction has taken is later than all that were committed.
Numbered ==
  /\ \A i \in 1 .. Len(auditRows) : auditRows[i].id <= auditIds
  /\ \A r \in Requests : tx[r].pc = "commit" =>
       /\ tx[r].id <= auditIds
       /\ \A i \in 1 .. Len(auditRows) : auditRows[i].id < tx[r].id

SwitchInv == SwitchTyped /\ OneHolds /\ NextVersion /\ Numbered /\ AuditTellsMode

LEMMA SwitchInitInv ==
  ASSUME SwitchInit
  PROVE  SwitchInv
  <1>1. SwitchTyped
    BY SwitchAssumption DEF SwitchInit, SwitchTyped, NoTx, Tx, TxSteps
  <1>2. \A r \in Requests : tx[r].pc = "idle" /\ ~Holds(r)
    BY DEF SwitchInit, Holds, NoTx
  <1>3. auditRows = <<>> /\ switchRow = NoRow /\ Len(auditRows) = 0
    BY DEF SwitchInit
  <1>4. OneHolds /\ NextVersion /\ Numbered
    BY <1>2, <1>3 DEF OneHolds, NextVersion, Numbered
  <1>5. AuditTellsMode
    BY <1>3 DEF AuditTellsMode
  <1>6. QED
    BY <1>1, <1>4, <1>5 DEF SwitchInv

LEMMA EntryIds ==
  ASSUME SwitchTyped
  PROVE  \A i \in 1 .. Len(auditRows) : auditRows[i].id \in Nat
  <1> SUFFICES ASSUME NEW i \in 1 .. Len(auditRows)
               PROVE  auditRows[i].id \in Nat
    OBVIOUS
  <1>1. auditRows \in Seq(AuditEntry)
    BY DEF SwitchTyped
  <1>2. auditRows[i] \in AuditEntry
    BY <1>1, ElementOfSeq
  <1>3. QED
    BY <1>2 DEF AuditEntry

\* The first row comes while no transaction holds it.
LEMMA GetStateInv ==
  ASSUME SwitchInv, GetState
  PROVE  SwitchInv'
  <1>1. /\ switchRow = NoRow /\ \A r \in Requests : ~Holds(r)
        /\ switchRow' = FirstRow /\ FirstRow # NoRow /\ FirstRow \in Version
        /\ auditRows' = auditRows /\ auditIds' = auditIds /\ tx' = tx
    BY SwitchAssumption DEF GetState, FirstRow, Version
  <1>2. Len(auditRows) = 0
    BY <1>1 DEF SwitchInv, AuditTellsMode
  <1>3. \A r \in Requests : ~Holds(r)'
    BY <1>1 DEF Holds
  <1>4. SwitchTyped'
    BY <1>1 DEF SwitchInv, SwitchTyped
  <1>5. OneHolds' /\ NextVersion' /\ Numbered'
    BY <1>1, <1>3 DEF SwitchInv, OneHolds, NextVersion, Numbered
  <1>6. AuditTellsMode'
    BY <1>1, <1>2 DEF SwitchInv, SwitchTyped, AuditTellsMode, FirstRow
  <1>7. QED
    BY <1>4, <1>5, <1>6 DEF SwitchInv

\* A step of a transaction before its commit: nobody else sees it.
LEMMA StepInside ==
  ASSUME SwitchInv, NEW r \in Requests,
         UNCHANGED <<switchRow, auditRows>>, auditIds' \in Nat, auditIds <= auditIds',
         tx' \in [Requests -> Tx], \A q \in Requests \ {r} : tx'[q] = tx[q],
         tx'[r].pc \in {"idle", "read", "create"} => tx'[r].row = NoRow,
         tx'[r].pc = "update" /\ tx'[r].row = NoRow => switchRow # NoRow,
         tx'[r].pc = "update" /\ tx'[r].row # NoRow => tx'[r].row = FirstRow /\ switchRow = NoRow,
         tx'[r].pc \in {"audit", "commit"} =>
           /\ tx'[r].row # NoRow
           /\ tx'[r].row.mode = tx'[r].to /\ tx'[r].row.version = Len(auditRows) + 1,
         tx'[r].row # NoRow => Free(r),
         tx'[r].pc = "commit" =>
           tx'[r].id <= auditIds' /\ \A i \in 1 .. Len(auditRows) : auditRows[i].id < tx'[r].id
  PROVE  SwitchInv'
  <1>1. \A q \in Requests \ {r} : Holds(q)' <=> Holds(q)
    BY DEF Holds
  <1>2. Holds(r)' <=> tx'[r].row # NoRow
    BY DEF Holds
  <1>3. SwitchTyped'
    BY DEF SwitchInv, SwitchTyped
  <1>4. OneHolds'
    <2>1. ASSUME NEW p \in Requests, NEW q \in Requests, Holds(p)', Holds(q)'
          PROVE  p = q
      BY <1>1, <1>2, <2>1 DEF SwitchInv, OneHolds, Free
    <2>2. ASSUME NEW q \in Requests
          PROVE  /\ tx'[q].pc \in {"idle", "read", "create"} => ~Holds(q)'
                 /\ tx'[q].pc = "update" /\ ~Holds(q)' => switchRow' # NoRow
                 /\ tx'[q].pc \in {"audit", "commit"} => Holds(q)'
      BY <1>1, <1>2 DEF SwitchInv, OneHolds
    <2>3. QED
      BY <2>1, <2>2 DEF OneHolds
  <1>5. NextVersion'
    <2> SUFFICES ASSUME NEW q \in Requests, Holds(q)'
                 PROVE  /\ tx'[q].pc \in {"audit", "commit"} =>
                             tx'[q].row.mode = tx'[q].to /\ tx'[q].row.version = Len(auditRows') + 1
                        /\ tx'[q].pc = "update" => tx'[q].row = FirstRow' /\ switchRow' = NoRow
      BY DEF NextVersion
    <2>1. FirstRow' = FirstRow
      BY DEF FirstRow
    <2>2. CASE q = r
      BY <1>2, <2>1, <2>2
    <2>3. CASE q # r
      BY <1>1, <2>1, <2>3 DEF SwitchInv, NextVersion
    <2>4. QED
      BY <2>2, <2>3
  <1>6. Numbered'
    <2>1. \A i \in 1 .. Len(auditRows) : auditRows[i].id \in Nat
      BY EntryIds DEF SwitchInv
    <2>2. \A i \in 1 .. Len(auditRows') : auditRows'[i].id <= auditIds'
      BY <2>1 DEF SwitchInv, SwitchTyped, Numbered
    <2>3. ASSUME NEW q \in Requests, tx'[q].pc = "commit"
          PROVE  /\ tx'[q].id <= auditIds'
                 /\ \A i \in 1 .. Len(auditRows') : auditRows'[i].id < tx'[q].id
      <3>1. CASE q = r
        BY <2>3, <3>1
      <3>2. CASE q # r
        BY <2>3, <3>2 DEF SwitchInv, SwitchTyped, Numbered, Tx
      <3>3. QED
        BY <3>1, <3>2
    <2>4. QED
      BY <2>2, <2>3 DEF Numbered
  <1>7. AuditTellsMode'
    BY DEF SwitchInv, AuditTellsMode
  <1>8. QED
    BY <1>3, <1>4, <1>5, <1>6, <1>7 DEF SwitchInv

LEMMA SetModeInv ==
  ASSUME SwitchInv, NEW r \in Requests, NEW mode \in Modes, SetMode(r, mode)
  PROVE  SwitchInv'
  <1>1. tx \in [Requests -> Tx] /\ tx[r].row = NoRow
        /\ auditIds \in Nat /\ UNCHANGED <<switchRow, auditRows, auditIds>>
    BY DEF SwitchInv, SwitchTyped, SetMode, NoTx
  <1>2. tx' = [tx EXCEPT ![r] = [@ EXCEPT !.pc = "read", !.to = mode]]
    BY <1>1 DEF SetMode
  <1>3. tx' \in [Requests -> Tx] /\ tx'[r].pc = "read" /\ tx'[r].row = NoRow
    BY <1>1, <1>2 DEF Tx, TxSteps
  <1>4. \A q \in Requests \ {r} : tx'[q] = tx[q]
    BY <1>1, <1>2
  <1>5. QED
    BY <1>1, <1>3, <1>4, StepInside

LEMMA ReadRowInv ==
  ASSUME SwitchInv, NEW r \in Requests, ReadRow(r)
  PROVE  SwitchInv'
  <1>1. tx \in [Requests -> Tx] /\ auditIds \in Nat /\ UNCHANGED <<switchRow, auditRows, auditIds>>
        /\ tx[r].pc = "read"
    BY DEF SwitchInv, SwitchTyped, ReadRow
  <1>2. tx[r].row = NoRow
    BY <1>1 DEF SwitchInv, OneHolds, Holds
  <1>3. CASE switchRow = NoRow
    <2>1. tx' = [tx EXCEPT ![r].pc = "create"]
      BY <1>3 DEF ReadRow
    <2>2. tx' \in [Requests -> Tx] /\ tx'[r].pc = "create" /\ tx'[r].row = NoRow
          /\ \A q \in Requests \ {r} : tx'[q] = tx[q]
      BY <1>1, <1>2, <2>1 DEF Tx, TxSteps
    <2>3. QED
      BY <1>1, <2>2, StepInside
  <1>4. CASE switchRow # NoRow
    <2>1. switchRow.mode \in Modes
      BY <1>4 DEF SwitchInv, SwitchTyped, Version
    <2>2. tx' = [tx EXCEPT ![r].pc = "update", ![r].from = switchRow.mode]
      BY <1>4 DEF ReadRow, Then
    <2>3. tx' \in [Requests -> Tx] /\ tx'[r].pc = "update" /\ tx'[r].row = NoRow
          /\ \A q \in Requests \ {r} : tx'[q] = tx[q]
      BY <1>1, <1>2, <2>1, <2>2 DEF Tx, TxSteps
    <2>4. QED
      BY <1>1, <1>4, <2>3, StepInside
  <1>5. QED
    BY <1>3, <1>4

LEMMA CreateRowInv ==
  ASSUME SwitchInv, NEW r \in Requests, CreateRow(r)
  PROVE  SwitchInv'
  <1>1. tx \in [Requests -> Tx] /\ auditIds \in Nat /\ UNCHANGED <<switchRow, auditRows, auditIds>>
        /\ tx[r].pc = "create" /\ Free(r)
    BY DEF SwitchInv, SwitchTyped, CreateRow
  <1>2. CASE switchRow = NoRow
    <2>1. FirstRow \in Version
      BY SwitchAssumption DEF FirstRow, Version
    <2>2. tx' = [tx EXCEPT ![r].pc = "update", ![r].row = FirstRow]
      BY <1>2 DEF CreateRow, Then
    <2>3. tx' \in [Requests -> Tx] /\ tx'[r].pc = "update" /\ tx'[r].row = FirstRow
          /\ \A q \in Requests \ {r} : tx'[q] = tx[q]
      BY <1>1, <2>1, <2>2 DEF Tx, TxSteps
    <2>4. QED
      BY <1>1, <1>2, <2>1, <2>3, StepInside, SwitchAssumption DEF Version
  <1>3. CASE switchRow # NoRow
    <2>1. tx' = [tx EXCEPT ![r] = NoTx]
      BY <1>3 DEF CreateRow
    <2>2. tx' \in [Requests -> Tx] /\ tx'[r].pc = "idle" /\ tx'[r].row = NoRow
          /\ \A q \in Requests \ {r} : tx'[q] = tx[q]
      BY <1>1, <2>1, SwitchAssumption DEF Tx, TxSteps, NoTx
    <2>3. QED
      BY <1>1, <2>2, StepInside
  <1>4. QED
    BY <1>2, <1>3

\* The version before the update is the committed one, whether the transaction
\* has just made the first row or reads the row as it is.
LEMMA UpdateRowInv ==
  ASSUME SwitchInv, NEW r \in Requests, UpdateRow(r)
  PROVE  SwitchInv'
  <1> DEFINE current == IF Holds(r) THEN tx[r].row ELSE switchRow
             row == [mode |-> tx[r].to, version |-> current.version + 1]
  <1>1. tx \in [Requests -> Tx] /\ auditIds \in Nat /\ UNCHANGED <<switchRow, auditRows, auditIds>>
        /\ tx[r].pc = "update" /\ Free(r)
        /\ tx' = [tx EXCEPT ![r].row = row, ![r].pc = "audit"]
    BY DEF SwitchInv, SwitchTyped, UpdateRow, Then
  <1>2. current.version = Len(auditRows) /\ Len(auditRows) \in Nat
    <2>1. Len(auditRows) \in Nat
      BY LenProperties DEF SwitchInv, SwitchTyped
    <2>2. CASE Holds(r)
      <3>1. tx[r].row.version = 0 /\ switchRow = NoRow
        BY <1>1, <2>2 DEF SwitchInv, NextVersion, FirstRow
      <3>2. QED
        BY <2>1, <2>2, <3>1 DEF SwitchInv, AuditTellsMode
    <2>3. CASE ~Holds(r)
      BY <1>1, <2>1, <2>3 DEF SwitchInv, OneHolds, AuditTellsMode
    <2>4. QED
      BY <2>2, <2>3
  <1> HIDE DEF current
  <1>3. row \in Version /\ row # NoRow
    BY <1>1, <1>2, SwitchAssumption DEF Version, Tx
  <1>4. tx' \in [Requests -> Tx] /\ tx'[r].pc = "audit" /\ tx'[r].row = row /\ tx'[r].to = tx[r].to
        /\ \A q \in Requests \ {r} : tx'[q] = tx[q]
    BY <1>1, <1>3 DEF Tx, TxSteps
  <1>5. row.mode = tx'[r].to /\ row.version = Len(auditRows) + 1
    BY <1>2, <1>4
  <1> HIDE DEF row
  <1>6. QED
    BY <1>1, <1>3, <1>4, <1>5, StepInside

LEMMA AuditRowInv ==
  ASSUME SwitchInv, NEW r \in Requests, AuditRow(r)
  PROVE  SwitchInv'
  <1>1. tx \in [Requests -> Tx] /\ auditIds \in Nat /\ auditIds' = auditIds + 1
        /\ UNCHANGED <<switchRow, auditRows>> /\ tx[r].pc = "audit"
        /\ tx' = [tx EXCEPT ![r].id = auditIds', ![r].pc = "commit"]
    BY DEF SwitchInv, SwitchTyped, AuditRow, Then
  <1>2. /\ tx[r].row # NoRow /\ Free(r)
        /\ tx[r].row.mode = tx[r].to /\ tx[r].row.version = Len(auditRows) + 1
    BY <1>1 DEF SwitchInv, OneHolds, NextVersion, Holds, Free
  <1>3. tx' \in [Requests -> Tx] /\ tx'[r].pc = "commit" /\ tx'[r].row = tx[r].row
        /\ tx'[r].to = tx[r].to /\ tx'[r].id = auditIds'
        /\ \A q \in Requests \ {r} : tx'[q] = tx[q]
    BY <1>1 DEF Tx, TxSteps
  <1>4. \A i \in 1 .. Len(auditRows) : auditRows[i].id < auditIds'
    <2>1. \A i \in 1 .. Len(auditRows) : auditRows[i].id \in Nat
      BY EntryIds DEF SwitchInv
    <2>2. QED
      BY <1>1, <2>1 DEF SwitchInv, Numbered
  <1>5. QED
    BY <1>1, <1>2, <1>3, <1>4, StepInside

LEMMA RollbackInv ==
  ASSUME SwitchInv, NEW r \in Requests, Rollback(r)
  PROVE  SwitchInv'
  <1>1. tx \in [Requests -> Tx] /\ auditIds \in Nat /\ UNCHANGED <<switchRow, auditRows, auditIds>>
        /\ tx' = [tx EXCEPT ![r] = NoTx]
    BY DEF SwitchInv, SwitchTyped, Rollback
  <1>2. tx' \in [Requests -> Tx] /\ tx'[r].pc = "idle" /\ tx'[r].row = NoRow
        /\ \A q \in Requests \ {r} : tx'[q] = tx[q]
    BY <1>1, SwitchAssumption DEF Tx, TxSteps, NoTx
  <1>3. QED
    BY <1>1, <1>2, StepInside

\* The holder of the row commits the next version with the next entry.
LEMMA CommitInv ==
  ASSUME SwitchInv, NEW r \in Requests, Commit(r)
  PROVE  SwitchInv'
  <1> DEFINE e == [id |-> tx[r].id, from |-> tx[r].from, to |-> tx[r].to]
             n == Len(auditRows)
  <1>1. /\ tx \in [Requests -> Tx] /\ auditIds' = auditIds /\ tx[r].pc = "commit"
        /\ switchRow' = tx[r].row /\ auditRows' = Append(auditRows, e)
        /\ tx' = [tx EXCEPT ![r] = NoTx]
    BY DEF SwitchInv, SwitchTyped, Commit
  <1>2. /\ tx[r].row # NoRow /\ \A q \in Requests \ {r} : ~Holds(q)
        /\ tx[r].row \in Version
        /\ tx[r].row.mode = tx[r].to /\ tx[r].row.version = n + 1
    BY <1>1 DEF SwitchInv, OneHolds, NextVersion, Holds, Tx
  <1>3. e \in AuditEntry
    BY <1>1 DEF Tx, AuditEntry
  <1>4. /\ auditRows' \in Seq(AuditEntry) /\ n \in Nat /\ Len(auditRows') = n + 1
        /\ \A i \in 1 .. n : auditRows'[i] = auditRows[i]
        /\ auditRows'[n + 1].id = tx[r].id /\ auditRows'[n + 1].to = tx[r].to
    <2>1. auditRows \in Seq(AuditEntry)
      BY DEF SwitchInv, SwitchTyped
    <2> HIDE DEF e
    <2>2. /\ Append(auditRows, e) \in Seq(AuditEntry) /\ n \in Nat /\ Len(Append(auditRows, e)) = n + 1
          /\ \A i \in 1 .. n : Append(auditRows, e)[i] = auditRows[i]
          /\ Append(auditRows, e)[n + 1] = e
      BY <1>3, <2>1, AppendProperties, LenProperties
    <2>3. QED
      BY <1>1, <2>2 DEF e
  <1> HIDE DEF n
  <1>5. tx' \in [Requests -> Tx] /\ tx'[r].pc = "idle" /\ tx'[r].row = NoRow
        /\ \A q \in Requests \ {r} : tx'[q] = tx[q]
    BY <1>1, SwitchAssumption DEF Tx, TxSteps, NoTx
  <1>6. SwitchTyped'
    BY <1>1, <1>2, <1>4, <1>5 DEF SwitchInv, SwitchTyped
  <1>7. \A q \in Requests : ~Holds(q)'
    BY <1>2, <1>5 DEF Holds
  <1>8. \A q \in Requests : tx'[q].pc \notin {"audit", "commit"}
    BY <1>2, <1>5 DEF SwitchInv, OneHolds
  <1>9. OneHolds' /\ NextVersion'
    BY <1>1, <1>2, <1>7, <1>8 DEF OneHolds, NextVersion
  <1>10. Numbered'
    <2>1. \A i \in 1 .. n + 1 : auditRows'[i].id <= auditIds
      BY <1>1, <1>4 DEF SwitchInv, Numbered, n
    <2>2. QED
      BY <1>1, <1>4, <1>8, <2>1 DEF Numbered
  <1>11. AuditTellsMode'
    <2>1. \A i \in 1 .. n - 1 : auditRows[i].id < auditRows[i + 1].id
      BY DEF SwitchInv, AuditTellsMode, n
    <2>2. \A i \in 1 .. n : auditRows[i].id < tx[r].id
      BY <1>1 DEF SwitchInv, Numbered, n
    <2>3. \A i \in 1 .. n : auditRows'[i].id < auditRows'[i + 1].id
      BY <1>4, <2>1, <2>2
    <2>4. switchRow' # NoRow /\ switchRow'.version = n + 1 /\ switchRow'.mode = auditRows'[n + 1].to
      BY <1>1, <1>2, <1>4
    <2>5. QED
      BY <1>4, <2>3, <2>4 DEF AuditTellsMode
  <1>12. QED
    BY <1>6, <1>9, <1>10, <1>11 DEF SwitchInv

LEMMA SwitchStepInv ==
  ASSUME SwitchInv, [SwitchNext]_switchVars
  PROVE  SwitchInv'
  <1>1. CASE UNCHANGED switchVars
    BY <1>1 DEF switchVars, SwitchInv, SwitchTyped, OneHolds, NextVersion, Numbered, AuditTellsMode, Holds, FirstRow
  <1>2. QED
    BY <1>1, GetStateInv, SetModeInv, ReadRowInv, CreateRowInv, UpdateRowInv, AuditRowInv,
       CommitInv, RollbackInv DEF SwitchNext

\* The audit has one entry for each version of the row, in the order of its
\* numbers, and ends with the mode in force (PostgresKillSwitch.setMode).
THEOREM AuditAlwaysTells == SwitchSpec => []AuditTellsMode
  <1>1. SwitchInit => SwitchInv
    BY SwitchInitInv
  <1>2. SwitchInv /\ [SwitchNext]_switchVars => SwitchInv'
    BY SwitchStepInv
  <1>3. SwitchInv => AuditTellsMode
    BY DEF SwitchInv
  <1>4. QED
    BY <1>1, <1>2, <1>3, PTL DEF SwitchSpec

\* A commit is a change of the mode with the next version and the last entry.
LEMMA CommitSets ==
  ASSUME SwitchInv, NEW r \in Requests, Commit(r)
  PROVE  Audited!Next
  <1> DEFINE e == [id |-> tx[r].id, from |-> tx[r].from, to |-> tx[r].to]
             entry == [id |-> tx[r].id, to |-> tx[r].to]
             n == Len(auditRows)
             EntryOf(s, i) == [id |-> s[i].id, to |-> s[i].to]
  <1>1. /\ tx[r] \in Tx /\ tx[r].pc = "commit" /\ auditRows \in Seq(AuditEntry)
        /\ switchRow' = tx[r].row /\ auditRows' = Append(auditRows, e)
    BY DEF SwitchInv, SwitchTyped, Commit
  <1>2. tx[r].row # NoRow /\ tx[r].row.mode = tx[r].to /\ tx[r].row.version = n + 1
    BY <1>1 DEF SwitchInv, OneHolds, NextVersion, Holds
  <1>3. InForce.version = n /\ InForce' = tx[r].row
    BY <1>1, <1>2 DEF InForce, FirstRow, SwitchInv, AuditTellsMode
  <1>4. e \in AuditEntry /\ e.id = tx[r].id /\ e.to = tx[r].to
    BY <1>1 DEF Tx, AuditEntry
  <1> HIDE DEF e
  <1>5. /\ n \in Nat /\ DOMAIN auditRows = 1 .. n /\ DOMAIN auditRows' = 1 .. n + 1
        /\ \A i \in 1 .. n : auditRows'[i] = auditRows[i]
        /\ auditRows'[n + 1] = e
    BY <1>1, <1>4, AppendProperties, LenProperties
  <1> HIDE DEF n
  <1>6. \A i \in 1 .. n : EntryOf(auditRows', i) = EntryOf(auditRows, i)
    BY <1>5
  <1>7. EntryOf(auditRows', n + 1) = entry
    BY <1>4, <1>5
  <1>8. Entries = {EntryOf(auditRows, i) : i \in 1 .. n}
        /\ Entries' = {EntryOf(auditRows', i) : i \in 1 .. n + 1}
    BY <1>5 DEF Entries
  <1>9. \A i \in 1 .. n : EntryOf(auditRows, i).id < tx[r].id
    BY <1>1 DEF SwitchInv, Numbered, n
  <1> HIDE DEF EntryOf
  <1>10. Entries' = Entries \cup {entry}
    <2>1. 1 .. n + 1 = 1 .. n \cup {n + 1}
      BY <1>5
    <2>2. QED
      BY <1>6, <1>7, <1>8, <2>1
  <1>11. \A other \in Entries : other.id < entry.id
    BY <1>8, <1>9
  <1>12. entry.to = tx[r].to /\ tx[r].to \in Modes
    BY <1>1 DEF Tx
  <1> HIDE DEF entry
  <1>13. \E x \in Entries' : /\ x.to = tx[r].to /\ Entries' = Entries \cup {x}
                             /\ \A other \in Entries : other.id < x.id
    BY <1>10, <1>11, <1>12
  <1>14. InForce'.mode = tx[r].to /\ InForce'.version = InForce.version + 1
    BY <1>2, <1>3
  <1>15. QED
    BY <1>12, <1>13, <1>14 DEF Audited!Next, Audited!SetMode, Audited!ComesLast

\* PostgresKillSwitch does what InMemoryKillSwitch does: read in the order of the
\* numbers, the audit grows at its end and with the mode, by one call at a time,
\* for any number of requests that cross, fail or race to make the row.  (What an
\* entry says it came from is left out: requests that cross record the same.)
THEOREM SwitchAlwaysAudited == SwitchSpec => SwitchIsAudited
  <1>1. SwitchInit => Audited!Init
    BY DEF SwitchInit, Audited!Init, InForce, FirstRow, Entries
  <1>2. ASSUME SwitchInv, [SwitchNext]_switchVars
        PROVE  [Audited!Next]_<<InForce.mode, InForce.version, Entries>>
    <2>1. CASE GetState
      BY <2>1 DEF GetState, InForce, FirstRow, Entries
    <2>2. CASE UNCHANGED <<switchRow, auditRows>>
      BY <2>2 DEF InForce, FirstRow, Entries
    <2>3. ASSUME NEW r \in Requests, Commit(r)
          PROVE  Audited!Next
      BY <1>2, <2>3, CommitSets
    <2>4. QED
      BY <1>2, <2>1, <2>2, <2>3 DEF SwitchNext, switchVars, SetMode, ReadRow, CreateRow, UpdateRow,
                                    AuditRow, Rollback
  <1>3. QED
    BY <1>1, <1>2, SwitchInitInv, SwitchStepInv, PTL DEF SwitchSpec, SwitchIsAudited, Audited!Spec

\* The calls that have not taken their number yet.
Unnumbered == {r \in Requests : tx[r].pc \in {"read", "create", "update", "audit"}}

\* Every number belongs to a call, and every entry and the one about to be
\* committed has a number: the versions stay within the calls.
CallsCounted ==
  /\ flips \in 0 .. MaxFlips
  /\ IsFiniteSet(Unnumbered) /\ auditIds + Cardinality(Unnumbered) <= flips
  /\ Len(auditRows) <= auditIds
  /\ \A r \in Requests : IF tx[r].pc = "commit"
                           THEN Len(auditRows) < auditIds /\ tx[r].id >= 1
                           ELSE tx[r].id = 0
  /\ \A i \in 1 .. Len(auditRows) : auditRows[i].id >= 1

\* A transaction that has no number before or after a step leaves the count as it is.
LEMMA CountKept ==
  ASSUME SwitchInv, CallsCounted, NEW r \in Requests, flips' = flips,
         UNCHANGED <<auditRows, auditIds>>, \A q \in Requests \ {r} : tx'[q] = tx[q],
         tx'[r].pc \in {"read", "create", "update", "audit"} => r \in Unnumbered,
         tx'[r].pc # "commit", tx'[r].id = 0
  PROVE  CallsCounted'
  <1>1. Unnumbered' \subseteq Unnumbered
    BY DEF Unnumbered
  <1>2. IsFiniteSet(Unnumbered') /\ Cardinality(Unnumbered') <= Cardinality(Unnumbered)
    BY <1>1, FS_Subset DEF CallsCounted
  <1>3. auditIds \in Nat /\ Cardinality(Unnumbered) \in Nat /\ Cardinality(Unnumbered') \in Nat
    BY <1>2, FS_CardinalityType DEF CallsCounted, SwitchInv, SwitchTyped
  <1>4. auditIds + Cardinality(Unnumbered') <= flips
    BY <1>2, <1>3 DEF CallsCounted
  <1>5. QED
    BY <1>2, <1>4 DEF CallsCounted

LEMMA CallsCountedStep ==
  ASSUME SwitchInv, CallsCounted, [SwitchNext]_switchVars
  PROVE  CallsCounted'
  <1>1. /\ tx \in [Requests -> Tx] /\ auditIds \in Nat /\ flips \in Nat
        /\ Cardinality(Unnumbered) \in Nat
    BY FS_CardinalityType DEF CallsCounted, SwitchInv, SwitchTyped
  <1>2. CASE GetState \/ UNCHANGED switchVars
    <2>1. UNCHANGED <<auditRows, auditIds, flips, tx>>
      BY <1>2 DEF GetState, switchVars
    <2>2. Unnumbered' = Unnumbered
      BY <2>1 DEF Unnumbered
    <2>3. QED
      BY <2>1, <2>2 DEF CallsCounted
  <1>3. ASSUME NEW r \in Requests, NEW mode \in Modes, SetMode(r, mode)
        PROVE  CallsCounted'
    <2>1. /\ flips' = flips + 1 /\ flips < MaxFlips /\ UNCHANGED <<auditRows, auditIds>>
          /\ tx[r].pc = "idle" /\ tx[r].id = 0
          /\ tx' = [tx EXCEPT ![r].pc = "read", ![r].to = mode]
      BY <1>3 DEF SetMode, NoTx
    <2>2. tx'[r].pc = "read" /\ tx'[r].id = 0 /\ \A q \in Requests \ {r} : tx'[q] = tx[q]
      BY <1>1, <2>1 DEF Tx
    <2>3. Unnumbered' = Unnumbered \cup {r} /\ r \notin Unnumbered
      BY <2>1, <2>2 DEF Unnumbered
    <2>4. IsFiniteSet(Unnumbered') /\ Cardinality(Unnumbered') = Cardinality(Unnumbered) + 1
      BY <2>3, FS_AddElement DEF CallsCounted
    <2>5. auditIds + Cardinality(Unnumbered') <= flips' /\ flips' \in 0 .. MaxFlips
      BY <1>1, <2>1, <2>4, SwitchAssumption DEF CallsCounted
    <2>6. \A q \in Requests : IF tx'[q].pc = "commit"
                             THEN Len(auditRows) < auditIds /\ tx'[q].id >= 1
                             ELSE tx'[q].id = 0
      BY <2>2 DEF CallsCounted
    <2>7. QED
      BY <2>1, <2>4, <2>5, <2>6 DEF CallsCounted
  <1>4. ASSUME NEW r \in Requests, ReadRow(r) \/ CreateRow(r) \/ UpdateRow(r) \/ Rollback(r)
        PROVE  CallsCounted'
    <2>1. /\ flips' = flips /\ UNCHANGED <<auditRows, auditIds>>
          /\ \A q \in Requests \ {r} : tx'[q] = tx[q]
      BY <1>1, <1>4 DEF ReadRow, CreateRow, UpdateRow, Rollback
    <2>2. /\ tx'[r].pc \in {"create", "update", "audit", "idle"} /\ tx'[r].id = 0
          /\ tx'[r].pc # "idle" => r \in Unnumbered
      BY <1>1, <1>4 DEF ReadRow, CreateRow, UpdateRow, Rollback, Then, NoTx, Tx, Unnumbered,
                        CallsCounted
    <2>3. QED
      BY <2>1, <2>2, CountKept
  <1>5. ASSUME NEW r \in Requests, AuditRow(r)
        PROVE  CallsCounted'
    <2>1. /\ auditIds' = auditIds + 1 /\ UNCHANGED <<auditRows, flips>> /\ tx[r].pc = "audit"
          /\ tx' = [tx EXCEPT ![r].id = auditIds', ![r].pc = "commit"]
      BY <1>5 DEF AuditRow, Then
    <2>2. tx'[r].pc = "commit" /\ tx'[r].id = auditIds + 1 /\ \A q \in Requests \ {r} : tx'[q] = tx[q]
      BY <1>1, <2>1 DEF Tx
    <2>3. Unnumbered' = Unnumbered \ {r} /\ r \in Unnumbered
      BY <2>1, <2>2 DEF Unnumbered
    <2>4. IsFiniteSet(Unnumbered') /\ Cardinality(Unnumbered') = Cardinality(Unnumbered) - 1
      BY <2>3, FS_RemoveElement DEF CallsCounted
    <2>5. auditIds' + Cardinality(Unnumbered') <= flips
      BY <1>1, <2>1, <2>4 DEF CallsCounted
    <2>6. Len(auditRows) \in Nat
      BY LenProperties DEF SwitchInv, SwitchTyped
    <2>7. \A q \in Requests : IF tx'[q].pc = "commit"
                             THEN Len(auditRows) < auditIds' /\ tx'[q].id >= 1
                             ELSE tx'[q].id = 0
      BY <1>1, <2>1, <2>2, <2>6 DEF CallsCounted
    <2>8. Len(auditRows) <= auditIds'
      BY <1>1, <2>1, <2>6 DEF CallsCounted
    <2>9. QED
      BY <2>1, <2>4, <2>5, <2>7, <2>8 DEF CallsCounted
  <1>6. ASSUME NEW r \in Requests, Commit(r)
        PROVE  CallsCounted'
    <2> DEFINE e == [id |-> tx[r].id, from |-> tx[r].from, to |-> tx[r].to]
    <2>1. /\ auditIds' = auditIds /\ flips' = flips /\ tx[r].pc = "commit" /\ tx[r].id >= 1
          /\ auditRows' = Append(auditRows, e) /\ e \in AuditEntry /\ e.id = tx[r].id
          /\ tx' = [tx EXCEPT ![r] = NoTx] /\ auditRows \in Seq(AuditEntry)
      BY <1>1, <1>6 DEF Commit, CallsCounted, Tx, AuditEntry, SwitchInv, SwitchTyped
    <2> HIDE DEF e
    <2>2. /\ Len(auditRows) \in Nat /\ Len(auditRows') = Len(auditRows) + 1
          /\ \A i \in 1 .. Len(auditRows) : auditRows'[i] = auditRows[i]
          /\ auditRows'[Len(auditRows) + 1] = e
      BY <2>1, AppendProperties, LenProperties
    <2>3. \A i \in 1 .. Len(auditRows') : auditRows'[i].id >= 1
      BY <2>1, <2>2 DEF CallsCounted
    <2>4. \A q \in Requests : tx'[q].pc # "commit" /\ tx'[q].id = 0
      <3> SUFFICES ASSUME NEW q \in Requests
                   PROVE  tx'[q].pc # "commit" /\ tx'[q].id = 0
        OBVIOUS
      <3>1. tx[q].pc = "commit" => q = r
        BY <2>1 DEF SwitchInv, OneHolds
      <3>2. q # r => tx'[q] = tx[q]
        BY <1>1, <2>1
      <3>3. q = r => tx'[q] = NoTx
        BY <1>1, <2>1
      <3>4. QED
        BY <3>1, <3>2, <3>3 DEF CallsCounted, NoTx
    <2>5. Unnumbered' = Unnumbered
      BY <1>1, <2>1 DEF Unnumbered, NoTx
    <2>6. Len(auditRows) < auditIds
      BY <2>1 DEF CallsCounted
    <2>7. Len(auditRows') <= auditIds'
      BY <1>1, <2>1, <2>2, <2>6
    <2>8. IsFiniteSet(Unnumbered') /\ auditIds' + Cardinality(Unnumbered') <= flips'
      BY <2>1, <2>5 DEF CallsCounted
    <2>9. \A q \in Requests : IF tx'[q].pc = "commit"
                             THEN Len(auditRows') < auditIds' /\ tx'[q].id >= 1
                             ELSE tx'[q].id = 0
      BY <2>4
    <2>10. QED
      BY <2>1, <2>3, <2>7, <2>8, <2>9 DEF CallsCounted
  <1>7. QED
    BY <1>2, <1>3, <1>4, <1>5, <1>6 DEF SwitchNext

\* The versions of the row and the numbers of the audit stay within the calls of
\* setMode, whatever transactions fail: no call moves the switch twice.
LEMMA SwitchTypeCorrect == SwitchSpec => []SwitchTypeOK
  <1>1. ASSUME SwitchInit PROVE SwitchInv /\ CallsCounted
    <2>1. Unnumbered = {} /\ auditRows = <<>> /\ auditIds = 0 /\ flips = 0
      BY <1>1 DEF SwitchInit, Unnumbered, NoTx
    <2>2. IsFiniteSet(Unnumbered) /\ Cardinality(Unnumbered) = 0
      BY <2>1, FS_EmptySet
    <2>3. \A r \in Requests : tx[r].pc # "commit" /\ tx[r].id = 0
      BY <1>1 DEF SwitchInit, NoTx
    <2>4. Len(auditRows) = 0
      BY <2>1
    <2>5. QED
      BY <1>1, <2>1, <2>2, <2>3, <2>4, SwitchInitInv, SwitchAssumption DEF CallsCounted
  <1>2. SwitchInv /\ CallsCounted /\ [SwitchNext]_switchVars => (SwitchInv /\ CallsCounted)'
    BY SwitchStepInv, CallsCountedStep
  <1>3. ASSUME SwitchInv, CallsCounted PROVE SwitchTypeOK
    <2>1. /\ tx \in [Requests -> Tx] /\ auditIds \in Nat /\ flips \in 0 .. MaxFlips
          /\ Len(auditRows) \in Nat /\ auditRows \in Seq(AuditEntry)
          /\ Cardinality(Unnumbered) \in Nat
      BY <1>3, FS_CardinalityType, LenProperties DEF CallsCounted, SwitchInv, SwitchTyped
    <2>2. auditIds \in 0 .. MaxFlips /\ Len(auditRows) \in 0 .. MaxFlips
      BY <1>3, <2>1, SwitchAssumption DEF CallsCounted
    <2>3. switchRow \in Row \cup {NoRow}
      BY <1>3, <2>2 DEF SwitchInv, SwitchTyped, AuditTellsMode, Row, Version
    <2>4. auditRows \in Seq([id : 1 .. MaxFlips, from : Modes, to : Modes])
      <3>1. \A i \in 1 .. Len(auditRows) :
              auditRows[i] \in [id : 1 .. MaxFlips, from : Modes, to : Modes]
        <4> SUFFICES ASSUME NEW i \in 1 .. Len(auditRows)
                     PROVE  auditRows[i] \in [id : 1 .. MaxFlips, from : Modes, to : Modes]
          OBVIOUS
        <4>1. auditRows[i] \in AuditEntry
          BY <2>1, ElementOfSeq
        <4>2. auditRows[i].id <= auditIds /\ auditRows[i].id >= 1
          BY <1>3 DEF SwitchInv, Numbered, CallsCounted
        <4>3. auditRows[i].id \in 1 .. MaxFlips
          BY <2>2, <4>1, <4>2, SwitchAssumption DEF AuditEntry
        <4>4. QED
          BY <4>1, <4>3 DEF AuditEntry
      <3> DEFINE S == [id : 1 .. MaxFlips, from : Modes, to : Modes]
      <3>2. auditRows \in [1 .. Len(auditRows) -> AuditEntry]
        BY <2>1, LenProperties
      <3> HIDE DEF S
      <3>3. \A i \in 1 .. Len(auditRows) : auditRows[i] \in S
        BY <3>1 DEF S
      <3>4. auditRows \in [1 .. Len(auditRows) -> S]
        BY <3>2, <3>3
      <3>5. auditRows \in Seq(S)
        BY <2>1, <3>4, SeqDef
      <3>6. QED
        BY <3>5 DEF S
    <2>5. ASSUME NEW r \in Requests
          PROVE  /\ tx[r].pc \in {"idle", "read", "create", "update", "audit", "commit"}
                 /\ tx[r].row \in Row \cup {NoRow}
                 /\ {tx[r].to, tx[r].from} \subseteq Modes
                 /\ tx[r].id \in 0 .. MaxFlips
      <3>1. tx[r] \in Tx
        BY <2>1
      <3>2. tx[r].id \in 0 .. MaxFlips
        <4>1. tx[r].pc = "commit" => tx[r].id <= auditIds
          BY <1>3 DEF SwitchInv, Numbered
        <4>2. tx[r].pc # "commit" => tx[r].id = 0
          BY <1>3 DEF CallsCounted
        <4>3. tx[r].id \in Nat
          BY <3>1 DEF Tx
        <4>4. QED
          BY <2>2, <4>1, <4>2, <4>3, SwitchAssumption
      <3>3. CASE tx[r].pc \in {"audit", "commit"}
        <4>1. Holds(r) /\ tx[r].row.version = Len(auditRows) + 1
          BY <1>3, <3>3 DEF SwitchInv, OneHolds, NextVersion
        <4>2. tx[r].pc = "audit" => Cardinality(Unnumbered) >= 1
          <5>1. tx[r].pc = "audit" => r \in Unnumbered
            BY DEF Unnumbered
          <5>2. tx[r].pc = "audit" => Cardinality(Unnumbered) # 0
            BY <1>3, <5>1, FS_EmptySet DEF CallsCounted
          <5>3. QED
            BY <2>1, <5>2
        <4>3. Len(auditRows) + 1 <= MaxFlips
          BY <1>3, <2>1, <3>3, <4>2, SwitchAssumption DEF CallsCounted
        <4>4. tx[r].row \in Row
          BY <2>1, <3>1, <4>1, <4>3 DEF Holds, Tx, Version, Row
        <4>5. QED
          BY <3>1, <3>2, <4>4 DEF Tx, TxSteps
      <3>4. CASE tx[r].pc \notin {"audit", "commit"}
        <4>1. tx[r].row \in {FirstRow, NoRow}
          BY <1>3, <3>1, <3>4 DEF SwitchInv, OneHolds, NextVersion, Holds, Tx, TxSteps
        <4>2. FirstRow \in Row
          BY SwitchAssumption DEF FirstRow, Row
        <4>3. QED
          BY <3>1, <3>2, <4>1, <4>2 DEF Tx, TxSteps
      <3>5. QED
        BY <3>3, <3>4
    <2>6. QED
      BY <2>1, <2>2, <2>3, <2>4, <2>5 DEF SwitchTypeOK
  <1>4. QED
    BY <1>1, <1>2, <1>3, PTL DEF SwitchSpec

-----------------------------------------------------------------------------
\* The rows of sign requests only gain entries, and whoever was answered from
\* them holds what they hold; a binding that succeeded has its row.
Bound ==
  /\ \A i \in SignIntents : bindings[i] \in {0, 1}
  /\ \A i \in SignIntents : bindings[i] = 1 => ~Unbound(i)
  /\ \A a \in signAnswers : a.service \/ persistent =>
       a.intent \in SignIntents /\ a.given \in Previews /\ a.given = requestRows[a.intent]

SignTyped ==
  /\ persistent \in BOOLEAN /\ rawQuery \in BOOLEAN /\ (rawQuery => persistent)
  /\ requestRows \in [SignIntents -> Previews \cup {NoPreview}]
  /\ signCall \in [SignCallers -> [pc : {"store"}, intent : SignIntents, preview : Previews]
                                    \cup {NoCall}]
  /\ bindings \in [SignIntents -> Nat]

SignInv == SignTyped /\ Bound

\* A request writes the row of its own intent, and only when it has none.
LEMMA RowsStand ==
  ASSUME SignTyped, NEW i \in SignIntents, NEW preview \in Previews
  PROVE  /\ Stored(i, preview) \in [SignIntents -> Previews \cup {NoPreview}]
         /\ Stored(i, preview)[i] \in Previews
         /\ Unbound(i) => Stored(i, preview)[i] = preview
         /\ \A j \in SignIntents : requestRows[j] # NoPreview =>
              Stored(i, preview)[j] = requestRows[j]
  BY SignAssumption DEF SignTyped, Stored, Unbound

\* What a request is answered with is what it asked for, in memory, and what the
\* row of its intent held before, on Postgres.
LEMMA AskedAnswer ==
  ASSUME SignTyped, NEW i \in SignIntents, NEW preview \in Previews, Asked(i, preview)
  PROVE  /\ requestRows' \in [SignIntents -> Previews \cup {NoPreview}]
         /\ \A j \in SignIntents : requestRows[j] # NoPreview => requestRows'[j] = requestRows[j]
         /\ UNCHANGED <<persistent, rawQuery>>
         /\ Answers(i) => Prepared(i, preview) \in Previews
         /\ Answers(i) /\ persistent => Prepared(i, preview) = requestRows'[i]
  <1>1. /\ UNCHANGED <<persistent, rawQuery>>
        /\ requestRows' = Stored(i, preview) \/ requestRows' = requestRows
    BY DEF Asked
  <1>2. /\ requestRows' \in [SignIntents -> Previews \cup {NoPreview}]
        /\ \A j \in SignIntents : requestRows[j] # NoPreview => requestRows'[j] = requestRows[j]
    <2>1. CASE requestRows' = Stored(i, preview)
      BY <2>1, RowsStand
    <2>2. CASE requestRows' = requestRows
      BY <2>2 DEF SignTyped
    <2>3. QED
      BY <1>1, <2>1, <2>2
  <1>3. Answers(i) /\ persistent =>
          requestRows[i] \in Previews /\ requestRows'[i] = requestRows[i]
    BY <1>2 DEF Answers, Unbound, SignTyped
  <1>4. QED
    BY <1>1, <1>2, <1>3 DEF Prepared

\* As long as rows only gain entries, what was answered stands.
LEMMA AnswersKept ==
  ASSUME SignInv, UNCHANGED persistent,
         \A j \in SignIntents : requestRows[j] # NoPreview => requestRows'[j] = requestRows[j]
  PROVE  \A a \in signAnswers : a.service \/ persistent' =>
           a.intent \in SignIntents /\ a.given \in Previews /\ a.given = requestRows'[a.intent]
  <1> SUFFICES ASSUME NEW a \in signAnswers, a.service \/ persistent
               PROVE  /\ a.intent \in SignIntents /\ a.given \in Previews
                      /\ a.given = requestRows'[a.intent]
    OBVIOUS
  <1>1. a.intent \in SignIntents /\ a.given \in Previews /\ a.given = requestRows[a.intent]
    BY DEF SignInv, Bound
  <1>2. QED
    BY <1>1, SignAssumption

LEMMA RequestSignInv ==
  ASSUME SignInv, NEW i \in SignIntents, NEW preview \in Previews, RequestSign(i, preview)
  PROVE  SignInv'
  <1>1. Asked(i, preview) /\ UNCHANGED <<persistent, rawQuery, signCall, bindings>>
    BY DEF RequestSign, Asked
  <1>2. SignTyped /\ Bound
    BY DEF SignInv
  <1>3. SignTyped'
    BY <1>1, <1>2, AskedAnswer DEF SignTyped
  <1>4. \A j \in SignIntents : bindings'[j] = 1 => ~Unbound(j)'
    BY <1>1, <1>2, AskedAnswer DEF Bound, Unbound
  <1> DEFINE answer == [intent |-> i, asked |-> preview, given |-> Prepared(i, preview),
                        service |-> FALSE]
  <1>5. signAnswers' = signAnswers \/ (Answers(i) /\ signAnswers' = signAnswers \cup {answer})
    BY DEF RequestSign
  <1>6. Answers(i) /\ (answer.service \/ persistent') =>
          answer.intent \in SignIntents /\ answer.given \in Previews
          /\ answer.given = requestRows'[answer.intent]
    BY <1>1, <1>2, AskedAnswer
  <1>7. \A a \in signAnswers : a.service \/ persistent' =>
          a.intent \in SignIntents /\ a.given \in Previews /\ a.given = requestRows'[a.intent]
    BY <1>1, <1>2, AnswersKept, AskedAnswer
  <1> HIDE DEF answer
  <1>8. Bound'
    BY <1>1, <1>2, <1>4, <1>5, <1>6, <1>7 DEF Bound
  <1>9. QED
    BY <1>3, <1>8 DEF SignInv

LEMMA PrepareInv ==
  ASSUME SignInv, NEW c \in SignCallers, NEW i \in SignIntents, NEW preview \in Previews,
         Prepare(c, i, preview)
  PROVE  SignInv'
  <1>1. Asked(i, preview) /\ UNCHANGED <<persistent, rawQuery, signAnswers, bindings>>
    BY DEF Prepare, Asked
  <1>2. SignTyped /\ Bound
    BY DEF SignInv
  <1>3. /\ requestRows' \in [SignIntents -> Previews \cup {NoPreview}]
        /\ Answers(i) => Prepared(i, preview) \in Previews
    BY <1>1, <1>2, AskedAnswer
  <1>4. SignTyped'
    BY <1>1, <1>2, <1>3 DEF SignTyped, Prepare
  <1>5. \A j \in SignIntents : bindings'[j] = 1 => ~Unbound(j)'
    BY <1>1, <1>2, AskedAnswer DEF Bound, Unbound
  <1>6. \A a \in signAnswers : a.service \/ persistent' =>
          a.intent \in SignIntents /\ a.given \in Previews /\ a.given = requestRows'[a.intent]
    BY <1>1, <1>2, AnswersKept, AskedAnswer
  <1>7. Bound'
    BY <1>1, <1>2, <1>5, <1>6 DEF Bound
  <1>8. QED
    BY <1>4, <1>7 DEF SignInv

\* The service succeeds for an intent without a row, which has one from then on.
LEMMA StoreInv ==
  ASSUME SignInv, NEW c \in SignCallers, Store(c)
  PROVE  SignInv'
  <1> DEFINE call == signCall[c]
             answer == [intent |-> call.intent, asked |-> call.preview,
                        given |-> call.preview, service |-> TRUE]
  <1>1. SignTyped /\ Bound
    BY DEF SignInv
  <1>2. call.intent \in SignIntents /\ call.preview \in Previews
    BY <1>1 DEF Store, SignTyped, NoCall
  <1>3. requestRows' = Stored(call.intent, call.preview) /\ UNCHANGED <<persistent, rawQuery>>
    BY DEF Store
  <1>4. /\ requestRows' \in [SignIntents -> Previews \cup {NoPreview}]
        /\ \A j \in SignIntents : requestRows[j] # NoPreview => requestRows'[j] = requestRows[j]
        /\ requestRows'[call.intent] \in Previews
        /\ Unbound(call.intent) => requestRows'[call.intent] = call.preview
    BY <1>1, <1>2, <1>3, RowsStand
  <1>5. \A a \in signAnswers : a.service \/ persistent' =>
          a.intent \in SignIntents /\ a.given \in Previews /\ a.given = requestRows'[a.intent]
    BY <1>3, <1>4, AnswersKept
  <1>6. signCall' \in [SignCallers -> [pc : {"store"}, intent : SignIntents, preview : Previews]
                                        \cup {NoCall}]
    BY <1>1 DEF Store, SignTyped
  <1>7. CASE Unbound(call.intent)
    <2>1. /\ bindings' = [bindings EXCEPT ![call.intent] = @ + 1]
          /\ signAnswers' = signAnswers \cup {answer}
      BY <1>7 DEF Store
    <2>2. bindings[call.intent] = 0
      BY <1>1, <1>2, <1>7 DEF Bound
    <2>3. /\ answer.intent \in SignIntents /\ answer.given \in Previews
          /\ answer.given = requestRows'[answer.intent]
      BY <1>2, <1>4, <1>7
    <2>4. \A j \in SignIntents : bindings'[j] \in {0, 1} /\ (bindings'[j] = 1 => ~Unbound(j)')
      <3> SUFFICES ASSUME NEW j \in SignIntents
                   PROVE  bindings'[j] \in {0, 1} /\ (bindings'[j] = 1 => requestRows'[j] # NoPreview)
        BY DEF Unbound
      <3>1. CASE j = call.intent
        BY <1>1, <1>2, <1>4, <2>1, <2>2, <3>1, SignAssumption DEF SignTyped
      <3>2. CASE j # call.intent
        BY <1>1, <1>2, <1>4, <2>1, <3>2 DEF SignTyped, Bound, Unbound
      <3>3. QED
        BY <3>1, <3>2
    <2>5. bindings' \in [SignIntents -> Nat]
      BY <1>1, <1>2, <2>1 DEF SignTyped
    <2> HIDE DEF call, answer
    <2>6. Bound'
      BY <1>3, <1>5, <2>1, <2>3, <2>4 DEF Bound
    <2>7. QED
      BY <1>1, <1>3, <1>4, <1>6, <2>5, <2>6 DEF SignInv, SignTyped
  <1>8. CASE ~Unbound(call.intent)
    <2>1. UNCHANGED <<bindings, signAnswers>>
      BY <1>8 DEF Store
    <2>2. Bound'
      BY <1>1, <1>3, <1>4, <1>5, <2>1 DEF Bound, Unbound
    <2>3. QED
      BY <1>1, <1>3, <1>4, <1>6, <2>1, <2>2 DEF SignInv, SignTyped
  <1>9. QED
    BY <1>7, <1>8

LEMMA SignStepInv ==
  ASSUME SignInv, [SignNext]_signVars
  PROVE  SignInv'
  <1>1. ASSUME NEW c \in SignCallers, Die(c)
        PROVE  SignInv'
    BY <1>1 DEF Die, SignInv, SignTyped, Bound, Unbound
  <1>2. CASE UNCHANGED signVars
    BY <1>2 DEF signVars, SignInv, SignTyped, Bound, Unbound
  <1>3. QED
    BY <1>1, <1>2, RequestSignInv, PrepareInv, StoreInv DEF SignNext

\* No intent is bound to two sign requests, for any number of intents, callers
\* and calls that die half way: the service succeeds once for an intent at most,
\* and whoever was answered from the rows holds the preview they still hold
\* (SigningService and the two stores).
THEOREM SignsOnce == SignSpec => []SignedOnce
  <1>1. SignInit => SignInv
    BY DEF SignInit, SignInv, SignTyped, Bound, NoCall
  <1>2. SignInv /\ [SignNext]_signVars => SignInv'
    BY SignStepInv
  <1>3. SignInv => SignedOnce
    BY DEF SignInv, Bound, SignedOnce
  <1>4. QED
    BY <1>1, <1>2, <1>3, PTL DEF SignSpec

\* On Postgres a call under way has found its intent bound.
Forestalled ==
  persistent =>
    /\ \A i \in SignIntents : bindings[i] = 0
    /\ \A c \in SignCallers : signCall[c].pc = "store" => ~Unbound(signCall[c].intent)

LEMMA ForestalledStep ==
  ASSUME SignInv, Forestalled, [SignNext]_signVars
  PROVE  Forestalled'
  <1>1. SignTyped
    BY DEF SignInv
  <1>2. \A c \in SignCallers : signCall[c].pc = "store" => signCall[c].intent \in SignIntents
    BY <1>1 DEF SignTyped, NoCall
  <1>3. ASSUME NEW i \in SignIntents, NEW preview \in Previews, Asked(i, preview)
        PROVE  persistent' = persistent /\ \A j \in SignIntents : ~Unbound(j) => ~Unbound(j)'
    BY <1>1, <1>3, AskedAnswer DEF Unbound
  <1>4. ASSUME NEW i \in SignIntents, NEW preview \in Previews, RequestSign(i, preview)
        PROVE  Forestalled'
    BY <1>2, <1>3, <1>4 DEF RequestSign, Forestalled, Unbound
  <1>5. ASSUME NEW i \in SignIntents, NEW preview \in Previews, NEW c \in SignCallers,
               Prepare(c, i, preview)
        PROVE  Forestalled'
    <2>1. /\ UNCHANGED bindings
          /\ \A d \in SignCallers \ {c} : signCall'[d] = signCall[d]
          /\ persistent =>
               signCall'[c] = signCall[c] \/ (signCall'[c].intent = i /\ ~Unbound(i))
      BY <1>1, <1>5 DEF Prepare, Answers, SignTyped
    <2>2. Asked(i, preview)
      BY <1>5 DEF Prepare
    <2>3. QED
      BY <1>2, <1>3, <2>1, <2>2 DEF Forestalled, Unbound
  <1>6. ASSUME NEW c \in SignCallers, Store(c)
        PROVE  Forestalled'
    <2>1. persistent => ~Unbound(signCall[c].intent)
      BY <1>6 DEF Store, Forestalled
    <2>2. persistent' = persistent /\ (persistent => UNCHANGED <<bindings, requestRows>>)
      BY <1>6, <2>1 DEF Store, Stored
    <2>3. signCall'[c].pc # "store" /\ \A d \in SignCallers \ {c} : signCall'[d] = signCall[d]
      BY <1>1, <1>6 DEF Store, NoCall, SignTyped
    <2>4. QED
      BY <2>2, <2>3 DEF Forestalled, Unbound
  <1>7. ASSUME NEW c \in SignCallers, Die(c)
        PROVE  Forestalled'
    <2>1. signCall'[c].pc # "store" /\ \A d \in SignCallers \ {c} : signCall'[d] = signCall[d]
      BY <1>1, <1>7 DEF Die, NoCall, SignTyped
    <2>2. QED
      BY <1>7, <2>1 DEF Die, Forestalled, Unbound
  <1>8. CASE UNCHANGED signVars
    BY <1>8 DEF signVars, Forestalled, Unbound
  <1>9. QED
    BY <1>4, <1>5, <1>6, <1>7, <1>8 DEF SignNext

\* Over the stores on Postgres SigningService never succeeds, whoever asks, asks
\* again or dies: its signer has thrown, or the row it answers from is the very row
\* that the service takes for another request's (signing.service.ts:18-23).
THEOREM ServiceNeverBinds == SignSpec => [](persistent => \A i \in SignIntents : bindings[i] = 0)
  <1>1. SignInit => SignInv /\ Forestalled
    BY DEF SignInit, SignInv, SignTyped, Bound, NoCall, Forestalled
  <1>2. SignInv /\ Forestalled /\ [SignNext]_signVars => (SignInv /\ Forestalled)'
    BY SignStepInv, ForestalledStep
  <1>3. Forestalled => (persistent => \A i \in SignIntents : bindings[i] = 0)
    BY DEF Forestalled
  <1>4. QED
    BY <1>1, <1>2, <1>3, PTL DEF SignSpec

\* A call under way, and a binding, is one of the requests the signer was given.
SignsCounted ==
  /\ sequence \in 0 .. MaxSigns
  /\ signAnswers \subseteq [intent : SignIntents, asked : Previews, given : Previews,
                            service : BOOLEAN]
  /\ \A c \in SignCallers : signCall[c] # NoCall => sequence >= 1
  /\ \A i \in SignIntents : bindings[i] # 0 => sequence >= 1

LEMMA SignsCountedStep ==
  ASSUME SignInv, SignsCounted, [SignNext]_signVars
  PROVE  SignsCounted'
  <1>1. SignTyped
    BY DEF SignInv
  <1>2. ASSUME NEW i \in SignIntents, NEW preview \in Previews,
               RequestSign(i, preview) \/ \E c \in SignCallers : Prepare(c, i, preview)
        PROVE  SignsCounted'
    <2>1. Asked(i, preview) /\ UNCHANGED bindings
      BY <1>2 DEF RequestSign, Prepare
    <2>2. sequence' \in 0 .. MaxSigns /\ sequence' >= 1
      BY <2>1, SignAssumption DEF Asked, SignsCounted
    <2>3. Answers(i) => Prepared(i, preview) \in Previews
      BY <1>1, <2>1, AskedAnswer
    <2> DEFINE answer == [intent |-> i, asked |-> preview, given |-> Prepared(i, preview),
                          service |-> FALSE]
               Answered == [intent : SignIntents, asked : Previews, given : Previews,
                            service : BOOLEAN]
    <2>4. Answers(i) => answer \in Answered
      BY <2>3
    <2>5. signAnswers' = signAnswers \/ (Answers(i) /\ signAnswers' = signAnswers \cup {answer})
      BY <1>2 DEF RequestSign, Prepare
    <2>6. signAnswers \subseteq Answered
      BY DEF SignsCounted
    <2> HIDE DEF answer, Answered
    <2>7. signAnswers' \subseteq Answered
      BY <2>4, <2>5, <2>6
    <2>8. QED
      BY <2>2, <2>7 DEF SignsCounted, Answered
  <1>3. ASSUME NEW c \in SignCallers, Store(c)
        PROVE  SignsCounted'
    <2>1. /\ signCall[c].intent \in SignIntents /\ signCall[c].preview \in Previews
          /\ signCall[c] # NoCall /\ sequence' = sequence
      BY <1>1, <1>3 DEF Store, SignTyped, NoCall, SignsCounted
    <2>2. sequence >= 1 /\ sequence' \in 0 .. MaxSigns
      BY <2>1 DEF SignsCounted
    <2> DEFINE call == signCall[c]
               answer == [intent |-> call.intent, asked |-> call.preview,
                          given |-> call.preview, service |-> TRUE]
               Answered == [intent : SignIntents, asked : Previews, given : Previews,
                            service : BOOLEAN]
    <2>3. answer \in Answered
      BY <2>1
    <2>4. signAnswers' \in {signAnswers, signAnswers \cup {answer}}
      BY <1>3 DEF Store
    <2>5. signAnswers \subseteq Answered
      BY DEF SignsCounted
    <2> HIDE DEF answer, Answered
    <2>6. signAnswers' \subseteq Answered
      BY <2>3, <2>4, <2>5
    <2>7. QED
      BY <2>1, <2>2, <2>6 DEF SignsCounted, Answered
  <1>4. ASSUME NEW c \in SignCallers, Die(c)
        PROVE  SignsCounted'
    BY <1>1, <1>4 DEF Die, SignsCounted, SignTyped
  <1>5. CASE UNCHANGED signVars
    BY <1>5 DEF signVars, SignsCounted
  <1>6. QED
    BY <1>2, <1>3, <1>4, <1>5 DEF SignNext

LEMMA SignTypeCorrect == SignSpec => []SignTypeOK
  <1>1. SignInit => SignInv /\ SignsCounted
    BY SignAssumption DEF SignInit, SignInv, SignTyped, Bound, SignsCounted, NoCall
  <1>2. SignInv /\ SignsCounted /\ [SignNext]_signVars => (SignInv /\ SignsCounted)'
    BY SignStepInv, SignsCountedStep
  <1>3. ASSUME SignInv, SignsCounted PROVE SignTypeOK
    <2>1. bindings \in [SignIntents -> 0 .. MaxSigns]
      <3>1. \A i \in SignIntents : bindings[i] \in 0 .. MaxSigns
        BY <1>3, SignAssumption DEF SignInv, Bound, SignsCounted
      <3>2. QED
        BY <1>3, <3>1 DEF SignInv, SignTyped
    <2>2. QED
      BY <1>3, <2>1 DEF SignInv, SignTyped, SignsCounted, SignTypeOK
  <1>4. QED
    BY <1>1, <1>2, <1>3, PTL DEF SignSpec

-----------------------------------------------------------------------------
\* What a creation that has saved its wallet relies on: in memory, the wallet is
\* there under the id that its policy will name.
Provisioned ==
  \A c \in Creators : creation[c].pc = "policy" /\ ~onPostgres =>
    stored[PolicyId(creation[c].wallet)] # NoChains

WalletTyped ==
  /\ onPostgres \in BOOLEAN
  /\ stored \in [Ids -> ChainSets \cup {NoChains}]
  /\ policies \in [Ids -> ChainSets \cup {NoChains}]
  /\ byAddress \subseteq Ids /\ created \subseteq Ids
  /\ creation \in [Creators -> [pc : {"save", "policy"}, wallet : WalletRequest] \cup {Idle}]

WalletInv == WalletTyped /\ Provisioned /\ AnswersStand

\* The ids a request leads to are ids, and in memory they are the same one.
LEMMA RequestIds ==
  ASSUME NEW wallet \in WalletRequest
  PROVE  /\ PolicyId(wallet) \in Ids /\ StoredId(wallet) \in Ids
         /\ StoredId(wallet).address = wallet.address
         /\ ~onPostgres => StoredId(wallet) = PolicyId(wallet)
         /\ wallet.chains \in ChainSets
  BY DEF WalletRequest, Ids, Id, PolicyId, StoredId

LEMMA FindByAddressInv ==
  ASSUME WalletInv, NEW c \in Creators, NEW wallet \in WalletRequest, FindByAddress(c, wallet)
  PROVE  WalletInv'
  <1>1. WalletTyped /\ Provisioned /\ AnswersStand
    BY DEF WalletInv
  <1>2. UNCHANGED <<onPostgres, stored, byAddress, policies, created>>
    BY DEF FindByAddress
  <1>3. AnswersStand'
    BY <1>1, <1>2 DEF AnswersStand
  <1>4. creation' \in [Creators -> [pc : {"save", "policy"}, wallet : WalletRequest] \cup {Idle}]
    BY <1>1 DEF FindByAddress, WalletTyped
  <1>5. \A d \in Creators : creation'[d].pc = "policy" => creation'[d] = creation[d]
    BY <1>1 DEF FindByAddress, WalletTyped
  <1>6. Provisioned'
    BY <1>1, <1>2, <1>5 DEF Provisioned, PolicyId
  <1>7. QED
    BY <1>1, <1>2, <1>3, <1>4, <1>6 DEF WalletInv, WalletTyped

\* The wallet takes its address: other ids under it leave the index, and nothing
\* that was stored is lost.
LEMMA SaveInv ==
  ASSUME WalletInv, NEW c \in Creators, Save(c)
  PROVE  WalletInv'
  <1> DEFINE wallet == creation[c].wallet
             id     == StoredId(wallet)
  <1>1. WalletTyped /\ Provisioned /\ AnswersStand
    BY DEF WalletInv
  <1>2. creation[c].pc = "save" /\ wallet \in WalletRequest
    BY <1>1 DEF Save, WalletTyped, Idle
  <1>3. /\ PolicyId(wallet) \in Ids /\ id \in Ids /\ id.address = wallet.address
        /\ ~onPostgres => id = PolicyId(wallet)
        /\ wallet.chains # NoChains /\ wallet.chains \in ChainSets
    BY <1>2, RequestIds, WalletAssumption
  <1>4. /\ stored' = [stored EXCEPT ![id] = wallet.chains]
        /\ byAddress' = {other \in byAddress : other.address # wallet.address} \cup {id}
        /\ creation' = [creation EXCEPT ![c].pc = "policy"]
        /\ UNCHANGED <<onPostgres, policies, created>>
    BY DEF Save
  <1> HIDE DEF id
  <1>5. \A other \in Ids : stored[other] # NoChains => stored'[other] # NoChains
    BY <1>1, <1>3, <1>4 DEF WalletTyped
  <1>6. stored'[id] # NoChains
    BY <1>1, <1>3, <1>4 DEF WalletTyped
  <1>7. AnswersStand'
    <2>1. \A other \in byAddress' : stored'[other] # NoChains
      BY <1>1, <1>4, <1>5, <1>6 DEF AnswersStand, WalletTyped
    <2>2. \A other, another \in byAddress' : other.address = another.address => other = another
      BY <1>1, <1>3, <1>4 DEF AnswersStand
    <2>3. \A other \in Ids : policies'[other] # NoChains => stored'[other] # NoChains
      BY <1>1, <1>4, <1>5 DEF AnswersStand
    <2>4. \A other \in created' : policies'[other] # NoChains
      BY <1>1, <1>4 DEF AnswersStand
    <2>5. QED
      BY <2>1, <2>2, <2>3, <2>4 DEF AnswersStand
  <1>8. WalletTyped'
    <2>1. stored' \in [Ids -> ChainSets \cup {NoChains}]
      BY <1>1, <1>3, <1>4 DEF WalletTyped
    <2>2. creation' \in [Creators -> [pc : {"save", "policy"}, wallet : WalletRequest] \cup {Idle}]
      <3>1. creation[c] \in [pc : {"save", "policy"}, wallet : WalletRequest]
        BY <1>1, <1>2 DEF WalletTyped, Idle
      <3>2. [creation[c] EXCEPT !.pc = "policy"]
              \in [pc : {"save", "policy"}, wallet : WalletRequest]
        BY <3>1
      <3>3. creation' = [creation EXCEPT ![c] = [creation[c] EXCEPT !.pc = "policy"]]
        BY <1>4
      <3>4. QED
        BY <1>1, <3>2, <3>3 DEF WalletTyped
    <2>3. byAddress' \subseteq Ids
      BY <1>1, <1>3, <1>4 DEF WalletTyped
    <2>4. QED
      BY <1>1, <1>4, <2>1, <2>2, <2>3 DEF WalletTyped
  <1>9. Provisioned'
    <2> SUFFICES ASSUME NEW d \in Creators, creation'[d].pc = "policy", ~onPostgres'
                 PROVE  stored'[PolicyId(creation'[d].wallet)] # NoChains
      BY DEF Provisioned, PolicyId
    <2>1. CASE d = c
      BY <1>1, <1>2, <1>3, <1>4, <1>6, <2>1 DEF WalletTyped
    <2>2. CASE d # c
      <3>1. creation'[d] = creation[d] /\ creation[d].wallet \in WalletRequest
        BY <1>1, <1>4, <2>2 DEF WalletTyped, Idle
      <3>2. QED
        BY <1>1, <1>4, <1>5, <3>1, RequestIds DEF Provisioned
    <2>3. QED
      BY <2>1, <2>2
  <1>10. QED
    BY <1>7, <1>8, <1>9 DEF WalletInv

\* On Postgres a policy is accepted for a wallet that is there; in memory the
\* wallet was saved under the very id.
LEMMA ProvisionInv ==
  ASSUME WalletInv, NEW c \in Creators, Provision(c)
  PROVE  WalletInv'
  <1> DEFINE wallet == creation[c].wallet
             id     == PolicyId(wallet)
  <1>1. WalletTyped /\ Provisioned /\ AnswersStand
    BY DEF WalletInv
  <1>2. creation[c].pc = "policy" /\ wallet \in WalletRequest
    BY <1>1 DEF Provision, WalletTyped, Idle
  <1>3. id \in Ids /\ wallet.chains # NoChains /\ wallet.chains \in ChainSets
    BY <1>2, RequestIds, WalletAssumption
  <1>4. Accepts(id) => stored[id] # NoChains
    BY <1>1, <1>2 DEF Accepts, Provisioned, WalletTyped
  <1>5. /\ creation' = [creation EXCEPT ![c] = Idle]
        /\ UNCHANGED <<onPostgres, stored, byAddress>>
    BY DEF Provision
  <1>6. \/ /\ stored[id] # NoChains
           /\ policies' = [policies EXCEPT ![id] = wallet.chains]
           /\ created' = created \cup {id}
        \/ UNCHANGED <<policies, created>>
    BY <1>4 DEF Provision
  <1> HIDE DEF wallet, id
  <1>7. WalletTyped'
    BY <1>1, <1>3, <1>5, <1>6 DEF WalletTyped
  <1>8. Provisioned'
    BY <1>1, <1>5 DEF Provisioned, PolicyId, WalletTyped, Idle
  <1>9. AnswersStand'
    BY <1>1, <1>3, <1>5, <1>6 DEF AnswersStand, WalletTyped
  <1>10. QED
    BY <1>7, <1>8, <1>9 DEF WalletInv

LEMMA WalletStepInv ==
  ASSUME WalletInv, [WalletNext]_walletVars
  PROVE  WalletInv'
  <1>1. ASSUME NEW c \in Creators, Lose(c)
        PROVE  WalletInv'
    BY <1>1 DEF Lose, WalletInv, WalletTyped, Provisioned, AnswersStand, PolicyId, Idle
  <1>2. CASE UNCHANGED walletVars
    BY <1>2 DEF walletVars, WalletInv, WalletTyped, Provisioned, AnswersStand, PolicyId
  <1>3. QED
    BY <1>1, <1>2, FindByAddressInv, SaveInv, ProvisionInv DEF WalletNext

\* Whoever is told that a wallet was created finds it with its policy, no policy
\* stands without its wallet, and an address leads to one wallet that is there,
\* for any number of creators that cross, die or fail (CreateWalletUseCase).
THEOREM AnswersAlwaysStand == WalletSpec => []AnswersStand
  <1>1. WalletInit => WalletInv
    BY DEF WalletInit, WalletInv, WalletTyped, Provisioned, AnswersStand, Idle
  <1>2. WalletInv /\ [WalletNext]_walletVars => WalletInv'
    BY WalletStepInv
  <1>3. WalletInv => AnswersStand
    BY DEF WalletInv
  <1>4. QED
    BY <1>1, <1>2, <1>3, PTL DEF WalletSpec

\* In memory a wallet without a policy is one whose creation is still to provision
\* it, or was lost.
Owed ==
  ~onPostgres => \A id \in Ids : stored[id] # NoChains =>
    \/ policies[id] # NoChains
    \/ lostCreation
    \/ \E c \in Creators : creation[c].pc = "policy" /\ PolicyId(creation[c].wallet) = id

LEMMA OwedStep ==
  ASSUME WalletInv, Owed, [WalletNext]_walletVars
  PROVE  Owed'
  <1> SUFFICES ASSUME ~onPostgres', NEW id \in Ids, stored'[id] # NoChains,
                      policies'[id] = NoChains, ~lostCreation'
               PROVE  \E c \in Creators : creation'[c].pc = "policy"
                                          /\ PolicyId(creation'[c].wallet) = id
    BY DEF Owed, PolicyId
  <1>1. WalletTyped /\ ~onPostgres
    BY DEF WalletInv, WalletNext, walletVars, FindByAddress, Save, Provision, Lose
  <1>2. ~lostCreation
    BY DEF WalletNext, walletVars, FindByAddress, Save, Provision, Lose
  <1>3. CASE stored[id] # NoChains /\ policies[id] = NoChains
    <2>1. PICK c \in Creators : creation[c].pc = "policy" /\ PolicyId(creation[c].wallet) = id
      BY <1>1, <1>2, <1>3 DEF Owed
    <2>2. creation'[c] = creation[c] \/ Provision(c)
      BY <1>1, <2>1 DEF WalletNext, walletVars, FindByAddress, Save, Provision, Lose, WalletTyped,
                        Idle
    <2>3. ~Provision(c)
      <3> SUFFICES ASSUME Provision(c) PROVE FALSE
        OBVIOUS
      <3>1. Accepts(id)
        BY <1>1 DEF Accepts
      <3>2. policies' = [policies EXCEPT ![id] = creation[c].wallet.chains]
        BY <2>1, <3>1 DEF Provision
      <3>3. creation[c].wallet.chains # NoChains
        BY <1>1, <2>1, RequestIds, WalletAssumption DEF WalletTyped, Idle
      <3>4. QED
        BY <1>1, <3>2, <3>3 DEF WalletTyped
    <2>4. QED
      BY <2>1, <2>2, <2>3
  <1>4. CASE stored[id] = NoChains
    <2>1. PICK c \in Creators : Save(c)
      BY <1>4 DEF WalletNext, walletVars, FindByAddress, Provision, Lose
    <2>2. creation[c].wallet \in WalletRequest
      BY <1>1, <2>1 DEF Save, WalletTyped, Idle
    <2>3. StoredId(creation[c].wallet) = id
      BY <1>1, <1>4, <2>1, <2>2, RequestIds DEF Save, WalletTyped
    <2>4. PolicyId(creation[c].wallet) = id
      BY <1>1, <2>2, <2>3, RequestIds
    <2>5. creation'[c].pc = "policy" /\ creation'[c].wallet = creation[c].wallet
      <3>1. creation[c] \in [pc : {"save", "policy"}, wallet : WalletRequest]
        BY <1>1, <2>1 DEF Save, WalletTyped, Idle
      <3>2. creation' = [creation EXCEPT ![c].pc = "policy"]
        BY <2>1 DEF Save
      <3>3. QED
        BY <1>1, <3>1, <3>2 DEF WalletTyped
    <2>6. QED
      BY <2>4, <2>5 DEF PolicyId
  <1>5. CASE policies[id] # NoChains
    <2>1. \A c \in Creators : ~Provision(c) \/ policies'[id] # NoChains
      <3> SUFFICES ASSUME NEW c \in Creators, Provision(c) PROVE policies'[id] # NoChains
        OBVIOUS
      <3>1. creation[c].wallet \in WalletRequest
        BY <1>1 DEF Provision, WalletTyped, Idle
      <3>2. creation[c].wallet.chains # NoChains
        BY <3>1, RequestIds, WalletAssumption
      <3>3. QED
        BY <1>1, <1>5, <3>2 DEF Provision, WalletTyped
    <2>2. policies'[id] # NoChains
      BY <1>5, <2>1 DEF WalletNext, walletVars, FindByAddress, Save, Lose
    <2>3. QED
      BY <2>2
  <1>6. QED
    BY <1>3, <1>4, <1>5

\* Over the stores in memory a wallet never exists without the gate knowing about
\* it, as create-wallet.usecase.ts:22-24 says, wherever no creation is under way
\* and none was lost: it is the foreign key on Postgres that breaks this.
THEOREM GateKnowsInMemory == WalletSpec => [](~onPostgres => GateKnowsWallets)
  <1>1. WalletInit => WalletInv /\ Owed
    BY DEF WalletInit, WalletInv, WalletTyped, Provisioned, AnswersStand, Idle, Owed
  <1>2. WalletInv /\ Owed /\ [WalletNext]_walletVars => (WalletInv /\ Owed)'
    BY WalletStepInv, OwedStep
  <1>3. WalletInv /\ Owed => (~onPostgres => GateKnowsWallets)
    BY DEF Owed, GateKnowsWallets, Idle
  <1>4. QED
    BY <1>1, <1>2, <1>3, PTL DEF WalletSpec

\* On Postgres a wallet is stored under its address alone, and a policy named by
\* owner and address finds no row.
Unnamed ==
  onPostgres =>
    /\ \A owner \in Owners, address \in Addresses : stored[Id(owner, address)] = NoChains
    /\ created = {} /\ \A id \in Ids : policies[id] = NoChains

LEMMA UnnamedStep ==
  ASSUME WalletInv, Unnamed, [WalletNext]_walletVars
  PROVE  Unnamed'
  <1>1. WalletTyped /\ onPostgres' = onPostgres
    BY DEF WalletInv, WalletNext, walletVars, FindByAddress, Save, Provision, Lose
  <1> SUFFICES ASSUME onPostgres PROVE Unnamed'
    BY <1>1 DEF Unnamed
  <1>2. CASE UNCHANGED <<stored, policies, created>>
    BY <1>1, <1>2 DEF Unnamed, Id
  <1>3. ASSUME NEW c \in Creators, Save(c)
        PROVE  Unnamed'
    <2>1. creation[c].wallet \in WalletRequest
      BY <1>1, <1>3 DEF Save, WalletTyped, Idle
    <2>2. /\ stored' = [stored EXCEPT ![Id(NoOwner, creation[c].wallet.address)] =
                                    creation[c].wallet.chains]
          /\ UNCHANGED <<policies, created>>
      BY <1>3 DEF Save, StoredId
    <2>3. \A owner \in Owners, address \in Addresses :
            stored'[Id(owner, address)] = stored[Id(owner, address)]
      BY <1>1, <2>1, <2>2, WalletAssumption DEF WalletTyped, Id, Ids
    <2>4. QED
      BY <2>2, <2>3 DEF Unnamed, Id
  <1>4. ASSUME NEW c \in Creators, Provision(c)
        PROVE  Unnamed'
    <2>1. creation[c].wallet \in WalletRequest
      BY <1>1, <1>4 DEF Provision, WalletTyped, Idle
    <2>2. stored[PolicyId(creation[c].wallet)] = NoChains
      BY <2>1 DEF Unnamed, PolicyId, WalletRequest
    <2>3. UNCHANGED <<stored, policies, created>>
      BY <1>4, <2>2 DEF Provision, Accepts
    <2>4. QED
      BY <1>2, <2>3
  <1>5. QED
    BY <1>2, <1>3, <1>4 DEF WalletNext, walletVars, FindByAddress, Lose

\* On Postgres no request to create a wallet ever succeeds, and the gate never
\* learns of a wallet: the policy names it by an id that no row has
\* (CreateWalletUseCase over PostgresWalletStore and the foreign key).
THEOREM NoWalletKnownOnPostgres ==
  WalletSpec => [](onPostgres => created = {} /\ \A id \in Ids : policies[id] = NoChains)
  <1>1. WalletInit => WalletInv /\ Unnamed
    BY DEF WalletInit, WalletInv, WalletTyped, Provisioned, AnswersStand, Idle, Unnamed, Id, Ids
  <1>2. WalletInv /\ Unnamed /\ [WalletNext]_walletVars => (WalletInv /\ Unnamed)'
    BY WalletStepInv, UnnamedStep
  <1>3. Unnamed => (onPostgres => created = {} /\ \A id \in Ids : policies[id] = NoChains)
    BY DEF Unnamed
  <1>4. QED
    BY <1>1, <1>2, <1>3, PTL DEF WalletSpec

WalletCounted == creations \in 0 .. MaxCreations /\ lostCreation \in BOOLEAN

LEMMA WalletTypeCorrect == WalletSpec => []WalletTypeOK
  <1>1. WalletInit => WalletInv /\ WalletCounted
    <2>1. WalletInit => WalletInv
      BY DEF WalletInit, WalletInv, WalletTyped, Provisioned, AnswersStand, Idle
    <2>2. WalletInit => creations \in 0 .. MaxCreations
      BY WalletAssumption DEF WalletInit
    <2>3. WalletInit => lostCreation \in BOOLEAN
      BY DEF WalletInit
    <2>4. QED
      BY <2>1, <2>2, <2>3 DEF WalletCounted
  <1>2. WalletInv /\ WalletCounted /\ [WalletNext]_walletVars => (WalletInv /\ WalletCounted)'
    <2> SUFFICES ASSUME WalletInv, WalletCounted, [WalletNext]_walletVars
                 PROVE  WalletInv' /\ WalletCounted'
      OBVIOUS
    <2>1. creations' \in 0 .. MaxCreations
      <3>1. \/ creations < MaxCreations /\ creations' = creations + 1
            \/ creations' = creations
        BY DEF WalletNext, walletVars, FindByAddress, Save, Provision, Lose
      <3>2. QED
        BY <3>1, WalletAssumption DEF WalletCounted
    <2>2. lostCreation' \in BOOLEAN
      BY DEF WalletCounted, WalletNext, walletVars, FindByAddress, Save, Provision, Lose
    <2>3. QED
      BY <2>1, <2>2, WalletStepInv DEF WalletCounted
  <1>3. WalletInv /\ WalletCounted => WalletTypeOK
    BY DEF WalletInv, WalletTyped, WalletCounted, WalletTypeOK
  <1>4. QED
    BY <1>1, <1>2, <1>3, PTL DEF WalletSpec

-----------------------------------------------------------------------------
\* How far a status is from the publication: each step goes one further.
Rank == [published |-> 1, signed_offchain |-> 2, broadcast |-> 3, readback_passed |-> 4,
         readback_rejected |-> 4]

LEMMA StepsForward ==
  /\ Statuses = {"published", "signed_offchain", "broadcast", "readback_passed",
                 "readback_rejected"}
  /\ Transitions["none"] = {}
  /\ \A s \in Statuses : Transitions[s] \subseteq Statuses
  /\ \A s \in Statuses : \A to \in Transitions[s] : s \notin Readbacks /\ Rank[to] = Rank[s] + 1
  /\ \A s \in Statuses : Rank[s] \in 1 .. 4 /\ (Rank[s] = 1 <=> s = "published")
  /\ DOMAIN Transitions = Statuses \cup {"none"}
  /\ "none" \notin Statuses
  <1>1. DOMAIN Transitions = {"none", "published", "signed_offchain", "broadcast",
                              "readback_passed", "readback_rejected"}
    BY DEF Transitions
  <1>2. Statuses = {"published", "signed_offchain", "broadcast", "readback_passed",
                    "readback_rejected"}
    BY <1>1 DEF Statuses
  <1>3. /\ Transitions["none"] = {} /\ Transitions["published"] = {"signed_offchain"}
        /\ Transitions["signed_offchain"] = {"broadcast"}
        /\ Transitions["broadcast"] = {"readback_passed", "readback_rejected"}
        /\ Transitions["readback_passed"] = {} /\ Transitions["readback_rejected"] = {}
    BY DEF Transitions
  <1>4. /\ Rank["published"] = 1 /\ Rank["signed_offchain"] = 2 /\ Rank["broadcast"] = 3
        /\ Rank["readback_passed"] = 4 /\ Rank["readback_rejected"] = 4
    BY DEF Rank
  <1>5. QED
    BY <1>1, <1>2, <1>3, <1>4 DEF Readbacks

LaunchTyped ==
  /\ durable \in BOOLEAN
  /\ record \in [Records -> Statuses \cup {"none"}]
  /\ readback \subseteq Records
  /\ operator \in [Operators -> Step \cup {NoStep}]
  /\ trail \in [Records -> Seq(Statuses)]
  /\ credits \in [Reply -> Nat]

\* The trail of a record leads, one rank a step, to where the record is: no status
\* comes twice.
Path(id) ==
  /\ trail[id] = <<>> <=> record[id] = "none"
  /\ trail[id] # <<>> => trail[id][Len(trail[id])] = record[id]
  /\ \A i \in 1 .. Len(trail[id]) : Rank[trail[id][i]] = i
  /\ \A i \in 2 .. Len(trail[id]) : trail[id][i] \in Transitions[trail[id][i - 1]]
  /\ id \in readback <=> record[id] \in Readbacks

Went(id, to) == \E i \in 1 .. Len(trail[id]) : trail[id][i] = to

Credited(id, to) == \E a \in Reply : a.id = id /\ a.to = to /\ credits[a] > 0

\* A step is credited once, and only when the record took it.
Claims ==
  /\ \A a \in Reply : credits[a] > 0 => credits[a] = 1 /\ Told(a.id, a.to, a.status)
  /\ \A a, b \in Reply :
       credits[a] > 0 /\ credits[b] > 0 /\ a.id = b.id /\ a.to = b.to => a = b

\* The step an operator is to be told of was taken, is credited to no one yet, and
\* is no other operator's.
Pending ==
  \A o \in Operators : operator[o] # NoStep =>
    /\ Went(operator[o].id, operator[o].to)
    /\ ~Credited(operator[o].id, operator[o].to)
    /\ \A p \in Operators \ {o} : operator[p] # operator[o]

LaunchInv == LaunchTyped /\ (\A id \in Records : Path(id)) /\ Claims /\ Pending

\* What may come next after where the record is.
Fresh(id, to) ==
  \/ record[id] = "none" /\ to = "published"
  \/ to \in Transitions[record[id]]

LEMMA ToldWent ==
  ASSUME LaunchTyped, NEW a \in Reply, Told(a.id, a.to, a.status)
  PROVE  Went(a.id, a.to)
  BY DEF LaunchTyped, Told, Went, Reply

\* The record moves on: its trail is one longer, a path again, and the status is
\* new to it.
LEMMA MovedStep ==
  ASSUME LaunchTyped, NEW id \in Records, Path(id), NEW to \in Statuses, Fresh(id, to),
         Moved(id, to)
  PROVE  /\ ~Went(id, to)
         /\ Path(id)'
         /\ trail'[id] = Append(trail[id], to)
         /\ record' = [record EXCEPT ![id] = to]
         /\ readback' \subseteq Records
         /\ trail' \in [Records -> Seq(Statuses)]
         /\ \A other \in Records \ {id} :
              /\ trail'[other] = trail[other] /\ record'[other] = record[other]
              /\ other \in readback' <=> other \in readback
  <1> DEFINE n == Len(trail[id])
  <1>1. trail[id] \in Seq(Statuses) /\ n \in Nat
    BY DEF LaunchTyped
  <1>2. /\ trail' = [trail EXCEPT ![id] = Append(trail[id], to)]
        /\ record' = [record EXCEPT ![id] = to]
    BY DEF Moved
  <1>3. trail'[id] = Append(trail[id], to) /\ record'[id] = to
    BY <1>2 DEF LaunchTyped
  <1>4. /\ Append(trail[id], to) \in Seq(Statuses) /\ Len(Append(trail[id], to)) = n + 1
        /\ Append(trail[id], to)[n + 1] = to
        /\ \A i \in 1 .. n : Append(trail[id], to)[i] = trail[id][i]
    BY <1>1
  <1>5. trail' \in [Records -> Seq(Statuses)]
    BY <1>2, <1>4 DEF LaunchTyped
  <1>6. Rank[to] = n + 1 /\ (n > 0 => to \in Transitions[trail[id][n]])
    <2>1. CASE record[id] = "none"
      <3>1. n = 0 /\ to = "published"
        BY <1>1, <2>1, StepsForward DEF Path, Fresh
      <3>2. QED
        BY <3>1, StepsForward
    <2>2. CASE record[id] # "none"
      <3>1. to \in Transitions[record[id]] /\ record[id] \in Statuses
        BY <2>2 DEF Fresh, LaunchTyped
      <3>2. n > 0 /\ record[id] = trail[id][n]
        BY <1>1, <2>2 DEF Path
      <3>3. Rank[record[id]] = n
        BY <1>1, <3>2 DEF Path
      <3>4. QED
        BY <3>1, <3>2, <3>3, StepsForward
    <2>3. QED
      BY <2>1, <2>2
  <1>7. ~Went(id, to)
    BY <1>1, <1>6 DEF Went, Path
  <1>8. id \in readback' <=> to \in Readbacks
    <2>1. record[id] \notin Readbacks
      <3>1. CASE record[id] = "none"
        BY <3>1 DEF Readbacks
      <3>2. CASE to \in Transitions[record[id]] /\ record[id] \in Statuses
        BY <3>2, StepsForward
      <3>3. QED
        BY <3>1, <3>2 DEF Fresh, LaunchTyped
    <2>2. id \notin readback
      BY <2>1 DEF Path
    <2>3. readback' = IF to \in Readbacks THEN readback \cup {id} ELSE readback
      BY DEF Moved
    <2>4. QED
      BY <2>2, <2>3
  <1>9. Path(id)'
    <2>1. record'[id] # "none"
      BY <1>3, StepsForward
    <2>2. Len(trail'[id]) = n + 1 /\ trail'[id] # <<>>
      BY <1>1, <1>3, <1>4
    <2>3. trail'[id][Len(trail'[id])] = record'[id]
      BY <1>3, <1>4, <2>2
    <2>4. \A i \in 1 .. Len(trail'[id]) : Rank[trail'[id][i]] = i
      <3> SUFFICES ASSUME NEW i \in 1 .. n + 1 PROVE Rank[trail'[id][i]] = i
        BY <2>2
      <3>1. CASE i = n + 1
        BY <1>3, <1>4, <1>6, <3>1
      <3>2. CASE i # n + 1
        <4>1. i \in 1 .. n
          BY <1>1, <3>2
        <4>2. QED
          BY <1>3, <1>4, <4>1 DEF Path
      <3>3. QED
        BY <3>1, <3>2
    <2>5. \A i \in 2 .. Len(trail'[id]) : trail'[id][i] \in Transitions[trail'[id][i - 1]]
      <3> SUFFICES ASSUME NEW i \in 2 .. n + 1
                   PROVE  trail'[id][i] \in Transitions[trail'[id][i - 1]]
        BY <2>2
      <3>1. i - 1 \in 1 .. n
        BY <1>1
      <3>2. trail'[id][i - 1] = trail[id][i - 1]
        BY <1>3, <1>4, <3>1
      <3>3. CASE i = n + 1
        BY <1>1, <1>3, <1>4, <1>6, <3>2, <3>3
      <3>4. CASE i # n + 1
        <4>1. i \in 1 .. n /\ i \in 2 .. n
          BY <1>1, <3>4
        <4>2. trail'[id][i] = trail[id][i]
          BY <1>3, <1>4, <4>1
        <4>3. QED
          BY <3>2, <4>1, <4>2 DEF Path
      <3>5. QED
        BY <3>3, <3>4
    <2>6. QED
      BY <1>3, <1>8, <2>1, <2>2, <2>3, <2>4, <2>5 DEF Path
  <1>10. \A other \in Records \ {id} :
           /\ trail'[other] = trail[other] /\ record'[other] = record[other]
           /\ other \in readback' <=> other \in readback
    BY <1>2 DEF Moved, LaunchTyped
  <1>11. readback' \subseteq Records
    BY DEF Moved, LaunchTyped
  <1> HIDE DEF n
  <1>12. QED
    BY <1>2, <1>3, <1>5, <1>7, <1>9, <1>10, <1>11

\* What a caller was told stays true, and a step that was taken stays taken.
LEMMA TrailGrows ==
  ASSUME LaunchTyped, NEW id \in Records, NEW to \in Statuses,
         trail'[id] = Append(trail[id], to),
         \A other \in Records \ {id} : trail'[other] = trail[other]
  PROVE  /\ \A a \in Reply : Told(a.id, a.to, a.status) => Told(a.id, a.to, a.status)'
         /\ \A other \in Records, s \in Statuses : Went(other, s) => Went(other, s)'
         /\ Went(id, to)' /\ Told(id, to, to)'
  <1>1. /\ trail[id] \in Seq(Statuses)
        /\ Len(trail'[id]) = Len(trail[id]) + 1 /\ trail'[id][Len(trail[id]) + 1] = to
        /\ \A i \in 1 .. Len(trail[id]) : trail'[id][i] = trail[id][i]
        /\ DOMAIN trail'[id] = 1 .. Len(trail[id]) + 1
    BY DEF LaunchTyped
  <1>2. \A other \in Records : DOMAIN trail[other] = 1 .. Len(trail[other])
                               /\ Len(trail[other]) \in Nat
    BY DEF LaunchTyped
  <1>3. ASSUME NEW other \in Records, NEW s \in Statuses, Went(other, s)
        PROVE  Went(other, s)'
    <2>1. CASE other # id
      BY <1>3, <2>1 DEF Went
    <2>2. CASE other = id
      <3>1. PICK i \in 1 .. Len(trail[id]) : trail[id][i] = s
        BY <1>3, <2>2 DEF Went
      <3>2. i \in 1 .. Len(trail'[id]) /\ trail'[id][i] = s
        BY <1>1, <1>2, <3>1
      <3>3. QED
        BY <2>2, <3>2 DEF Went
    <2>3. QED
      BY <2>1, <2>2
  <1>4. ASSUME NEW a \in Reply, Told(a.id, a.to, a.status)
        PROVE  Told(a.id, a.to, a.status)'
    <2>1. a.id \in Records
      BY DEF Reply
    <2>2. CASE a.id # id
      BY <1>4, <2>1, <2>2 DEF Told
    <2>3. CASE a.id = id
      <3>1. PICK i, j \in DOMAIN trail[id] :
              i <= j /\ trail[id][i] = a.to /\ trail[id][j] = a.status
        BY <1>4, <2>3 DEF Told
      <3>2. i \in 1 .. Len(trail[id]) /\ j \in 1 .. Len(trail[id])
        BY <1>2
      <3>3. i \in DOMAIN trail'[id] /\ j \in DOMAIN trail'[id]
        BY <1>1, <1>2, <3>2
      <3>4. trail'[id][i] = a.to /\ trail'[id][j] = a.status
        BY <1>1, <3>1, <3>2
      <3>5. QED
        BY <2>3, <3>1, <3>3, <3>4 DEF Told
    <2>4. QED
      BY <2>2, <2>3
  <1>5. Len(trail[id]) + 1 \in DOMAIN trail'[id] /\ Len(trail[id]) + 1 \in 1 .. Len(trail'[id])
    BY <1>1, <1>2
  <1>6. Went(id, to)' /\ Told(id, to, to)'
    BY <1>1, <1>2, <1>5 DEF Went, Told
  <1>7. QED
    BY <1>3, <1>4, <1>6

\* A step that no one was credited with is credited to one caller.
LEMMA CreditStep ==
  ASSUME LaunchTyped, NEW id \in Records, NEW to \in Statuses, NEW status \in Statuses,
         ~Credited(id, to), Credit(id, to, status)
  PROVE  /\ credits' \in [Reply -> Nat]
         /\ \A a \in Reply : credits'[a] > 0 =>
              \/ a = [id |-> id, to |-> to, status |-> status] /\ credits'[a] = 1
              \/ /\ credits[a] > 0 /\ credits'[a] = credits[a]
                 /\ ~(a.id = id /\ a.to = to)
  <1> DEFINE new == [id |-> id, to |-> to, status |-> status]
  <1>1. new \in Reply /\ new.id = id /\ new.to = to
    BY DEF Reply
  <1>2. credits' = [credits EXCEPT ![new] = @ + 1]
    BY DEF Credit
  <1> HIDE DEF new
  <1>3. credits[new] = 0
    BY <1>1 DEF Credited, LaunchTyped
  <1>4. credits'[new] = 1 /\ \A a \in Reply \ {new} : credits'[a] = credits[a]
    BY <1>1, <1>2, <1>3 DEF LaunchTyped
  <1>5. \A a \in Reply : credits'[a] > 0 =>
          \/ a = new /\ credits'[a] = 1
          \/ /\ credits[a] > 0 /\ credits'[a] = credits[a] /\ ~(a.id = id /\ a.to = to)
    BY <1>4 DEF Credited
  <1>6. credits' \in [Reply -> Nat]
    BY <1>1, <1>2, <1>3 DEF LaunchTyped
  <1>7. QED
    BY <1>5, <1>6 DEF new

\* The record takes a step that no caller holds, and whoever asked is told of it
\* at once (Publish, and Transition in memory).
LEMMA MovedAndCredited ==
  ASSUME LaunchInv, NEW id \in Records, NEW to \in Statuses, Fresh(id, to),
         Moved(id, to), Credit(id, to, to), UNCHANGED <<durable, operator>>
  PROVE  LaunchInv'
  <1>1. LaunchTyped /\ (\A other \in Records : Path(other)) /\ Claims /\ Pending
    BY DEF LaunchInv
  <1>2. /\ ~Went(id, to) /\ Path(id)' /\ trail'[id] = Append(trail[id], to)
        /\ record' = [record EXCEPT ![id] = to] /\ readback' \subseteq Records
        /\ trail' \in [Records -> Seq(Statuses)]
        /\ \A other \in Records \ {id} :
             /\ trail'[other] = trail[other] /\ record'[other] = record[other]
             /\ other \in readback' <=> other \in readback
    BY <1>1, MovedStep
  <1>3. /\ \A a \in Reply : Told(a.id, a.to, a.status) => Told(a.id, a.to, a.status)'
        /\ \A other \in Records, s \in Statuses : Went(other, s) => Went(other, s)'
        /\ Went(id, to)' /\ Told(id, to, to)'
    BY <1>1, <1>2, TrailGrows
  <1>4. ~Credited(id, to)
    BY <1>1, <1>2, ToldWent DEF Credited, Claims
  <1>5. /\ credits' \in [Reply -> Nat]
        /\ \A a \in Reply : credits'[a] > 0 =>
             \/ a = [id |-> id, to |-> to, status |-> to] /\ credits'[a] = 1
             \/ credits[a] > 0 /\ credits'[a] = credits[a] /\ ~(a.id = id /\ a.to = to)
    BY <1>1, <1>4, CreditStep
  <1>6. LaunchTyped'
    <2>1. record' \in [Records -> Statuses \cup {"none"}]
      BY <1>1, <1>2 DEF LaunchTyped
    <2>2. QED
      BY <1>1, <1>2, <1>5, <2>1 DEF LaunchTyped
  <1>7. \A other \in Records : Path(other)'
    BY <1>1, <1>2 DEF Path
  <1>8. Claims'
    <2>1. \A a \in Reply : credits'[a] > 0 =>
            credits'[a] = 1 /\ Told(a.id, a.to, a.status)'
      BY <1>1, <1>3, <1>5 DEF Claims
    <2>2. \A a, b \in Reply :
            credits'[a] > 0 /\ credits'[b] > 0 /\ a.id = b.id /\ a.to = b.to => a = b
      BY <1>1, <1>5 DEF Claims
    <2>3. QED
      BY <2>1, <2>2 DEF Claims
  <1>9. Pending'
    <2> SUFFICES ASSUME NEW o \in Operators, operator[o] # NoStep
                 PROVE  /\ Went(operator[o].id, operator[o].to)'
                        /\ ~Credited(operator[o].id, operator[o].to)'
                        /\ \A p \in Operators \ {o} : operator[p] # operator[o]
      BY DEF Pending, Went, Credited
    <2>1. operator[o].id \in Records /\ operator[o].to \in Statuses
      BY <1>1 DEF LaunchTyped, Step
    <2>2. /\ Went(operator[o].id, operator[o].to)
          /\ ~Credited(operator[o].id, operator[o].to)
          /\ \A p \in Operators \ {o} : operator[p] # operator[o]
      BY <1>1 DEF Pending
    <2>3. ~(operator[o].id = id /\ operator[o].to = to)
      BY <1>2, <2>2
    <2>4. ~Credited(operator[o].id, operator[o].to)'
      BY <1>5, <2>2, <2>3 DEF Credited
    <2>5. QED
      BY <1>3, <2>1, <2>2, <2>4
  <1>10. QED
    BY <1>6, <1>7, <1>8, <1>9 DEF LaunchInv

\* On Postgres the record takes the step first, and its operator holds it.
LEMMA UpdateInv ==
  ASSUME LaunchInv, NEW o \in Operators, NEW id \in Records, NEW to \in Statuses,
         Update(o, id, to)
  PROVE  LaunchInv'
  <1> DEFINE step == [id |-> id, to |-> to]
  <1>1. LaunchTyped /\ (\A other \in Records : Path(other)) /\ Claims /\ Pending
    BY DEF LaunchInv
  <1>2. /\ ~Went(id, to) /\ Path(id)' /\ trail'[id] = Append(trail[id], to)
        /\ record' = [record EXCEPT ![id] = to] /\ readback' \subseteq Records
        /\ trail' \in [Records -> Seq(Statuses)]
        /\ \A other \in Records \ {id} :
             /\ trail'[other] = trail[other] /\ record'[other] = record[other]
             /\ other \in readback' <=> other \in readback
    BY <1>1, MovedStep DEF Update, MayMove, Fresh
  <1>3. /\ \A a \in Reply : Told(a.id, a.to, a.status) => Told(a.id, a.to, a.status)'
        /\ \A other \in Records, s \in Statuses : Went(other, s) => Went(other, s)'
        /\ Went(id, to)'
    BY <1>1, <1>2, TrailGrows
  <1>4. ~Credited(id, to)
    BY <1>1, <1>2, ToldWent DEF Credited, Claims
  <1>5. /\ operator[o] = NoStep /\ operator' = [operator EXCEPT ![o] = step]
        /\ UNCHANGED <<durable, credits>>
    BY DEF Update
  <1>6. step \in Step /\ step.id = id /\ step.to = to
    BY DEF Step
  <1> HIDE DEF step
  <1>7. LaunchTyped'
    <2>1. record' \in [Records -> Statuses \cup {"none"}]
      BY <1>1, <1>2 DEF LaunchTyped
    <2>2. operator' \in [Operators -> Step \cup {NoStep}]
      BY <1>1, <1>5, <1>6 DEF LaunchTyped
    <2>3. QED
      BY <1>1, <1>2, <1>5, <2>1, <2>2 DEF LaunchTyped
  <1>8. \A other \in Records : Path(other)'
    BY <1>1, <1>2 DEF Path
  <1>9. Claims'
    <2>1. \A a \in Reply : credits'[a] > 0 =>
            credits'[a] = 1 /\ Told(a.id, a.to, a.status)'
      BY <1>1, <1>3, <1>5 DEF Claims
    <2>2. \A a, b \in Reply :
            credits'[a] > 0 /\ credits'[b] > 0 /\ a.id = b.id /\ a.to = b.to => a = b
      BY <1>1, <1>5 DEF Claims
    <2>3. QED
      BY <2>1, <2>2 DEF Claims
  <1>10. Pending'
    <2>1. \A p \in Operators \ {o} : operator'[p] = operator[p]
      BY <1>1, <1>5 DEF LaunchTyped
    <2>2. operator'[o] = step
      BY <1>1, <1>5 DEF LaunchTyped
    <2>3. \A p \in Operators \ {o} : operator[p] # NoStep =>
            /\ operator[p].id \in Records /\ operator[p].to \in Statuses
            /\ Went(operator[p].id, operator[p].to)
            /\ ~Credited(operator[p].id, operator[p].to)
            /\ \A q \in Operators \ {p} : operator[q] # operator[p]
      BY <1>1 DEF Pending, LaunchTyped, Step
    <2>4. \A p \in Operators \ {o} : operator[p] # step
      <3> SUFFICES ASSUME NEW p \in Operators \ {o}, operator[p] = step PROVE FALSE
        OBVIOUS
      <3>1. operator[p] # NoStep
        BY <1>6, StepsForward DEF NoStep
      <3>2. Went(operator[p].id, operator[p].to)
        BY <2>3, <3>1
      <3>3. QED
        BY <1>2, <1>6, <3>2
    <2>5. \A a, b : Credited(a, b)' <=> Credited(a, b)
      BY <1>5 DEF Credited
    <2> SUFFICES ASSUME NEW p \in Operators, NEW held \in Step, operator'[p] = held
                 PROVE  /\ Went(held.id, held.to)' /\ ~Credited(held.id, held.to)'
                        /\ \A q \in Operators \ {p} : operator'[q] # held
      BY <1>7 DEF Pending, LaunchTyped
    <2>6. CASE p = o
      BY <1>3, <1>4, <1>6, <2>1, <2>2, <2>4, <2>5, <2>6
    <2>7. CASE p # o
      <3>1. operator[p] = held /\ held # NoStep
        BY <2>1, <2>7, StepsForward DEF Step, NoStep
      <3>2. \A q \in Operators \ {p} : operator'[q] # held
        BY <2>1, <2>2, <2>3, <2>4, <2>7, <3>1
      <3>3. Went(held.id, held.to) /\ ~Credited(held.id, held.to)
        BY <2>3, <2>7, <3>1
      <3>4. Went(held.id, held.to)'
        BY <1>3, <3>3 DEF Step
      <3>5. QED
        BY <2>5, <3>2, <3>3, <3>4
    <2>8. QED
      BY <2>6, <2>7
  <1>11. QED
    BY <1>7, <1>8, <1>9, <1>10 DEF LaunchInv

\* The row read again is where the record is by now: the step or one after it.
LEMMA ReadBackInv ==
  ASSUME LaunchInv, NEW o \in Operators, ReadBack(o)
  PROVE  LaunchInv'
  <1> DEFINE id == operator[o].id
             to == operator[o].to
             status == record[id]
  <1>1. LaunchTyped /\ (\A other \in Records : Path(other)) /\ Claims /\ Pending
    BY DEF LaunchInv
  <1>2. /\ operator[o] # NoStep /\ Credit(id, to, status)
        /\ operator' = [operator EXCEPT ![o] = NoStep]
        /\ UNCHANGED <<durable, record, readback, trail>>
    BY DEF ReadBack
  <1>3. id \in Records /\ to \in Statuses
    BY <1>1, <1>2 DEF LaunchTyped, Step
  <1>4. Went(id, to) /\ ~Credited(id, to)
    BY <1>1, <1>2 DEF Pending
  <1>5. status \in Statuses /\ Told(id, to, status)
    <2>1. PICK i \in 1 .. Len(trail[id]) : trail[id][i] = to
      BY <1>4 DEF Went
    <2>2. trail[id] \in Seq(Statuses)
      BY <1>1, <1>3 DEF LaunchTyped
    <2>3. trail[id] # <<>> /\ Len(trail[id]) \in DOMAIN trail[id] /\ i \in DOMAIN trail[id]
          /\ i <= Len(trail[id])
      BY <2>1, <2>2
    <2>4. trail[id][Len(trail[id])] = status
      BY <1>1, <1>3, <2>3 DEF Path
    <2>5. status \in Statuses
      BY <2>2, <2>3, <2>4
    <2>6. QED
      BY <2>1, <2>3, <2>4, <2>5 DEF Told
  <1> HIDE DEF id, to, status
  <1>6. /\ credits' \in [Reply -> Nat]
        /\ \A a \in Reply : credits'[a] > 0 =>
             \/ a = [id |-> id, to |-> to, status |-> status] /\ credits'[a] = 1
             \/ credits[a] > 0 /\ credits'[a] = credits[a] /\ ~(a.id = id /\ a.to = to)
    BY <1>1, <1>2, <1>3, <1>4, <1>5, CreditStep
  <1>7. LaunchTyped'
    BY <1>1, <1>2, <1>6 DEF LaunchTyped
  <1>8. \A other \in Records : Path(other)'
    BY <1>1, <1>2 DEF Path
  <1>9. Claims'
    <2>1. \A a \in Reply : credits'[a] > 0 => credits'[a] = 1 /\ Told(a.id, a.to, a.status)
      BY <1>1, <1>5, <1>6 DEF Claims
    <2>2. \A a, b \in Reply :
            credits'[a] > 0 /\ credits'[b] > 0 /\ a.id = b.id /\ a.to = b.to => a = b
      BY <1>1, <1>6 DEF Claims
    <2>3. QED
      BY <1>2, <2>1, <2>2 DEF Claims, Told
  <1>10. Pending'
    <2> SUFFICES ASSUME NEW p \in Operators, NEW held \in Step, operator'[p] = held
                 PROVE  /\ Went(held.id, held.to)' /\ ~Credited(held.id, held.to)'
                        /\ \A q \in Operators \ {p} : operator'[q] # held
      BY <1>7 DEF Pending, LaunchTyped
    <2>1. held # NoStep
      BY StepsForward DEF Step, NoStep
    <2>2. p # o /\ operator[p] = held
      BY <1>1, <1>2, <2>1 DEF LaunchTyped
    <2>3. /\ Went(held.id, held.to) /\ ~Credited(held.id, held.to)
          /\ \A q \in Operators \ {p} : operator[q] # held
      BY <1>1, <2>1, <2>2 DEF Pending
    <2>4. ~(held.id = id /\ held.to = to)
      <3>1. operator[o] \in Step /\ operator[o] # held
        BY <1>1, <1>2, <2>2, <2>3 DEF LaunchTyped
      <3>2. QED
        BY <3>1 DEF Step, id, to
    <2>5. ~Credited(held.id, held.to)'
      BY <1>6, <2>3, <2>4 DEF Credited
    <2>6. Went(held.id, held.to)'
      BY <1>2, <2>3 DEF Went
    <2>7. \A q \in Operators \ {p} : operator'[q] # held
      BY <1>1, <1>2, <2>1, <2>2, <2>3 DEF LaunchTyped
    <2>8. QED
      BY <2>5, <2>6, <2>7
  <1>11. QED
    BY <1>7, <1>8, <1>9, <1>10 DEF LaunchInv

LEMMA LaunchStepInv ==
  ASSUME LaunchInv, [LaunchNext]_launchVars
  PROVE  LaunchInv'
  <1>1. ASSUME NEW id \in Records, Publish(id)
        PROVE  LaunchInv'
    BY <1>1, MovedAndCredited, StepsForward DEF Publish, Fresh
  <1>2. ASSUME NEW id \in Records, NEW to \in Statuses, Transition(id, to)
        PROVE  LaunchInv'
    BY <1>2, MovedAndCredited DEF Transition, MayMove, Fresh
  <1>3. ASSUME NEW o \in Operators, Abort(o)
        PROVE  LaunchInv'
    <2>1. /\ operator' = [operator EXCEPT ![o] = NoStep]
          /\ UNCHANGED <<durable, record, readback, trail, credits>>
      BY <1>3 DEF Abort
    <2>2. LaunchTyped'
      BY <2>1 DEF LaunchInv, LaunchTyped
    <2>3. (\A id \in Records : Path(id)') /\ Claims'
      BY <2>1 DEF LaunchInv, Path, Claims, Told
    <2>4. Pending'
      BY <2>1 DEF LaunchInv, LaunchTyped, Pending, Went, Credited
    <2>5. QED
      BY <2>2, <2>3, <2>4 DEF LaunchInv
  <1>4. CASE UNCHANGED launchVars
    BY <1>4 DEF launchVars, LaunchInv, LaunchTyped, Path, Claims, Told, Pending, Went, Credited
  <1>5. QED
    BY <1>1, <1>2, <1>3, <1>4, UpdateInv, ReadBackInv DEF LaunchNext

LEMMA LaunchInitInv ==
  ASSUME LaunchInit
  PROVE  LaunchInv
  <1>1. LaunchTyped
    BY DEF LaunchInit, LaunchTyped
  <1>2. \A id \in Records : Path(id)
    BY DEF LaunchInit, Path, Readbacks
  <1>3. Claims /\ Pending
    BY DEF LaunchInit, Claims, Pending
  <1>4. QED
    BY <1>1, <1>2, <1>3 DEF LaunchInv

\* Each step of a launch record is one of its lifecycle and is credited to one
\* caller at most, who is told of it or of a state after it, for any number of
\* records and of operators that cross or die between the update and the reading
\* (PostgresDeployRecordStore.transition and its counterpart in memory).
THEOREM StepsAlwaysCredited == LaunchSpec => []StepsCredited
  <1>1. LaunchInit => LaunchInv
    BY LaunchInitInv
  <1>2. LaunchInv /\ [LaunchNext]_launchVars => LaunchInv'
    BY LaunchStepInv
  <1>3. LaunchInv => StepsCredited
    <2> SUFFICES ASSUME LaunchInv PROVE StepsCredited
      OBVIOUS
    <2>1. LaunchTyped /\ (\A id \in Records : Path(id)) /\ Claims /\ Pending
      BY DEF LaunchInv
    <2>2. \A id \in Records : trail[id] # <<>> => trail[id][1] = "published"
      <3> SUFFICES ASSUME NEW id \in Records, trail[id] # <<>>
                   PROVE  trail[id][1] = "published"
        OBVIOUS
      <3>1. trail[id] \in Seq(Statuses) /\ 1 \in 1 .. Len(trail[id])
        BY <2>1 DEF LaunchTyped
      <3>2. trail[id][1] \in Statuses /\ Rank[trail[id][1]] = 1
        BY <2>1, <3>1 DEF Path
      <3>3. QED
        BY <3>2, StepsForward
    <2>3. \A o \in Operators : operator[o] # NoStep =>
            /\ \A a \in Reply : credits[a] > 0 =>
                 <<a.id, a.to>> # <<operator[o].id, operator[o].to>>
            /\ \A p \in Operators \ {o} : operator[p] # operator[o]
      BY <2>1 DEF Pending, Credited
    <2>4. QED
      BY <2>1, <2>2, <2>3 DEF Path, Claims, StepsCredited
  <1>4. QED
    BY <1>1, <1>2, <1>3, PTL DEF LaunchSpec

LEMMA LaunchTypeCorrect == LaunchSpec => []LaunchTypeOK
  <1>1. LaunchInit => LaunchInv
    BY LaunchInitInv
  <1>2. LaunchInv /\ [LaunchNext]_launchVars => LaunchInv'
    BY LaunchStepInv
  <1>3. LaunchInv => LaunchTypeOK
    BY StepsForward DEF LaunchInv, LaunchTyped, LaunchTypeOK
  <1>4. QED
    BY <1>1, <1>2, <1>3, PTL DEF LaunchSpec
=============================================================================
