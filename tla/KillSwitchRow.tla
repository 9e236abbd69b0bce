---------------------------- MODULE KillSwitchRow ---------------------------
(* PostgresKillSwitch: one row with the mode and a version, changed and      *)
(* audited in one read-committed transaction.  An insert or update of the row *)
(* holds it until the transaction ends.                                      *)
EXTENDS Naturals, Sequences

CONSTANTS Requests, Modes,
          MaxFlips,  \* calls of setMode (bound)
          NoRow

\* The default mode is a mode, and no row is not a row.
ASSUME SwitchAssumption ==
  /\ "off" \in Modes /\ NoRow \notin [mode : Modes, version : Nat]
  /\ MaxFlips \in Nat

VARIABLES
  switchRow,  \* the committed row
  auditRows,  \* the committed audit, in the order of the commits
  auditIds,   \* the last number the audit has given out
  flips,      \* calls of setMode so far
  tx          \* request -> its transaction

switchVars == <<switchRow, auditRows, auditIds, flips, tx>>

Row  == [mode : Modes, version : 0 .. MaxFlips]
NoTx == [pc |-> "idle", to |-> "off", from |-> "off", row |-> NoRow, id |-> 0]

SwitchInit ==
  /\ switchRow = NoRow
  /\ auditRows = <<>>
  /\ auditIds = 0
  /\ flips = 0
  /\ tx = [r \in Requests |-> NoTx]

Holds(r)  == tx[r].row # NoRow
Free(r)   == \A q \in Requests \ {r} : ~Holds(q)
FirstRow  == [mode |-> "off", version |-> 0]

\* getState, which makes the row when there is none
GetState ==
  /\ switchRow = NoRow /\ \A r \in Requests : ~Holds(r)
  /\ switchRow' = FirstRow
  /\ UNCHANGED <<auditRows, auditIds, flips, tx>>

SetMode(r, mode) ==
  /\ tx[r] = NoTx /\ flips < MaxFlips
  /\ flips' = flips + 1
  /\ tx' = [tx EXCEPT ![r].pc = "read", ![r].to = mode]
  /\ UNCHANGED <<switchRow, auditRows, auditIds>>

\* The order of the calls after the row was read.
MutantThen == [read |-> "audit", audit |-> "update", update |-> "commit"]
Then == [read |-> "update", update |-> "audit", audit |-> "commit"]

\* findUnique reads the last committed row and locks nothing.
ReadRow(r) ==
  /\ tx[r].pc = "read"
  /\ tx' = IF switchRow = NoRow
             THEN [tx EXCEPT ![r].pc = "create"]
             ELSE [tx EXCEPT ![r].pc = Then["read"], ![r].from = switchRow.mode]
  /\ UNCHANGED <<switchRow, auditRows, auditIds, flips>>

\* A second row is a unique violation, which ends the transaction.
CreateRow(r) ==
  /\ tx[r].pc = "create" /\ Free(r)
  /\ tx' = IF switchRow = NoRow
             THEN [tx EXCEPT ![r].pc = Then["read"], ![r].row = FirstRow]
             ELSE [tx EXCEPT ![r] = NoTx]
  /\ UNCHANGED <<switchRow, auditRows, auditIds, flips>>

\* UPDATE ... SET version = version + 1, on the row as it is once it is free
UpdateRow(r) ==
  LET current == IF Holds(r) THEN tx[r].row ELSE switchRow IN
  /\ tx[r].pc = "update" /\ Free(r)
  /\ tx' = [tx EXCEPT ![r].row = [mode |-> tx[r].to, version |-> current.version + 1],
                      ![r].pc = Then["update"]]
  /\ UNCHANGED <<switchRow, auditRows, auditIds, flips>>

AuditRow(r) ==
  /\ tx[r].pc = "audit"
  /\ auditIds' = auditIds + 1
  /\ tx' = [tx EXCEPT ![r].id = auditIds', ![r].pc = Then["audit"]]
  /\ UNCHANGED <<switchRow, auditRows, flips>>

Commit(r) ==
  /\ tx[r].pc = "commit"
  /\ switchRow' = tx[r].row
  /\ auditRows' = Append(auditRows, [id |-> tx[r].id, from |-> tx[r].from, to |-> tx[r].to])
  /\ tx' = [tx EXCEPT ![r] = NoTx]
  /\ UNCHANGED <<auditIds, flips>>

\* The process dies or a call fails, and the transaction is rolled back; the
\* number it took is not given back.
Rollback(r) ==
  /\ tx[r] # NoTx
  /\ tx' = [tx EXCEPT ![r] = NoTx]
  /\ UNCHANGED <<switchRow, auditRows, auditIds, flips>>

SwitchNext ==
  \/ GetState
  \/ \E r \in Requests :
       \/ \E mode \in Modes : SetMode(r, mode)
       \/ ReadRow(r) \/ CreateRow(r) \/ UpdateRow(r) \/ AuditRow(r) \/ Commit(r)
       \/ Rollback(r)

SwitchSpec == SwitchInit /\ [][SwitchNext]_switchVars

-----------------------------------------------------------------------------
SwitchTypeOK ==
  /\ switchRow \in Row \cup {NoRow}
  /\ auditIds \in 0 .. MaxFlips /\ flips \in 0 .. MaxFlips
  /\ auditRows \in Seq([id : 1 .. MaxFlips, from : Modes, to : Modes])
  /\ \A r \in Requests :
       /\ tx[r].pc \in {"idle", "read", "create", "update", "audit", "commit"}
       /\ tx[r].row \in Row \cup {NoRow}
       /\ {tx[r].to, tx[r].from} \subseteq Modes
       /\ tx[r].id \in 0 .. MaxFlips

\* The audit, read in the order of its numbers, has one entry for each version
\* of the row and ends with the mode that is in force, however requests cross,
\* fail or race to make the row.  (The mode an entry says it came from is no
\* part of this: two requests that cross record the same one.)
AuditTellsMode ==
  LET n == Len(auditRows) IN
  /\ \A i \in 1 .. n - 1 : auditRows[i].id < auditRows[i + 1].id
  /\ switchRow = NoRow => n = 0
  /\ switchRow # NoRow =>
       /\ switchRow.version = n
       /\ switchRow.mode = IF n = 0 THEN "off" ELSE auditRows[n].to

\* The row that getState gives, made on the spot when there is none.
InForce == IF switchRow = NoRow THEN FirstRow ELSE switchRow

Entries == {[id |-> auditRows[i].id, to |-> auditRows[i].to] : i \in DOMAIN auditRows}

Audited == INSTANCE AuditedSwitch
             WITH mode <- InForce.mode, version <- InForce.version, journal <- Entries

\* Whoever reads the row and the audit, which getAudit gives in the order of its
\* numbers, sees the switch of InMemoryKillSwitch: the mode changes by whole calls,
\* each with the next version and with an entry after all others.
SwitchIsAudited == Audited!Spec
=============================================================================
