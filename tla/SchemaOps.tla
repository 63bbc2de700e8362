----------------------------- MODULE SchemaOps ------------------------------
(***************************************************************************)
(* What src/src/storage/schema.ts does to the SQLite file when a process   *)
(* opens it.  A file is a record                                           *)
(*   version   PRAGMA user_version, 0 in a file without tables as well     *)
(*   rows      ingress_events; a column its version lacks reads as NULL,   *)
(*             serialized_event_bytes as 0                                 *)
(*   seq       the AUTOINCREMENT mark                                      *)
(*   sizes     the length of each row's payload_json                       *)
(*   totals    the singleton row of reservoir_capacity_state, or NULL      *)
(*   tables    whether there are tables of the user's at all               *)
(*   lacks     which parts of the current structure are missing            *)
(* NoTables is a file in which nothing was ever created.                   *)
(***************************************************************************)
EXTENDS ReservoirOps

LatestVersion == 3

\* The parts of REQUIRED_COLUMNS that later versions added, each on its own,
\* and "core", whatever else is required.
Optional == {"retry", "terminal", "bytes", "accounting"}
Parts == Optional \cup {"core"}

IsFile(f) ==
  /\ f \in [version: Nat, rows: {f.rows}, seq: Nat,
            sizes: [DOMAIN f.rows -> Nat],
            totals: [rows: Nat, bytes: Nat] \cup {NULL},
            tables: BOOLEAN, lacks: SUBSET Parts]
  /\ IsTable(f.rows, f.seq)
  /\ DOMAIN f.rows # {} => f.tables

NoTables ==
  [version |-> 0, rows |-> EmptyReservoir.rows, seq |-> 0,
   sizes |-> [i \in {} |-> 0], totals |-> NULL, tables |-> FALSE, lacks |-> Parts]
HasTables(f) == f.version > 0 \/ f.tables

\* What a release of that version did not create yet.
Later(version) ==
  CASE version = 0 -> Optional
    [] version = 1 -> {"terminal", "bytes", "accounting"}
    [] version = 2 -> {"bytes", "accounting"}
    [] OTHER -> {}
AsReleased(f) == f.lacks \subseteq Later(f.version)

\* A row as a release of that version leaves it: a time belongs to its state,
\* and from version 2 on a terminal row has its own.
ReleasedRow(row, version) ==
  /\ row.claimedAt # NULL => row.state = "replaying"
  /\ row.retryAt # NULL => row.state = "pending"
  /\ row.terminalAt # NULL => row.state \in TerminalStates
  /\ version >= 2 /\ row.state \in TerminalStates => row.terminalAt # NULL

\* validateSchemaStructure, whose last parameter tolerates what is optional,
\* at whichever version.
StructureValid(f, allowLegacy) ==
  f.lacks \subseteq (IF allowLegacy THEN Optional ELSE {})

NewerThanSupported(f) == f.version > LatestVersion

TotalsOf(rows) ==
  [rows |-> Cardinality(InState(rows, PendingStates)),
   bytes |-> TotalBytes(rows, InState(rows, PendingStates))]

\* createCurrentSchema
CurrentSchema(f) ==
  [f EXCEPT !.version = LatestVersion, !.totals = TotalsOf(f.rows),
            !.tables = TRUE, !.lacks = {}]

\* The three migrations.  0 -> 1: the columns of retry and claim times.
AddRetryColumns(f) == [f EXCEPT !.version = 1, !.lacks = @ \ {"retry"}]

\* Mutant: rows that were terminal before there was a time get none.
AddTerminalColumnBare(f) ==
  [f EXCEPT !.version = 2, !.lacks = @ \ {"terminal", "accounting"}]
\* 1 -> 2: the terminal time of rows that are terminal is their ingest time,
\* and tables that are missing are created.
AddTerminalColumn(f) ==
  [f EXCEPT !.version = 2, !.lacks = @ \ {"terminal", "accounting"},
            !.rows = [i \in DOMAIN @ |->
              IF @[i].state \in TerminalStates /\ @[i].terminalAt = NULL
              THEN [@[i] EXCEPT !.terminalAt = f.rows[i].ingestAt] ELSE @[i]]]

\* Mutant: rows in replay are forgotten in the totals.
AddAccountingOfPending(f) ==
  LET measured == [i \in DOMAIN f.rows |-> [f.rows[i] EXCEPT !.bytes = f.sizes[i]]]
      pending == InState(measured, {"pending"})
  IN  [f EXCEPT !.version = 3, !.lacks = @ \ {"bytes", "accounting"},
                !.rows = measured,
                !.totals = [rows |-> Cardinality(pending),
                            bytes |-> TotalBytes(measured, pending)]]
\* 2 -> 3: sizes are measured and the totals counted.
AddAccounting(f) ==
  LET measured == [i \in DOMAIN f.rows |-> [f.rows[i] EXCEPT !.bytes = f.sizes[i]]]
  IN  [f EXCEPT !.version = 3, !.lacks = @ \ {"bytes", "accounting"},
                !.rows = measured, !.totals = TotalsOf(measured)]

Migration(f) ==
  CASE f.version = 0 -> AddRetryColumns(f)
    [] f.version = 1 -> AddTerminalColumn(f)
    [] f.version = 2 -> AddAccounting(f)

\* 1 -> 2 also creates the indexes, one of them over the retry columns.
MigrationThrows(f) == f.version = 1 /\ "retry" \in f.lacks

\* validateCapacityAccounting
AccountingValid(f) ==
  /\ \A i \in DOMAIN f.rows : f.rows[i].bytes = f.sizes[i]
  /\ f.totals # NULL
  /\ f.totals = TotalsOf(f.rows)

\* Whether a start accepts a file of the current version.
Acceptable(f) == StructureValid(f, FALSE) /\ AccountingValid(f)

\* The reservoir value of a file that was accepted, and the file it leaves.
ReservoirOf(f) ==
  [rows |-> f.rows, seq |-> f.seq, pendingRows |-> f.totals.rows,
   pendingBytes |-> f.totals.bytes, cached |-> f.totals.rows]
FileOf(r) ==
  [version |-> LatestVersion, rows |-> r.rows, seq |-> r.seq,
   sizes |-> [i \in DOMAIN r.rows |-> r.rows[i].bytes],
   totals |-> [rows |-> r.pendingRows, bytes |-> r.pendingBytes],
   tables |-> TRUE, lacks |-> {}]
=============================================================================
