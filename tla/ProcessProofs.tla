---------------------------- MODULE ProcessProofs ----------------------------
(***************************************************************************)
(* The process for every file an older release may have left, every        *)
(* configuration, any number of workers and any history of starts: its     *)
(* sources keep their precedence, no file becomes one that a start         *)
(* refuses, a file that was opened has the schema and only values of it,   *)
(* no event is lost between two processes, replay has one owner, a claim   *)
(* is left for its whole lease to the worker that made it, and the         *)
(* inspector shows every flow that is held back as held.                   *)
(***************************************************************************)
EXTENDS MonitorProcess, RuntimeLemmas

-----------------------------------------------------------------------------
(* Configuration.                                                          *)

\* A field of the base stays, with the value the override gives it if any.
LEMMA MergedField ==
  ASSUME NEW base, NEW override, NEW f, f \in DOMAIN base
  PROVE  /\ f \in DOMAIN Merged(base, override)
         /\ Merged(base, override)[f] =
              IF f \in DOMAIN override THEN override[f] ELSE base[f]
  BY DEF Merged
LEMMA OverrideField ==
  ASSUME NEW base, NEW override, NEW f, f \in DOMAIN override
  PROVE  /\ f \in DOMAIN Merged(base, override)
         /\ Merged(base, override)[f] = override[f]
  BY DEF Merged

Settled ==
  settings = NULL \/ \E s \in ConfigSources : Resolves(s) /\ settings = Settings(s)

\* What a source gives is what is configured, the application's before a file's.
LEMMA GivenIsConfigured ==
  ASSUME NEW s, NEW f \in Fields, GivenBy(s, f) # <<>>
  PROVE  <<RuntimeConfig(Resolved(s))[f]>> = GivenBy(s, f)
<1> DEFINE doc == IF s.pathGiven THEN s.namedFile ELSE s.defaultFile
           from == FileConfig(s)
           below == Merged(DefaultConfig, from)
           inline == s.inline
           all == Merged(below, inline)
           full == Merged(DefaultConfig, all)
<1>1. full = RuntimeConfig(Resolved(s))
  BY DEF RuntimeConfig, Resolved
<1>2. f \in DOMAIN DefaultConfig
  BY DEF DefaultConfig
<1>3. f \in DOMAIN below
  <2> HIDE DEF from
  <2>1. QED
    BY <1>2, MergedField
<1>4. f \in DOMAIN all
  <2> HIDE DEF below, inline
  <2>1. QED
    BY <1>3, MergedField
<1>5. full[f] = all[f]
  <2> HIDE DEF all
  <2>1. QED
    BY <1>2, <1>4, MergedField
<1>6. CASE f \in DOMAIN inline
  <2>1. GivenBy(s, f) = <<inline[f]>>
    BY <1>6 DEF GivenBy
  <2> HIDE DEF below, inline, full
  <2>2. all[f] = inline[f]
    BY <1>6, OverrideField
  <2>3. QED
    BY <1>1, <1>5, <2>1, <2>2
<1>7. CASE f \notin DOMAIN inline /\ doc # NoFile /\ f \in DOMAIN doc
  <2>1. GivenBy(s, f) = <<doc[f]>>
    BY <1>7 DEF GivenBy
  <2>2. from = PartialConfig(doc)
    BY <1>7 DEF FileConfig
  <2> HIDE DEF doc, inline, full
  <2>3. f \in DOMAIN PartialConfig(doc) /\ PartialConfig(doc)[f] = doc[f]
    <3> DEFINE blank == [g \in LeftUndefined(doc) |-> Undefined]
               values == [g \in Fields \cap DOMAIN doc |-> doc[g]]
    <3>1. PartialConfig(doc) = Merged(blank, values)
      BY DEF PartialConfig
    <3>2. f \in DOMAIN values /\ values[f] = doc[f]
      BY <1>7
    <3> HIDE DEF blank, values
    <3>3. QED
      BY <3>1, <3>2, OverrideField
  <2> HIDE DEF from
  <2>4. below[f] = doc[f]
    BY <1>2, <2>2, <2>3, MergedField
  <2> HIDE DEF below
  <2>5. all[f] = below[f]
    BY <1>3, <1>7, MergedField
  <2>6. QED
    BY <1>1, <1>5, <2>1, <2>4, <2>5
<1>8. QED
  BY <1>6, <1>7 DEF GivenBy

-----------------------------------------------------------------------------
(* Files.                                                                  *)

SoundFile(f) ==
  IsFile(f) /\ (f.version = LatestVersion /\ AsReleased(f) => AccountingValid(f))

\* Two tables hold the same events, whatever their columns of times say.
SameEvents(rows, others) ==
  /\ DOMAIN others = DOMAIN rows
  /\ \A i \in DOMAIN rows :
       /\ others[i].state = rows[i].state
       /\ others[i].ingestAt = rows[i].ingestAt
       /\ others[i].mode = rows[i].mode
       /\ others[i].retryAt = rows[i].retryAt

LEMMA TotalsType ==
  ASSUME NEW n \in Nat, NEW rows, IsTable(rows, n)
  PROVE  TotalsOf(rows) \in [rows: Nat, bytes: Nat] /\ TotalsOf(rows) # NULL
<1> DEFINE ids == InState(rows, PendingStates)
<1>1. ids \subseteq 1..n /\ \A i \in ids : rows[i].bytes \in Nat
  BY DEF IsTable, InState, Row
<1>2. IsFiniteSet(ids)
  BY <1>1, IntervalFinite, FS_Subset
<1>3. Cardinality(ids) \in Nat /\ TotalBytes(rows, ids) \in Nat
  BY <1>1, <1>2, FS_CardinalityType, ByteUnitsFinite
<1>4. QED
  BY <1>3, ProcessAssumption DEF TotalsOf

\* A file the start accepts.
LEMMA OpenedFile ==
  ASSUME NEW f, IsFile(f), AccountingValid(f), NEW t \in Nat
  PROVE  LET m == Opened(ReservoirOf(f), t)
         IN  /\ SoundMon(m)
             /\ DOMAIN m.res.rows = DOMAIN f.rows
             /\ \A i \in DOMAIN f.rows :
                  /\ m.res.rows[i].state =
                       (IF f.rows[i].state = "replaying" THEN "pending"
                        ELSE f.rows[i].state)
                  /\ m.res.rows[i].ingestAt = f.rows[i].ingestAt
                  /\ m.res.rows[i].mode = f.rows[i].mode
                  /\ m.res.rows[i].retryAt = f.rows[i].retryAt
<1> DEFINE r == ReservoirOf(f)
           m == Opened(r, t)
<1>1. f.seq \in Nat /\ IsTable(f.rows, f.seq)
  BY DEF IsFile
<1>2. f.totals = TotalsOf(f.rows) /\ f.totals \in [rows: Nat, bytes: Nat]
  BY <1>1, TotalsType DEF AccountingValid
<1>3. IsReservoir(r) /\ r.rows = f.rows
  BY <1>1, <1>2 DEF ReservoirOf, IsReservoir
<1>4. AccountingMatches(r) /\ Drift(r) = 0
  BY <1>2 DEF AccountingMatches, Drift, ReservoirOf, TotalsOf
<1>5. Good(r)
  BY <1>3, <1>4 DEF Good
<1> HIDE DEF r
<1>6. SoundMon(m) /\ m.res = RecoverRestartState(r)
  BY <1>5, OpenedKeeps
<1>7. m.res.rows = [i \in DOMAIN r.rows |->
                      IF r.rows[i].state = "replaying" THEN Released(r.rows[i])
                      ELSE r.rows[i]]
  BY <1>3, <1>6, RecoverTable
<1>8. \A i \in DOMAIN f.rows : f.rows[i] \in Row
  BY <1>1 DEF IsTable
<1>9. ASSUME NEW row \in Row
      PROVE  /\ Released(row).state = "pending"
             /\ Released(row).ingestAt = row.ingestAt
             /\ Released(row).mode = row.mode
             /\ Released(row).retryAt = row.retryAt
  BY DEF Released, Row
<1> HIDE DEF m
<1>10. QED
  BY <1>3, <1>6, <1>7, <1>8, <1>9 DEF m, r

\* The file a runtime leaves.
LEMMA ClosedFile ==
  ASSUME NEW r, Good(r)
  PROVE  SoundFile(FileOf(r)) /\ FileOf(r).rows = r.rows
<1>1. IsReservoir(r) /\ AccountingMatches(r)
  BY SoundFacts DEF Good
<1>2. r.seq \in Nat /\ IsTable(r.rows, r.seq) /\ \A i \in DOMAIN r.rows : r.rows[i].bytes \in Nat
  BY <1>1, ReservoirFacts DEF IsReservoir
<1>3. [rows |-> r.pendingRows, bytes |-> r.pendingBytes] = TotalsOf(r.rows)
  BY <1>1 DEF AccountingMatches, TotalsOf
<1>4. TotalsOf(r.rows) \in [rows: Nat, bytes: Nat] /\ TotalsOf(r.rows) # NULL
  BY <1>2, TotalsType
<1>5. FileOf(r) = [version |-> 3, rows |-> r.rows, seq |-> r.seq,
                   sizes |-> [i \in DOMAIN r.rows |-> r.rows[i].bytes],
                   totals |-> TotalsOf(r.rows), tables |-> TRUE, lacks |-> {}]
  BY <1>3 DEF FileOf, LatestVersion
<1> DEFINE f == FileOf(r)
           s == [i \in DOMAIN r.rows |-> r.rows[i].bytes]
<1>6. s \in [DOMAIN r.rows -> Nat] /\ \A i \in DOMAIN r.rows : s[i] = r.rows[i].bytes
  BY <1>2
<1>7. f = [version |-> 3, rows |-> r.rows, seq |-> r.seq, sizes |-> s,
           totals |-> TotalsOf(r.rows), tables |-> TRUE, lacks |-> {}]
  BY <1>5
<1> HIDE DEF s, f
<1>8. IsFile(f) /\ f.rows = r.rows
  BY <1>2, <1>4, <1>6, <1>7 DEF IsFile
<1>9. AccountingValid(f)
  BY <1>4, <1>6, <1>7 DEF AccountingValid
<1>10. QED
  BY <1>8, <1>9 DEF SoundFile, f

\* An empty file gets the current schema.
LEMMA CreatedFile ==
  ASSUME NEW f, IsFile(f), ~HasTables(f)
  PROVE  LET n == CurrentSchema(f)
         IN  IsFile(n) /\ Acceptable(n) /\ n.rows = f.rows
<1> DEFINE n == CurrentSchema(f)
<1>1. f.seq \in Nat /\ IsTable(f.rows, f.seq) /\ DOMAIN f.rows = {}
  BY DEF IsFile, HasTables
<1>2. TotalsOf(f.rows) \in [rows: Nat, bytes: Nat] /\ TotalsOf(f.rows) # NULL
  BY <1>1, TotalsType
<1>3. n = [version |-> 3, rows |-> f.rows, seq |-> f.seq, sizes |-> f.sizes,
           totals |-> TotalsOf(f.rows), tables |-> TRUE, lacks |-> {}]
      /\ f.sizes \in [DOMAIN f.rows -> Nat]
  <2> DEFINE totals == TotalsOf(f.rows)
  <2>1. n = [f EXCEPT !.version = 3, !.totals = totals, !.tables = TRUE, !.lacks = {}]
    BY DEF CurrentSchema, LatestVersion
  <2>2. f \in [version: Nat, rows: {f.rows}, seq: Nat, sizes: [DOMAIN f.rows -> Nat],
               totals: [rows: Nat, bytes: Nat] \cup {NULL},
               tables: BOOLEAN, lacks: SUBSET Parts]
    BY DEF IsFile
  <2> HIDE DEF totals, n
  <2>3. n = [version |-> 3, rows |-> f.rows, seq |-> f.seq, sizes |-> f.sizes,
             totals |-> totals, tables |-> TRUE, lacks |-> {}]
    BY <2>1, <2>2
  <2>4. QED
    BY <2>2, <2>3 DEF totals
<1> HIDE DEF n
<1>4. IsFile(n)
  BY <1>1, <1>2, <1>3 DEF IsFile
<1>5. Acceptable(n)
  BY <1>1, <1>2, <1>3 DEF Acceptable, StructureValid, AccountingValid
<1>6. QED
  BY <1>3, <1>4, <1>5 DEF n

\* One migration: a version further, the same events; the last one counts.
LEMMA MigratedFile ==
  ASSUME NEW f, IsFile(f), Upgradable(f)
  PROVE  LET n == Migration(f)
         IN  /\ SoundFile(n) /\ HasTables(n)
             /\ n.version = f.version + 1
             /\ SameEvents(f.rows, n.rows)
             /\ n.lacks \subseteq Optional
             /\ AsReleased(f) => AsReleased(n)
<1> DEFINE n == Migration(f)
<1>1. /\ f \in [version: Nat, rows: {f.rows}, seq: Nat, sizes: [DOMAIN f.rows -> Nat],
                totals: [rows: Nat, bytes: Nat] \cup {NULL},
                tables: BOOLEAN, lacks: SUBSET Parts]
      /\ f.lacks \subseteq Optional
      /\ DOMAIN f.rows # {} => f.tables
      /\ DOMAIN f.rows \subseteq 1..f.seq
      /\ \A i \in DOMAIN f.rows : f.rows[i] \in Row
      /\ f.rows \in [DOMAIN f.rows -> Row]
  BY DEF IsFile, IsTable, Upgradable, StructureValid
<1>2. f.version = 0 \/ f.version = 1 \/ f.version = 2
  BY <1>1 DEF Upgradable, LatestVersion
<1>3. CASE f.version = 0
  <2>1. n = [version |-> 1, rows |-> f.rows, seq |-> f.seq, sizes |-> f.sizes,
             totals |-> f.totals, tables |-> f.tables, lacks |-> f.lacks \ {"retry"}]
    <3>1. n = [f EXCEPT !.version = 1, !.lacks = @ \ {"retry"}]
      BY <1>3 DEF Migration, AddRetryColumns
    <3>2. QED
      BY <1>1, <3>1
  <2> HIDE DEF n
  <2>2. IsFile(n)
    BY <1>1, <2>1 DEF IsFile, IsTable
  <2>3. SoundFile(n) /\ HasTables(n) /\ n.version = 1 /\ SameEvents(f.rows, n.rows)
    BY <2>1, <2>2 DEF SoundFile, HasTables, LatestVersion, SameEvents
  <2>4. n.lacks \subseteq Later(1) /\ n.lacks \subseteq Optional
    BY <1>1, <2>1 DEF Later, Optional
  <2>5. QED
    BY <1>3, <2>3, <2>4 DEF AsReleased, n
<1>4. CASE f.version = 1
  <2> DEFINE dated(row) == [row EXCEPT !.terminalAt = row.ingestAt]
             t == [i \in DOMAIN f.rows |->
                     IF f.rows[i].state \in TerminalStates /\ f.rows[i].terminalAt = NULL
                     THEN dated(f.rows[i]) ELSE f.rows[i]]
  <2>1. n = [version |-> 2, rows |-> t, seq |-> f.seq, sizes |-> f.sizes,
             totals |-> f.totals, tables |-> f.tables,
             lacks |-> f.lacks \ {"terminal", "accounting"}]
    <3>1. n = [f EXCEPT !.version = 2, !.lacks = @ \ {"terminal", "accounting"},
                        !.rows = t]
      BY <1>1, <1>4 DEF Migration, AddTerminalColumn
    <3> HIDE DEF t
    <3>2. QED
      BY <1>1, <3>1
  <2>2. ASSUME NEW row \in Row
        PROVE  /\ dated(row) \in Row
               /\ dated(row).state = row.state /\ dated(row).ingestAt = row.ingestAt
               /\ dated(row).mode = row.mode /\ dated(row).retryAt = row.retryAt
    BY DEF Row, OptionalNat
  <2> HIDE DEF dated
  <2>3. t \in [DOMAIN f.rows -> Row] /\ SameEvents(f.rows, t)
    BY <1>1, <2>2 DEF SameEvents
  <2> HIDE DEF n, t
  <2>4. IsFile(n)
    BY <1>1, <2>1, <2>3 DEF IsFile, IsTable
  <2>5. SoundFile(n) /\ HasTables(n) /\ n.version = 2 /\ SameEvents(f.rows, n.rows)
    BY <2>1, <2>3, <2>4 DEF SoundFile, HasTables, LatestVersion
  <2>6. /\ n.lacks \subseteq Optional
        /\ f.lacks \subseteq Later(1) => n.lacks \subseteq Later(2)
    BY <1>1, <2>1 DEF Later, Optional
  <2>7. QED
    BY <1>4, <2>5, <2>6 DEF AsReleased, n
<1>5. CASE f.version = 2
  <2> DEFINE sized(i) == [f.rows[i] EXCEPT !.bytes = f.sizes[i]]
             t == [i \in DOMAIN f.rows |-> sized(i)]
  <2>1. n = [version |-> 3, rows |-> t, seq |-> f.seq, sizes |-> f.sizes,
             totals |-> TotalsOf(t), tables |-> f.tables,
             lacks |-> f.lacks \ {"bytes", "accounting"}]
    <3>1. n = [f EXCEPT !.version = 3, !.lacks = @ \ {"bytes", "accounting"},
                        !.rows = t, !.totals = TotalsOf(t)]
      BY <1>1, <1>5 DEF Migration, AddAccounting
    <3> HIDE DEF t
    <3>2. QED
      BY <1>1, <3>1
  <2>2. ASSUME NEW row \in Row, NEW b \in Nat
        PROVE  LET q == [row EXCEPT !.bytes = b]
               IN  /\ q \in Row /\ q.bytes = b
                   /\ q.state = row.state /\ q.ingestAt = row.ingestAt
                   /\ q.mode = row.mode /\ q.retryAt = row.retryAt
    BY DEF Row
  <2>3. ASSUME NEW i \in DOMAIN f.rows
        PROVE  /\ sized(i) \in Row /\ sized(i).bytes = f.sizes[i]
               /\ sized(i).state = f.rows[i].state
               /\ sized(i).ingestAt = f.rows[i].ingestAt
               /\ sized(i).mode = f.rows[i].mode /\ sized(i).retryAt = f.rows[i].retryAt
    <3>1. f.rows[i] \in Row /\ f.sizes[i] \in Nat
      BY <1>1
    <3>2. QED
      BY <2>2, <3>1
  <2> HIDE DEF sized
  <2>4. /\ t \in [DOMAIN f.rows -> Row] /\ SameEvents(f.rows, t)
        /\ \A i \in DOMAIN t : t[i].bytes = f.sizes[i]
        /\ DOMAIN t = DOMAIN f.rows
    BY <2>3 DEF SameEvents
  <2> HIDE DEF n, t
  <2>5. IsTable(t, f.seq)
    BY <1>1, <2>4 DEF IsTable
  <2>6. TotalsOf(t) \in [rows: Nat, bytes: Nat] /\ TotalsOf(t) # NULL
    BY <1>1, <2>5, TotalsType
  <2>7. IsFile(n)
    BY <1>1, <2>1, <2>4, <2>5, <2>6 DEF IsFile
  <2>8. AccountingValid(n)
    BY <2>1, <2>4, <2>6 DEF AccountingValid
  <2>9. SoundFile(n) /\ HasTables(n) /\ n.version = 3 /\ SameEvents(f.rows, n.rows)
    BY <2>1, <2>4, <2>7, <2>8 DEF SoundFile, HasTables
  <2>10. /\ n.lacks \subseteq Optional
         /\ f.lacks \subseteq Later(2) => n.lacks \subseteq Later(3)
    BY <1>1, <2>1 DEF Later, Optional
  <2>11. QED
    BY <1>5, <2>9, <2>10 DEF AsReleased, n
<1>6. QED
  BY <1>2, <1>3, <1>4, <1>5

LEMMA UpgradedFile ==
  ASSUME NEW f, SoundFile(f), HasTables(f), AsReleased(f), ~NewerThanSupported(f)
  PROVE  Acceptable(Upgraded(f))
<1> DEFINE One(g) == IF Upgradable(g) THEN Migration(g) ELSE g
           Good3(g) == SoundFile(g) /\ HasTables(g) /\ AsReleased(g) /\ g.version \in 0..3
<1>1. Upgraded(f) = One(One(One(f)))
  BY DEF Upgraded
<1>2. ASSUME NEW g, Good3(g)
      PROVE  /\ Good3(One(g))
             /\ One(g).version = (IF g.version < 3 THEN g.version + 1 ELSE g.version)
  <2>1. CASE Upgradable(g)
    <3>1. IsFile(g) /\ g.version \in 0..2
      BY <1>2, <2>1 DEF SoundFile, Upgradable, LatestVersion
    <3>2. /\ SoundFile(One(g)) /\ HasTables(One(g)) /\ AsReleased(One(g))
          /\ One(g).version = g.version + 1
      BY <1>2, <2>1, <3>1, MigratedFile
    <3>3. QED
      BY <3>1, <3>2
  <2>2. CASE ~Upgradable(g)
    BY <1>2, <2>2 DEF Upgradable, LatestVersion, StructureValid, AsReleased, Later, Optional
  <2>3. QED
    BY <2>1, <2>2
<1>3. Good3(f)
  BY DEF SoundFile, IsFile, NewerThanSupported, LatestVersion
<1> HIDE DEF One
<1>4. Good3(One(One(One(f)))) /\ One(One(One(f))).version = 3
  <2>1. Good3(One(f)) /\ Good3(One(One(f))) /\ Good3(One(One(One(f))))
    BY <1>2, <1>3
  <2>2. /\ One(f).version = (IF f.version < 3 THEN f.version + 1 ELSE f.version)
        /\ One(One(f)).version =
             (IF One(f).version < 3 THEN One(f).version + 1 ELSE One(f).version)
        /\ One(One(One(f))).version =
             (IF One(One(f)).version < 3 THEN One(One(f)).version + 1
              ELSE One(One(f)).version)
    BY <1>2, <1>3, <2>1
  <2>3. f.version \in 0..3
    BY <1>3
  <2>4. QED
    BY <2>1, <2>2, <2>3
<1>5. QED
  BY <1>1, <1>4
  DEF SoundFile, LatestVersion, Acceptable, StructureValid, AsReleased, Later

-----------------------------------------------------------------------------
(* The runtime, driven by hand.                                            *)

LEMMA AbortKeeps ==
  ASSUME NEW m, SoundMon(m), NEW ids, NEW t \in Nat
  PROVE  SoundMon(Aborted(m, ids, t)) /\ Moves(m.res, Aborted(m, ids, t).res, {})
<1> DEFINE r == ResetToPending(m.res, ids, NULL, t)
           y == [m EXCEPT !.res = r]
           s == [state |-> "aborted", retryAt |-> NULL, heartbeats |-> y.session.heartbeats]
<1>1. /\ m \in [res: {m.res}, session: Session, health: HealthTable, needed: BOOLEAN,
               observed: BOOLEAN, evidence: SUBSET Components, ready: BOOLEAN]
      /\ NULL \in OptionalNat
  BY DEF SoundMon, IsMonitor, OptionalNat
<1>2. Moves(m.res, r, {})
  BY <1>1, NamedUpdatesMove DEF SoundMon
<1>3. Aborted(m, ids, t) = [m EXCEPT !.res = r, !.session.state = "aborted",
                                     !.session.retryAt = NULL]
  BY <1>1 DEF Aborted
<1> HIDE DEF r
<1>4. Keeps(m, y, {}) /\ y.session = m.session /\ y.res = r
  BY <1>2, ResReplaced
<1>5. Aborted(m, ids, t) = [y EXCEPT !.session = s]
  BY <1>1, <1>3 DEF Session
<1> HIDE DEF y
<1>6. SoundMon(y) /\ y.session \in Session
  BY <1>4, MonitorParts DEF Keeps
<1>7. s \in Session /\ s.state = "aborted"
  BY <1>1, <1>6 DEF Session, SessionStates
<1> HIDE DEF s
<1>8. SoundMon([y EXCEPT !.session = s]) /\ [y EXCEPT !.session = s].res = r
  <2>1. y \in [res: {y.res}, session: Session, health: HealthTable, needed: BOOLEAN,
               observed: BOOLEAN, evidence: SUBSET Components, ready: BOOLEAN]
        /\ IsReservoir(y.res) /\ Good(y.res)
    BY <1>6 DEF SoundMon, IsMonitor
  <2>2. QED
    BY <1>4, <1>7, <2>1 DEF SoundMon, IsMonitor
<1>9. QED
  BY <1>2, <1>5, <1>8

LEMMA ObservedSound ==
  ASSUME NEW m, SoundMon(m), NEW bytes \in Nat, NEW t \in Nat
  PROVE  SoundMon(Observed(m, bytes, t))
<1> DEFINE r == AppendIngressEvent(m.res, bytes, "normal", "delivered", t)
           n == [m EXCEPT !.res = r]
<1>1. Observed(m, bytes, t) = n
  BY DEF Observed, SoundMon, IsMonitor
<1>2. "normal" \in DeliveryModes /\ "delivered" \in ReplayStates
  BY DEF DeliveryModes, ReplayStates
<1>3. Good(r)
  BY <1>2, MonitorParts, AppendMoves
<1> HIDE DEF r
<1>4. IsReservoir(r)
  BY <1>3, SoundFacts
<1>5. n.res = r /\
      n \in [res: {n.res}, session: Session, health: HealthTable, needed: BOOLEAN,
            observed: BOOLEAN, evidence: SUBSET Components, ready: BOOLEAN]
  BY DEF SoundMon, IsMonitor
<1> HIDE DEF n
<1>6. QED
  BY <1>1, <1>3, <1>4, <1>5 DEF SoundMon, IsMonitor

LEMMA StartByHand ==
  ASSUME NEW m, SoundMon(m), NEW t \in Nat
  PROVE  \A n \in {QueueIfNeeded(m, t), ReplayStarted(m, t)} :
           SoundMon(n) /\ n.res = m.res
<1> DEFINE y == QueueIfNeeded(m, t)
<1>1. SoundMon(y) /\ y.res = m.res
  BY QueueKeeps DEF Keeps
<1> HIDE DEF y
<1>2. SoundMon(Start(y)) /\ Start(y).res = m.res
  BY <1>1, StartKeeps DEF Keeps
<1>3. QED
  BY <1>1, <1>2 DEF ReplayStarted, y

-----------------------------------------------------------------------------
(* What an operator is shown.                                              *)

\* The inspector's reading of a monitor that holds live flow for replay.
LEMMA HoldShown ==
  ASSUME NEW m, SoundMon(m), HeldForReplay(m), NEW tier, NEW pressure, NEW t
  PROVE  LET aborted == m.session.state = "aborted"
             overlooked == m.session.state = "failed" /\ ~BackoffShown(m, t)
         IN  /\ StatusShown(m, tier, pressure, t) # "healthy"
             /\ ~aborted => AdmissionShown(m, tier, t) = AdmissionDecided(m)
             /\ ~aborted /\ ~overlooked =>
                  OperationalState(m, t)
                    \in {"replay_retry_waiting", "recovery_confirming", "replay_draining"}
             /\ overlooked =>
                  /\ OperationalState(m, t) = "healthy_live"
                  /\ StatusShown(m, tier, pressure, t) = "attention_required"
<1> DEFINE state == m.session.state
           resting == state \in {"idle", "aborted"}
           overlooked == state = "failed" /\ ~BackoffShown(m, t)
<1>1. m.session.heartbeats \in Nat /\ RequiredHeartbeats \in Nat /\ state \in SessionStates
  BY MonitorParts, ReplayAssumption DEF Session
<1>2. ~resting => state \in {"queued", "running", "failed", "completed"}
  BY <1>1 DEF SessionStates
<1>3. state = "idle" => ConfirmationShown(m)
  <2>1. SUFFICES ASSUME state = "idle" PROVE ConfirmationShown(m)
    OBVIOUS
  <2>2. AwaitingConfirmation(m)
    BY <2>1 DEF HeldForReplay, GateClosed
  <2>3. m.session.heartbeats < RequiredHeartbeats
    BY <1>1, <2>2 DEF AwaitingConfirmation, RecoveryConfirmed
  <2>4. QED
    BY <2>1, <2>2, <2>3, Zenon DEF AwaitingConfirmation, ConfirmationShown
<1>4. state # "aborted" => GateShown(m, t)
  BY <1>2, <1>3, Zenon DEF GateShown
<1>5. StatusShown(m, tier, pressure, t) # "healthy"
  <2> DEFINE admission == AdmissionShown(m, tier, t)
  <2>1. state = "aborted" \/ GateShown(m, t)
    BY <1>4
  <2> HIDE DEF admission
  <2>2. QED
    BY <2>1 DEF StatusShown
<1>6. ASSUME state # "aborted"
      PROVE  AdmissionShown(m, tier, t) = "accepted_buffered"
  BY <1>4, <1>6 DEF AdmissionShown, Buffering
<1>7. AdmissionDecided(m) = "accepted_buffered"
  <2>1. IngressAction(m) = "buffer_only"
    BY DEF IngressAction, LiveFlowHeld
  <2>2. QED
    BY <2>1 DEF AdmissionDecided
<1>8. ASSUME state # "aborted", ~overlooked
      PROVE  OperationalState(m, t)
               \in {"replay_retry_waiting", "recovery_confirming", "replay_draining"}
  <2>1. \/ BackoffShown(m, t) \/ ConfirmationShown(m)
        \/ state \in {"queued", "running"} \/ state = "completed"
    BY <1>2, <1>3, <1>8
  <2>2. QED
    BY <2>1 DEF OperationalState
<1>9. ASSUME overlooked
      PROVE  /\ OperationalState(m, t) = "healthy_live"
             /\ StatusShown(m, tier, pressure, t) = "attention_required"
  <2>1. RoutingMode(m) = "replay_through_dedupe"
    BY <1>9 DEF RoutingMode, GateClosed
  <2>2. ~ConfirmationShown(m)
    BY <1>9, Zenon DEF ConfirmationShown
  <2>3. OperationalState(m, t) = "healthy_live"
    BY <1>9, <2>1, <2>2 DEF OperationalState
  <2>4. AdmissionShown(m, tier, t) = "accepted_buffered"
    BY <1>6, <1>9
  <2>5. StatusShown(m, tier, pressure, t) = "attention_required"
    BY <1>9, <2>4 DEF StatusShown
  <2>6. QED
    BY <2>3, <2>5
<1> HIDE DEF overlooked
<1>10. /\ state # "aborted" => AdmissionShown(m, tier, t) = AdmissionDecided(m)
       /\ state # "aborted" /\ ~overlooked =>
            OperationalState(m, t)
              \in {"replay_retry_waiting", "recovery_confirming", "replay_draining"}
       /\ overlooked =>
            /\ OperationalState(m, t) = "healthy_live"
            /\ StatusShown(m, tier, pressure, t) = "attention_required"
  BY <1>6, <1>7, <1>8, <1>9
<1>11. QED
  BY <1>5, <1>10, Zenon DEF overlooked

-----------------------------------------------------------------------------
(* The inductive invariant.                                                *)

HeldBatch == [rows: SUBSET Nat, owner: Owners \cup {NULL}, since: Nat,
              revoked: BOOLEAN]

\* Whoever holds a batch holds it for the owner replay is bound to.
HeldByOwner ==
  \A w \in Workers :
    held[w].rows # {} => phase = "up" /\ owner \in Owners /\ owner = held[w].owner

\* An upgrade that gets to its end makes a file a start accepts, unless the
\* file on disk has the gap that no migration notices.
Gapped(f) == f.version = 2 /\ ~AsReleased(f)
WorkInv ==
  \/ AsReleased(file) /\ AsReleased(work)
  \/ Gapped(file) /\ work \in {file, AddAccounting(file)}
  \/ MigrationThrows(work)

\* While an upgrade is open its file holds the events of the one on disk.
FileInv ==
  /\ phase \in {"down", "configured", "migrating", "up"}
  /\ phase = "up" => SoundMon(mon) /\ file = NULL
  /\ phase # "up" => SoundFile(file)
  /\ phase = "migrating" =>
       /\ SoundFile(work) /\ HasTables(work) /\ SameEvents(file.rows, work.rows)
       /\ StructureValid(work, TRUE)
       /\ WorkInv

IInv ==
  /\ now \in Nat
  /\ Settled
  /\ FileInv
  /\ held \in [Workers -> HeldBatch]
  /\ HeldByOwner

\* What a start that comes to nothing does to the file.
Untouched ==
  phase # "up" /\ phase' = "down" => file' = file \/ RewrittenInVain(file, file')

\* What a step that starts or stops a process does to the events.
EventsStay ==
  phase # "up" \/ phase' # "up" =>
    /\ DOMAIN Stored' = DOMAIN Stored
    /\ \A i \in DOMAIN Stored :
         /\ Stored'[i].state = StateAfterStart(Stored[i])
         /\ Stored'[i].ingestAt = Stored[i].ingestAt
         /\ Stored'[i].mode = Stored[i].mode
         /\ Stored'[i].retryAt = Stored[i].retryAt

LEMMA SameTwice ==
  ASSUME NEW a, NEW b, NEW c, SameEvents(a, b), SameEvents(b, c)
  PROVE  SameEvents(a, c)
  BY DEF SameEvents
LEMMA SameSelf == ASSUME NEW a PROVE SameEvents(a, a)
  BY DEF SameEvents

\* Nothing is held while no runtime is up, and stays so until one is.
LEMMA NothingHeldDown ==
  ASSUME IInv, phase # "up", held' = held
  PROVE  held' \in [Workers -> HeldBatch] /\ HeldByOwner'
  BY DEF IInv, HeldByOwner

\* A start that ends in a runtime over f, which holds the events stored so far.
LEMMA StartedStep ==
  ASSUME IInv, phase # "up", NEW f, IsFile(f), Acceptable(f),
         SameEvents(file.rows, f.rows), Started(f),
         settings' = NULL \/ settings' = settings, UNCHANGED <<owner, held, now>>
  PROVE  IInv' /\ EventsStay
<1>1. phase' = "up" /\ mon' = Opened(ReservoirOf(f), now) /\ file' = NULL /\ now \in Nat
  BY DEF Started, IInv
<1>0. AccountingValid(f)
  BY DEF Acceptable
<1> DEFINE m == Opened(ReservoirOf(f), now)
<1>2. /\ SoundMon(m)
      /\ DOMAIN m.res.rows = DOMAIN f.rows
      /\ \A i \in DOMAIN f.rows :
           /\ m.res.rows[i].state =
                (IF f.rows[i].state = "replaying" THEN "pending" ELSE f.rows[i].state)
           /\ m.res.rows[i].ingestAt = f.rows[i].ingestAt
           /\ m.res.rows[i].mode = f.rows[i].mode
           /\ m.res.rows[i].retryAt = f.rows[i].retryAt
  BY <1>0, <1>1, OpenedFile
<1> HIDE DEF m
<1>3. mon' = m
  BY <1>1 DEF m
<1>4. FileInv'
  BY <1>1, <1>2, <1>3 DEF FileInv
<1>5. Settled'
  BY DEF IInv, Settled
<1>6. held' \in [Workers -> HeldBatch] /\ HeldByOwner'
  BY NothingHeldDown
<1>7. IInv'
  BY <1>1, <1>4, <1>5, <1>6 DEF IInv
<1>8. Stored = file.rows /\ Stored' = m.res.rows
  BY <1>1, <1>3 DEF Stored
<1>9. EventsStay
  BY <1>1, <1>2, <1>8 DEF EventsStay, StateAfterStart, SameEvents
<1>10. QED
  BY <1>7, <1>9

\* A start that ends in nothing, over a file with the events stored so far.
LEMMA RefusedStep ==
  ASSUME IInv, phase # "up", NEW f, SoundFile(f), ~Acceptable(f),
         SameEvents(file.rows, f.rows), Started(f),
         settings' = NULL \/ settings' = settings, UNCHANGED <<owner, held, now>>
  PROVE  IInv' /\ EventsStay
<1>1. phase' = "down" /\ file' = f
  BY DEF Started
<1>2. FileInv' /\ Settled'
  BY <1>1 DEF IInv, FileInv, Settled
<1>3. held' \in [Workers -> HeldBatch] /\ HeldByOwner'
  BY NothingHeldDown
<1>4. IInv'
  BY <1>2, <1>3 DEF IInv
<1>5. Stored = file.rows /\ Stored' = f.rows
  BY <1>1 DEF Stored
<1>6. EventsStay
  BY <1>1, <1>5 DEF EventsStay, StateAfterStart, SameEvents
<1>7. QED
  BY <1>4, <1>6

\* A step towards a start, or away from one, that leaves the file alone.
LEMMA WaitingStep ==
  ASSUME IInv, phase # "up", phase' \in {"down", "configured", "migrating"}, Settled',
         phase' = "migrating" =>
           /\ SoundFile(work') /\ HasTables(work') /\ SameEvents(file.rows, work'.rows)
           /\ StructureValid(work', TRUE)
           /\ WorkInv',
         UNCHANGED <<file, held, now>>
  PROVE  IInv' /\ EventsStay
<1>1. FileInv'
  BY DEF IInv, FileInv
<1>2. held' \in [Workers -> HeldBatch] /\ HeldByOwner'
  BY NothingHeldDown
<1>3. IInv'
  BY <1>1, <1>2 DEF IInv
<1>4. Stored' = Stored
  BY DEF Stored
<1>5. EventsStay
  BY <1>4 DEF EventsStay, StateAfterStart
<1>6. QED
  BY <1>3, <1>5

LEMMA ConfigureStep == ASSUME IInv, Configure PROVE IInv' /\ EventsStay
<1>1. PICK s \in ConfigSources : Resolves(s) /\ settings' = Settings(s)
  BY Zenon DEF Configure
<1>2. Settled'
  BY <1>1 DEF Settled
<1>3. QED
  BY <1>2, WaitingStep DEF Configure

\* What opening the file comes to.
LEMMA OpenFileCases ==
  ASSUME OpenFile, IsFile(file)
  PROVE  \/ phase' = "down" /\ UNCHANGED <<file, work, mon>>
         \/ ~HasTables(file) /\ Started(CurrentSchema(file)) /\ UNCHANGED work
         \/ /\ Upgradable(file)
            /\ phase' = "migrating" /\ work' = file /\ UNCHANGED <<file, mon>>
         \/ file.version = LatestVersion /\ Started(file) /\ UNCHANGED work
<1>1. file.version \in Nat
  BY DEF IsFile
<1>2. CASE NewerThanSupported(file)
  <2>1. HasTables(file) /\ ~(file.version < LatestVersion) /\ file.version # LatestVersion
    BY <1>1, <1>2 DEF NewerThanSupported, LatestVersion, HasTables
  <2>2. QED
    BY <1>2, <2>1, Zenon DEF OpenFile
<1>3. CASE ~HasTables(file)
  <2>1. file.version # LatestVersion /\ ~NewerThanSupported(file)
    BY <1>1, <1>3 DEF HasTables, LatestVersion, NewerThanSupported
  <2>2. QED
    BY <1>3, <2>1, Zenon DEF OpenFile
<1>4. CASE HasTables(file) /\ file.version < LatestVersion
  <2>1. ~NewerThanSupported(file) /\ file.version # LatestVersion
    BY <1>1, <1>4 DEF NewerThanSupported, LatestVersion
  <2>2. QED
    BY <1>4, <2>1, Zenon DEF OpenFile, Upgradable
<1>5. CASE HasTables(file) /\ file.version = LatestVersion
  <2>1. ~NewerThanSupported(file) /\ ~(file.version < LatestVersion)
    BY <1>5 DEF NewerThanSupported, LatestVersion
  <2>2. QED
    BY <1>5, <2>1, Zenon DEF OpenFile
<1>6. QED
  BY <1>1, <1>2, <1>3, <1>4, <1>5 DEF NewerThanSupported, LatestVersion

LEMMA OpenFileStep == ASSUME IInv, OpenFile PROVE IInv' /\ EventsStay
<1>1. /\ phase = "configured" /\ settings' = NULL /\ UNCHANGED <<owner, held, now>>
      /\ SoundFile(file) /\ IsFile(file)
  BY DEF OpenFile, IInv, FileInv, SoundFile
<1>2. Settled'
  BY <1>1 DEF Settled
<1>3. CASE phase' = "down" /\ UNCHANGED <<file, work, mon>>
  BY <1>1, <1>2, <1>3, WaitingStep
<1>4. CASE ~HasTables(file) /\ Started(CurrentSchema(file))
  <2>1. /\ IsFile(CurrentSchema(file)) /\ Acceptable(CurrentSchema(file))
        /\ SameEvents(file.rows, CurrentSchema(file).rows)
    BY <1>1, <1>4, CreatedFile, SameSelf
  <2>2. QED
    BY <1>1, <1>4, <2>1, StartedStep
<1>5. CASE /\ Upgradable(file)
           /\ phase' = "migrating" /\ work' = file /\ UNCHANGED <<file, mon>>
  <2>1. /\ HasTables(file) /\ StructureValid(file, TRUE)
        /\ file.version \in {0, 1, 2}
    <3>1. file.version \in Nat
      BY <1>1 DEF IsFile
    <3>2. HasTables(file) /\ StructureValid(file, TRUE) /\ file.version < LatestVersion
      BY <1>5, Zenon DEF Upgradable
    <3>3. file.version = 0 \/ file.version = 1 \/ file.version = 2
      BY <3>1, <3>2 DEF LatestVersion
    <3>4. QED
      BY <3>2, <3>3, Zenon
  <2>2. file.lacks \subseteq Optional
    BY <2>1 DEF StructureValid
  <2>3. AsReleased(file) \/ Gapped(file) \/ MigrationThrows(file)
    BY <2>1, <2>2 DEF AsReleased, Gapped, MigrationThrows, Later, Optional
  <2>4. WorkInv'
    BY <1>5, <2>3 DEF WorkInv
  <2>5. QED
    BY <1>1, <1>2, <1>5, <2>1, <2>4, SameSelf, WaitingStep
<1>6. CASE Started(file)
  BY <1>1, <1>6, SameSelf, StartedStep, RefusedStep
<1>7. QED
  BY <1>1, <1>3, <1>4, <1>5, <1>6, OpenFileCases

LEMMA MigrateStep == ASSUME IInv, Migrate PROVE IInv' /\ EventsStay
<1>1. /\ phase = "migrating" /\ work' = Migration(work)
      /\ UNCHANGED <<phase, settings, file, mon, owner, held, now>>
      /\ IsFile(work) /\ Upgradable(work) /\ SameEvents(file.rows, work.rows)
      /\ WorkInv /\ ~MigrationThrows(work)
  BY DEF Migrate, IInv, FileInv, SoundFile, Upgradable
<1>2. /\ SoundFile(work') /\ HasTables(work') /\ SameEvents(work.rows, work'.rows)
      /\ work'.lacks \subseteq Optional
      /\ AsReleased(work) => AsReleased(work')
  BY <1>1, MigratedFile
<1>3. SameEvents(file.rows, work'.rows)
  BY <1>1, <1>2, SameTwice
<1>4. Settled'
  BY <1>1 DEF IInv, Settled
<1>5. StructureValid(work', TRUE)
  BY <1>2 DEF StructureValid
<1>6. WorkInv'
  <2>1. CASE AsReleased(file) /\ AsReleased(work)
    BY <1>1, <1>2, <2>1 DEF WorkInv
  <2>2. CASE Gapped(file) /\ work = file
    <3>1. work' = AddAccounting(file)
      BY <1>1, <2>2 DEF Gapped, Migration
    <3>2. QED
      BY <1>1, <2>2, <3>1 DEF WorkInv, Gapped
  <2>3. CASE work = AddAccounting(file)
    <3>1. IsFile(file)
      BY <1>1 DEF IInv, FileInv, SoundFile
    <3>2. AddAccounting(file).version = 3
      BY <3>1 DEF AddAccounting, IsFile
    <3>3. QED
      BY <1>1, <2>3, <3>2 DEF Upgradable, LatestVersion
  <2>4. QED
    BY <1>1, <2>1, <2>2, <2>3 DEF WorkInv
<1>7. QED
  BY <1>1, <1>2, <1>3, <1>4, <1>5, <1>6, WaitingStep

LEMMA CommitStep == ASSUME IInv, CommitMigration PROVE IInv' /\ EventsStay /\ Untouched
<1>1. /\ phase = "migrating" /\ Started(work) /\ UNCHANGED <<settings, owner, held, now>>
      /\ IsFile(work) /\ SoundFile(work) /\ SameEvents(file.rows, work.rows)
      /\ work.version = LatestVersion /\ WorkInv
  BY DEF CommitMigration, IInv, FileInv, SoundFile
<1>2. IInv' /\ EventsStay
  <2>1. CASE Acceptable(work)
    BY <1>1, <2>1, StartedStep
  <2>2. CASE ~Acceptable(work)
    BY <1>1, <2>2, RefusedStep
  <2>3. QED
    BY <2>1, <2>2
<1>3. Untouched
  <2>1. CASE Gapped(file)
    <3>1. SUFFICES ASSUME ~Acceptable(work)  PROVE Untouched
      BY <1>1 DEF Started, Untouched
    <3>2. file' = work
      BY <1>1, <3>1 DEF Started
    <3>3. IsFile(file) /\ work # file /\ ~MigrationThrows(work)
      BY <1>1, <2>1
      DEF IInv, FileInv, SoundFile, Gapped, LatestVersion, MigrationThrows
    <3>4. AsReleased(file) => FALSE
      BY <2>1 DEF Gapped
    <3>5. work = AddAccounting(file)
      BY <1>1, <3>3, <3>4 DEF WorkInv
    <3>6. /\ work.seq = file.seq
          /\ work.rows = [i \in DOMAIN file.rows |->
                            [file.rows[i] EXCEPT !.bytes = file.sizes[i]]]
      BY <3>3, <3>5 DEF AddAccounting, IsFile
    <3>7. RewrittenInVain(file, work)
      BY <1>1, <2>1, <3>1, <3>6 DEF RewrittenInVain, Gapped
    <3>8. QED
      BY <3>2, <3>7 DEF Untouched
  <2>2. CASE ~Gapped(file)
    <3>1. AsReleased(work)
      BY <1>1, <2>2 DEF WorkInv, MigrationThrows, LatestVersion
    <3>2. Acceptable(work)
      BY <1>1, <3>1
      DEF SoundFile, Acceptable, StructureValid, AsReleased, Later, LatestVersion
    <3>3. QED
      BY <1>1, <3>2 DEF Started, Untouched
  <2>3. QED
    BY <2>1, <2>2
<1>4. QED
  BY <1>2, <1>3

LEMMA StartFailsStep == ASSUME IInv, StartFails PROVE IInv' /\ EventsStay
<1>1. /\ phase # "up" /\ phase' = "down" /\ settings' = NULL
      /\ UNCHANGED <<file, held, now>>
  BY DEF StartFails
<1>2. Settled'
  BY <1>1 DEF Settled
<1>3. QED
  BY <1>1, <1>2, WaitingStep

LEMMA CloseStep == ASSUME IInv, Close PROVE IInv' /\ EventsStay
<1>1. /\ phase = "up" /\ phase' = "down" /\ file' = FileOf(mon.res)
      /\ held' = NothingHeld /\ UNCHANGED <<settings, work, now>>
      /\ Good(mon.res) /\ now \in Nat /\ Settled
  BY DEF Close, IInv, FileInv, SoundMon
<1>2. SoundFile(file') /\ file'.rows = mon.res.rows
  BY <1>1, ClosedFile
<1>3. FileInv'
  BY <1>1, <1>2 DEF FileInv
<1>4. held' \in [Workers -> HeldBatch] /\ HeldByOwner'
  BY <1>1 DEF NothingHeld, NoBatch, HeldBatch, HeldByOwner
<1>5. Settled'
  BY <1>1 DEF Settled
<1>6. Stored' = Stored
  BY <1>1, <1>2 DEF Stored
<1>7. EventsStay
  BY <1>1, <1>6 DEF EventsStay, StateAfterStart
<1>8. QED
  BY <1>1, <1>3, <1>4, <1>5, <1>7 DEF IInv

\* No other start that comes to nothing writes to the file.
LEMMA StartUntouched == ASSUME IInv, [Next]_vars PROVE Untouched
<1>1. SUFFICES ASSUME phase # "up", phase' = "down" PROVE Untouched
  BY DEF Untouched
<1>2. CASE OpenFile
  <2>1. IsFile(file)
    BY <1>1, <1>2 DEF OpenFile, IInv, FileInv, SoundFile
  <2>2. CASE ~HasTables(file) /\ Started(CurrentSchema(file))
    <3>1. Acceptable(CurrentSchema(file))
      BY <2>1, <2>2, CreatedFile
    <3>2. QED
      BY <1>1, <2>2, <3>1 DEF Started
  <2>3. CASE Started(file)
    BY <1>1, <2>3 DEF Started, Untouched
  <2>4. CASE UNCHANGED file
    BY <2>4 DEF Untouched
  <2>5. QED
    BY <1>2, <2>1, <2>2, <2>3, <2>4, OpenFileCases
<1>3. CASE CommitMigration
  BY <1>3, CommitStep
<1>4. CASE StartFails \/ Tick \/ UNCHANGED vars
  BY <1>4 DEF StartFails, Tick, vars, Untouched
<1>5. CASE (ReplayCommand \/ RuntimeCall) /\ UNCHANGED <<phase, settings, file, work, now>>
  BY <1>5 DEF Untouched
<1>6. QED
  BY <1>1, <1>2, <1>3, <1>4, <1>5 DEF Next, Configure, Migrate, Close

-----------------------------------------------------------------------------
(* Steps of a runtime that is up.                                          *)

\* A command of o binds replay to o, to which all that is held belongs.
LEMMA OwnedStep ==
  ASSUME IInv, NEW o \in Owners, Owns(o)
  PROVE  /\ phase = "up" /\ SoundMon(mon) /\ now \in Nat /\ owner' = o
         /\ held \in [Workers -> HeldBatch]
         /\ \A w \in Workers : held[w].rows # {} => held[w].owner = o
<1>1. owner \in {NULL, o} /\ NULL \notin Owners
  BY ProcessAssumption DEF Owns
<1>2. QED
  BY <1>1 DEF IInv, FileInv, HeldByOwner, Owns

\* After it, a worker holds what it held, something less, or a batch for o.
LEMMA HeldAfter ==
  ASSUME IInv, NEW o \in Owners, Owns(o), phase' = phase,
         held' \in [Workers -> HeldBatch],
         \A w \in Workers :
           held'[w].rows # {} =>
             \/ held'[w].owner = o
             \/ held'[w].rows = held[w].rows /\ held'[w].owner = held[w].owner
  PROVE  HeldByOwner'
  BY OwnedStep DEF HeldByOwner

LEMMA LetGoHeld ==
  ASSUME NEW w \in Workers, held \in [Workers -> HeldBatch], LetGo(w)
  PROVE  /\ held' \in [Workers -> HeldBatch]
         /\ \A x \in Workers :
              held'[x].rows # {} =>
                held'[x].rows = held[x].rows /\ held'[x].owner = held[x].owner
  BY DEF LetGo, NoBatch, HeldBatch

LEMMA CommandStep ==
  ASSUME IInv, ReplayCommand, phase' = phase
  PROVE  SoundMon(mon') /\ held' \in [Workers -> HeldBatch] /\ HeldByOwner'
<1>1. ASSUME NEW o \in Owners, Bind(o) \/ QueueReplay(o) \/ AbortSession(o)
      PROVE  SoundMon(mon') /\ held' \in [Workers -> HeldBatch] /\ HeldByOwner'
  <2>1. Owns(o) /\ held' = held
    BY <1>1 DEF Bind, QueueReplay, AbortSession
  <2>2. \/ mon' = mon \/ mon' = QueueIfNeeded(mon, now) \/ mon' = Aborted(mon, {}, now)
    BY <1>1 DEF Bind, QueueReplay, AbortSession
  <2>3. SoundMon(mon')
    BY <2>1, <2>2, OwnedStep, StartByHand, AbortKeeps
  <2>4. QED
    BY <2>1, <2>3, OwnedStep, HeldAfter
<1>2. CASE StartReplay
  <2>1. "manual" \in Owners /\ Owns("manual") /\ held' = held
    BY <1>2 DEF StartReplay, Owners
  <2>2. \/ mon' = mon \/ mon' = QueueIfNeeded(mon, now) \/ mon' = ReplayStarted(mon, now)
    BY <1>2 DEF StartReplay
  <2>3. SoundMon(mon')
    BY <2>1, <2>2, OwnedStep, StartByHand
  <2>4. QED
    BY <2>1, <2>3, OwnedStep, HeldAfter
<1>3. ASSUME NEW w \in Workers, NEW o \in Owners, ClaimBatchFor(w, o)
      PROVE  SoundMon(mon') /\ held' \in [Workers -> HeldBatch] /\ HeldByOwner'
  <2>1. Owns(o)
    BY <1>3 DEF ClaimBatchFor
  <2>2. SoundMon(mon) /\ now \in Nat /\ held \in [Workers -> HeldBatch]
    BY <2>1, OwnedStep
  <2>3. CASE ClaimAllowed(mon, now)
    <3> DEFINE ids == ReplayBatch(mon, BatchSize, now)
               b == [rows |-> ids, owner |-> o, since |-> now, revoked |-> FALSE]
    <3>1. mon' = BatchClaimed(mon, BatchSize, now) /\ held' = [held EXCEPT ![w] = b]
      BY <1>3, <2>3 DEF ClaimBatchFor
    <3>2. Keeps(mon, mon', {}) /\ ids \subseteq 1..mon.res.seq
      BY <2>2, <2>3, <3>1, BatchClaimedKeeps
    <3>3. SoundMon(mon') /\ ids \in SUBSET Nat
      BY <2>2, <3>2, MonitorParts DEF Keeps
    <3> HIDE DEF ids
    <3>4. b \in HeldBatch /\ b.owner = o
      BY <2>2, <3>3 DEF HeldBatch
    <3> HIDE DEF b
    <3>5. /\ held' \in [Workers -> HeldBatch]
          /\ \A x \in Workers : held'[x] = IF x = w THEN b ELSE held[x]
      BY <2>2, <3>1, <3>4
    <3>6. HeldByOwner'
      BY <2>1, <3>4, <3>5, HeldAfter
    <3>7. QED
      BY <3>3, <3>5, <3>6
  <2>4. CASE ~ClaimAllowed(mon, now)
    <3>1. mon' = ClaimRejected(mon, now) /\ held' = held
      BY <1>3, <2>4 DEF ClaimBatchFor
    <3>2. SoundMon(mon')
      BY <2>2, <3>1, BatchClaimedKeeps DEF Keeps
    <3>3. QED
      BY <2>1, <2>2, <3>1, <3>2, HeldAfter
  <2>5. QED
    BY <2>3, <2>4
<1>4. ASSUME NEW w \in Workers,
             AcknowledgeReplayBatch(w) \/ FailReplay(w) \/ AbortReplay(w)
      PROVE  SoundMon(mon') /\ held' \in [Workers -> HeldBatch] /\ HeldByOwner'
  <2>1. Holding(w) /\ held[w].rows # {}
    BY <1>4 DEF AcknowledgeReplayBatch, FailReplay, AbortReplay, Holding
  <2>2. held[w].owner \in Owners /\ Owns(held[w].owner)
    BY <2>1 DEF IInv, HeldByOwner, Holding
  <2>3. SoundMon(mon) /\ now \in Nat /\ held \in [Workers -> HeldBatch]
    BY <2>2, OwnedStep
  <2>4. \/ mon' = AcknowledgeBatch(mon, held[w].rows, now)
        \/ mon' = Fail(mon, held[w].rows, now)
        \/ mon' = Aborted(mon, held[w].rows, now)
    BY <1>4 DEF AcknowledgeReplayBatch, FailReplay, AbortReplay
  <2>5. SoundMon(mon')
    BY <2>3, <2>4, AcknowledgeKeeps, FailKeeps, AbortKeeps DEF Keeps
  <2>6. /\ held' \in [Workers -> HeldBatch]
        /\ \A x \in Workers :
             held'[x].rows # {} =>
               held'[x].rows = held[x].rows /\ held'[x].owner = held[x].owner
    <3>1. CASE LetGo(w)
      BY <2>3, <3>1, LetGoHeld
    <3>2. CASE AbortReplay(w)
      <4> DEFINE taken(x) == held[x].revoked \/ held[x].rows \cap held[w].rows # {}
      <4>1. held' = [x \in Workers |->
                      IF x = w THEN NoBatch ELSE [held[x] EXCEPT !.revoked = taken(x)]]
        BY <2>3, <3>2 DEF AbortReplay, HeldBatch
      <4>2. \A x \in Workers : held[x] \in HeldBatch
        BY <2>3
      <4>3. \A x \in Workers : taken(x) \in BOOLEAN
        BY <4>2 DEF HeldBatch
      <4> HIDE DEF taken
      <4>4. ASSUME NEW h \in HeldBatch, NEW b \in BOOLEAN
            PROVE  LET n == [h EXCEPT !.revoked = b]
                   IN  n \in HeldBatch /\ n.rows = h.rows /\ n.owner = h.owner
        BY <4>4 DEF HeldBatch
      <4>5. NoBatch \in HeldBatch /\ NoBatch.rows = {}
        BY DEF NoBatch, HeldBatch
      <4> DEFINE n(x) == [held[x] EXCEPT !.revoked = taken(x)]
      <4>6. \A x \in Workers :
              n(x) \in HeldBatch /\ n(x).rows = held[x].rows /\ n(x).owner = held[x].owner
        BY <4>2, <4>3, <4>4
      <4>7. held' = [x \in Workers |-> IF x = w THEN NoBatch ELSE n(x)]
        BY <4>1
      <4> HIDE DEF n
      <4>8. QED
        BY <4>5, <4>6, <4>7
    <3>3. QED
      BY <1>4, <3>1, <3>2 DEF AcknowledgeReplayBatch, FailReplay
  <2>7. HeldByOwner'
    BY <2>2, <2>6, HeldAfter
  <2>8. QED
    BY <2>5, <2>6, <2>7
<1>5. QED
  BY <1>1, <1>2, <1>3, <1>4 DEF ReplayCommand

LEMMA TimeIngested == now \in Nat => \A at \in EventTimes : IngestTime(at, now) \in Nat
  BY ProcessAssumption DEF IngestTime, OptionalNat

LEMMA CallStep ==
  ASSUME IInv, RuntimeCall, phase' = phase
  PROVE  SoundMon(mon') /\ held' \in [Workers -> HeldBatch] /\ HeldByOwner'
<1>1. phase = "up" /\ UNCHANGED <<owner, held>>
  BY DEF RuntimeCall
<1>2. SoundMon(mon) /\ now \in Nat /\ EventBytes \in Nat
  BY <1>1, ProcessAssumption DEF IInv, FileInv
<1>3. held' \in [Workers -> HeldBatch] /\ HeldByOwner'
  BY <1>1 DEF IInv, HeldByOwner
<1>4. ASSUME IngestTransportEvent  PROVE SoundMon(mon')
  BY <1>2, <1>4, TimeIngested, IngestedSound DEF IngestTransportEvent
<1>5. ASSUME ObserveDedupeEvent  PROVE SoundMon(mon')
  BY <1>2, <1>5, TimeIngested, ObservedSound DEF ObserveDedupeEvent
<1>6. ASSUME AcknowledgeIngressDelivery  PROVE SoundMon(mon')
  BY <1>2, <1>6, DeliveredKeeps DEF AcknowledgeIngressDelivery, Keeps
<1>7. ASSUME UpdateComponentHealth  PROVE SoundMon(mon')
  <2>1. PICK report \in HealthReports : mon' = HealthUpdated(mon, report[1], report[2], now)
    BY <1>7 DEF UpdateComponentHealth
  <2>2. report[1] \in Components /\ report[2] \in HealthStates
    BY ProcessAssumption
  <2>3. QED
    BY <1>2, <2>1, <2>2, HealthKeeps DEF Keeps
<1>8. ASSUME ObserveHeartbeat  PROVE SoundMon(mon')
  <2>1. PICK report \in HealthReports : mon' = HeartbeatSeen(mon, report[1], now)
    BY <1>8 DEF ObserveHeartbeat
  <2>2. report[1] \in Components
    BY ProcessAssumption
  <2>3. QED
    BY <1>2, <2>1, <2>2, HeartbeatKeeps DEF Keeps
<1>9. ASSUME RefreshHealthStates  PROVE SoundMon(mon')
  BY <1>2, <1>9, RefreshKeeps DEF RefreshHealthStates, Keeps
<1>10. ASSUME PruneReservoir  PROVE SoundMon(mon')
  BY <1>2, <1>10, PruneKeeps DEF PruneReservoir, Keeps
<1>11. QED
  BY <1>3, <1>4, <1>5, <1>6, <1>7, <1>8, <1>9, <1>10 DEF RuntimeCall

LEMMA UpStep ==
  ASSUME IInv, ReplayCommand \/ RuntimeCall, UNCHANGED <<phase, settings, file, work, now>>
  PROVE  IInv' /\ EventsStay
<1>1. SoundMon(mon') /\ held' \in [Workers -> HeldBatch] /\ HeldByOwner'
  BY CommandStep, CallStep
<1>2. phase = "up"
  BY DEF ReplayCommand, RuntimeCall, Bind, QueueReplay, AbortSession, StartReplay,
         ClaimBatchFor, AcknowledgeReplayBatch, FailReplay, AbortReplay, Holding, Owns
<1>3. FileInv'
  BY <1>1, <1>2 DEF IInv, FileInv
<1>4. Settled' /\ now' \in Nat
  BY DEF IInv, Settled
<1>5. EventsStay
  BY <1>2 DEF EventsStay
<1>6. QED
  BY <1>1, <1>3, <1>4, <1>5 DEF IInv

\* The clock, or nothing at all.
LEMMA IdleStep == ASSUME IInv, Tick \/ UNCHANGED vars PROVE IInv' /\ EventsStay
<1>1. UNCHANGED <<phase, settings, file, work, mon, owner, held>> /\ now' \in Nat
  BY DEF Tick, vars, IInv
<1>2. FileInv' /\ HeldByOwner' /\ Settled' /\ held' \in [Workers -> HeldBatch]
  BY <1>1 DEF IInv, FileInv, WorkInv, HeldByOwner, Settled
<1>3. Stored' = Stored
  BY <1>1 DEF Stored
<1>4. EventsStay
  BY <1>1, <1>3 DEF EventsStay, StateAfterStart
<1>5. QED
  BY <1>1, <1>2, <1>4 DEF IInv

-----------------------------------------------------------------------------
(* The invariant and what follows from it.                                 *)

LEMMA Initially == Init => IInv
<1>1. SUFFICES ASSUME Init PROVE IInv
  OBVIOUS
<1>2. FileInv
  BY <1>1, ProcessAssumption DEF Init, FileInv, SoundFile
<1>3. held \in [Workers -> HeldBatch] /\ HeldByOwner
  BY <1>1 DEF Init, NothingHeld, NoBatch, HeldBatch, HeldByOwner
<1>4. QED
  BY <1>1, <1>2, <1>3 DEF Init, IInv, Settled

LEMMA StepKeeps == ASSUME IInv, [Next]_vars PROVE IInv' /\ EventsStay
  BY ConfigureStep, OpenFileStep, MigrateStep, CommitStep, StartFailsStep, CloseStep,
     UpStep, IdleStep DEF Next

THEOREM Invariant == Spec => []IInv
<1>1. IInv /\ [Next]_vars => IInv'
  BY StepKeeps
<1>2. QED
  BY Initially, <1>1, PTL DEF Spec

\* A value that a configuration file or the application gives is the one the
\* runtime is started with, and the application's goes before the file's.
THEOREM PrecedenceKept == Spec => []ConfigPrecedence
<1>1. Settled => ConfigPrecedence
  <2>1. SUFFICES ASSUME Settled, settings # NULL, NEW f \in Fields,
                        GivenBy(settings.sources, f) # <<>>
                 PROVE  <<settings.config[f]>> = GivenBy(settings.sources, f)
    BY DEF ConfigPrecedence
  <2>2. PICK s \in ConfigSources : settings = Settings(s)
    BY <2>1 DEF Settled
  <2>3. settings.sources = s /\ settings.config = RuntimeConfig(Resolved(s))
    BY <2>2 DEF Settings
  <2>4. QED
    BY <2>1, <2>3, GivenIsConfigured
<1>2. IInv => ConfigPrecedence
  BY <1>1 DEF IInv
<1>3. QED
  BY <1>2, Invariant, PTL

\* Whatever is done to a file that a release has left, the next start accepts
\* its structure and its capacity accounting.
THEOREM FilesAccepted == Spec => []NeverBricked
<1>1. IInv => NeverBricked
  <2>1. SUFFICES ASSUME IInv, file # NULL, HasTables(file), AsReleased(file),
                        ~NewerThanSupported(file)
                 PROVE  Acceptable(Upgraded(file))
    BY DEF NeverBricked
  <2>2. SoundFile(file)
    BY <2>1 DEF IInv, FileInv
  <2>3. QED
    BY <2>1, <2>2, UpgradedFile
<1>2. QED
  BY <1>1, Invariant, PTL

\* A start that is refused or dies leaves the file as it found it, or, where a
\* version 2 file has a gap that only the check after the commit sees, with its
\* events and ids as they were, at a version and with sizes that change nothing
\* about the refusal.
THEOREM RefusalsHarmless == Spec => RefusedUntouched
<1>1. IInv /\ [Next]_vars =>
        [phase # "up" /\ phase' = "down" =>
           file' = file \/ RewrittenInVain(file, file')]_vars
  BY StartUntouched DEF Untouched
<1>2. QED
  BY <1>1, Invariant, PTL DEF Spec, RefusedUntouched

\* Starting, upgrading, failing to start and stopping lose and alter no event.
THEOREM EventsKept == Spec => RestartKeepsEvents
<1>1. IInv /\ [Next]_vars =>
        [phase # "up" \/ phase' # "up" =>
           /\ DOMAIN Stored' = DOMAIN Stored
           /\ \A i \in DOMAIN Stored :
                /\ Stored'[i].state = StateAfterStart(Stored[i])
                /\ Stored'[i].ingestAt = Stored[i].ingestAt
                /\ Stored'[i].mode = Stored[i].mode
                /\ Stored'[i].retryAt = Stored[i].retryAt]_vars
  BY StepKeeps DEF EventsStay
<1>2. QED
  BY <1>1, Invariant, PTL DEF Spec, RestartKeepsEvents

\* Batches of two owners of replay are never out at the same time.
THEOREM OneOwner == Spec => []ReplayUnderOneOwner
<1>1. IInv => ReplayUnderOneOwner
  BY DEF IInv, HeldByOwner, ReplayUnderOneOwner
<1>2. QED
  BY <1>1, Invariant, PTL

\* Live flow that replay holds back is shown as held, with the two exceptions
\* the property names: what an aborted session shows beside its status, and the
\* operational state of a failed one whose backoff is over.
THEOREM HoldsShown == Spec => []HeldFlowIsShown
<1>1. IInv => HeldFlowIsShown
  BY HoldShown DEF IInv, FileInv, HeldFlowIsShown
<1>2. QED
  BY <1>1, Invariant, PTL


-----------------------------------------------------------------------------
(* Rows across releases.                                                   *)

\* What a file of a release is taken to hold, and stays so.
ReleasedFile(f) ==
  /\ f.seq <= MaxRows
  /\ \A i \in DOMAIN f.rows : ReleasedRow(f.rows[i], f.version)

ColumnsInv ==
  /\ phase = "up" =>
       /\ mon.res.seq <= MaxRows
       /\ \A i \in DOMAIN mon.res.rows : Consistent(mon.res.rows[i])
  /\ phase # "up" => ReleasedFile(file)
  /\ phase = "migrating" => ReleasedFile(work)

\* A start that succeeds releases the claims of the process before.
LEMMA OpenedColumns ==
  ASSUME NEW f, IsFile(f), AccountingValid(f), ReleasedFile(f), f.version >= 2, NEW t \in Nat
  PROVE  LET m == Opened(ReservoirOf(f), t)
         IN  /\ m.res.seq = f.seq
             /\ \A i \in DOMAIN m.res.rows : Consistent(m.res.rows[i])
<1> DEFINE r == ReservoirOf(f)
           m == Opened(r, t)
<1>1. f.seq \in Nat /\ IsTable(f.rows, f.seq)
  BY DEF IsFile
<1>2. f.totals = TotalsOf(f.rows) /\ f.totals \in [rows: Nat, bytes: Nat]
  BY <1>1, TotalsType DEF AccountingValid
<1>3. IsReservoir(r) /\ r.rows = f.rows /\ r.seq = f.seq
  BY <1>1, <1>2 DEF ReservoirOf, IsReservoir
<1>4. AccountingMatches(r)
  BY <1>2 DEF AccountingMatches, ReservoirOf, TotalsOf
<1>5. Good(r)
  BY <1>3, <1>4 DEF Good
<1> HIDE DEF r
<1>6. m.res = RecoverRestartState(r)
  BY <1>5, OpenedKeeps
<1> HIDE DEF m
<1>7. /\ m.res.seq = f.seq
      /\ m.res.rows = [i \in DOMAIN f.rows |->
                         IF f.rows[i].state = "replaying" THEN Released(f.rows[i])
                         ELSE f.rows[i]]
  BY <1>3, <1>6, RecoverTable
<1>8. ASSUME NEW row \in Row, ReleasedRow(row, f.version)
      PROVE  Consistent(IF row.state = "replaying" THEN Released(row) ELSE row)
  BY <1>8 DEF ReleasedRow, Consistent, Released, Row, TerminalStates
<1>9. \A i \in DOMAIN f.rows : f.rows[i] \in Row /\ ReleasedRow(f.rows[i], f.version)
  BY <1>1 DEF IsTable, ReleasedFile
<1>10. QED
  BY <1>7, <1>8, <1>9 DEF m, r

\* A migration keeps what it says of rows, and dates those that are terminal.
LEMMA MigratedColumns ==
  ASSUME NEW f, IsFile(f), Upgradable(f), ReleasedFile(f)
  PROVE  ReleasedFile(Migration(f))
<1> DEFINE n == Migration(f)
<1>1. /\ f \in [version: Nat, rows: {f.rows}, seq: Nat, sizes: [DOMAIN f.rows -> Nat],
                totals: [rows: Nat, bytes: Nat] \cup {NULL},
                tables: BOOLEAN, lacks: SUBSET Parts]
      /\ \A i \in DOMAIN f.rows : f.rows[i] \in Row
      /\ f.seq <= MaxRows
      /\ \A i \in DOMAIN f.rows : ReleasedRow(f.rows[i], f.version)
  BY DEF IsFile, IsTable, ReleasedFile
<1>2. f.version = 0 \/ f.version = 1 \/ f.version = 2
  BY <1>1 DEF Upgradable, LatestVersion
<1>3. CASE f.version = 0
  <2>1. n = [f EXCEPT !.version = 1, !.lacks = @ \ {"retry"}]
    BY <1>3 DEF Migration, AddRetryColumns
  <2>2. n.version = 1 /\ n.rows = f.rows /\ n.seq = f.seq
    BY <1>1, <2>1
  <2>3. QED
    BY <1>1, <1>3, <2>2 DEF ReleasedFile, ReleasedRow
<1>4. CASE f.version = 1
  <2> DEFINE dated(row) == [row EXCEPT !.terminalAt = row.ingestAt]
             t == [i \in DOMAIN f.rows |->
                     IF f.rows[i].state \in TerminalStates /\ f.rows[i].terminalAt = NULL
                     THEN dated(f.rows[i]) ELSE f.rows[i]]
  <2>1. n = [f EXCEPT !.version = 2, !.lacks = @ \ {"terminal", "accounting"}, !.rows = t]
    BY <1>1, <1>4 DEF Migration, AddTerminalColumn
  <2>2. ASSUME NEW row \in Row, ReleasedRow(row, 1)
        PROVE  ReleasedRow(IF row.state \in TerminalStates /\ row.terminalAt = NULL
                           THEN dated(row) ELSE row, 2)
    <3>1. dated(row).terminalAt = row.ingestAt /\ row.ingestAt # NULL
      BY NullAssumption DEF Row
    <3>2. /\ dated(row).state = row.state /\ dated(row).claimedAt = row.claimedAt
          /\ dated(row).retryAt = row.retryAt
      BY DEF Row
    <3> HIDE DEF dated
    <3>3. QED
      BY <2>2, <3>1, <3>2 DEF ReleasedRow
  <2>3. DOMAIN t = DOMAIN f.rows /\ \A i \in DOMAIN t : ReleasedRow(t[i], 2)
    BY <1>1, <1>4, <2>2
  <2> HIDE DEF t, dated
  <2>4. n.version = 2 /\ n.rows = t /\ n.seq = f.seq
    BY <1>1, <2>1
  <2> HIDE DEF n
  <2>5. QED
    BY <1>1, <2>3, <2>4 DEF ReleasedFile, n
<1>5. CASE f.version = 2
  <2> DEFINE t == [i \in DOMAIN f.rows |-> [f.rows[i] EXCEPT !.bytes = f.sizes[i]]]
  <2>1. n = [f EXCEPT !.version = 3, !.lacks = @ \ {"bytes", "accounting"},
                      !.rows = t, !.totals = TotalsOf(t)]
    BY <1>1, <1>5 DEF Migration, AddAccounting
  <2>2. ASSUME NEW row \in Row, NEW b, ReleasedRow(row, 2)
        PROVE  ReleasedRow([row EXCEPT !.bytes = b], 3)
    <3> DEFINE q == [row EXCEPT !.bytes = b]
    <3>1. /\ q.state = row.state /\ q.claimedAt = row.claimedAt
          /\ q.retryAt = row.retryAt /\ q.terminalAt = row.terminalAt
      BY DEF Row
    <3> HIDE DEF q
    <3>2. ReleasedRow(q, 3)
      BY <2>2, <3>1 DEF ReleasedRow
    <3>3. QED
      BY <3>2 DEF q
  <2>3. DOMAIN t = DOMAIN f.rows /\ \A i \in DOMAIN t : ReleasedRow(t[i], 3)
    BY <1>1, <1>5, <2>2
  <2> HIDE DEF t
  <2>4. n.version = 3 /\ n.rows = t /\ n.seq = f.seq
    BY <1>1, <2>1
  <2> HIDE DEF n
  <2>5. QED
    BY <1>1, <2>3, <2>4 DEF ReleasedFile, n
<1>6. QED
  BY <1>2, <1>3, <1>4, <1>5

LEMMA StartedColumns ==
  ASSUME IInv, ColumnsInv, phase # "up", NEW f, IsFile(f), f.version >= 2,
         ReleasedFile(f), Started(f)
  PROVE  ColumnsInv'
<1>1. now \in Nat
  BY DEF IInv
<1>2. CASE Acceptable(f)
  <2>1. phase' = "up" /\ mon' = Opened(ReservoirOf(f), now)
    BY <1>2 DEF Started
  <2>2. AccountingValid(f)
    BY <1>2 DEF Acceptable
  <2>3. mon'.res.seq = f.seq /\ \A i \in DOMAIN mon'.res.rows : Consistent(mon'.res.rows[i])
    BY <1>1, <2>1, <2>2, OpenedColumns
  <2>4. QED
    BY <2>1, <2>3 DEF ColumnsInv, ReleasedFile
<1>3. CASE ~Acceptable(f)
  BY <1>3 DEF Started, ColumnsInv
<1>4. QED
  BY <1>2, <1>3

LEMMA DownColumns ==
  ASSUME IInv, ColumnsInv,
         Configure \/ OpenFile \/ Migrate \/ CommitMigration \/ StartFails \/ Close
  PROVE  ColumnsInv'
<1>1. CASE Configure \/ StartFails
  BY <1>1 DEF Configure, StartFails, ColumnsInv
<1>2. CASE OpenFile
  <2>1. phase = "configured" /\ IsFile(file) /\ ReleasedFile(file)
    BY <1>2 DEF OpenFile, IInv, FileInv, SoundFile, ColumnsInv
  <2>2. CASE phase' \in {"down", "migrating"} /\ UNCHANGED file
             /\ (phase' = "migrating" => work' = file)
    BY <2>1, <2>2 DEF ColumnsInv
  <2>3. CASE ~HasTables(file) /\ Started(CurrentSchema(file))
    <3>1. IsFile(CurrentSchema(file)) /\ CurrentSchema(file).rows = file.rows
      BY <2>1, <2>3, CreatedFile
    <3>2. DOMAIN file.rows = {}
      BY <2>1, <2>3 DEF IsFile, HasTables
    <3>3. CurrentSchema(file).version = 3 /\ CurrentSchema(file).seq = file.seq
      BY <2>1 DEF CurrentSchema, IsFile, LatestVersion
    <3>4. ReleasedFile(CurrentSchema(file))
      BY <2>1, <3>1, <3>2, <3>3 DEF ReleasedFile
    <3>5. QED
      BY <2>1, <2>3, <3>1, <3>3, <3>4, StartedColumns
  <2>4. CASE file.version = LatestVersion /\ Started(file)
    BY <2>1, <2>4, StartedColumns DEF LatestVersion
  <2>5. QED
    BY <1>2, <2>1, <2>2, <2>3, <2>4, OpenFileCases
<1>3. CASE Migrate
  <2>1. phase = "migrating" /\ IsFile(work) /\ Upgradable(work) /\ ReleasedFile(work)
    BY <1>3 DEF Migrate, IInv, FileInv, SoundFile, Upgradable, ColumnsInv
  <2>2. ReleasedFile(work')
    BY <1>3, <2>1, MigratedColumns DEF Migrate
  <2>3. QED
    BY <1>3, <2>2 DEF Migrate, ColumnsInv
<1>4. CASE CommitMigration
  <2>1. /\ phase = "migrating" /\ IsFile(work) /\ ReleasedFile(work)
        /\ Started(work) /\ work.version = 3
    BY <1>4 DEF CommitMigration, IInv, FileInv, SoundFile, LatestVersion, ColumnsInv
  <2>2. QED
    BY <2>1, StartedColumns
<1>5. CASE Close
  <2>1. /\ phase' = "down" /\ file' = FileOf(mon.res) /\ mon.res.seq <= MaxRows
        /\ \A i \in DOMAIN mon.res.rows : Consistent(mon.res.rows[i])
    BY <1>5 DEF Close, ColumnsInv
  <2>2. file'.version = 3 /\ file'.rows = mon.res.rows /\ file'.seq = mon.res.seq
    BY <2>1 DEF FileOf, LatestVersion
  <2>3. QED
    BY <2>1, <2>2 DEF ColumnsInv, ReleasedFile, ReleasedRow, Consistent
<1>6. QED
  BY <1>1, <1>2, <1>3, <1>4, <1>5

-----------------------------------------------------------------------------
(* What calls do to rows and to what is held.                              *)

\* A new row, which no one holds.
Grows ==
  LET id == mon.res.seq + 1
  IN  /\ id <= MaxRows
      /\ mon'.res.seq = id
      /\ DOMAIN mon'.res.rows = (DOMAIN mon.res.rows) \cup {id}
      /\ \A i \in DOMAIN mon.res.rows : mon'.res.rows[i] = mon.res.rows[i]
      /\ Consistent(mon'.res.rows[id])

Settles(freed) ==
  /\ mon'.res.seq = mon.res.seq
  /\ \E taken : Rests(mon.res, mon'.res, freed, taken, now)

ClaimedBy(w, o) ==
  LET batch == ReplayBatch(mon, BatchSize, now)
  IN  /\ held[w] = NoBatch
      /\ mon' = BatchClaimed(mon, BatchSize, now)
      /\ held' = [held EXCEPT ![w] =
           [rows |-> batch, owner |-> o, since |-> now, revoked |-> FALSE]]
      /\ batch \subseteq 1..mon.res.seq

LEMMA CommandMoves ==
  ASSUME IInv, ReplayCommand
  PROVE  \/ held' = held /\ Settles({})
         \/ \E w \in Workers : LetGo(w) /\ Settles({})
         \/ \E w \in Workers, o \in Owners : ClaimedBy(w, o) /\ Settles({})
         \/ \E w \in Workers : AbortReplay(w) /\ Settles(held[w].rows)
<1>1. ASSUME mon'.res = mon.res PROVE Settles({})
  BY <1>1, RestsNot DEF Settles
<1>2. ASSUME NEW o \in Owners, Bind(o) \/ QueueReplay(o) \/ AbortSession(o)
      PROVE  held' = held /\ Settles({})
  <2>1. Owns(o) /\ held' = held
    BY <1>2 DEF Bind, QueueReplay, AbortSession
  <2>2. SoundMon(mon) /\ now \in Nat
    BY <2>1, OwnedStep
  <2>3. CASE mon' = mon \/ mon' = QueueIfNeeded(mon, now)
    BY <1>1, <2>1, <2>2, <2>3, StartByHand
  <2>4. CASE mon' = Aborted(mon, {}, now)
    BY <2>1, <2>2, <2>4, AbortKeeps, AbortedRests DEF Settles, Moves
  <2>5. QED
    BY <1>2, <2>3, <2>4 DEF Bind, QueueReplay, AbortSession
<1>3. CASE StartReplay
  <2>1. "manual" \in Owners /\ Owns("manual") /\ held' = held
    BY <1>3 DEF StartReplay, Owners
  <2>2. \/ mon' = mon \/ mon' = QueueIfNeeded(mon, now) \/ mon' = ReplayStarted(mon, now)
    BY <1>3 DEF StartReplay
  <2>3. QED
    BY <1>1, <2>1, <2>2, OwnedStep, StartByHand
<1>4. ASSUME NEW w \in Workers, NEW o \in Owners, ClaimBatchFor(w, o)
      PROVE  Settles({}) /\ (held' = held \/ ClaimedBy(w, o))
  <2>1. SoundMon(mon) /\ now \in Nat /\ held[w] = NoBatch
    BY <1>4, OwnedStep DEF ClaimBatchFor
  <2>2. CASE ClaimAllowed(mon, now)
    <3>1. /\ mon' = BatchClaimed(mon, BatchSize, now)
          /\ held' = [held EXCEPT ![w] =
               [rows |-> ReplayBatch(mon, BatchSize, now), owner |-> o,
                since |-> now, revoked |-> FALSE]]
      BY <1>4, <2>2 DEF ClaimBatchFor
    <3>2. Keeps(mon, mon', {}) /\ ReplayBatch(mon, BatchSize, now) \subseteq 1..mon.res.seq
      BY <2>1, <2>2, <3>1, BatchClaimedKeeps
    <3>3. Settles({})
      BY <2>1, <3>1, <3>2, BatchRests DEF Settles, Keeps, Moves
    <3>4. QED
      BY <2>1, <3>1, <3>2, <3>3 DEF ClaimedBy
  <2>3. CASE ~ClaimAllowed(mon, now)
    <3>1. mon' = ClaimRejected(mon, now) /\ held' = held
      BY <1>4, <2>3 DEF ClaimBatchFor
    <3>2. mon'.res = mon.res
      BY <2>1, <3>1, BatchRests
    <3>3. QED
      BY <1>1, <3>1, <3>2
  <2>4. QED
    BY <2>2, <2>3
<1>5. ASSUME NEW w \in Workers,
             AcknowledgeReplayBatch(w) \/ FailReplay(w) \/ AbortReplay(w)
      PROVE  \/ LetGo(w) /\ Settles({})
             \/ AbortReplay(w) /\ Settles(held[w].rows)
  <2>1. Holding(w) /\ held[w].rows # {}
    BY <1>5 DEF AcknowledgeReplayBatch, FailReplay, AbortReplay, Holding
  <2>2. held[w].owner \in Owners /\ Owns(held[w].owner)
    BY <2>1 DEF IInv, HeldByOwner, Holding
  <2>3. SoundMon(mon) /\ now \in Nat
    BY <2>2, OwnedStep
  <2>4. CASE AcknowledgeReplayBatch(w)
    <3>1. mon' = AcknowledgeBatch(mon, held[w].rows, now) /\ LetGo(w)
      BY <2>4 DEF AcknowledgeReplayBatch
    <3>2. QED
      BY <2>3, <3>1, AcknowledgeKeeps, SettledRests DEF Keeps, Moves, Settles
  <2>5. CASE FailReplay(w)
    <3>1. mon' = Fail(mon, held[w].rows, now) /\ LetGo(w)
      BY <2>5 DEF FailReplay
    <3>2. QED
      BY <2>3, <3>1, FailKeeps, FailedRests DEF Keeps, Moves, Settles
  <2>6. CASE AbortReplay(w)
    <3>1. mon' = Aborted(mon, held[w].rows, now)
      BY <2>6 DEF AbortReplay
    <3>2. QED
      BY <2>3, <2>6, <3>1, AbortKeeps, AbortedRests DEF Moves, Settles
  <2>7. QED
    BY <1>5, <2>4, <2>5, <2>6
<1>6. QED
  BY <1>2, <1>3, <1>4, <1>5 DEF ReplayCommand

LEMMA CallMoves ==
  ASSUME IInv, RuntimeCall
  PROVE  held' = held /\ (Grows \/ Settles({}))
<1>1. phase = "up" /\ held' = held
  BY DEF RuntimeCall
<1>2. SoundMon(mon) /\ now \in Nat /\ mon.res.seq \in Nat /\ MaxRows \in Nat
  BY <1>1, ProcessAssumption, MonitorParts DEF IInv, FileInv
<1>3. ASSUME mon'.res = mon.res PROVE Settles({})
  BY <1>3, RestsNot DEF Settles
<1>4. ASSUME IngestTransportEvent \/ ObserveDedupeEvent PROVE Grows
  <2>1. /\ mon.res.seq < MaxRows
        /\ \E t \in Nat : mon' = Ingested(mon, EventBytes, t) \/ mon' = Observed(mon, EventBytes, t)
    BY <1>2, <1>4, TimeIngested DEF IngestTransportEvent, ObserveDedupeEvent
  <2> DEFINE id == mon.res.seq + 1
  <2>2. /\ DOMAIN mon'.res.rows = (DOMAIN mon.res.rows) \cup {id}
        /\ mon'.res.seq = id
        /\ \A i \in DOMAIN mon.res.rows : mon'.res.rows[i] = mon.res.rows[i]
        /\ \E t \in Nat, first \in Nat : first <= t /\ Sane(mon'.res.rows[id], first)
    <3>1. PICK t \in Nat : \/ mon' = Ingested(mon, EventBytes, t)
                           \/ mon' = Observed(mon, EventBytes, t)
      BY <2>1
    <3>2. t \in 0..t
      BY <3>1
    <3>3. QED
      BY <1>2, <3>1, <3>2, AppendedRows
  <2>3. id <= MaxRows
    BY <1>2, <2>1
  <2>4. QED
    BY <2>2, <2>3 DEF Grows, Sane
<1>5. ASSUME AcknowledgeIngressDelivery  PROVE Settles({})
  BY <1>2, <1>5, DeliveredKeeps, SettledRests
  DEF AcknowledgeIngressDelivery, Keeps, Moves, Settles
<1>6. ASSUME UpdateComponentHealth  PROVE Settles({})
  <2>1. PICK report \in HealthReports : mon' = HealthUpdated(mon, report[1], report[2], now)
    BY <1>6 DEF UpdateComponentHealth
  <2>2. report[1] \in Components /\ report[2] \in HealthStates
    BY ProcessAssumption
  <2>3. QED
    BY <1>2, <1>3, <2>1, <2>2, HealthKeeps DEF Steady
<1>7. ASSUME ObserveHeartbeat  PROVE Settles({})
  <2>1. PICK report \in HealthReports : mon' = HeartbeatSeen(mon, report[1], now)
    BY <1>7 DEF ObserveHeartbeat
  <2>2. report[1] \in Components
    BY ProcessAssumption
  <2>3. QED
    BY <1>2, <1>3, <2>1, <2>2, HeartbeatKeeps DEF Steady
<1>8. ASSUME RefreshHealthStates  PROVE Settles({})
  BY <1>2, <1>3, <1>8, RefreshKeeps DEF RefreshHealthStates, Steady
<1>9. ASSUME PruneReservoir  PROVE Settles({})
  BY <1>2, <1>9, PruneKeeps, PrunedRests DEF PruneReservoir, Keeps, Moves, Settles
<1>10. QED
  BY <1>1, <1>4, <1>5, <1>6, <1>7, <1>8, <1>9 DEF RuntimeCall

LEMMA UpColumns ==
  ASSUME IInv, ColumnsInv, ReplayCommand \/ RuntimeCall, phase' = phase
  PROVE  ColumnsInv'
<1>1. phase = "up"
  BY DEF ReplayCommand, RuntimeCall, Bind, QueueReplay, AbortSession, StartReplay,
         ClaimBatchFor, AcknowledgeReplayBatch, FailReplay, AbortReplay, Holding, Owns
<1>2. ASSUME NEW freed, Settles(freed) PROVE ColumnsInv'
  BY <1>1, <1>2 DEF Settles, Rests, Stays, RowRests, ColumnsInv
<1>3. CASE Grows
  BY <1>1, <1>3 DEF Grows, ColumnsInv
<1>4. QED
  BY <1>2, <1>3, CommandMoves, CallMoves

LEMMA ColumnsStep == ASSUME IInv, ColumnsInv, [Next]_vars PROVE ColumnsInv'
<1>1. CASE (ReplayCommand \/ RuntimeCall) /\ UNCHANGED <<phase, settings, file, work, now>>
  BY <1>1, UpColumns
<1>2. CASE Tick \/ UNCHANGED vars
  BY <1>2 DEF Tick, vars, ColumnsInv
<1>3. QED
  BY <1>1, <1>2, DownColumns DEF Next

LEMMA ColumnsInitially == Init => ColumnsInv
  BY ProcessAssumption DEF Init, ColumnsInv, ReleasedFile

\* Once a runtime is up its totals are right and every row's columns agree with
\* its state, whichever release had written it.
THEOREM OpenedFilesSound == Spec => []OpenedSound
<1>1. IInv /\ ColumnsInv /\ [Next]_vars => ColumnsInv'
  BY ColumnsStep
<1>2. IInv /\ ColumnsInv => OpenedSound
  BY DEF IInv, FileInv, SoundMon, Good, ColumnsInv, Consistent, OpenedSound
<1>3. QED
  BY ColumnsInitially, <1>1, <1>2, Invariant, PTL DEF Spec


-----------------------------------------------------------------------------
(* Leases.                                                                 *)

\* What is held was stored once, and a lease that no abort has revoked guards
\* its rows until the backoff is over.
LeaseInv ==
  /\ LeaseRespected
  /\ phase = "up" =>
       \A w \in Workers :
         /\ held[w].rows \subseteq 1..mon.res.seq
         /\ \A i \in held[w].rows :
              /\ held[w].since <= now
              /\ i \in DOMAIN mon.res.rows /\ ~held[w].revoked =>
                   Guarded(mon.res.rows[i], held[w].since, now)

\* Nothing is held before or after.
LEMMA LeaseDown ==
  ASSUME IInv, LeaseInv,
         Configure \/ OpenFile \/ Migrate \/ CommitMigration \/ StartFails \/ Close
  PROVE  LeaseInv'
<1>1. \A w \in Workers : held'[w].rows = {}
  <2>1. CASE Close
    BY <2>1 DEF Close, NothingHeld, NoBatch
  <2>2. CASE ~Close
    BY <2>2 DEF IInv, HeldByOwner, Configure, OpenFile, Migrate, CommitMigration, StartFails
  <2>3. QED
    BY <2>1, <2>2
<1>2. QED
  BY <1>1 DEF LeaseInv, LeaseRespected

\* A step after which everyone holds what they held, or nothing.
LEMMA LeaseKept ==
  ASSUME IInv, LeaseInv, phase = "up", now' = now, mon.res.seq \in Nat,
         mon'.res.seq = mon.res.seq \/ mon'.res.seq = mon.res.seq + 1,
         \A w \in Workers :
           \/ held'[w].rows = {}
           \/ /\ held'[w].rows = held[w].rows /\ held'[w].since = held[w].since
              /\ held[w].revoked => held'[w].revoked,
         \A w \in Workers : \A i \in held'[w].rows \cap DOMAIN mon'.res.rows :
           ~held'[w].revoked =>
             /\ i \in DOMAIN mon.res.rows
             /\ Guarded(mon.res.rows[i], held[w].since, now) =>
                  Guarded(mon'.res.rows[i], held[w].since, now)
  PROVE  LeaseInv'
<1>1. LeaseRespected'
  BY DEF LeaseInv, LeaseRespected
<1>2. 1..mon.res.seq \subseteq 1..mon'.res.seq
  OBVIOUS
<1>3. ASSUME NEW w \in Workers
      PROVE  /\ held'[w].rows \subseteq 1..mon'.res.seq
             /\ \A i \in held'[w].rows :
                  /\ held'[w].since <= now'
                  /\ i \in DOMAIN mon'.res.rows /\ ~held'[w].revoked =>
                       Guarded(mon'.res.rows[i], held'[w].since, now')
  <2>1. CASE held'[w].rows = {}
    BY <2>1
  <2>2. CASE /\ held'[w].rows = held[w].rows /\ held'[w].since = held[w].since
             /\ held[w].revoked => held'[w].revoked
    <3>1. held'[w].rows \subseteq 1..mon'.res.seq
      BY <1>2, <1>3, <2>2 DEF LeaseInv
    <3>2. ASSUME NEW i \in held'[w].rows
          PROVE  /\ held'[w].since <= now'
                 /\ i \in DOMAIN mon'.res.rows /\ ~held'[w].revoked =>
                      Guarded(mon'.res.rows[i], held'[w].since, now')
      BY <1>3, <2>2, <3>2 DEF LeaseInv
    <3>3. QED
      BY <3>1, <3>2
  <2>3. QED
    BY <2>1, <2>2
<1>4. QED
  BY <1>1, <1>3 DEF LeaseInv

\* A new row is held by no one.
LEMMA LeaseGrows ==
  ASSUME IInv, LeaseInv, phase = "up", now' = now, held' = held, Grows
  PROVE  LeaseInv'
<1>1. mon.res.seq \in Nat
  BY MonitorParts DEF IInv, FileInv
<1>2. /\ mon'.res.seq = mon.res.seq + 1
      /\ \A i \in DOMAIN mon.res.rows : mon'.res.rows[i] = mon.res.rows[i]
      /\ \A i \in DOMAIN mon'.res.rows :
           i \in DOMAIN mon.res.rows \/ i = mon.res.seq + 1
  BY DEF Grows
<1>3. \A w \in Workers : mon.res.seq + 1 \notin held[w].rows
  BY <1>1 DEF LeaseInv
<1>4. QED
  BY <1>1, <1>2, <1>3, LeaseKept

\* A step that keeps the guard of all rows but those freed, which are held only
\* by workers it revokes.
LEMMA LeaseSettles ==
  ASSUME IInv, LeaseInv, phase = "up", now' = now, NEW freed, Settles(freed),
         \A w \in Workers :
           \/ held'[w].rows = {}
           \/ /\ held'[w].rows = held[w].rows /\ held'[w].since = held[w].since
              /\ held[w].revoked => held'[w].revoked
              /\ ~held'[w].revoked => held[w].rows \cap freed = {}
  PROVE  LeaseInv'
<1>1. mon.res.seq \in Nat /\ now \in Nat /\ held \in [Workers -> HeldBatch]
  BY MonitorParts DEF IInv, FileInv
<1>2. mon'.res.seq = mon.res.seq /\ \E taken : Rests(mon.res, mon'.res, freed, taken, now)
  BY DEF Settles
<1>3. ASSUME NEW w \in Workers, NEW i \in held'[w].rows \cap DOMAIN mon'.res.rows,
             ~held'[w].revoked
      PROVE  /\ i \in DOMAIN mon.res.rows
             /\ Guarded(mon.res.rows[i], held[w].since, now) =>
                  Guarded(mon'.res.rows[i], held[w].since, now)
  <2>1. i \in held[w].rows /\ i \notin freed
    BY <1>3
  <2>2. held[w].since \in 0..now
    BY <1>1, <2>1 DEF LeaseInv, HeldBatch
  <2>3. QED
    BY <1>2, <1>3, <2>1, <2>2 DEF Rests, Stays
<1>4. QED
  BY <1>1, <1>2, <1>3, LeaseKept

\* A claim takes what others hold only when their backoff is over.
LEMMA LeaseClaimed ==
  ASSUME IInv, LeaseInv, phase = "up", now' = now,
         NEW w \in Workers, NEW o \in Owners, ClaimedBy(w, o), Settles({})
  PROVE  LeaseInv'
<1> DEFINE batch == ReplayBatch(mon, BatchSize, now)
           b == [rows |-> batch, owner |-> o, since |-> now, revoked |-> FALSE]
<1>1. SoundMon(mon) /\ now \in Nat /\ held \in [Workers -> HeldBatch]
  BY DEF IInv, FileInv
<1>2. /\ mon' = BatchClaimed(mon, BatchSize, now) /\ batch \subseteq 1..mon.res.seq
      /\ held' = [held EXCEPT ![w] = b]
  BY DEF ClaimedBy
<1>3. \A i \in batch :
        /\ Guarded(mon'.res.rows[i], now, now) /\ i \in DOMAIN mon.res.rows
        /\ \A since \in 0..now :
             Guarded(mon.res.rows[i], since, now) => since + RetryBackoff <= now
  BY <1>1, <1>2, ClaimLease
<1> HIDE DEF batch
<1>4. b.rows = batch /\ b.since = now /\ b.revoked = FALSE
  OBVIOUS
<1> HIDE DEF b
<1>5. held'[w] = b /\ \A x \in Workers \ {w} : held'[x] = held[x]
  BY <1>1, <1>2
<1>6. mon'.res.seq = mon.res.seq /\ \E taken : Rests(mon.res, mon'.res, {}, taken, now)
  BY DEF Settles
<1>7. ASSUME NEW x \in Workers \ {w}, held[x].rows \cap batch # {}
      PROVE  held[x].revoked \/ held[x].since + RetryBackoff <= now
  <2>1. PICK i \in held[x].rows : i \in batch
    BY <1>7
  <2>2. held[x].since \in 0..now
    BY <1>1, <2>1 DEF LeaseInv, HeldBatch
  <2>3. held[x].revoked \/ Guarded(mon.res.rows[i], held[x].since, now)
    BY <1>3, <2>1 DEF LeaseInv
  <2>4. QED
    BY <1>3, <2>1, <2>2, <2>3
<1>8. LeaseRespected'
  <2>1. SUFFICES ASSUME NEW x \in Workers, NEW y \in Workers, x # y,
                        held'[x].rows \cap held'[y].rows # {}
                 PROVE  \/ held'[x].revoked \/ held'[y].revoked
                        \/ held'[x].since + RetryBackoff <= held'[y].since
                        \/ held'[y].since + RetryBackoff <= held'[x].since
    BY DEF LeaseRespected
  <2>2. CASE x = w
    BY <1>4, <1>5, <1>7, <2>1, <2>2
  <2>3. CASE y = w
    BY <1>4, <1>5, <1>7, <2>1, <2>3
  <2>4. CASE x # w /\ y # w
    BY <1>5, <2>1, <2>4 DEF LeaseInv, LeaseRespected
  <2>5. QED
    BY <2>2, <2>3, <2>4
<1>9. ASSUME NEW x \in Workers
      PROVE  /\ held'[x].rows \subseteq 1..mon'.res.seq
             /\ \A i \in held'[x].rows :
                  /\ held'[x].since <= now'
                  /\ i \in DOMAIN mon'.res.rows /\ ~held'[x].revoked =>
                       Guarded(mon'.res.rows[i], held'[x].since, now')
  <2>1. CASE x = w
    BY <1>1, <1>2, <1>3, <1>4, <1>5, <1>6, <2>1
  <2>2. CASE x # w
    <3>1. held'[x] = held[x]
      BY <1>5, <2>2
    <3>2. ASSUME NEW i \in held[x].rows
          PROVE  /\ held[x].since <= now
                 /\ i \in DOMAIN mon'.res.rows /\ ~held[x].revoked =>
                      Guarded(mon'.res.rows[i], held[x].since, now)
      <4>1. held[x].since \in 0..now
        BY <1>1 DEF LeaseInv, HeldBatch
      <4>2. i \in DOMAIN mon'.res.rows => i \in DOMAIN mon.res.rows
        BY <1>6 DEF Rests, Stays
      <4>3. QED
        BY <1>6, <4>1, <4>2 DEF LeaseInv, Rests
    <3>3. QED
      BY <1>6, <3>1, <3>2 DEF LeaseInv
  <2>3. QED
    BY <2>1, <2>2
<1>10. QED
  BY <1>8, <1>9 DEF LeaseInv

LEMMA LeaseUp ==
  ASSUME IInv, LeaseInv, ReplayCommand \/ RuntimeCall,
         UNCHANGED <<phase, settings, file, work, now>>
  PROVE  LeaseInv'
<1>1. phase = "up" /\ held \in [Workers -> HeldBatch]
  BY DEF ReplayCommand, RuntimeCall, Bind, QueueReplay, AbortSession, StartReplay,
         ClaimBatchFor, AcknowledgeReplayBatch, FailReplay, AbortReplay, Holding, Owns, IInv
<1>2. CASE held' = held /\ Settles({})
  BY <1>1, <1>2, LeaseSettles
<1>3. CASE held' = held /\ Grows
  BY <1>1, <1>3, LeaseGrows
<1>4. ASSUME NEW w \in Workers, LetGo(w), Settles({}) PROVE LeaseInv'
  <2>1. \A x \in Workers : held'[x] = IF x = w THEN NoBatch ELSE held[x]
    BY <1>1, <1>4 DEF LetGo
  <2>2. NoBatch.rows = {}
    BY DEF NoBatch
  <2>3. QED
    BY <1>1, <1>4, <2>1, <2>2, LeaseSettles
<1>5. ASSUME NEW w \in Workers, NEW o \in Owners, ClaimedBy(w, o), Settles({})
      PROVE  LeaseInv'
  BY <1>1, <1>5, LeaseClaimed
<1>6. ASSUME NEW w \in Workers, AbortReplay(w), Settles(held[w].rows) PROVE LeaseInv'
  <2> DEFINE freed == held[w].rows
             taken(x) == held[x].revoked \/ held[x].rows \cap freed # {}
             n(x) == [held[x] EXCEPT !.revoked = taken(x)]
  <2>1. held' = [x \in Workers |-> IF x = w THEN NoBatch ELSE n(x)]
    BY <1>1, <1>6 DEF AbortReplay, HeldBatch
  <2>2. ASSUME NEW x \in Workers
        PROVE  /\ n(x).rows = held[x].rows /\ n(x).since = held[x].since
               /\ held[x].revoked => n(x).revoked
               /\ ~n(x).revoked => held[x].rows \cap freed = {}
    <3>1. held[x] \in [rows: SUBSET Nat, owner: Owners \cup {NULL}, since: Nat,
                       revoked: BOOLEAN]
      BY <1>1 DEF HeldBatch
    <3>2. n(x).rows = held[x].rows /\ n(x).since = held[x].since /\ n(x).revoked = taken(x)
      <4> HIDE DEF taken
      <4>1. QED
        BY <3>1
    <3>3. QED
      BY <3>2, Zenon
  <2>3. NoBatch.rows = {}
    BY DEF NoBatch
  <2> HIDE DEF n
  <2>4. \A x \in Workers :
          \/ held'[x].rows = {}
          \/ /\ held'[x].rows = held[x].rows /\ held'[x].since = held[x].since
             /\ held[x].revoked => held'[x].revoked
             /\ ~held'[x].revoked => held[x].rows \cap freed = {}
    BY <2>1, <2>2, <2>3
  <2>5. QED
    BY <1>1, <1>6, <2>4, LeaseSettles
<1>7. QED
  BY <1>2, <1>3, <1>4, <1>5, <1>6, CommandMoves, CallMoves

\* Time wears a guard out only as it ends the backoff.
LEMMA LeaseTick == ASSUME IInv, LeaseInv, Tick PROVE LeaseInv'
<1> USE ReplayAssumption
<1>1. /\ now \in Nat /\ now' = now + 1 /\ UNCHANGED <<phase, mon, held>>
      /\ held \in [Workers -> HeldBatch]
  BY DEF Tick, IInv
<1>2. ASSUME NEW w \in Workers, NEW i, Guarded(mon.res.rows[i], held[w].since, now)
      PROVE  Guarded(mon.res.rows[i], held[w].since, now + 1)
  <2>1. held[w].since \in Nat
    BY <1>1 DEF HeldBatch
  <2>2. QED
    BY <1>1, <1>2, <2>1 DEF Guarded
<1>3. \A w \in Workers : held[w].since \in Nat
  BY <1>1 DEF HeldBatch
<1>4. LeaseRespected'
  BY <1>1 DEF LeaseInv, LeaseRespected
<1>5. QED
  BY <1>1, <1>2, <1>3, <1>4 DEF LeaseInv

LEMMA LeaseStep == ASSUME IInv, LeaseInv, [Next]_vars PROVE LeaseInv'
<1>1. CASE (ReplayCommand \/ RuntimeCall) /\ UNCHANGED <<phase, settings, file, work, now>>
  BY <1>1, LeaseUp
<1>2. CASE UNCHANGED vars
  BY <1>2 DEF vars, LeaseInv, LeaseRespected
<1>3. QED
  BY <1>1, <1>2, LeaseDown, LeaseTick DEF Next

LEMMA LeaseInitially == Init => LeaseInv
  BY DEF Init, LeaseInv, LeaseRespected, NothingHeld, NoBatch

\* Two workers are at the same row only if the backoff has passed between
\* their claims, or an abort has taken the row back.
THEOREM LeasesHold == Spec => []LeaseRespected
<1>1. IInv /\ LeaseInv /\ [Next]_vars => LeaseInv'
  BY LeaseStep
<1>2. LeaseInv => LeaseRespected
  BY DEF LeaseInv
<1>3. QED
  BY LeaseInitially, <1>1, <1>2, Invariant, PTL DEF Spec

-----------------------------------------------------------------------------
(* Types.                                                                  *)

TypeInv ==
  /\ phase = "configured" <=> settings # NULL
  /\ phase # "up" => mon = NULL
  /\ phase # "migrating" => work = NULL
  /\ owner \in Owners \cup {NULL}

\* Every field has a value, and no other has.
LEMMA ConfiguredFields ==
  ASSUME NEW s \in ConfigSources, Resolves(s)
  PROVE  DOMAIN RuntimeConfig(Resolved(s)) = Fields
<1> DEFINE from == FileConfig(s)
           below == Merged(DefaultConfig, from)
           all == Merged(below, s.inline)
<1>1. DOMAIN s.inline \subseteq Fields
  BY ProcessAssumption DEF ConfigSources, Sources
<1>2. ASSUME NEW doc, Loads(doc) PROVE DOMAIN PartialConfig(doc) \subseteq Fields
  BY <1>2 DEF PartialConfig, Merged, LeftUndefined
<1>3. DOMAIN from \subseteq Fields
  BY <1>2 DEF FileConfig, Resolves, NoOverride
<1>4. ASSUME NEW base, NEW override
      PROVE  DOMAIN Merged(base, override) = (DOMAIN base) \cup DOMAIN override
  BY DEF Merged
<1>5. DOMAIN DefaultConfig = Fields
  BY DEF DefaultConfig
<1>6. RuntimeConfig(Resolved(s)) = Merged(DefaultConfig, all)
  BY DEF RuntimeConfig, Resolved
<1> HIDE DEF from
<1>7. DOMAIN below = Fields
  BY <1>3, <1>4, <1>5
<1> HIDE DEF below
<1>8. DOMAIN all = Fields
  BY <1>1, <1>4, <1>7
<1> HIDE DEF all
<1>9. DOMAIN Merged(DefaultConfig, all) = Fields
  <2>1. DOMAIN Merged(DefaultConfig, all) = Fields \cup Fields
    BY <1>4, <1>5, <1>8
  <2>2. QED
    BY <2>1, Zenon
<1>10. QED
  BY <1>6, <1>9, Zenon

LEMMA TypeStep == ASSUME IInv, TypeInv, [Next]_vars PROVE TypeInv'
<1>1. CASE Configure
  <2>1. settings' # NULL
    BY <1>1, ProcessAssumption DEF Configure
  <2>2. QED
    BY <1>1, <2>1 DEF Configure, TypeInv
<1>2. CASE OpenFile
  <2>1. phase = "configured" /\ settings' = NULL /\ owner' = owner /\ IsFile(file)
    BY <1>2 DEF OpenFile, IInv, FileInv, SoundFile
  <2>2. ASSUME NEW f, Started(f), work' = work PROVE TypeInv'
    BY <2>1, <2>2 DEF Started, TypeInv
  <2>3. QED
    BY <1>2, <2>1, <2>2, OpenFileCases DEF TypeInv
<1>3. CASE CommitMigration
  BY <1>3 DEF CommitMigration, Started, TypeInv
<1>4. CASE Migrate \/ StartFails \/ Close \/ Tick \/ UNCHANGED vars
  BY <1>4 DEF Migrate, StartFails, Close, Tick, vars, TypeInv
<1>5. CASE (ReplayCommand \/ RuntimeCall) /\ UNCHANGED <<phase, settings, file, work, now>>
  <2>1. phase = "up"
    BY <1>5 DEF ReplayCommand, RuntimeCall, Bind, QueueReplay, AbortSession, StartReplay,
           ClaimBatchFor, AcknowledgeReplayBatch, FailReplay, AbortReplay, Holding, Owns
  <2>2. owner' \in Owners \cup {NULL}
    <3>1. ASSUME NEW o \in Owners, Owns(o) PROVE owner' \in Owners
      BY <3>1 DEF Owns
    <3>2. ASSUME NEW w \in Workers, Holding(w) PROVE owner' \in Owners
      BY <3>2 DEF Holding, Owns, IInv, HeldByOwner
    <3>3. CASE RuntimeCall
      BY <3>3 DEF RuntimeCall, TypeInv
    <3>4. CASE StartReplay
      BY <3>1, <3>4 DEF StartReplay, Owners
    <3>5. QED
      BY <1>5, <3>1, <3>2, <3>3, <3>4
      DEF ReplayCommand, Bind, QueueReplay, AbortSession, ClaimBatchFor,
          AcknowledgeReplayBatch, FailReplay, AbortReplay
  <2>3. QED
    BY <1>5, <2>1, <2>2 DEF TypeInv
<1>6. QED
  BY <1>1, <1>2, <1>3, <1>4, <1>5 DEF Next

LEMMA Typed ==
  ASSUME IInv, ColumnsInv, LeaseInv, TypeInv
  PROVE  TypeOK
<1>1. settings # NULL => DOMAIN settings.config = Fields
  <2>1. SUFFICES ASSUME settings # NULL PROVE DOMAIN settings.config = Fields
    OBVIOUS
  <2>2. PICK s \in ConfigSources : Resolves(s) /\ settings = Settings(s)
    BY <2>1 DEF IInv, Settled
  <2>3. QED
    BY <2>2, ConfiguredFields DEF Settings
<1>2. /\ phase \in {"down", "configured", "migrating", "up"}
      /\ IF phase = "up" THEN file = NULL /\ IsMonitor(mon) ELSE IsFile(file) /\ mon = NULL
      /\ IF phase = "migrating" THEN IsFile(work) ELSE work = NULL
  BY DEF IInv, FileInv, SoundMon, SoundFile, TypeInv
<1>3. held \in [Workers -> Batch]
  <2>1. held \in [Workers -> HeldBatch] /\ MaxRows \in Nat
    BY ProcessAssumption DEF IInv
  <2>2. ASSUME NEW w \in Workers PROVE held[w].rows \subseteq 1..MaxRows
    <3>1. CASE held[w].rows = {}
      BY <3>1
    <3>2. CASE held[w].rows # {}
      <4>1. phase = "up" /\ SoundMon(mon)
        BY <3>2 DEF IInv, HeldByOwner, FileInv
      <4>2. mon.res.seq \in Nat /\ mon.res.seq <= MaxRows
        BY <4>1, MonitorParts DEF ColumnsInv
      <4>3. held[w].rows \subseteq 1..mon.res.seq
        BY <4>1 DEF LeaseInv
      <4>4. QED
        BY <2>1, <4>2, <4>3
    <3>3. QED
      BY <3>1, <3>2
  <2>3. ASSUME NEW w \in Workers PROVE held[w] \in Batch
    BY <2>1, <2>2 DEF HeldBatch, Batch
  <2>4. QED
    BY <2>1, <2>3
<1>4. QED
  BY <1>1, <1>2, <1>3 DEF IInv, TypeInv, TypeOK

\* Type correctness.
THEOREM TypeCorrect == Spec => []TypeOK
<1>1. Init => TypeInv
  BY DEF Init, TypeInv
<1>2. IInv /\ ColumnsInv /\ LeaseInv /\ TypeInv /\ [Next]_vars =>
        ColumnsInv' /\ LeaseInv' /\ TypeInv'
  BY ColumnsStep, LeaseStep, TypeStep
<1>3. IInv /\ ColumnsInv /\ LeaseInv /\ TypeInv => TypeOK
  BY Typed
<1>4. QED
  BY ColumnsInitially, LeaseInitially, <1>1, <1>2, <1>3, Invariant, PTL DEF Spec
=============================================================================
