--------------------------- MODULE MonitorProcess ---------------------------
(***************************************************************************)
(* A process around one MonitorRuntime that an application drives itself:  *)
(* it loads its configuration, opens the SQLite file, upgrading it where   *)
(* an older release has written it, replays by hand, closes or dies, and   *)
(* starts again.  Several workers of the application hold batches at once, *)
(* and answer as late as they like.  Writes that fail belong to module     *)
(* TransportMonitor.                                                       *)
(***************************************************************************)
EXTENDS ConfigOps, SchemaOps, OperatorOps

CONSTANTS
  Workers,        \* parts of the application that may hold a batch
  NamedFiles,     \* what the environment variable's path may hold
  DefaultFiles,   \* what monitor.config.json may hold
  Inlines,        \* overrides the application passes
  FirstFiles,     \* SQLite files the first process may find
  EventBytes,     \* serialized size of an event
  EventTimes,     \* event.ingestedAt of the events, NULL where it is not given
  BatchSize,      \* limit the workers claim with
  HealthReports,  \* pairs <<component, state>> the application reports
  MaxRows, MaxTime  \* bounds on row ids and on the clock

Owners == {"manual", "adapter"}

\* What a start may be configured from, and what it makes of it.
ConfigSources ==
  {Sources(TRUE, n, d, i) : n \in NamedFiles, d \in DefaultFiles, i \in Inlines}
    \cup {Sources(FALSE, NoFile, d, i) : d \in DefaultFiles, i \in Inlines}

Settings(s) == [sources |-> s, config |-> RuntimeConfig(Resolved(s))]

\* The application's configuration is of its type; a file holds what releases
\* have written, and one of the current version has right totals.
ASSUME ProcessAssumption ==
  /\ \A i \in Inlines : DOMAIN i \subseteq Fields
  /\ \A s \in ConfigSources : Resolves(s) => Settings(s) # NULL
  /\ \A f \in FirstFiles :
       /\ IsFile(f)
       /\ f.version = LatestVersion /\ AsReleased(f) => AccountingValid(f)
       /\ f.seq <= MaxRows
       /\ \A i \in DOMAIN f.rows : ReleasedRow(f.rows[i], f.version)
  /\ NULL \notin Owners
  /\ NULL \notin [rows: Nat, bytes: Nat]
  /\ EventBytes \in Nat
  /\ EventTimes \subseteq OptionalNat
  /\ BatchSize \in Nat
  /\ MaxRows \in Nat
  /\ HealthReports \subseteq Components \X HealthStates

VARIABLES
  phase,      \* down, configured, migrating or up
  settings,   \* what was configured, and from what, until the file is opened
  file,       \* the file, while no runtime is up
  work,       \* the file as the upgrade's open transaction sees it
  mon,        \* the monitor record of RuntimeOps, while one is up
  owner,      \* #replayOwner
  held,       \* for each worker the batch it holds
  now         \* the clock
vars == <<phase, settings, file, work, mon, owner, held, now>>

NoBatch == [rows |-> {}, owner |-> NULL, since |-> 0, revoked |-> FALSE]
NothingHeld == [w \in Workers |-> NoBatch]

Init ==
  /\ phase = "down"
  /\ settings = NULL
  /\ file \in FirstFiles
  /\ work = NULL
  /\ mon = NULL
  /\ owner = NULL
  /\ held = NothingHeld
  /\ now = 0

-----------------------------------------------------------------------------
(* Starting.                                                               *)

\* A configuration that does not resolve stops the start.
Configure ==
  /\ phase = "down"
  /\ \E s \in ConfigSources :
       /\ Resolves(s)
       /\ settings' = Settings(s)
  /\ phase' = "configured"
  /\ UNCHANGED <<file, work, mon, owner, held, now>>

\* A file that is refused is left as it is.
Started(f) ==
  IF Acceptable(f)
  THEN /\ phase' = "up"
       /\ mon' = Opened(ReservoirOf(f), now)
       /\ file' = NULL
  ELSE /\ phase' = "down"
       /\ file' = f
       /\ UNCHANGED mon

Upgradable(f) ==
  HasTables(f) /\ f.version < LatestVersion /\ StructureValid(f, TRUE)

\* applyMonitorSchema up to its first transaction, and to its end where it
\* needs only one.
OpenFile ==
  /\ phase = "configured"
  /\ settings' = NULL
  /\ CASE NewerThanSupported(file) ->
            phase' = "down" /\ UNCHANGED <<file, work, mon>>
       [] ~HasTables(file) ->
            Started(CurrentSchema(file)) /\ UNCHANGED work
       [] HasTables(file) /\ file.version < LatestVersion ->
            /\ IF StructureValid(file, TRUE)
               THEN phase' = "migrating" /\ work' = file
               ELSE phase' = "down" /\ UNCHANGED work
            /\ UNCHANGED <<file, mon>>
       [] file.version = LatestVersion ->
            Started(file) /\ UNCHANGED work
  /\ UNCHANGED <<owner, held, now>>

Migrate ==
  /\ phase = "migrating"
  /\ work.version < LatestVersion
  /\ ~MigrationThrows(work)
  /\ work' = Migration(work)
  /\ UNCHANGED <<phase, settings, file, mon, owner, held, now>>

CommitMigration ==
  /\ phase = "migrating"
  /\ work.version = LatestVersion
  /\ Started(work)
  /\ work' = NULL
  /\ UNCHANGED <<settings, owner, held, now>>

\* Mutant: what a migration did before it failed stays.
StartFailsMidway ==
  /\ phase \in {"configured", "migrating"}
  /\ phase' = "down"
  /\ settings' = NULL
  /\ work' = NULL
  /\ file' = IF phase = "migrating" THEN work ELSE file
  /\ UNCHANGED <<mon, owner, held, now>>
\* The start is given up, by a crash or by an error that rolls back.
StartFails ==
  /\ phase \in {"configured", "migrating"}
  /\ phase' = "down"
  /\ settings' = NULL
  /\ work' = NULL
  /\ UNCHANGED <<file, mon, owner, held, now>>

\* close, or the process dies; what workers hold is of no use any more.
Close ==
  /\ phase = "up"
  /\ phase' = "down"
  /\ file' = FileOf(mon.res)
  /\ mon' = NULL
  /\ owner' = NULL
  /\ held' = NothingHeld
  /\ UNCHANGED <<settings, work, now>>

-----------------------------------------------------------------------------
(* Replay by hand.                                                         *)

\* Mutant: ownership is checked but not taken.
OwnsUnbound(o) == phase = "up" /\ owner \in {NULL, o} /\ UNCHANGED owner
\* #assertOpen and #assertReplayOwnership, which binds on the first command.
Owns(o) == phase = "up" /\ owner \in {NULL, o} /\ owner' = o

Bind(o) == Owns(o) /\ UNCHANGED <<mon, held>>

QueueReplay(o) ==
  /\ Owns(o)
  /\ mon' = QueueIfNeeded(mon, now)
  /\ UNCHANGED held

StartReplay ==
  /\ Owns("manual")
  /\ mon' = CASE StartAllowed(mon, now) -> ReplayStarted(mon, now)
              [] ~StartAllowed(mon, now) /\ TargetsOnline(mon) ->
                   QueueIfNeeded(mon, now)
              [] OTHER -> mon
  /\ UNCHANGED held

ClaimBatchFor(w, o) ==
  /\ held[w] = NoBatch
  /\ Owns(o)
  /\ IF ClaimAllowed(mon, now)
     THEN /\ mon' = BatchClaimed(mon, BatchSize, now)
          /\ held' = [held EXCEPT ![w] =
               [rows |-> ReplayBatch(mon, BatchSize, now), owner |-> o,
                since |-> now, revoked |-> FALSE]]
     ELSE mon' = ClaimRejected(mon, now) /\ UNCHANGED held

Holding(w) == held[w].rows # {} /\ Owns(held[w].owner)
LetGo(w) == held' = [held EXCEPT ![w] = NoBatch]

AcknowledgeReplayBatch(w) ==
  /\ Holding(w)
  /\ mon' = AcknowledgeBatch(mon, held[w].rows, now)
  /\ LetGo(w)

FailReplay(w) ==
  /\ Holding(w)
  /\ mon' = Fail(mon, held[w].rows, now)
  /\ LetGo(w)

\* abortReplay with the batch; it may take rows from a worker that claimed
\* them since.
AbortReplay(w) ==
  /\ Holding(w)
  /\ mon' = Aborted(mon, held[w].rows, now)
  /\ held' = [x \in Workers |->
       IF x = w THEN NoBatch
       ELSE [held[x] EXCEPT !.revoked = @ \/ held[x].rows \cap held[w].rows # {}]]

\* abortReplay with no rows: what is held stays held.
AbortSession(o) ==
  /\ Owns(o)
  /\ mon' = Aborted(mon, {}, now)
  /\ UNCHANGED held

ReplayCommand ==
  \/ \E o \in Owners : Bind(o) \/ QueueReplay(o) \/ AbortSession(o)
  \/ StartReplay
  \/ \E w \in Workers :
       \/ \E o \in Owners : ClaimBatchFor(w, o)
       \/ AcknowledgeReplayBatch(w) \/ FailReplay(w) \/ AbortReplay(w)

-----------------------------------------------------------------------------
(* The runtime's other operations.                                         *)

IngestTransportEvent ==
  /\ mon.res.seq < MaxRows
  /\ Admits(mon, EventBytes)
  /\ \E ingestedAt \in EventTimes :
       mon' = Ingested(mon, EventBytes, IngestTime(ingestedAt, now))

ObserveDedupeEvent ==
  /\ mon.res.seq < MaxRows
  /\ \E ingestedAt \in EventTimes :
       mon' = Observed(mon, EventBytes, IngestTime(ingestedAt, now))

\* acknowledgeIngressDelivery of what was delivered live, also repeatedly.
AcknowledgeIngressDelivery ==
  \E i \in DOMAIN mon.res.rows :
    /\ mon.res.rows[i].mode \in {"normal", "dedupe_bypass"}
    /\ mon' = RowsDelivered(mon, {i}, now)

UpdateComponentHealth ==
  \E report \in HealthReports :
    mon' = HealthUpdated(mon, report[1], report[2], now)

ObserveHeartbeat ==
  \E component \in {report[1] : report \in HealthReports} :
    mon' = HeartbeatSeen(mon, component, now)

RefreshHealthStates == mon' = HealthRefreshed(mon, now)
PruneReservoir == mon' = Pruned(mon, now)

RuntimeCall ==
  /\ phase = "up"
  /\ \/ IngestTransportEvent
     \/ ObserveDedupeEvent
     \/ AcknowledgeIngressDelivery
     \/ UpdateComponentHealth
     \/ ObserveHeartbeat
     \/ RefreshHealthStates
     \/ PruneReservoir
  /\ UNCHANGED <<owner, held>>

Tick ==
  /\ now < MaxTime
  /\ now' = now + 1
  /\ UNCHANGED <<phase, settings, file, work, mon, owner, held>>

Next ==
  \/ Configure
  \/ OpenFile
  \/ Migrate
  \/ CommitMigration
  \/ StartFails
  \/ Close
  \/ (ReplayCommand \/ RuntimeCall) /\ UNCHANGED <<phase, settings, file, work, now>>
  \/ Tick

Spec == Init /\ [][Next]_vars

-----------------------------------------------------------------------------
Batch == [rows: SUBSET (1..MaxRows), owner: Owners \cup {NULL}, since: Nat,
          revoked: BOOLEAN]

TypeOK ==
  /\ phase \in {"down", "configured", "migrating", "up"}
  /\ phase = "configured" <=> settings # NULL
  /\ settings # NULL => DOMAIN settings.config = Fields
  /\ IF phase = "up" THEN file = NULL /\ IsMonitor(mon) ELSE IsFile(file) /\ mon = NULL
  /\ IF phase = "migrating" THEN IsFile(work) ELSE work = NULL
  /\ owner \in Owners \cup {NULL}
  /\ held \in [Workers -> Batch]
  /\ now \in Nat

\* docs/configuration.md "Precedence and Failure Behavior": the file a path in
\* the environment names is authoritative, and a field it gives is overridden
\* by nothing but the application's own configuration.
GivenBy(s, f) ==
  LET doc == IF s.pathGiven THEN s.namedFile ELSE s.defaultFile
  IN  CASE f \in DOMAIN s.inline -> <<s.inline[f]>>
        [] f \notin DOMAIN s.inline /\ doc # NoFile /\ f \in DOMAIN doc -> <<doc[f]>>
        [] OTHER -> <<>>
ConfigPrecedence ==
  settings # NULL =>
    \A f \in Fields :
      GivenBy(settings.sources, f) # <<>> =>
        <<settings.config[f]>> = GivenBy(settings.sources, f)

\* The same document: what no source gives has the package's default.
DefaultsKept ==
  settings # NULL =>
    \A f \in Fields :
      GivenBy(settings.sources, f) = <<>> => settings.config[f] = Defaults

Upgraded(f) ==
  LET from0 == IF Upgradable(f) THEN Migration(f) ELSE f
      from1 == IF Upgradable(from0) THEN Migration(from0) ELSE from0
  IN  IF Upgradable(from1) THEN Migration(from1) ELSE from1

\* No file of this or an older release ever becomes one that a start refuses:
\* not by the upgrade, nor by anything done to the rows since, nor by a death
\* in between.
NeverBricked ==
  file # NULL /\ HasTables(file) /\ AsReleased(file) /\ ~NewerThanSupported(file) =>
    Acceptable(Upgraded(file))

\* The start that does write before it refuses: no migration notices that a
\* file of version 2 lacks what version 2 had, the full check that does comes
\* after the commit.  The file g is then of the current version with the sizes
\* of its rows measured, is lost for this release as f was, and otherwise holds
\* what f held.
RewrittenInVain(f, g) ==
  /\ f.version = 2 /\ ~AsReleased(f)
  /\ g.version = LatestVersion /\ ~Acceptable(g)
  /\ g.seq = f.seq
  /\ g.rows = [i \in DOMAIN f.rows |-> [f.rows[i] EXCEPT !.bytes = f.sizes[i]]]

\* docs/schema-compatibility.md: "Newer, incomplete, or structurally
\* incompatible schemas fail before mutation."  What the code does: a start
\* that refuses a file, or dies, leaves it as it was, with the one rewriting
\* that this sentence denies, and which costs no event.
RefusedUntouched ==
  [][phase # "up" /\ phase' = "down" =>
       file' = file \/ RewrittenInVain(file, file')]_vars

\* Once a runtime is up the columns agree with the states also in rows that an
\* older release has written: else retention or replay would overlook them.
OpenedSound ==
  phase = "up" =>
    /\ AccountingMatches(mon.res)
    /\ \A i \in DOMAIN mon.res.rows :
         LET row == mon.res.rows[i]
         IN  /\ row.claimedAt # NULL <=> row.state = "replaying"
             /\ row.terminalAt # NULL <=> row.state \in TerminalStates

Stored == IF phase = "up" THEN mon.res.rows ELSE file.rows
StateAfterStart(row) ==
  IF phase' = "up" /\ row.state = "replaying" THEN "pending" ELSE row.state

\* Starting, failing to start, upgrading and closing keep every event with its
\* place in the order, its mode and its retry deadline; only claims of a
\* process that has gone are released.
RestartKeepsEvents ==
  [][phase # "up" \/ phase' # "up" =>
       /\ DOMAIN Stored' = DOMAIN Stored
       /\ \A i \in DOMAIN Stored :
            /\ Stored'[i].state = StateAfterStart(Stored[i])
            /\ Stored'[i].ingestAt = Stored[i].ingestAt
            /\ Stored'[i].mode = Stored[i].mode
            /\ Stored'[i].retryAt = Stored[i].retryAt]_vars

\* Replay has one owner: batches claimed for the application itself and for an
\* adapter are never out at the same time, whoever came first.
ReplayUnderOneOwner ==
  \A w, x \in Workers :
    held[w].rows # {} /\ held[x].rows # {} => held[w].owner = held[x].owner

\* A claim is a lease: a row goes to a second worker while the first may still
\* be at it only after the backoff, or if an abort took it back in between.
LeaseRespected ==
  \A w, x \in Workers :
    w # x /\ held[w].rows \cap held[x].rows # {} =>
      \/ held[w].revoked \/ held[x].revoked
      \/ held[w].since + RetryBackoff <= held[x].since
      \/ held[x].since + RetryBackoff <= held[w].since

\* What the inspector shows of live flow that replay holds back, by its own
\* reading of the state: never that all is healthy, and, with two exceptions,
\* that events are buffered and what they wait for.  A failed session whose
\* backoff is over is overlooked by the operational state, which announces live
\* flow beside a status that asks for attention, while the gate is closed.  Of
\* an aborted session only the status tells.
HeldFlowIsShown ==
  phase = "up" /\ HeldForReplay(mon) =>
    LET aborted == mon.session.state = "aborted"
        overlooked == mon.session.state = "failed" /\ ~BackoffShown(mon, now)
    IN  \A tier \in Tiers, pressure \in Pressures :
          /\ StatusShown(mon, tier, pressure, now) # "healthy"
          /\ ~aborted => AdmissionShown(mon, tier, now) = AdmissionDecided(mon)
          /\ ~aborted /\ ~overlooked =>
               OperationalState(mon, now)
                 \in {"replay_retry_waiting", "recovery_confirming", "replay_draining"}
          /\ overlooked =>
               /\ OperationalState(mon, now) = "healthy_live"
               /\ StatusShown(mon, tier, pressure, now) = "attention_required"
=============================================================================
