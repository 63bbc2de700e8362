----------------------------- MODULE ConfigOps ------------------------------
(***************************************************************************)
(* How a configuration comes about (src/src/config.ts).                    *)
(*                                                                         *)
(* A field is a pair <<section, key>>.  A document, the content of a       *)
(* configuration file, is a function from the fields it gives to values,   *)
(* and a section it gives without a key is a field of that section of its  *)
(* own; an override is a function from fields too, in which a field may    *)
(* also have the value Undefined: JavaScript keeps a key whose value is    *)
(* undefined, and a spread copies it.                                      *)
(***************************************************************************)
CONSTANTS
  Defaults,    \* the value every default stands for
  Undefined,   \* JavaScript undefined
  Invalid,     \* a value its field's validator throws at
  NoFile       \* there is no file under the path

\* A document is what each key of each section holds, or nothing: the optional
\* members of MonitorJsonConfig.
Keys(section, names) == {section} \X names

\* The keys each section's parser allows.
ReservoirFields ==
  Keys("reservoir",
       {"databasePath", "rollingBufferWindowMs", "fullOutageMaxWindowMs",
        "pruneIntervalMs", "pruneBatchSize", "deliveredRetentionMs",
        "deadLetterRetentionMs", "walAutoCheckpointPages"})
CapacityFields ==
  Keys("reservoir.capacity",
       {"maxSerializedEventBytes", "maxPendingRows", "maxPendingSerializedBytes",
        "filesystemReserve", "overflowPolicy"})
TransportFields ==
  Keys("transport", {"heartbeatGraceMs", "reconnectBurstWindowMs", "sourceLabel"})
HealthSections == {"health.transport", "health.dedupe", "health.causalOrder"}
HealthFields == HealthSections \X {"degradedAfterMs", "offlineAfterMs"}
TierSections == {"throttle.open", "throttle.slow", "throttle.verySlow", "throttle.paused"}
TierFields == TierSections \X {"maxEventsPerSecond", "batchSize"}
DefaultTier == <<"throttle", "defaultTier">>
ReplayFields ==
  Keys("replay", {"healthConfirmationHeartbeats", "pauseLiveFlowDuringReplay",
                  "retryBackoffMs"})
StartupFields == Keys("startup", {"healthPolicy"})
LifecycleFields ==
  Keys("lifecycle", {"queueCapacity", "overflowPolicy", "shutdownFlushTimeoutMs"})

Fields ==
  ReservoirFields \cup CapacityFields \cup TransportFields \cup HealthFields
    \cup TierFields \cup {DefaultTier} \cup ReplayFields \cup StartupFields
    \cup LifecycleFields

\* The section is there, whatever its keys.
Given(section) == <<section, "{}">>
GivenSections == {Given(f[1]) : f \in Fields}

\* Whether reading and parsing a file succeeds.
Loads(doc) ==
  /\ doc # NoFile
  /\ DOMAIN doc \subseteq Fields \cup GivenSections
  /\ \A f \in DOMAIN doc : doc[f] # Invalid

\* Two parsers leave a key out that the document does not give; the others
\* return all keys of a section that is there.  The reservoir section is there
\* when only its capacity is given.
OmittingFields == CapacityFields \cup LifecycleFields
Mentions(doc, section) ==
  \/ \E f \in DOMAIN doc : f[1] = section
  \/ section = "reservoir" /\ \E f \in DOMAIN doc : f[1] = "reservoir.capacity"

\* mergeMonitorConfig, section by section: a spread over a spread.
Merged(base, override) ==
  [f \in DOMAIN base \cup DOMAIN override |->
     IF f \in DOMAIN override THEN override[f] ELSE base[f]]

\* resolvePartialMonitorConfig, which names the default tier in any case.
LeftUndefined(doc) ==
  {f \in Fields \ (OmittingFields \cup DOMAIN doc) :
     Mentions(doc, f[1]) \/ f = DefaultTier}
PartialConfig(doc) ==
  Merged([f \in LeftUndefined(doc) |-> Undefined],
         [f \in Fields \cap DOMAIN doc |-> doc[f]])

DefaultConfig == [f \in Fields |-> Defaults]
NoOverride == [f \in {} |-> Defaults]

\* resolveMonitorConfigFromEnvironment.  pathGiven says that the variable names
\* a path that is not blank.
Sources(pathGiven, namedFile, defaultFile, inline) ==
  [pathGiven |-> pathGiven, namedFile |-> namedFile,
   defaultFile |-> defaultFile, inline |-> inline]

Resolves(s) ==
  IF s.pathGiven THEN Loads(s.namedFile)
  ELSE s.defaultFile = NoFile \/ Loads(s.defaultFile)

\* Mutant: the file in the working directory is read first.
FileConfigDefaultFirst(s) ==
  IF s.defaultFile # NoFile THEN PartialConfig(s.defaultFile)
  ELSE IF s.pathGiven THEN PartialConfig(s.namedFile) ELSE NoOverride
FileConfig(s) ==
  IF s.pathGiven THEN PartialConfig(s.namedFile)
  ELSE IF s.defaultFile = NoFile THEN NoOverride ELSE PartialConfig(s.defaultFile)

Resolved(s) == Merged(Merged(DefaultConfig, FileConfig(s)), s.inline)

\* The constructor of MonitorRuntime merges once more.
RuntimeConfig(config) == Merged(DefaultConfig, config)
=============================================================================
