-------------------------- MODULE MCMonitorProcess --------------------------
(* Constant values of the process runs.                                    *)
EXTENDS MonitorProcess, Sequences, TLC

MCLong == [c \in Components |-> 100]
MCOrderOutages == {<<"causal-order", "offline">>, <<"causal-order", "online">>}
MCSymmetry == Permutations(Workers)

MCBackoff == <<"replay", "retryBackoffMs">>
MCCapacity == <<"lifecycle", "queueCapacity">>

\* One or two fields of a file are given, or a section without any, or one is
\* wrong, or one unknown.
MCNamed ==
  {NoFile, MCBackoff :> "named", MCBackoff :> Invalid,
   MCCapacity :> "named" @@ DefaultTier :> "named"}
MCDefault ==
  {NoFile, MCBackoff :> "default", <<"replay", "retries">> :> "default",
   MCCapacity :> "default", Given("replay") :> "default"}
MCInline == {NoOverride, MCBackoff :> "inline"}
MCOneDefault == {NoFile, MCBackoff :> "default"}
MCNoInline == {NoOverride}

LegacyRow(version, state) ==
  [ingestAt |-> 0, bytes |-> IF version < 3 THEN 0 ELSE EventBytes,
   mode |-> "order_buffer_only", state |-> state, retryAt |-> NULL,
   claimedAt |-> IF version > 0 /\ state = "replaying" THEN 0 ELSE NULL,
   terminalAt |-> IF version > 1 /\ state \in TerminalStates THEN 0 ELSE NULL]
LegacyFile(version, states) ==
  [version |-> version, seq |-> Len(states),
   rows |-> [i \in DOMAIN states |-> LegacyRow(version, states[i])],
   sizes |-> [i \in DOMAIN states |-> EventBytes], totals |-> NULL,
   tables |-> TRUE, lacks |-> Later(version)]
MCLegacyStates == {<<"replaying", "delivered">>, <<"pending">>, <<"dead_letter", "pending">>}
MCIncomplete ==
  {[NoTables EXCEPT !.tables = TRUE],
   [LegacyFile(1, <<"pending">>) EXCEPT !.lacks = @ \cup {"retry"}],
   [LegacyFile(2, <<"pending">>) EXCEPT !.lacks = @ \cup {"retry"}],
   [LegacyFile(3, <<"pending">>) EXCEPT !.lacks = {"core"}]}
MCFiles ==
  {NoTables, [NoTables EXCEPT !.version = 4]} \cup MCIncomplete
    \cup {LegacyFile(v, states) : v \in 0..2, states \in MCLegacyStates}
MCNoTables == {NoTables}
=============================================================================
