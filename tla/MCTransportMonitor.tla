------------------------- MODULE MCTransportMonitor -------------------------
(* Constant values of the adapter runs.                                    *)
EXTENDS TransportMonitor

MCLong == [c \in Components |-> 100]
MCShort == [c \in Components |-> IF c = "transport" THEN 100 ELSE 1]
MCShortOffline == [c \in Components |-> IF c = "transport" THEN 100 ELSE 2]

MCOrderOutages == {<<"causal-order", "offline">>, <<"causal-order", "online">>}
MCFromOrder == {"causal-order"}
MCFromTargets == {"dedupe", "causal-order"}

MCReplayFaults == {"replay"}
MCHandlerFaults == {"live", "replay"}
MCAllFaults == {"live", "replay", "observer", "storage"}
=============================================================================
