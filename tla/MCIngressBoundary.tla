------------------------- MODULE MCIngressBoundary --------------------------
(* Constant values of the boundary run.                                    *)
EXTENDS IngressBoundary, TLC

MCLong == [c \in Components |-> 100]
MCNone == {}
CONSTANTS p1, p2, p3
MCSymmetry == Permutations({p1, p2})
MCDedupeReports == {<<"dedupe", "offline">>, <<"dedupe", "online">>}
MCFaults == {"live"}
MCWriteErrors == {"busy", "io", "no_transaction"}
=============================================================================
