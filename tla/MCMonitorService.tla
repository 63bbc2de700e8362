-------------------------- MODULE MCMonitorService --------------------------
(* Constant values of the service run.                                     *)
EXTENDS MonitorService

MCEventTypes == {TickEvent}
MCInterest == [s \in Subscribers |-> TickEvent]
MCInterval == [d \in Duties |-> 1]
MCApplications == {Subscribers \cup Flushers \cup Stoppers} \cup
                  {{Callbacks, c} : c \in {CHOOSE c \in Stoppers : TRUE}}
MCFaults == {"probe", "reconcile", "onError"}
=============================================================================
