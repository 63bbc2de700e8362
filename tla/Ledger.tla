------------------------------- MODULE Ledger -------------------------------
(***************************************************************************)
(* What the reservoir promises to those who hand it events: an event that  *)
(* was accepted stays on the books until it is settled, its number is      *)
(* never given to another event, and the backlog that is reported is the   *)
(* number of events still open.                                            *)
(***************************************************************************)
EXTENDS Integers, FiniteSets

CONSTANT Forgetful   \* settled events may be struck off as they are settled

VARIABLES
  open,      \* numbers of the events that are accepted and not settled
  settled,   \* numbers of those that are settled and still on the books
  mark,      \* every number given out so far is at or below it
  backlog    \* what is reported
vars == <<open, settled, mark, backlog>>

Books == open \cup settled

Init == open = {} /\ settled = {} /\ mark = 0 /\ backlog = 0

\* The books balance after every step.
Balanced ==
  /\ open' \cap settled' = {}
  /\ Books' \subseteq 1..mark'
  /\ backlog' = Cardinality(open')

\* One event enters, open or settled at once, under a fresh number.
Accept ==
  /\ mark' > mark
  /\ Books' = Books \cup {mark'}
  /\ open \subseteq open' /\ settled \subseteq settled'
  /\ Balanced

\* Events are settled, or taken up again; none enters or leaves.
Reclassify == mark' = mark /\ Books' = Books /\ Balanced

\* Settled events are struck off, and open ones may be settled by the same step.
Retire ==
  /\ mark' = mark
  /\ open' \subseteq open
  /\ Books' \subseteq Books
  /\ Books \ Books' \subseteq IF Forgetful THEN Books ELSE settled
  /\ Balanced

Next == Accept \/ Reclassify \/ Retire
Spec == Init /\ [][Next]_vars
=============================================================================
