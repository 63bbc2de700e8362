--------------------------- MODULE MCQualification --------------------------
(* Constant values of the run of the qualification.                        *)
EXTENDS Qualification

MCLong == [c \in Components |-> 100]
MCPhaseEnds == <<0, 1, 2, 4, 6, 6, 7, 8>>
=============================================================================
