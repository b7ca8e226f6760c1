------------------------- MODULE MCReviewDecisions -------------------------
(***************************************************************************)
(* Instances of ReviewDecisions for TLC: all requests in one API process,  *)
(* or the first in one and the others in another.                          *)
(***************************************************************************)
EXTENDS ReviewDecisions

CONSTANTS h1, a1, a2

MCOneApi  == [h \in Requests |-> a1]
MCTwoApis == [h \in Requests |-> IF h = h1 THEN a1 ELSE a2]

=============================================================================
