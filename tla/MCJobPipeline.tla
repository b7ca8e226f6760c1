--------------------------- MODULE MCJobPipeline ---------------------------
(***************************************************************************)
(* Values of the constants of JobPipeline for TLC.                         *)
(***************************************************************************)
EXTENDS JobPipeline, TLC

CONSTANTS w1, w2, t1, t2

\* Two processes with one handler thread each.
MCPaired == (t1 :> w1) @@ (t2 :> w2)

\* One process with a pool of two threads.
MCPool == (t1 :> w1) @@ (t2 :> w1)

\* Control points at which a death leaves nothing stranded.
MCSafePoints == {"claim", "confirm", "escalate", "ack"}

\* Every control point.
MCAllPoints == {"claim", "xadd", "confirm", "release", "escalate", "run", "record", "ack"}

MCAllFaults == FaultKinds
=============================================================================
