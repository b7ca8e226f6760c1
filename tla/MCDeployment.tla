---------------------------- MODULE MCDeployment ----------------------------
(***************************************************************************)
(* Every combination of the settings that the start-up checks, the clients *)
(* and the gates look at, in a container and in one whose probe is         *)
(* overridden.                                                             *)
(***************************************************************************)
EXTENDS Deployment

SomeHosts ==
  {[override |-> "unset", kubernetes |-> FALSE, marker |-> TRUE],
   [override |-> "no", kubernetes |-> TRUE, marker |-> TRUE]}

\* All quotas, all but one of them, or none; reads gated with a clean token; the
\* escape hatch with a placeholder secret and SQLite, as the tests use it.
SomeSettings ==
  {s \in Settings :
     /\ s.comments = (s.database = "postgres")
     /\ s.auth_for_reads = (s.api_token = "clean")
     /\ s.quotas \in {Quotas \ {q} : q \in Quotas} \cup {Quotas, {}}
     /\ s.allow_insecure => s.webhook_secret = "placeholder" /\ s.database = "sqlite"}
=============================================================================
