-------------------------- MODULE MCAppCredentials --------------------------
(***************************************************************************)
(* An instance of AppCredentials for TLC: the threads are interchangeable. *)
(***************************************************************************)
EXTENDS AppCredentials, TLC

Symmetric == Permutations(Threads)

=============================================================================
