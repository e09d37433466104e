------------------------------- MODULE MCWorker -------------------------------
(* Instances of Worker for TLC. *)
EXTENDS Worker

CONSTANTS a, b

TwoClients == {a, b}
OneOwner == {a}

=============================================================================
