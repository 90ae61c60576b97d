-------------------------- MODULE MCTombstoneRecovery --------------------------
(* A small instance of TombstoneRecovery for TLC: attempts in the order of their keys. *)
EXTENDS TombstoneRecovery

CONSTANT Attempts

Ranks == 1..Attempts
=============================================================================
