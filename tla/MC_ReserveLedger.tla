-------------------------- MODULE MC_ReserveLedger --------------------------
(* ReserveLedger on a small instance. *)
EXTENDS ReserveLedger
=============================================================================
