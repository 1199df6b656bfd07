------------------------------- MODULE MCCron -------------------------------
(* A small instance of Cron, over every policy. *)
EXTENDS Cron
=============================================================================
