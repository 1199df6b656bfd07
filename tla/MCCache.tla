------------------------------ MODULE MCCache -------------------------------
(* Small instances of Cache for TLC: everything configured, a stale window *)
(* alone, and nothing.                                                     *)
EXTENDS Cache

MCOptions == {[sliding |-> TRUE, stale |-> TRUE, negative |-> TRUE],
              [sliding |-> FALSE, stale |-> TRUE, negative |-> FALSE],
              [sliding |-> FALSE, stale |-> FALSE, negative |-> FALSE]}
=============================================================================
