----------------------------- MODULE ScheduleMC -----------------------------
(***************************************************************************)
(* Schedule for TLC, and what the documentation says of it that the code   *)
(* does not do.                                                            *)
(***************************************************************************)
EXTENDS Schedule

CONSTANTS comtr, com

TwoDomains == <<comtr, com>>

\* "Container health probe: DB reachable and the loop is still updating it."
\* (healthcheck.py:1): a loop that has hung for longer than the probe's window
\* is reported, when nobody else updates the database.
HangNoticed == at = "hung" /\ hung > StaleAfter => ~Healthy
=============================================================================
