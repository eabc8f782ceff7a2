----------------------------- MODULE Lifecycle -----------------------------
(***************************************************************************)
(* The lifecycle states of a watched domain and the pure decisions taken   *)
(* on them (app/lifecycle.py).  A lookup's result is abstracted to what    *)
(* classify reads of it: the answer "available", the two status words it   *)
(* looks for, where the expiration date lies, and whether there is any     *)
(* status at all.                                                          *)
(***************************************************************************)
EXTENDS Integers

\* is_escalation's order, from the furthest to the nearest to a purchase.
Rank == [UNKNOWN |-> 0, ACTIVE |-> 1, EXPIRING |-> 2, EXPIRED_GRACE |-> 3,
         REDEMPTION |-> 4, PENDING_DELETE |-> 5, AVAILABLE |-> 6]

States == DOMAIN Rank

CriticalStates == {"REDEMPTION", "PENDING_DELETE", "AVAILABLE"}

\* "redemptionperiod" stands for "pendingrestore" too.
LookupResult == [available : BOOLEAN,
                 words : SUBSET {"pendingdelete", "redemptionperiod"},
                 expiry : {"unknown", "past", "soon", "far"},
                 statuses : BOOLEAN]

\* Mutant: an answer without any hint has no state.
ClassifyOpaque(r) ==
    CASE r.available                    -> "AVAILABLE"
      [] ~r.available /\ r.words # {}   -> "PENDING_DELETE"
      [] ~r.available /\ r.expiry = "past" -> "EXPIRED_GRACE"
      [] OTHER -> IF r.statuses THEN "ACTIVE" ELSE "none"

\* classify: the status words before the expiration date, that before nothing.
Classify(r) ==
    CASE r.available                        -> "AVAILABLE"
      [] ~r.available /\ "pendingdelete" \in r.words -> "PENDING_DELETE"
      [] ~r.available /\ r.words = {"redemptionperiod"} -> "REDEMPTION"
      [] ~r.available /\ r.words = {} /\ r.expiry = "past" -> "EXPIRED_GRACE"
      [] ~r.available /\ r.words = {} /\ r.expiry = "soon" -> "EXPIRING"
      [] ~r.available /\ r.words = {} /\ r.expiry = "far"  -> "ACTIVE"
      [] OTHER -> IF r.statuses THEN "ACTIVE" ELSE "UNKNOWN"

\* is_escalation
IsEscalation(old, new) == Rank[new] > Rank[old]

\* check_once alerts on a change of state only.
Alertable(old, new) ==
    /\ new # old
    /\ IsEscalation(old, new) \/ new \in CriticalStates
=============================================================================
