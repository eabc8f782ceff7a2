------------------------------ MODULE WhoisMC ------------------------------
(***************************************************************************)
(* WhoisTr for TLC, and what the documentation says of it that the code    *)
(* does not do.                                                            *)
(***************************************************************************)
EXTENDS WhoisTr

\* No status, one that does not matter, and two that do, the nearer one last.
FewLists == {<<>>, <<"other">>, <<"redemptionperiod", "pendingdelete">>}

\* "Rate-limit / truncated / unparseable answers raise RateLimited or
\* Inconclusive" (whois_tr.py:10-11): a record that was cut is not accepted.
TruncatedRejected ==
    conn = "done" /\ ~whole /\ truth.kind = "taken" =>
        outcome.raised \in {"RateLimited", "Inconclusive"}
=============================================================================
