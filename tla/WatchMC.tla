------------------------------ MODULE WatchMC ------------------------------
(***************************************************************************)
(* Watch for TLC, and what the documentation says of it that the code does *)
(* not do.                                                                 *)
(***************************************************************************)
EXTENDS Watch

\* What a registry can answer over the life of a domain.
Registered    == [available |-> FALSE, words |-> {}, expiry |-> "far",
                  statuses |-> TRUE]
PendingDelete == [available |-> FALSE, words |-> {"pendingdelete"},
                  expiry |-> "past", statuses |-> TRUE]
Free          == [available |-> TRUE, words |-> {}, expiry |-> "unknown",
                  statuses |-> TRUE]
Opaque        == [available |-> FALSE, words |-> {}, expiry |-> "unknown",
                  statuses |-> FALSE]

\* The last answers before the domain is free, and all of them but the queue.
Ending  == {PendingDelete, Opaque, Free}
Renewed == {Registered, Free}

-----------------------------------------------------------------------------
\* "AVAILABLE -- 1 min + ALERT + ..." (README.en.md:282): with a monitor that
\* never dies and a database that never fails, a domain that becomes free and
\* is polled again and again is alerted, at least as far as the channels.
AvailabilityIsAlerted ==
    \A d \in Domains :
        (/\ [](up /\ dbOk)
         /\ <>[]truth[d].available
         /\ []<><<LookupAnswers(d)>>_vars)
        => <>(mon.at = "send" /\ mon.dom = d /\ mon.seen = "AVAILABLE")
=============================================================================
