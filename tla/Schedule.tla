------------------------------ MODULE Schedule ------------------------------
(***************************************************************************)
(* The monitor's loop (monitor.main) with its clock, and the container's   *)
(* health probe (healthcheck.main) that looks at what the loop leaves in   *)
(* the database.                                                           *)
(*                                                                         *)
(* Time is kept as distances from now: wait[d] is schedule[d] minus        *)
(* time.monotonic(), and is negative while a domain that is due has to     *)
(* wait.  Only lookups, alerts, throttles and sleeps take time.  The clock *)
(* stands still while the process is down.                                 *)
(***************************************************************************)
EXTENDS Lifecycle, Sequences

CONSTANTS
    Domains,        \* DOMAINS, in the order of the list
    TrDomains,      \* those whose lookups go to the throttled WHOIS server
    PollNormal, PollExpiring, PollCritical, PollJitter,   \* POLL_*_SECONDS
    WhoisInterval,  \* WHOIS_TR_MIN_INTERVAL
    MaxDoublings,   \* the 5 of check_once's backoff
    BackoffCap,     \* its 3600
    MinNap, MaxNap, \* the 1 and the 60 of main's sleep
    MaxWork,        \* longest check, without the throttle
    MaxBeat,        \* longest heartbeat
    Operator        \* whether an operator runs "cli check"

Dom == {Domains[i] : i \in DOMAIN Domains}

ASSUME DomainsAssumption ==
    /\ Domains \in Seq(Dom) /\ Domains # <<>>
    /\ \A i, j \in DOMAIN Domains : Domains[i] = Domains[j] => i = j
    /\ TrDomains \subseteq Dom
ASSUME PollAssumption ==
    /\ PollCritical \in Nat \ {0} /\ PollExpiring \in Nat /\ PollNormal \in Nat
    /\ PollJitter \in Nat /\ WhoisInterval \in Nat
    /\ MaxDoublings \in Nat /\ BackoffCap \in Nat
ASSUME NapAssumption ==
    /\ MinNap \in Nat \ {0} /\ MaxNap \in Nat /\ MinNap <= MaxNap
ASSUME DurationAssumption == MaxWork \in Nat /\ MaxBeat \in Nat
ASSUME OperatorAssumption == Operator \in BOOLEAN

VARIABLES
    at,       \* where main is
    running,  \* _running: no signal has arrived
    todo,     \* the domains of this round that were due at its sample
    busy,     \* time left of the check or of the heartbeat
    nap,      \* time left of the sleep
    wait,     \* per domain: time until it is due
    cool,     \* time until the next WHOIS query may be sent
    errors,   \* per domain: consecutive_errors, up to MaxDoublings
    age,      \* age of the newest last_seen, or NoRows
    unseen,   \* no check has written a row since the start or since one broke
    ending,   \* time since the signal
    hung      \* time since the check in progress hung

vars == <<at, running, todo, busy, nap, wait, cool, errors, age, unseen,
          ending, hung>>

StaleFactor == 4
StaleAfter  == PollNormal * StaleFactor
NoRows      == -1

Least(a, b)    == IF a < b THEN a ELSE b
Greatest(a, b) == IF a < b THEN b ELSE a

Position(d) == CHOOSE i \in DOMAIN Domains : Domains[i] = d

-----------------------------------------------------------------------------
(* The distances between polls.                                            *)

\* interval_for
IntervalFor(state) ==
    CASE state \in CriticalStates                            -> PollCritical
      [] state \in {"EXPIRING", "EXPIRED_GRACE", "UNKNOWN"}  -> PollExpiring
      [] OTHER                                               -> PollNormal

Doublings(n) == Least(n, MaxDoublings)

\* PollCritical * 2^k
Doubled[k \in 0..MaxDoublings] ==
    IF k = 0 THEN PollCritical ELSE 2 * Doubled[k - 1]

\* Mutant: the backoff is not capped.
BackoffUncapped(n) == Doubled[Doublings(n)]

\* check_once after n failures in a row.
Backoff(n) == Least(Doubled[Doublings(n)], BackoffCap)

\* main, after an exception that check_once does not catch.
AfterBreak == PollCritical * 5

\* Mutant: a fixed sleep that does not look at the schedule.
NapLengthFixed(soonest) == MaxNap

\* Until the next domain is due, at least MinNap and at most MaxNap.
NapLength(soonest) == Greatest(MinNap, Least(MaxNap, soonest))

-----------------------------------------------------------------------------
(* Bounds of the distances, for the properties and to keep the model       *)
(* finite.                                                                 *)

CheckTime(d) == MaxWork + IF d \in TrDomains THEN WhoisInterval ELSE 0

MaxCheck == MaxWork + WhoisInterval

\* How long a due domain may wait: the round in which it becomes due too late
\* for the sample, the heartbeat and a shortest nap, and the domains before it
\* in the next round.
Slack(d) == (Len(Domains) - 1) * MaxCheck + MaxBeat + MinNap
            + (Position(d) - 1) * MaxCheck

MaxSlack == 2 * Len(Domains) * MaxCheck + MaxBeat + MinNap

LongestInterval == Greatest(Greatest(PollNormal, PollExpiring),
                            Greatest(PollCritical,
                                     Least(Doubled[MaxDoublings], BackoffCap)))

LongestWait == Greatest(LongestInterval, AfterBreak) + PollJitter

\* From one update of the database to the next.
LongestGap == LongestWait + (2 * Len(Domains) - 2) * MaxCheck
              + MaxBeat + MinNap + MaxCheck

-----------------------------------------------------------------------------
Init ==
    /\ at = "nap" /\ running = TRUE
    /\ todo = {} /\ busy = 0 /\ nap = 0
    /\ wait = [d \in Dom |-> 0]
    /\ cool = 0
    /\ errors = [d \in Dom |-> 0]
    /\ age = NoRows /\ unseen = TRUE
    /\ ending = 0 /\ hung = 0

\* The test of the outer loop; now = time.monotonic() is sampled here, once.
\* Mutant: break where the code continues, one domain per round.
DueFirst == {d \in Dom : /\ wait[d] <= 0
                         /\ \A e \in Dom : wait[e] <= 0
                                            => Position(d) <= Position(e)}

Due == {d \in Dom : wait[d] <= 0}

NewRound ==
    /\ at = "nap" /\ nap = 0 /\ running
    /\ at' = "round"
    /\ todo' = Due
    /\ UNCHANGED <<running, busy, nap, wait, cool, errors, age, unseen,
                   ending, hung>>

\* query_raw sleeps until WhoisInterval after the last query, then sends one.
Throttle(d) == IF d \in TrDomains THEN cool ELSE 0

\* Mutant: the inner loop does not look at _running.
GoesOnStubborn == TRUE

\* The inner loop's test before each domain.
GoesOn == running

\* The inner loop takes the domains in the order of the list.
Turn(d) == d \in todo /\ \A e \in todo : Position(d) <= Position(e)

BeginCheck(d) ==
    /\ at = "round" /\ GoesOn /\ Turn(d)
    /\ at' = "check"
    /\ \E work \in 0..MaxWork : busy' = Throttle(d) + work
    /\ cool' = IF d \in TrDomains THEN cool + WhoisInterval ELSE cool
    /\ UNCHANGED <<running, todo, nap, wait, errors, age, unseen, ending, hung>>

Checking(d) == at = "check" /\ Turn(d)

\* schedule[domain] = time.monotonic() + interval + jitter, after the check.
Reschedule(d, interval) ==
    /\ at' = "round"
    /\ todo' = todo \ {d}
    /\ \E jitter \in 0..PollJitter :
          wait' = [wait EXCEPT ![d] = interval + jitter]
    /\ UNCHANGED <<running, busy, nap, cool, ending, hung>>

Written == age' = 0 /\ unseen' = FALSE

\* The lookup answers: save_state resets the errors.
Answered(d) ==
    /\ Checking(d) /\ busy = 0
    /\ errors' = [errors EXCEPT ![d] = 0]
    /\ Written
    /\ \E state \in States : Reschedule(d, IntervalFor(state))

\* Mutant: save_error does not touch last_seen.
FailureUnseen == UNCHANGED <<age, unseen>>

\* save_error writes last_seen too.
FailureSeen == Written

\* The lookup fails in a way check_once counts.
Failed(d) ==
    /\ Checking(d) /\ busy = 0
    /\ LET n == Doublings(errors[d] + 1)
       IN  /\ errors' = [errors EXCEPT ![d] = n]
           /\ Reschedule(d, Backoff(n))
    /\ FailureSeen

\* Anything else, a database error included, leaves check_once: before it has
\* written its row, or after save_state, when the event cannot be written.
Broke(d) ==
    /\ Checking(d) /\ busy = 0
    /\ Reschedule(d, AfterBreak)
    /\ \/ unseen' = TRUE /\ UNCHANGED <<errors, age>>
       \/ errors' = [errors EXCEPT ![d] = 0] /\ Written

EndRound ==
    /\ at = "round" /\ (todo = {} \/ ~GoesOn)
    /\ at' = "beat"
    /\ todo' = {}
    /\ busy' \in 0..MaxBeat
    /\ UNCHANGED <<running, nap, wait, cool, errors, age, unseen, ending, hung>>

\* The sleep is counted in whole half seconds: it may end a little early.
EndBeat ==
    /\ at = "beat" /\ busy = 0
    /\ at' = "nap"
    /\ \E soonest \in {wait[d] : d \in Dom} :
          /\ \A d \in Dom : soonest <= wait[d]
          /\ nap' \in {NapLength(soonest),
                       Greatest(MinNap, NapLength(soonest) - 1)}
    /\ UNCHANGED <<running, todo, busy, wait, cool, errors, age, unseen,
                   ending, hung>>

\* Out of the sleep, out of the loop, last_shutdown.
Shutdown ==
    /\ at = "nap" /\ ~running
    /\ at' = "stopped"
    /\ nap' = 0
    /\ UNCHANGED <<running, todo, busy, wait, cool, errors, age, unseen,
                   ending, hung>>

Check(d) == BeginCheck(d) \/ Answered(d) \/ Failed(d) \/ Broke(d)

Loop == NewRound \/ (\E d \in Dom : Check(d)) \/ EndRound \/ EndBeat
        \/ Shutdown

-----------------------------------------------------------------------------
(* The clock, the signals, the servers and the operator.                   *)

TakesTime == \/ at \in {"check", "beat"} /\ busy > 0
             \/ at = "nap" /\ nap > 0 /\ running
             \/ at = "hung"

Less(n) == IF n > 0 THEN n - 1 ELSE 0

Tick ==
    /\ TakesTime
    /\ busy' = IF at = "hung" THEN busy ELSE Less(busy)
    /\ nap' = Less(nap)
    /\ wait' = [d \in Dom |-> Greatest(wait[d] - 1, -MaxSlack)]
    /\ cool' = Less(cool)
    /\ age' = IF age = NoRows THEN age ELSE Least(age + 1, StaleAfter + 1)
    /\ ending' = IF running \/ at = "hung" THEN ending ELSE ending + 1
    /\ hung' = IF at = "hung" THEN Least(hung + 1, StaleAfter + 1) ELSE hung
    /\ UNCHANGED <<at, running, todo, errors, unseen>>

\* SIGTERM or SIGINT.
Signal ==
    /\ at # "stopped" /\ running
    /\ running' = FALSE
    /\ UNCHANGED <<at, todo, busy, nap, wait, cool, errors, age, unseen,
                   ending, hung>>

\* A server that keeps sending bytes keeps the check for ever: the timeouts
\* are those of one read.
Hang ==
    /\ at = "check" /\ busy > 0
    /\ at' = "hung"
    /\ busy' = 0
    /\ UNCHANGED <<running, todo, nap, wait, cool, errors, age, unseen, ending,
                   hung>>

\* The process is killed.
Crash ==
    /\ at # "stopped"
    /\ at' = "stopped"
    /\ todo' = {} /\ busy' = 0 /\ nap' = 0
    /\ UNCHANGED <<running, wait, cool, errors, age, unseen, ending, hung>>

\* Started again, after any time: everything is due, the throttle is fresh.
Start ==
    /\ at = "stopped"
    /\ at' = "nap"
    /\ running' = TRUE
    /\ wait' = [d \in Dom |-> 0]
    /\ cool' = 0 /\ ending' = 0 /\ hung' = 0
    /\ age' \in IF age = NoRows THEN {age} ELSE {age, StaleAfter + 1}
    /\ unseen' = TRUE
    /\ UNCHANGED <<todo, busy, nap, errors>>

\* "cli check d", in a process with a throttle of its own.
CliCheck(d) ==
    /\ Operator
    /\ errors' = [errors EXCEPT ![d] = 0]
    /\ Written
    /\ UNCHANGED <<at, running, todo, busy, nap, wait, cool, ending, hung>>

-----------------------------------------------------------------------------
Next ==
    \/ Loop
    \/ Tick
    \/ Signal \/ Hang \/ Crash \/ Start
    \/ \E d \in Dom : CliCheck(d)

\* One thread that nothing blocks but what takes time, and time passes.
Fairness == WF_vars(Loop) /\ WF_vars(Tick)

Spec == Init /\ [][Next]_vars
FairSpec == Spec /\ Fairness

\* healthcheck.main: a database without rows is "starting".
Healthy == age = NoRows \/ age <= StaleAfter

-----------------------------------------------------------------------------
(* Properties.                                                             *)

\* Every variable keeps its type; no domain is put off for longer than the
\* longest interval and the jitter.
TypeOK ==
    /\ at \in {"round", "check", "beat", "nap", "hung", "stopped"}
    /\ running \in BOOLEAN
    /\ todo \subseteq Dom
    /\ busy \in 0..(MaxCheck + MaxBeat)
    /\ nap \in 0..MaxNap
    /\ wait \in [Dom -> -MaxSlack..LongestWait]
    /\ cool \in 0..(2 * WhoisInterval)
    /\ errors \in [Dom -> 0..MaxDoublings]
    /\ age \in NoRows..(StaleAfter + 1)
    /\ unseen \in BOOLEAN
    /\ ending \in Nat
    /\ hung \in 0..(StaleAfter + 1)

\* One thread polls all domains, and the WHOIS throttle sleeps in it: a domain
\* that is due waits for the others, but never longer than Slack, whatever the
\* others' lookups do short of hanging.  After a signal nothing is polled.
Punctual ==
    at \notin {"hung", "stopped"} /\ running =>
        \A d \in Dom : wait[d] < -Slack(d) => Checking(d)

\* A signal is answered within one check and one heartbeat, and no check is
\* begun after it.
StopsSoon ==
    ~running /\ at \notin {"hung", "stopped"} =>
        /\ ending <= MaxCheck + MaxBeat
        /\ \A d \in Dom : Checking(d) => ending + busy <= CheckTime(d)

\* No domain starves: while the process stays up and no check hangs, every
\* domain is polled again and again, whatever the lookups answer.
PolledAgain ==
    \A d \in Dom :
        <>[](at \notin {"hung", "stopped"} /\ running) => []<>Checking(d)

\* The probe does not call a working loop unhealthy: with intervals that fit
\* the probe's window, a loop whose last check wrote its row is healthy, even
\* if every lookup fails and backs off.
NoFalseAlarm ==
    /\ LongestGap <= StaleAfter
    /\ at \notin {"hung", "stopped"} /\ running
    /\ ~unseen
    => Healthy
=============================================================================
