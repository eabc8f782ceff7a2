------------------------------- MODULE Watch -------------------------------
(***************************************************************************)
(* The monitor's check of a domain (monitor.check_once) and the CLI's      *)
(* (cli._check), over the rows they share.  The monitor is one thread in   *)
(* one process; CLI processes come and go.  Each step is one database      *)
(* transaction, one lookup or one round of the alert channels.             *)
(*                                                                         *)
(* The registry is external: what a lookup of d would return is truth[d],  *)
(* which changes at any time, and a lookup may fail.  The order and the    *)
(* intervals of the polls are left open: any domain may be next.           *)
(***************************************************************************)
EXTENDS Lifecycle, FiniteSets

CONSTANTS Domains,        \* DOMAINS
          Checkers,       \* processes that can run "cli check"
          Results,        \* the lookup results the registry can give
          AutoRegister,   \* AUTO_REGISTER of the monitor
          MaxErrors       \* the model's counter of errors saturates here

ASSUME ResultsAssumption  == Results \subseteq LookupResult
ASSUME RegisterAssumption == AutoRegister \in BOOLEAN
ErrorAlertThreshold == 3

ASSUME ErrorsAssumption   == MaxErrors \in Nat /\ MaxErrors > ErrorAlertThreshold

VARIABLES
    truth,    \* registry: what a lookup of each domain would return
    row,      \* table domains: state and consecutive_errors
    up,       \* the monitor's process runs
    mon,      \* the monitor's check in progress
    cli,      \* per CLI process: its check in progress
    dbOk,     \* the database can be written and read at the moment
    muted,    \* alert keys inside their dedupe window
    alerted,  \* per domain: an alert for its availability was delivered
    excused   \* per domain: a change of its state was not announced

vars == <<truth, row, up, mon, cli, dbOk, muted, alerted, excused>>

history == <<alerted, excused>>

\* An alert key is the state that is announced, or "error", and a domain.
Keys == (States \cup {"error"}) \X Domains

\* No row, and a row with a NULL state, read the same.
NoState == "none"

Row == [state : States \cup {NoState}, errors : 0..MaxErrors]

Stages == {"idle", "lookup", "save", "error", "event", "dedupe", "send",
           "acquire"}

Check == [at : Stages, dom : Domains \cup {"none"}, old : States,
          seen : States, failed : BOOLEAN]

Idle == [at |-> "idle", dom |-> "none", old |-> "UNKNOWN", seen |-> "UNKNOWN",
         failed |-> FALSE]

CliCheck == [at : {"idle", "save"}, dom : Domains \cup {"none"}, seen : States]

CliIdle == [at |-> "idle", dom |-> "none", seen |-> "UNKNOWN"]

\* Mutant: one key per domain.
KeyOfDomain == <<"error", mon.dom>>

\* dedupe_key of the alert about to go out.
Key == <<IF mon.failed THEN "error" ELSE mon.seen, mon.dom>>

Goto(stage) == mon' = [mon EXCEPT !.at = stage]

-----------------------------------------------------------------------------
Init ==
    /\ truth \in [Domains -> Results]
    /\ row = [d \in Domains |-> [state |-> NoState, errors |-> 0]]
    /\ up = TRUE
    /\ mon = Idle
    /\ cli = [c \in Checkers |-> CliIdle]
    /\ dbOk = TRUE
    /\ muted = {}
    /\ alerted = [d \in Domains |-> FALSE]
    /\ excused = [d \in Domains |-> FALSE]

\* previous = db.get(domain); a row without a state reads as UNKNOWN.
Begin(d) ==
    /\ up
    /\ mon.at = "idle"
    /\ dbOk
    /\ mon' = [Idle EXCEPT !.at = "lookup", !.dom = d,
                           !.old = IF row[d].state = NoState
                                   THEN "UNKNOWN" ELSE row[d].state]
    /\ UNCHANGED <<up, truth, row, cli, dbOk, muted, history>>

LookupAnswers(d) ==
    /\ mon.at = "lookup"
    /\ mon.dom = d
    /\ mon' = [mon EXCEPT !.at = "save", !.seen = Classify(truth[d])]
    /\ UNCHANGED <<up, truth, row, cli, dbOk, muted, history>>

\* RateLimited, Inconclusive, NotConfigured, NotImplementedError.
LookupFails(d) ==
    /\ mon.at = "lookup"
    /\ mon.dom = d
    /\ mon' = [mon EXCEPT !.at = "error", !.failed = TRUE]
    /\ UNCHANGED <<up, truth, row, cli, dbOk, muted, history>>

\* Any other exception leaves check_once; main logs it.
LookupBreaks ==
    /\ mon.at = "lookup"
    /\ mon' = Idle
    /\ UNCHANGED <<up, truth, row, cli, dbOk, muted, history>>

\* Mutant: the alert is sent when the threshold is met exactly.
ManyOnce(errors) == errors = ErrorAlertThreshold

Many(errors) == errors >= ErrorAlertThreshold

\* db.save_error: the row keeps its state.
SaveError ==
    /\ mon.at = "error"
    /\ LET errors == IF row[mon.dom].errors < MaxErrors
                     THEN row[mon.dom].errors + 1 ELSE MaxErrors
       IN  IF dbOk
           THEN /\ row' = [row EXCEPT ![mon.dom].errors = errors]
                /\ IF Many(errors) THEN Goto("dedupe") ELSE mon' = Idle
           ELSE UNCHANGED row /\ mon' = Idle
    /\ UNCHANGED <<up, truth, cli, dbOk, muted, history>>

\* Mutant: a purchase is tried only when the state has just changed.
WantsPurchaseOnce ==
    mon.seen = "AVAILABLE" /\ mon.old # "AVAILABLE" /\ AutoRegister

WantsPurchase == mon.seen = "AVAILABLE" /\ AutoRegister

\* What check_once does after its alerts.
Finish ==
    IF ~mon.failed /\ WantsPurchase THEN Goto("acquire") ELSE mon' = Idle

\* A monitor that sees the domain taken ends the episode of availability: what
\* was announced in it counts no longer, unless it still mutes the next one.
EpisodeLasts ==
    mon.seen = "AVAILABLE" \/ <<"AVAILABLE", mon.dom>> \in muted

\* db.save_state.
SaveState ==
    /\ mon.at = "save"
    /\ IF dbOk
       THEN /\ row' = [row EXCEPT ![mon.dom] =
                                     [state |-> mon.seen, errors |-> 0]]
            /\ IF mon.seen # mon.old THEN Goto("event") ELSE Finish
            /\ alerted' = [alerted EXCEPT ![mon.dom] = @ /\ EpisodeLasts]
            /\ excused' = [excused EXCEPT ![mon.dom] = @ /\ EpisodeLasts]
       ELSE mon' = Idle /\ UNCHANGED <<row, history>>
    /\ UNCHANGED <<up, truth, cli, dbOk, muted>>

AnnouncesFree == mon.seen = "AVAILABLE" /\ ~mon.failed

\* The saved change is not announced, and the next check does not notice it.
Unannounced == excused' = [excused EXCEPT ![mon.dom] = @ \/ AnnouncesFree]

\* db.event(domain, "state_change", ...): an error leaves check_once.
StateEvent ==
    /\ mon.at = "event"
    /\ IF dbOk
       THEN /\ IF Alertable(mon.old, mon.seen) THEN Goto("dedupe") ELSE Finish
            /\ UNCHANGED excused
       ELSE mon' = Idle /\ Unannounced
    /\ UNCHANGED <<up, truth, row, cli, dbOk, muted, alerted>>

\* notify asks db.should_send_alert, which marks the key as sent; when it
\* cannot be asked the alert goes out.
Dedupe ==
    /\ mon.at = "dedupe"
    /\ IF dbOk /\ Key \in muted
       THEN Finish
       ELSE Goto("send")
    /\ muted' = IF dbOk THEN muted \cup {Key} ELSE muted
    /\ UNCHANGED <<up, truth, row, cli, dbOk, history>>

\* The channels, one after the other.  Their errors are swallowed, and an alert
\* none of them delivers is not tried again.
Send ==
    /\ mon.at = "send"
    /\ \/ alerted' = [alerted EXCEPT ![mon.dom] = @ \/ AnnouncesFree]
          /\ UNCHANGED excused
       \/ Unannounced /\ UNCHANGED alerted
    /\ Finish
    /\ UNCHANGED <<up, truth, row, cli, dbOk, muted>>

\* acquire.try_acquire(domain, live=True), the subject of module Acquire.
Acquired ==
    /\ mon.at = "acquire"
    /\ mon' = Idle
    /\ UNCHANGED <<up, truth, row, cli, dbOk, muted, history>>

\* The monitor dies; docker starts it again with nothing but the database.
Crash ==
    /\ up
    /\ up' = FALSE
    /\ mon' = Idle
    /\ IF mon.at \in {"event", "dedupe", "send"}
       THEN Unannounced ELSE UNCHANGED excused
    /\ UNCHANGED <<truth, row, cli, dbOk, muted, alerted>>

Restart ==
    /\ ~up
    /\ up' = TRUE
    /\ UNCHANGED <<truth, row, mon, cli, dbOk, muted, history>>

-----------------------------------------------------------------------------
(* "cli check" and "cli check-all": a lookup and db.save_state, no event,  *)
(* no alert, no purchase.  A lookup that fails leaves nothing behind.      *)

CliLookup(c, d) ==
    /\ cli[c].at = "idle"
    /\ cli' = [cli EXCEPT ![c] = [at |-> "save", dom |-> d,
                                  seen |-> Classify(truth[d])]]
    /\ UNCHANGED <<up, truth, row, mon, dbOk, muted, history>>

CliSave(c) ==
    /\ cli[c].at = "save"
    /\ cli' = [cli EXCEPT ![c] = CliIdle]
    /\ LET d == cli[c].dom IN
       IF dbOk
       THEN /\ row' = [row EXCEPT ![d] = [state |-> cli[c].seen, errors |-> 0]]
            /\ excused' = [excused EXCEPT ![d] =
                                       @ \/ row[d].state # cli[c].seen]
       ELSE UNCHANGED <<row, excused>>
    /\ UNCHANGED <<up, truth, mon, dbOk, muted, alerted>>

-----------------------------------------------------------------------------
(* The registry, the disk and the clock.                                   *)

RegistryChanges(d) ==
    /\ \E r \in Results \ {truth[d]} : truth' = [truth EXCEPT ![d] = r]
    /\ UNCHANGED <<up, row, mon, cli, dbOk, muted, history>>

DbToggle ==
    /\ dbOk' = ~dbOk
    /\ UNCHANGED <<up, truth, row, mon, cli, muted, history>>

\* ALERT_DEDUPE_SECONDS have passed since the key was marked.
Unmute(k) ==
    /\ muted' = muted \ {k}
    /\ alerted' = [d \in Domains |->
                      alerted[d] /\ (k = <<"AVAILABLE", d>>
                                        => row[d].state = "AVAILABLE")]
    /\ UNCHANGED <<up, truth, row, mon, cli, dbOk, excused>>

-----------------------------------------------------------------------------
Proceed ==
    \/ \E d \in Domains : LookupAnswers(d) \/ LookupFails(d)
    \/ LookupBreaks
    \/ SaveError
    \/ SaveState
    \/ StateEvent
    \/ Dedupe
    \/ Send
    \/ Acquired

Next ==
    \/ \E d \in Domains : Begin(d) \/ RegistryChanges(d)
    \/ Proceed
    \/ Crash \/ Restart
    \/ \E c \in Checkers : CliSave(c) \/ \E d \in Domains : CliLookup(c, d)
    \/ DbToggle
    \/ \E k \in muted : Unmute(k)

\* The lookup, the channels and the database have timeouts: a check that has
\* begun ends.  Whether a domain is polled again is the scheduler's business
\* and is assumed by the properties that need it.
Fairness == WF_vars(Proceed)

Spec == Init /\ [][Next]_vars
FairSpec == Spec /\ Fairness

-----------------------------------------------------------------------------
(* Properties.                                                             *)

\* Every variable keeps its type: a row holds a state of the lifecycle.
TypeOK ==
    /\ truth \in [Domains -> Results]
    /\ row \in [Domains -> Row]
    /\ up \in BOOLEAN
    /\ mon \in Check
    /\ cli \in [Checkers -> CliCheck]
    /\ dbOk \in BOOLEAN
    /\ muted \subseteq Keys
    /\ alerted \in [Domains -> BOOLEAN]
    /\ excused \in [Domains -> BOOLEAN]

\* While the database says AVAILABLE an alert for it was delivered, in this
\* episode or so recently that its key is still muted, or goes out in the
\* check that is running.  The only ways around it are the ones Unannounced
\* and CliSave record: the monitor died or lost the database between saving
\* the change and sending the alert, no channel delivered it, or a CLI check
\* changed the row behind the monitor's back.
AvailableAlerted ==
    \A d \in Domains :
        row[d].state = "AVAILABLE" =>
            \/ alerted[d]
            \/ excused[d]
            \/ mon.dom = d /\ mon.at \in {"event", "dedupe", "send"}

\* A purchase is tried at every poll that finds the domain free, not only at
\* the one that finds the change: a domain that stays free and is polled again
\* and again is tried again and again, once crashes and database faults end.
RetriedEveryPoll ==
    \A d \in Domains :
        (/\ <>[](truth[d].available /\ dbOk /\ up)
         /\ []<><<LookupAnswers(d)>>_vars)
        => []<>(mon.at = "acquire" /\ mon.dom = d)

\* A source that keeps failing is announced whenever its key is not muted,
\* even when the monitor died at the very check that reached the threshold.
OutageAnnounced ==
    \A d \in Domains :
        (/\ <>[](dbOk /\ up)
         /\ []<><<LookupFails(d)>>_vars
         /\ <>[][~SaveState /\ (\A c \in Checkers : ~CliSave(c))]_vars
         /\ []<>(<<"error", d>> \notin muted))
        => []<>(mon.at = "send" /\ mon.failed /\ mon.dom = d)
=============================================================================
