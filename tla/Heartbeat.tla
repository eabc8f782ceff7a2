----------------------------- MODULE Heartbeat -----------------------------
(***************************************************************************)
(* The daily summary (monitor._heartbeat_if_due) and "cli test-alerts",    *)
(* over the alert path of Notify.  The monitor dies and is started again,  *)
(* the database fails at any step.                                         *)
(*                                                                         *)
(* Days are relative: a key names "today" or "yesterday".  The key's       *)
(* window of 23 hours outlasts the day, so a mark stays for the day.       *)
(***************************************************************************)
EXTENDS Notify

CONSTANTS Monitor,        \* the monitor's process
          Testers,        \* processes that run "cli test-alerts"
          HoursPerDay,    \* 24
          HeartbeatHour   \* HEARTBEAT_HOUR

ASSUME CallersAssumption == Callers = {Monitor} \cup Testers /\ Monitor \notin Testers
ASSUME HourAssumption    ==
    HoursPerDay \in Nat \ {0} /\ HeartbeatHour \in 0..(HoursPerDay - 1)

VARIABLES
    hour,      \* the hour of the day
    up,        \* the monitor's process runs
    beat,      \* the heartbeat in progress: its stage and its key
    meta,      \* meta.last_heartbeat
    visited,   \* the loop has passed here in this hour
    begun,     \* rounds of today's summary that began
    unasked,   \* of these, those the dedupe table was not asked for
    told,      \* a round of today's summary went through all channels
    lost       \* the monitor died in one after its key was marked

beatVars == <<hour, up, beat, meta, visited>>
history  == <<begun, unasked, told, lost>>
vars     == <<note, muted, dbOk, beatVars, history>>

Keys   == {NoKey, "today", "yesterday"}
NoBeat == [at |-> "idle", key |-> NoKey]
Cap    == 2   \* the counts of the history stop here

Init ==
    /\ NotifyInit
    /\ hour = 0 /\ up = TRUE /\ beat = NoBeat /\ meta = NoKey
    /\ visited = FALSE
    /\ begun = 0 /\ unasked = 0 /\ told = FALSE /\ lost = FALSE

-----------------------------------------------------------------------------
\* The hour, and not yet today.
Due == hour = HeartbeatHour /\ meta # "today"

\* The loop passes: not due, due, or the database does not say.
Pass ==
    /\ up /\ beat.at = "idle"
    /\ visited' = TRUE
    /\ beat' = IF dbOk /\ Due THEN [at |-> "rows", key |-> "today"] ELSE NoBeat
    /\ UNCHANGED <<note, muted, dbOk, hour, up, meta, history>>

\* db.all_domains, then notify; the key was made when the loop passed.
Compose ==
    /\ beat.at = "rows"
    /\ IF dbOk
       THEN /\ beat' = [beat EXCEPT !.at = "notify"]
            /\ note' = [note EXCEPT ![Monitor] = NewNote(beat.key, "INFO")]
       ELSE beat' = NoBeat /\ UNCHANGED note
    /\ UNCHANGED <<muted, dbOk, hour, up, meta, visited, history>>

CountedTo(n) == IF n < Cap THEN n + 1 ELSE n

Today(p) == p = Monitor /\ note[p].key = "today"

\* A step of notify, by any process.
Alerting(p) ==
    /\ NotifyStep(p)
    /\ LET begins == Today(p) /\ note[p].at = "ask" /\ note'[p].at = "send"
       IN  /\ begun'   = IF begins THEN CountedTo(begun) ELSE begun
           /\ unasked' = IF begins /\ ~dbOk THEN CountedTo(unasked) ELSE unasked
    /\ told' = (told \/ (Today(p) /\ note[p].at = "send" /\ note'[p].at = "done"))
    /\ UNCHANGED <<beatVars, lost>>

Notified ==
    /\ beat.at = "notify" /\ note[Monitor].at = "done"
    /\ beat' = [beat EXCEPT !.at = "meta"]
    /\ note' = [note EXCEPT ![Monitor] = NoNote]
    /\ UNCHANGED <<muted, dbOk, hour, up, meta, visited, history>>

\* db.set_meta("last_heartbeat", key)
SetMeta ==
    /\ beat.at = "meta"
    /\ meta' = IF dbOk THEN beat.key ELSE meta
    /\ beat' = NoBeat
    /\ UNCHANGED <<note, muted, dbOk, hour, up, visited, history>>

Crash ==
    /\ up
    /\ up' = FALSE /\ beat' = NoBeat
    /\ note' = [note EXCEPT ![Monitor] = NoNote]
    /\ lost' = (lost \/ (Today(Monitor) /\ note[Monitor].at = "send"))
    /\ UNCHANGED <<muted, dbOk, hour, meta, visited, begun, unasked, told>>

Restart ==
    /\ ~up
    /\ up' = TRUE
    /\ UNCHANGED <<note, muted, dbOk, hour, beat, meta, visited, history>>

-----------------------------------------------------------------------------
\* "cli test-alerts": severity CRITICAL, no key.
TestAlerts(p) ==
    /\ note[p].at = "idle" /\ ActiveChannels # <<>>
    /\ note' = [note EXCEPT ![p] = NewNote(NoKey, "CRITICAL")]
    /\ UNCHANGED <<muted, dbOk, beatVars, history>>

TestOver(p) ==
    /\ note[p].at = "done"
    /\ note' = [note EXCEPT ![p] = NoNote]
    /\ UNCHANGED <<muted, dbOk, beatVars, history>>

DbToggle ==
    /\ dbOk' = ~dbOk
    /\ UNCHANGED <<note, muted, beatVars, history>>

\* Mutant: the key does not name the day.
SameEveryDay(key) == key

\* What a key means when a day has passed: it names its own.
DayBefore(key) == IF key = "today" THEN "yesterday" ELSE NoKey

\* The loop passes many times an hour while it runs (Schedule!Punctual), and a
\* round of the channels is over before the next hour is.  At midnight the
\* keys of today become yesterday's.
Hour ==
    /\ (up /\ (hour = HeartbeatHour \/ beat.at # "idle")) => visited
    /\ hour' = (hour + 1) % HoursPerDay
    /\ visited' = FALSE
    /\ IF hour' = 0
       THEN /\ meta' = DayBefore(meta)
            /\ muted' = {DayBefore(k) : k \in muted} \ {NoKey}
            /\ beat' = [beat EXCEPT !.key = DayBefore(@)]
            /\ note' = [note EXCEPT ![Monitor].key = DayBefore(@)]
            /\ begun' = 0 /\ unasked' = 0 /\ told' = FALSE /\ lost' = FALSE
       ELSE UNCHANGED <<note, muted, beat, meta, history>>
    /\ UNCHANGED <<dbOk, up>>

-----------------------------------------------------------------------------
Beat == Pass \/ Compose \/ Alerting(Monitor) \/ Notified \/ SetMeta

Next ==
    \/ Beat
    \/ Crash \/ Restart
    \/ \E p \in Testers : TestAlerts(p) \/ Alerting(p) \/ TestOver(p)
    \/ DbToggle
    \/ Hour

\* Requests and the database have timeouts, the loop runs, and time passes.
Fairness == WF_vars(Beat) /\ WF_vars(Hour)

Spec == Init /\ [][Next]_vars
FairSpec == Spec /\ Fairness

-----------------------------------------------------------------------------
(* Properties.                                                             *)

\* Every variable keeps its type; telegram is asked at most MaxTries times.
TypeOK ==
    /\ note \in [Callers -> Note(Keys)]
    /\ muted \subseteq Keys \ {NoKey}
    /\ dbOk \in BOOLEAN /\ up \in BOOLEAN /\ visited \in BOOLEAN
    /\ hour \in 0..(HoursPerDay - 1)
    /\ beat \in [at : {"idle", "rows", "notify", "meta"}, key : Keys]
    /\ meta \in Keys
    /\ begun \in 0..Cap /\ unasked \in 0..Cap
    /\ told \in BOOLEAN /\ lost \in BOOLEAN

\* Once a day: a second round of the same day's summary begins only if the
\* dedupe table could not be asked, however often the monitor dies between the
\* summary and set_meta.
OncePerDay == begun <= 1 + unasked

\* A day that counts as done had its summary, but for the one gap: the monitor
\* died between marking the key and the end of the round.
DoneWasTold == meta = "today" => told \/ lost

\* The summary keeps coming, once the monitor stays up and the database works:
\* what failed before the mark is tried again within the hour.
SummaryEveryDay == <>[](up /\ dbOk) => []<>Sent(Monitor)
=============================================================================
