# A verification of domain-registrar-follow

The program watches `.com` and `.com.tr` domains, alerts when one gets close to
being free, and can buy a `.com` domain through Porkbun. These modules model the
parts where steps of several processes, faults of the database and the network,
and a registrar that answers late or never come together. They are checked with
TLC; what the code may never do is also proved with TLAPS, for any domains, answers,
channels and settings. First comes the part that spends money; beside it stand the
monitor's loop with its clock, the lookups, and the alerts on their way out.

## Inventory

| Component | State it keeps | Operations | What makes it correct |
|---|---|---|---|
| Acquisition (`app/acquire.py`) | none of its own; rows of `registration_attempts`, `registered_by_us`, the registrar's account | `try_acquire` (monitor, `cli register`), `dry_run` (`cli dry-run`) | nothing is bought that the gates G1-G8 did not let through; success means the domain is ours; every order leaves a row; the STOP file drains; the budget is overrun by a bounded number; every call ends |
| Database (`app/db.py`) | SQLite file: domains, events, alerts, attempts, meta | one short transaction per function; each can fail (locked, full) | no caller depends on two transactions being one |
| Domain check (`monitor.check_once`, `cli._check`) | `domains.state`, `consecutive_errors`, dedupe keys | lookup, save, alert, purchase | an available domain is announced; purchases are retried at every poll; an outage is announced |
| Lifecycle (`app/lifecycle.py`) | none | `classify`, `is_escalation`, intervals | total, ordered towards the purchase |
| Alerts (`app/notify/`) | dedupe keys | `notify`, three channels | never raises; suppresses repeats only; a broken channel stops no other; "true" means sent |
| RDAP (`providers/rdap.py`) | none | `lookup`: registry, then the registrar it links to | a renewal is believed at once; an older record hides nothing; only a 404 means free |
| WHOIS for `.tr` (`providers/whois_tr.py`) | last query time | `lookup`, `parse` | an unreadable answer is never "free"; a whole answer is read as meant, unless a name in it holds a word of a refusal; queries are spaced |
| Porkbun (`providers/porkbun.py`) | last check time | `check`, `register`, `owns` | errors are told apart: retriable or not |
| TRABIS (`providers/trabis.py`) | none | raises always | fails closed |
| Schedule (`monitor.main`) | next poll per domain | loop, backoff, jitter, throttle, shutdown | every domain is polled again, within a bound; a signal is answered soon |
| Heartbeat (`monitor._heartbeat_if_due`) | `meta.last_heartbeat` | daily summary | once a day, and every day |
| Health probe (`app/healthcheck.py`) | none | reads the newest `last_seen` | healthy while the loop works, and only then |
| CLI (`app/cli.py`) | the STOP file | check, register, dry-run, stop, resume, reports | |
| Configuration, logging | read once per process | | |

How they interact: the monitor is one process with one thread; every `cli`
command is a process of its own. They share the SQLite file, the STOP file and
the Porkbun account, and no lock is held from one step to the next. Inside the
monitor, `check_once` calls a provider, the database, `notify` and, for a free
domain with AUTO_REGISTER, `try_acquire`.

The hard behaviours: two processes acquiring one domain; a create request whose
reply is lost and which is carried out at once, later or never; the STOP file
appearing inside the attempt loop; the database failing between a purchase and
its row; a process dying anywhere; an alert marked as sent before it is sent; a
CLI check changing the row the monitor compares with; two RDAP servers that lag
behind each other; one thread that polls every domain, sleeps in the WHOIS throttle
and can hang in a lookup; an answer that is cut anywhere; a summary whose sending
and whose two marks are three steps. `PROJECT.json` lists them line by line under "hazards".

## Modules

| Module | Models | How |
|---|---|---|
| `SafePurchase` | what the acquisition path promises | abstract: a process holds a *clearance* for a bounded number of orders of one domain; it is granted only without the STOP file and with the permissions; money moves only under one or for an order sent under one |
| `Acquire` | `acquire.py` with `porkbun.py`, `trabis.py`, `registry.py`, the attempt tables and the CLI commands that reach it | `call[p]` is the program counter and the locals of the call of process p; one action per step others can come between |
| `AcquireMC` | | symmetry and the statements of the documentation the code does not keep |
| `AcquireProofs` | | the inductive invariant and its theorems |
| `AcquireRefinement` | | `Acquire` implements `SafePurchase`, proved |
| `Lifecycle` | `classify`, `is_escalation`, the alert condition | operators on the abstraction of a lookup's result |
| `Watch` | `check_once`, `cli._check`, `notify` and the dedupe table | `mon` is the check in progress of the monitor, `cli[c]` of a CLI process |
| `WatchMC` | | the registry's answers, and statements of the documentation |
| `WatchProofs` | | an announced row stays announced, proved |
| `Rdap` | `rdap.lookup` | the decisions as operators, two lagging servers as the world |
| `RdapProofs` | | what the choice between two answers keeps, and its action properties, proved |
| `WhoisTr` | `whois_tr.lookup` | the answer line by line as the connection brings it; `parse` as a recursive function over the lines |
| `WhoisMC` | | three lists of status words, and a statement of the documentation the code does not keep |
| `WhoisTrProofs` | | what `parse` makes of every answer, proved |
| `Schedule` | `monitor.main`, the throttle of `query_raw`, `healthcheck.main` | time as distances from now; one tick per unit while something takes time |
| `ScheduleMC` | | two domains, and a statement of the documentation |
| `ScheduleProofs` | | the bounds of the loop for any list of domains, proved |
| `LeastNumber` | | induction over sets of numbers and functions defined step by step, for `ScheduleProofs` and `WhoisTrProofs` |
| `Notify` | `notify` and the three channels | `note[p]` is the call in progress of process p; one action per request |
| `Heartbeat` | `_heartbeat_if_due`, `cli test-alerts`; extends `Notify` | `beat` is the program counter; days are relative |
| `HeartbeatProofs` | | the invariants of `Heartbeat` and `Notify`, proved |

`Acquire` and `Watch` meet at one action: `Watch!Acquired` is the call of
`try_acquire`, the subject of `Acquire`; that it ends is `Acquire!CallsReturn`.
`Watch`, `Rdap`, `WhoisTr` and `Schedule` use `Lifecycle`. `Watch` takes the result
of a lookup from a set, `Rdap` and `WhoisTr` say what can be in it; `Watch` leaves
open when a domain is polled, `Schedule!PolledAgain` says that it is; `Heartbeat`
takes for granted that the loop passes in every hour, which is `Schedule!Punctual`
with intervals far below an hour and a round shorter than one: each `.tr` domain adds
up to WHOIS_TR_MIN_INTERVAL, a minute, to a round.

### Acquire and the code

The stages of a call are the places of the code: `preflight` (G1-G3), `budget`
(G4 and the choice of the adapter), `check` (G5-G7), `rehearse` (G8),
`register`, `mark` (owns and `registered_by_us`), `failed` (the row of a failed
attempt), `broken` (the loop is left after an order whose reply is no JSON object),
`record` and `announce` (`_record`). `Retriable` and `Unexpected` are
the two except clauses of the loop; `Unreportable` is what a database error does
to a report: made inside the try block it ends in the report "all attempts
failed", made outside it leaves the function. `dry_run` shares the stages and
catches less. `sent` and `logged` count orders and rows of a call for the
properties and nothing reads them otherwise; `late` counts the orders since the
STOP file appeared.

The registrar and the network are external. A create request is carried out,
refused, or not answered; one that is not answered may stay on the `wire` and be
carried out or lost at any later time. A response of a rehearsal that does not
say "would fail" passes, as in the code. `PriceGate` speaks of whole positive prices:
the code blocks a missing price and one above the ceiling, and compares the dollars
before they are rounded to cents (porkbun.py:117-118); neither a price of zero or
less nor half a cent matters to the properties.

`BudgetOverrun` says what the budget is worth when calls race: gate G4 is asked once
per call, and `AttemptBudget` counts rows that are there, so each process may go
through its whole attempt loop on the last free place of the budget.

Two processes that order the same domain are not excluded by the code: the
registrar's check and its single owner decide. The model keeps that.

### Watch and the code

`mon.old` is the state read before the lookup, `mon.seen` the classified answer.
`alerted` and `excused` are history: whether an alert of availability was
delivered in this episode (or one recent enough to mute it), and whether
something came between the saved change and its alert. A lookup answers
(`LookupAnswers`), fails in a way `check_once` counts (`LookupFails`), or raises
anything else (`LookupBreaks`).

### Rdap and the code

`registry` and `registrar` are the two summaries. Dates are small integers.
The world renews the domain once (registrar first), or lets it go through
redemption and the delete queue (registry first), and a record's "last changed"
is bumped or not.

### WhoisTr and the code

A line is a kind and what `parse` would take from it; a record is the set of its
sections, the domain's name first and the others in any order. "No match" is one line
with the name in it, as in tests/fixtures/nic_tr_free.txt:2; `Texts` says whether a
name or an address holds a word of a refusal. The connection may end before
the first line, after any line, or within one: `Cut` says what the rest of a line can be read as,
a date with one digit less and a name cut short included. `ReadLine` is the body of the
loop of `parse`, `ReadAll` the loop, `Parse` the order of its tests: a word of a refusal
anywhere comes first (`Refuses`), then "no match" (`NoMatchIn`), then the fields. So
a domain whose own name, or whose contact, holds such a word is never read, and when it
is free it is never seen as free; `ClearAnswerRead` leaves those out by its premise
(`RefusalInName`) and says that all other whole answers are read as meant.
A day that does not exist raises ValueError, which `check_once` does not list.
`StatusLists` are the lists of status words a record may print; they are of any length.

### Schedule and the code

`wait[d]` is `schedule[d] - time.monotonic()`. `NewRound` samples the clock and fixes
`todo`, the domains this round will check; `Turn` takes them in the order of the
list; `BeginCheck` chooses how long the lookup
and its alerts take, plus what is left of the throttle (`cool`) for a `.tr` domain;
the three ends of a check (`Answered`, `Failed`, `Broke`) reschedule it by the three
rules of the code; `Broke` comes before the row is written, or after `save_state` when
the event of the change cannot be. `EndBeat` computes the sleep. `age` is what the health probe
reads. `hung`, `ending` and `unseen` are history. A `cli check` writes `last_seen`
from a process with a throttle of its own; a purchase is part of a check's work.
`Slack(d)` is the delay one thread can cost: the round in which the domain falls due
too late, the heartbeat and a nap, then the domains before it in the list. It holds
while no signal has come: after one the rest of the round is dropped, and the domains
in it are not polled again.

### Notify, Heartbeat and the code

`Ask` is the transaction of the dedupe table, with its error path; then one action
per request of a channel. A request is accepted, refused, limited (telegram's 429)
or carried out without an answer ("lost"). `tried` and `arrived` are history.
`Heartbeat` walks `beat` through the passes of `_heartbeat_if_due`: the row query, the
alert, `set_meta`; every one can fail, and the process can die between any two.
Keys carry a day, so at midnight `Hour` turns the keys of today into yesterday's;
the 23-hour window of the key is longer than what is left of the day.

## Runs

| Run | Asks | Bounds |
|---|---|---|
| `acquire_race` | with two processes at once: is a success ours, does every order have its row, does the STOP file drain, and by how much is the budget overrun? | 2 symmetric processes, 1 domain, 2 attempts per call, budget 1, calls start with at most 1 row |
| `acquire_solo` | is every charge authorised, every step one of `SafePurchase`, and does every call end? | 1 process, live and dry, fairness; a `.com`, a `.com.tr` and an unsupported domain; a price at and one above the ceiling; rehearsals on |
| `acquire_stop` | does the STOP file halt the attempts? | 1 process, 1 domain |
| `watch_check` | is an available domain announced, a purchase retried, an outage announced? | 1 domain, 1 CLI process, three answers of the registry |
| `watch_cli` | is every domain that becomes free alerted? | two answers of the registry |
| `rdap_lag` | is a renewal believed, and is an older record harmless? | five units of time, one renewal |
| `rdap_phases` | is every phase visible? | as above |
| `whois_answers` | is only a free domain called free, a clear whole answer read as meant, and how far off is a cut one? | 3 dates, 3 lists of status words (none, one that does not matter, two that do), a name and a contact with and without a word of a refusal; sections in every order, cut at every line and within it |
| `whois_cut` | is a cut answer rejected? | as above |
| `schedule_loop` | how late is a poll, how soon does a signal end the loop, does any domain starve, is a working loop healthy? | a `.com.tr` before a `.com`; intervals 5, 2, 1, jitter 1, throttle 2, checks of up to 1, naps of 1 to 5, backoff doubled at most 3 times and capped at 3 |
| `schedule_probe` | is a loop that hangs noticed? | as above, without an operator |
| `heartbeat_daily` | one summary a day, told when it counts as done, and every day? do channels fail alone and honestly? | 2 hours a day, 1 tester, 3 channels of which one lacks its settings and one has a minimum severity |

`rdap_lag` and `watch_check` use one domain because `check_once` keeps nothing
across domains but the dedupe keys, which name the domain, and the process it
runs in. Two attempts per call are the fewest with a retry and a last attempt;
one row fills the budget of 1, and in `acquire_race` calls may start with one row in the window
(`MaxRows` 2), so that the gate has something to refuse; in the others with none; two processes are all that the monitor and an operator run at once.
`MaxRows` only keeps new calls from starting. `MaxErrors` saturates the counter
above the threshold 3, beyond which the code does not distinguish values.

In `schedule_loop` the numbers keep the order of the real ones (critical <= expiring
<= normal, a throttle longer than a check, a cap that the doublings reach) and are
small enough that waiting, capping and a full throttle happen; two domains are the
fewest of which one delays the other. A delay is kept down to `-MaxSlack`, which is
below every bound a property compares it with; the probe's age up to one above its
limit. `NoFalseAlarm` has the premise that the longest distance between two rows
(`LongestGap`, with the backoff as far as its doublings reach) fits in four normal
intervals. The run satisfies it (17 against 20), and so do the defaults: with 900 s
the probe waits an hour, and the backoff ends at 32 minutes, well below its cap.
Two hours are the fewest with an hour in which the summary is not due; the counts
of `Heartbeat`'s history stop at 2, one above what `OncePerDay` allows.

### What the violated runs show

Each checks one sentence of the repository and finds a behaviour of the code
against it; `PROJECT.json` quotes the sentences under "findings".

- `acquire_stop`: the STOP file does not halt a call that has passed its gate;
  what holds instead, and is proved, is `StopDrains`: at most MaxAttempts orders
  per process.
- `watch_cli`: a CLI check takes the change away from the monitor's alert.
- `rdap_phases`: a registrar record touched last hides pendingDelete.

- `whois_cut`: a record cut before its expiration date is accepted, and an expired
  domain counts as ACTIVE. What holds instead: `AvailableIsFree` and `CutNeverFarOff`.
  Neither says that a cut answer raises no false alarm: a date that lost its last digit
  can make a domain EXPIRING or EXPIRED_GRACE one state too early.
- `schedule_probe`: on a fresh database a first check that hangs leaves no row, and
  the probe says "starting" for ever. With a row, and nobody at the CLI, the same
  invariant holds; a `cli check` refreshes `last_seen` and hides a hung monitor. `CliCheck`
  models that, but this run has no operator, so no run shows it.

More were met while modelling and have no run of their own; all are in the models:

- Rows of blocked calls count as attempts (`Spent`), though acquire.py:55-56 calls
  what it counts "canli deneme" (live attempts); polls every minute keep a used-up
  budget used up by the calls it blocks.
- A purchase whose reply was lost, or whose process died before the row, ends as "blocked"
  (`OnNoReply` or `Crash`, then `Check`),
  against README.en.md:50 "Logs and verifies every registration attempt".
- A failed lookup leaves the old state in the row (`Watch!SaveError`), against
  README.en.md:285 "`UNKNOWN` is set when a lookup fails".
- An alert no channel delivered stays marked as sent (`Ask`, `Watch!Dedupe`), against
  the docstring of db.py:160.
- The daily summary is INFO and the mail's default minimum is WARNING, so it is
  never mailed (`BelowSeverity`); docs/OPERASYON.md:7 looks for it in the mailbox too.
- A critical domain is not polled "every minute" (monitor.py:4) when the WHOIS throttle
  or the backoff of failed lookups is longer (`Throttle`, `Backoff`).
- A free `.tr` domain with "blocked", "denied" or "exceeded" in its own name is
  never seen as free: the registry repeats the name in "No match found for ..."
  (tests/fixtures/nic_tr_free.txt:2), and whois_tr.py:93 looks for words of a refusal
  before :96 looks for "no match" (`Short`, `Refuses`, `Parse`). Against base.py:11
  "Upstream refused the query because of rate limiting" and lifecycle.py:12-13, which call
  "No match" the only reliable release signal.
- `dry_run` leaves no row when a gate blocks it (acquire.py:89 and 103, against
  acquire.py:16-17), and `try_acquire` raises when the database fails (against
  acquire.py:111); `Retriable`, `Unreportable`.

## Fairness

`Acquire!FairSpec` has weak fairness of the steps of each call: requests have a
timeout (PORKBUN_TIMEOUT), the database a busy timeout, the cooldown is a finite
sleep. Nothing is assumed of the operator, the registrar or the database.
`Watch!FairSpec` has weak fairness of the steps of a running check, for the same
reason. That a domain is polled again, that the database and the process end up
staying up, and that dedupe windows pass are premises of the properties that
need them and not of the specification; `Schedule!PolledAgain` is what makes the
first one true.

`Schedule!FairSpec` has weak fairness of the loop's steps, one thread that waits for
nothing but what takes time, and of the clock. Hanging, dying, signals and the
operator are free, and `PolledAgain` speaks of runs in which hanging and dying end.
`Heartbeat!FairSpec` has weak fairness of the monitor's steps (each request and
transaction has a timeout) and of the hours, each of which waits until the loop has
passed. The testers' calls have none; `Rdap` and `WhoisTr` need none.

## Proofs

Every invariant and every action property that a passing run checks is also a
theorem, for every value of the constants that the named assumptions allow, but for
`BudgetOverrun`. The assumptions say what the code or its configuration says: prices are positive
integers, limits and intervals natural numbers, POLL_CRITICAL_SECONDS is not zero, the
domains of the list are different, dates lie in the past, soon or far. One says more
than the code: by `TextsAssumption` no name or address holds a phrase of "no match", though
whois_tr.py:96 searches the whole text; a taken domain that belongs to "no match
found" would be called free. Each inductive invariant
was checked with TLC, as an invariant of its component's run, before it was proved.

| Module | Proves |
|---|---|
| `AcquireProofs` | `TypeCorrect`, `ChargesAreAuthorised`, `SuccessesAreOurs`, `AuditTrailKept`, `StopIsBounded` |
| `AcquireRefinement` | `Refinement`: `Acquire` implements `SafePurchase` |
| `WatchProofs` | `TypeCorrect`, `FreeDomainsAlerted` |
| `RdapProofs` | `TypeCorrect`, `RenewalsAreBelieved`, `StaleRegistrarsAreHarmless` |
| `WhoisTrProofs` | `TypeCorrect`, `OnlyFreeIsAvailable`, `ClearAnswersAreRead`, `CutsAreNotFarOff` |
| `ScheduleProofs` | `TypeCorrect`, `PollsAreInTime`, `SignalsAreAnswered`, `WorkingLoopsAreHealthy` |
| `HeartbeatProofs` | `TypeCorrect`, `SummaryOncePerDay`, `DaysDoneWereTold`, `ChannelsAreIndependent`, `ResultsAreHonest` |

In each module but `RdapProofs` and `AcquireRefinement` the theorems follow from
`Invariance: Spec => []IInv`.

**Acquire.** None of the properties is inductive by itself. That a charge is authorised needs
to know what a call at `register` has passed, that a row "success" is of a
domain of ours needs the report of the call that writes it, and the bound under
the STOP file needs the number of orders sent to stay below the attempt counter.
`IInv` adds `PassedGates`, `Counted` and `Draining` of each process. The proof
separates the part all processes share from the part of one process, so each
action needs to be looked at for the process that takes it only: ours stays ours
(`Keeps`), and nothing else of the others can change.

`AcquireRefinement` proves `Refinement: Spec => ImplementsSafePurchase`: the
mapping gives a live call between the gates and the end of its loop a clearance
for the attempts it has left. Each action is mapped to a step of the abstract
specification or to a stutter, with the inductive invariant at hand.

**Watch.** `AvailableAlerted` speaks of a row; that it is kept depends on a check
that is running and on a dedupe key somebody set earlier. `IInv` adds what a check knows
of the row it read (`ReadSettled`), which places of the check lead to the alert
(`Announcing`, `Underway`), and that a key which mutes an alert was set by one
that went out, is going out, or failed in a way that counts as excused (`MutedSettled`).

**Rdap.** The properties follow from lemmas about the decisions: `RegistrarIsNewer`
and `MergeKeepsLater` say which date survives, `StaleMerge` that a record without a
later expiration, and with the same one without a later change, leaves the state as the
registry has it. A record touched last with an earlier expiration, or none, is one of these.

**WhoisTr.** What has arrived is honest (`HonestLines`): only the answer about a
free domain says "no match", a line's status word is one of the record's, its date the
record's or one step nearer. Parts of honest lines, cut or not, are honest
(`SentAreHonest`), which gives `AvailableIsFree` and `CutNeverFarOff`; `NearerByOne` is what
`classify` makes of a date one step nearer. For `ClearAnswerRead`, `ReadSoFar` relates what `parse` has read to
the sections that have arrived. `SectionRead` is its heart: a section adds what it
says to what was read before it and leaves the rest, in any order, because each
begins with a header that ends the one before. `StatusRead` is an induction over the
record's status words, so their number is not bounded.

**Schedule.** `Punctual` bounds how late a domain is, and so needs to know how late
it may be at every place of the loop. `LateInRound` relates, for each pair of domains
d and e, the lateness of d to the turn of e: what was due at the sample has waited for the
domains before e, what was not due, or has been polled, for the others at most.
`LateAfterwards` carries it through the heartbeat and the nap. Both need what a
check may take (`ThrottleKept`, `WorkBounded`). `Ending` is the same for the time
since a signal. `NoFalseAlarm` follows from `Recent`: some domain was polled within
`LongestWait` of the newest row, and is not late by more than `Slack`.

**Heartbeat and Notify.** `Round` says where a call of `notify` stands: every channel
it has to ask is asked or still before it. `MarkStands` says what the dedupe key of
today stands for (a round that is over, broken off or under way), `Counted` that
without the key every round of the day was one that could not ask the table,
`OneMidnight` that no heartbeat spans two midnights.

Proving changed the models where they were wrong or said less than was meant:

- `Punctual` was stated after a signal too. It is false then: a round that is broken
  off leaves its domains unpolled while the heartbeat runs. The run's numbers were
  too small to show it; with a heartbeat of 2 and no throttle TLC finds it.
- `NoFalseAlarm` bounded the backoff by its cap. With the defaults the cap equals the
  probe's window, so its premise excluded them; the longest backoff is what the
  doublings reach. The gap between two rows has to allow for `AfterBreak` as well.
- `CutNeverFarOff` said that a cut answer names the domain's state. A cut between two
  status words can drop the nearer one, and a cut date can come a step too early.
- The answers of the registry did not repeat the name of the domain. With it, whole
  answers are read as meant under the premise of `ClearAnswerRead` only.
- `Schedule` kept the round as a sequence and the backoff as a power; `WhoisTr` read
  status words in an order of its own. They are now a set taken in the order of the
  list, a recursive function, and the record's own list.

The provers cannot instantiate the library's induction theorems, whose parameter is an
operator. `LeastNumber` derives from the well-foundedness of the natural numbers, which
is stated about sets, that a set of numbers is closed (`InductionUpTo`), and from that
the existence of functions defined step by step (`StepByStep`). With the two, the
recursive functions `Doubled` and `ReadAll` are proved to be what their definitions say.

Only model-checked, as liveness is out of the prover's reach: `CallsReturn`,
`RetriedEveryPoll`, `OutageAnnounced`, `PolledAgain` and `SummaryEveryDay`. `BudgetOverrun`
is model-checked only as well: its proof needs a sum over the processes of what each may
still write.

## Not modelled

Contents of alerts and labels, severities of states and the drop estimate,
command-line parsing and reports, the JSON of RDAP beyond what is read of it,
logging, and the configuration's parsing: its values are the CONSTANTS. The Porkbun
throttle is per process and its service's limits are failures of a request. The
database is up or down for a whole transaction. Seconds are abstracted to units:
`Schedule` keeps one clock, the other modules let rows and keys grow old at any
time, which includes what the real windows allow. The clock of the machine is not
set back. `whois_tr.lookup` with WHOIS_TR_ENABLED=false raises before it sends anything
(whois_tr.py:200-201); to `Watch` and `Schedule` that is one more failed lookup.

## Plan

1. Done: `SafePurchase`, `Acquire`, its proofs; `Lifecycle`, `Watch`, `Rdap`.
2. Done: `Schedule` with the health probe, `WhoisTr`, `Notify`, `Heartbeat`.
3. Done: proofs of `Watch`, `Rdap`, `WhoisTr`, `Schedule`, `Heartbeat` and `Notify`.
4. A composition of `Watch` and `Acquire`: an available domain that stays free is
   ordered, as long as the gates let it.
5. What the modules say to each other, as theorems: that the results of `Rdap` and
   `WhoisTr` are those `Watch` takes, and that a lookup that fails in `WhoisTr` is
   one of the ends of a check in `Schedule`.
