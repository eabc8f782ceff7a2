------------------------------ MODULE Acquire ------------------------------
(***************************************************************************)
(* The acquisition path (app/acquire.py): try_acquire, started by the      *)
(* monitor or by "cli register", and dry_run, started by "cli dry-run".    *)
(* Each runs in its own operating-system process; they share the SQLite    *)
(* file, the STOP file and the registrar, and nothing orders their steps.  *)
(*                                                                         *)
(* One action is one step another process can observe or come between: a   *)
(* look at the STOP file, a call to the registrar, a database transaction. *)
(* The registrar (providers/porkbun.py speaks to it) is an external        *)
(* service: a request can be refused, can fail, and can be carried out     *)
(* although its reply never comes, at once or much later.                  *)
(***************************************************************************)
EXTENDS Integers, FiniteSets

CONSTANTS Procs,          \* processes: the monitor, invocations of the CLI
          DryRunners,     \* those that can be a "cli dry-run"
          ComDomains,     \* .com domains: Porkbun's
          TrDomains,      \* .tr and .com.tr domains: the TRABIS adapter's
          OtherDomains,   \* domains of a TLD no adapter serves
          Allowlist,      \* ACQUIRE_ALLOWLIST
          Tracked,        \* domains with a row in table domains
          AutoProcs,      \* processes started with AUTO_REGISTER=true
          ReadyProcs,     \* processes started with Porkbun enabled and keyed
          Prices,         \* prices the registrar can ask
          MaxCost,        \* MAX_REGISTRATION_COST_USD
          MaxAttempts,    \* REGISTRATION_MAX_ATTEMPTS
          Budget,         \* REGISTRATION_MAX_ATTEMPTS_PER_WINDOW
          DryRunFirst,    \* REGISTER_DRY_RUN_FIRST
          MaxRows         \* bound of the model: no call starts beyond it

NoPrice == 0

ASSUME PricesAssumption   == Prices \subseteq Nat \ {NoPrice}
ASSUME AttemptsAssumption == MaxAttempts \in Nat
ASSUME LimitsAssumption   == MaxCost \in Nat /\ Budget \in Nat /\ MaxRows \in Nat
ASSUME FlagAssumption     == DryRunFirst \in BOOLEAN

Domains == ComDomains \cup TrDomains \cup OtherDomains

Min(a, b) == IF a < b THEN a ELSE b

VARIABLES
    call,     \* per process: the acquisition it runs, or ran last
    late,     \* per process: purchases ordered since the STOP file appeared
    stop,     \* the STOP file exists (KILL_SWITCH_FILE)
    dbOk,     \* the database can be written and read at the moment
    rows,     \* per domain: live registration_attempts rows in the window
    marked,   \* domains whose row has registered_by_us=1
    owner,    \* registrar: who holds a domain
    price,    \* registrar: what a domain costs
    wire,     \* purchase orders sent whose reply will never be read
    charged   \* registrar: purchase orders the account has paid for

local    == <<call, late>>
database == <<rows, marked>>
market   == <<owner, price, wire, charged>>
vars     == <<call, late, stop, dbOk, rows, marked, owner, price, wire, charged>>

-----------------------------------------------------------------------------
(* The reports an acquisition can end with, named for the place in the     *)
(* code that makes them.  Those in Caught are made inside the try block of *)
(* the attempt loop, so an error while making one is caught there.         *)

Blocked   == {"gate", "noAdapter", "manual", "taken", "refused",
              "dryNotReady", "dryTaken"}
Succeeded == {"success", "drySuccess"}
Failed    == {"exhausted"}
Reports   == Blocked \cup Succeeded \cup Failed
Caught    == {"taken", "refused", "success"}

Outcomes == {"blocked", "failed", "success"}

Outcome(r) == CASE r \in Blocked   -> "blocked"
                [] r \in Succeeded -> "success"
                [] OTHER           -> "failed"

Stages == {"idle", "preflight", "budget", "check", "rehearse", "register",
           "mark", "record", "announce", "failed", "broken"}

\* sent and logged count this call's purchase orders and its rows (those of
\* rehearsals apart).
Call == [at : Stages, live : BOOLEAN, dom : Domains \cup {"none"},
         attempt : Nat \ {0}, quote : Prices \cup {NoPrice},
         rehearsed : Prices \cup {NoPrice}, report : Reports \cup {"none"},
         sent : Nat, logged : Nat, result : {"none", "value", "raised"}]

Fresh(at, live, d) ==
    [at |-> at, live |-> live, dom |-> d, attempt |-> 1, quote |-> NoPrice,
     rehearsed |-> NoPrice, report |-> "none", sent |-> 0, logged |-> 0,
     result |-> "none"]

NoCall == Fresh("idle", FALSE, "none")

Order == [by : Procs, dom : ComDomains, cost : Prices,
          rehearsed : Prices \cup {NoPrice}]

LiveRows(d) == rows[d]["blocked"] + rows[d]["failed"] + rows[d]["success"]

\* db.record_attempt(domain, "live", outcome)
Insert(d, o) == rows' = [rows EXCEPT ![d][o] = @ + 1]

At(p, stage) == call[p].at = stage
Live(p)      == call[p].live
Dom(p)       == call[p].dom

Becomes(p, c) == call' = [call EXCEPT ![p] = c]

Goto(p, stage) == Becomes(p, [call[p] EXCEPT !.at = stage])

\* A report ends the attempt loop: its variables are not read any more.
Report(p, r) ==
    Becomes(p, [call[p] EXCEPT !.at = "record", !.report = r,
                               !.quote = NoPrice, !.rehearsed = NoPrice])

Return(p, result) ==
    Becomes(p, [call[p] EXCEPT !.at = "idle", !.result = result, !.attempt = 1,
                               !.quote = NoPrice, !.rehearsed = NoPrice])

\* Mutant: the attempt is tried again and not counted.
RetriableUncounted(p) ==
    IF Live(p) THEN Goto(p, "check") ELSE Return(p, "raised")

\* A ProviderError, NotConfigured, NotImplementedError or Blocked in the
\* attempt loop is one failed attempt; anything else ends the loop.  dry_run
\* catches neither.
Retriable(p)  == IF Live(p) THEN Goto(p, "failed") ELSE Return(p, "raised")
Unexpected(p) == IF Live(p) THEN Report(p, "exhausted") ELSE Return(p, "raised")

\* Mutant: the error is swallowed, as if the report had been made.
UnreportableSwallowed(p) == Return(p, "value")

\* A database error while a report is being made.
Unreportable(p) == IF call[p].report \in Caught THEN Report(p, "exhausted")
                                                ELSE Return(p, "raised")

-----------------------------------------------------------------------------
Init ==
    /\ call = [p \in Procs |-> NoCall]
    /\ late = [p \in Procs |-> 0]
    /\ stop = FALSE
    /\ dbOk = TRUE
    /\ rows = [d \in Domains |-> [o \in Outcomes |-> 0]]
    /\ marked = {}
    /\ owner = [d \in Domains |-> "held"]
    /\ price \in [Domains -> Prices]
    /\ wire = {}
    /\ charged = {}

\* check_once or "cli register" calls try_acquire(d, live=True).
TryAcquire(p, d) ==
    /\ At(p, "idle")
    /\ LiveRows(d) < MaxRows
    /\ Becomes(p, Fresh("preflight", TRUE, d))
    /\ UNCHANGED <<late, stop, dbOk, database, market>>

\* "cli dry-run" calls dry_run(d).
DryRun(p, d) ==
    /\ p \in DryRunners
    /\ At(p, "idle")
    /\ Becomes(p, Fresh("preflight", FALSE, d))
    /\ UNCHANGED <<late, stop, dbOk, database, market>>

\* Mutant: gate G2 is forgotten.
PermittedIgnoringStop(p) == Dom(p) \in Allowlist /\ (Live(p) => p \in AutoProcs)

\* Gates G1, G2 and G3.
Permitted(p) == /\ Dom(p) \in Allowlist
                /\ ~stop
                /\ Live(p) => p \in AutoProcs

\* Blocked is reported by try_acquire and leaves dry_run as an exception.
Preflight(p) ==
    /\ At(p, "preflight")
    /\ \/ /\ Permitted(p)
          /\ \/ Live(p) /\ Goto(p, "budget")
             \/ ~Live(p) /\ Dom(p) \in ComDomains /\ Goto(p, "check")
             \/ ~Live(p) /\ Dom(p) \notin ComDomains /\ Return(p, "raised")
       \/ /\ ~Permitted(p)
          /\ IF Live(p) THEN Report(p, "gate") ELSE Return(p, "raised")
    /\ UNCHANGED <<late, stop, dbOk, database, market>>

\* Where an acquisition that passed the gates goes: the attempt loop for a
\* .com domain; every TRABIS call raises, and other TLDs have no adapter.
Route(p) ==
    \/ /\ Dom(p) \in ComDomains
       /\ IF MaxAttempts = 0 THEN Report(p, "exhausted") ELSE Goto(p, "check")
    \/ Dom(p) \in TrDomains \ ComDomains /\ Report(p, "manual")
    \/ Dom(p) \notin ComDomains \cup TrDomains /\ Report(p, "noAdapter")

\* Mutant: the last attempt of the budget is not counted.
SpentLate(d) == LiveRows(d) > Budget

\* Gate G4: every live row of the window counts, whatever its outcome.
Spent(d) == LiveRows(d) >= Budget

AttemptBudget(p) ==
    /\ At(p, "budget")
    /\ \/ ~dbOk /\ Return(p, "raised")
       \/ dbOk /\ Spent(Dom(p)) /\ Report(p, "gate")
       \/ dbOk /\ ~Spent(Dom(p)) /\ Route(p)
    /\ UNCHANGED <<late, stop, dbOk, database, market>>

-----------------------------------------------------------------------------
(* The attempt loop.  A domain is sellable when a request that quotes its  *)
(* price would go through: cost must equal the current price.              *)

Sellable(d, cost) == owner[d] = "free" /\ price[d] = cost

\* provider.check: the price of a free domain, or none.
Asked(d) == {price[d], NoPrice}

\* Mutant: no ceiling.
PriceGateOpen(q) == q # NoPrice

\* Gate G7.
PriceGate(q) == q \in 1..MaxCost

\* A price below the ceiling goes to the rehearsal or straight to the order.
Quote(p, q) ==
    IF PriceGate(q)
    THEN Becomes(p, [call[p] EXCEPT !.quote = q,
                                    !.at = IF Live(p) /\ ~DryRunFirst
                                           THEN "register" ELSE "rehearse"])
    ELSE Retriable(p)

\* Gates G5 and G6; an unreadable price raises ValueError, which is unexpected.
Check(p) ==
    /\ At(p, "check")
    /\ \/ p \in ReadyProcs /\ Retriable(p)
       \/ p \in ReadyProcs /\ Unexpected(p)
       \/ p \notin ReadyProcs /\ Live(p) /\ Retriable(p)
       \/ p \notin ReadyProcs /\ ~Live(p) /\ Report(p, "dryNotReady")
       \/ /\ p \in ReadyProcs
          /\ owner[Dom(p)] # "free"
          /\ Report(p, IF Live(p) THEN "taken" ELSE "dryTaken")
       \/ /\ p \in ReadyProcs
          /\ owner[Dom(p)] = "free"
          /\ \E q \in Asked(Dom(p)) : Quote(p, q)
    /\ UNCHANGED <<late, stop, dbOk, database, market>>

\* Gate G8, which a rehearsal passes unless its answer says otherwise, and the
\* dry-run row it leaves.
Rehearse(p) ==
    /\ At(p, "rehearse")
    /\ \/ Retriable(p)
       \/ Unexpected(p)
       \/ Report(p, IF Live(p) THEN "refused" ELSE "drySuccess")
       \/ /\ Live(p)
          /\ IF dbOk
             THEN Becomes(p, [call[p] EXCEPT !.rehearsed = call[p].quote,
                                             !.at = "register"])
             ELSE Unexpected(p)
    /\ UNCHANGED <<late, stop, dbOk, database, market>>

OrderOf(p) == [by |-> p, dom |-> Dom(p), cost |-> call[p].quote,
               rehearsed |-> call[p].rehearsed]

\* Mutant: an order that is not answered is taken for a purchase.
OnNoReplyOptimist == "mark"

\* Inconclusive, the error of a request without an answer, is retriable.
OnNoReply == "failed"

\* provider.register(dry_run=False): bought, refused, or not answered.  An
\* order that is not answered is one failed attempt, like a refusal; a reply
\* that is no JSON object ends the loop.
Register(p) ==
    /\ At(p, "register")
    /\ late' = [late EXCEPT ![p] = IF stop THEN @ + 1 ELSE @]
    /\ \/ /\ Sellable(Dom(p), call[p].quote)
          /\ owner' = [owner EXCEPT ![Dom(p)] = "us"]
          /\ charged' = charged \cup {OrderOf(p)}
          /\ Becomes(p, [call[p] EXCEPT !.at = "mark", !.sent = @ + 1])
          /\ UNCHANGED wire
       \/ /\ wire' \in {wire, wire \cup {OrderOf(p)}}
          /\ \E next \in {OnNoReply, "broken"} :
                Becomes(p, [call[p] EXCEPT !.at = next, !.sent = @ + 1])
          /\ UNCHANGED <<owner, charged>>
    /\ UNCHANGED <<stop, dbOk, database, price>>

EndLoop(p) ==
    /\ At(p, "broken")
    /\ Unexpected(p)
    /\ UNCHANGED <<late, stop, dbOk, database, market>>

\* Mutant: the flag is set by an upsert.
MarkedRowUpsert(d) == {d}

\* db.mark_registered_by_us: the UPDATE finds no row for a domain that was
\* never looked up.
MarkedRow(d) == {d} \cap Tracked

\* provider.owns only words the report: its errors are swallowed.
MarkRegistered(p) ==
    /\ At(p, "mark")
    /\ IF dbOk
       THEN /\ marked' = marked \cup MarkedRow(Dom(p))
            /\ Report(p, "success")
       ELSE UNCHANGED marked /\ Unexpected(p)
    /\ UNCHANGED <<late, stop, dbOk, rows, market>>

\* Mutant: one attempt too many.
AnotherInclusive(p) == call[p].attempt <= MaxAttempts

Another(p) == call[p].attempt < MaxAttempts

\* The row of a failed attempt; then the next attempt or the last report.
RecordFailure(p) ==
    /\ At(p, "failed")
    /\ IF dbOk
       THEN /\ Insert(Dom(p), "failed")
            /\ Becomes(p, [call[p] EXCEPT
                              !.at = IF Another(p) THEN "check" ELSE "record",
                              !.report = IF Another(p)
                                         THEN "none" ELSE "exhausted",
                              !.attempt = Min(@ + 1, MaxAttempts),
                              !.logged = @ + 1,
                              !.quote = NoPrice,
                              !.rehearsed = NoPrice])
       ELSE UNCHANGED rows /\ Return(p, "raised")
    /\ UNCHANGED <<late, stop, dbOk, marked, market>>

-----------------------------------------------------------------------------
(* _record: the attempt's row, then its event and its alert.  notify never *)
(* raises, and writes and sends nothing another step depends on.           *)

RecordAttempt(p) ==
    /\ At(p, "record")
    /\ IF dbOk
       THEN /\ Becomes(p, [call[p] EXCEPT !.at = "announce", !.logged = @ + 1])
            /\ IF Live(p) THEN Insert(Dom(p), Outcome(call[p].report))
                          ELSE UNCHANGED rows
       ELSE UNCHANGED rows /\ Unreportable(p)
    /\ UNCHANGED <<late, stop, dbOk, marked, market>>

Announce(p) ==
    /\ At(p, "announce")
    /\ IF dbOk THEN Return(p, "value") ELSE Unreportable(p)
    /\ UNCHANGED <<late, stop, dbOk, database, market>>

\* The process dies; the next one knows nothing of the call.
Crash(p) ==
    /\ ~At(p, "idle")
    /\ Becomes(p, NoCall)
    /\ UNCHANGED <<late, stop, dbOk, database, market>>

-----------------------------------------------------------------------------
(* The operator, the disk, the clock and the registrar.                    *)

\* cmd_stop and cmd_resume.
OperatorStop ==
    /\ ~stop
    /\ stop' = TRUE
    /\ UNCHANGED <<call, late, dbOk, database, market>>

OperatorResume ==
    /\ stop
    /\ stop' = FALSE
    /\ late' = [p \in Procs |-> 0]
    /\ UNCHANGED <<call, dbOk, database, market>>

\* The database gets locked beyond its timeout, the disk full, and back.
DbToggle ==
    /\ dbOk' = ~dbOk
    /\ UNCHANGED <<call, late, stop, database, market>>

\* A row of d gets older than REGISTRATION_ATTEMPT_WINDOW_HOURS.
Age(d) ==
    /\ \E o \in Outcomes :
          /\ rows[d][o] > 0
          /\ rows' = [rows EXCEPT ![d][o] = @ - 1]
    /\ UNCHANGED <<call, late, stop, dbOk, marked, market>>

\* A held domain drops; somebody else registers a free one.
Drop(d) ==
    /\ owner[d] = "held"
    /\ owner' = [owner EXCEPT ![d] = "free"]
    /\ UNCHANGED <<call, late, stop, dbOk, database, price, wire, charged>>

Snatch(d) ==
    /\ owner[d] = "free"
    /\ owner' = [owner EXCEPT ![d] = "held"]
    /\ UNCHANGED <<call, late, stop, dbOk, database, price, wire, charged>>

Reprice(d) ==
    /\ \E q \in Prices \ {price[d]} : price' = [price EXCEPT ![d] = q]
    /\ UNCHANGED <<call, late, stop, dbOk, database, owner, wire, charged>>

\* An order nobody waits for any more is carried out, or is lost.
CarryOut(r) ==
    /\ Sellable(r.dom, r.cost)
    /\ owner' = [owner EXCEPT ![r.dom] = "us"]
    /\ charged' = charged \cup {r}
    /\ wire' = wire \ {r}
    /\ UNCHANGED <<call, late, stop, dbOk, database, price>>

Lose(r) ==
    /\ wire' = wire \ {r}
    /\ UNCHANGED <<call, late, stop, dbOk, database, owner, price, charged>>

-----------------------------------------------------------------------------
Proceed(p) ==
    \/ Preflight(p)
    \/ AttemptBudget(p)
    \/ Check(p)
    \/ Rehearse(p)
    \/ Register(p)
    \/ MarkRegistered(p)
    \/ RecordFailure(p)
    \/ EndLoop(p)
    \/ RecordAttempt(p)
    \/ Announce(p)

Environment ==
    \/ OperatorStop
    \/ OperatorResume
    \/ DbToggle
    \/ \E d \in Domains : Age(d)
    \/ \E d \in ComDomains : Drop(d) \/ Snatch(d) \/ Reprice(d)
    \/ \E r \in wire : CarryOut(r) \/ Lose(r)

Next ==
    \/ \E p \in Procs :
          \/ \E d \in Domains : TryAcquire(p, d) \/ DryRun(p, d)
          \/ Proceed(p)
          \/ Crash(p)
    \/ Environment

\* Every step of a running call ends by itself: network calls and the
\* database have timeouts, the cooldown is a finite sleep.
Fairness == \A p \in Procs : WF_vars(Proceed(p))

Spec == Init /\ [][Next]_vars
FairSpec == Spec /\ Fairness

-----------------------------------------------------------------------------
(* Properties.                                                             *)

\* Every variable keeps its type; the attempt counter stays in the range the
\* loop of try_acquire gives it, and only tracked domains are marked.
TypeOK ==
    /\ call \in [Procs -> Call]
    /\ \A p \in Procs : call[p].attempt <= MaxAttempts \/ call[p].attempt = 1
    /\ late \in [Procs -> Nat]
    /\ stop \in BOOLEAN
    /\ dbOk \in BOOLEAN
    /\ rows \in [Domains -> [Outcomes -> Nat]]
    /\ marked \subseteq Tracked
    /\ owner \in [Domains -> {"held", "free", "us"}]
    /\ price \in [Domains -> Prices]
    /\ wire \subseteq Order
    /\ charged \subseteq Order

\* Whatever the registrar has charged, or may still charge for an order in
\* flight, was let through by the gates: an allowlisted .com domain, ordered
\* by a process started with live registration and a configured adapter, at
\* a price under the ceiling and, with REGISTER_DRY_RUN_FIRST, the price that
\* was rehearsed in the same attempt -- however the price, the STOP file and
\* the other process moved between the gate and the order.
ChargesAuthorised ==
    \A r \in wire \cup charged :
        /\ r.dom \in Allowlist
        /\ r.by \in AutoProcs \cap ReadyProcs
        /\ r.cost <= MaxCost
        /\ DryRunFirst => r.rehearsed = r.cost

\* A success that was recorded, marked or returned is a purchase the account
\* paid for and a domain that is ours, across lost replies and crashes.
Ours(d) == owner[d] = "us" /\ \E r \in charged : r.dom = d

SuccessIsOurs ==
    /\ \A d \in Domains :
          d \in marked \/ rows[d]["success"] > 0 => Ours(d)
    /\ \A p \in Procs : call[p].report = "success" => Ours(Dom(p))

\* The audit trail under database faults: at no moment has a call more than
\* one order without a row, and a call that returns a value has a row for
\* each order it sent and at least one row.
AuditTrail ==
    \A p \in Procs :
        /\ call[p].sent <= call[p].logged + 1
        /\ Live(p) /\ call[p].result = "value" =>
               call[p].logged >= 1 /\ call[p].sent <= call[p].logged

\* The STOP file does not interrupt a call, but drains it: from the moment
\* the file appears, each process orders at most what was left of the attempts
\* of the one call that had passed gate G2.
StopDrains == \A p \in Procs : late[p] <= MaxAttempts

\* Gate G4 is asked once per call, before the call has written anything, and
\* processes ask it at the same time: what they may attempt beyond the budget
\* is one call of each, the row of its report included.
BudgetOverrun ==
    \A d \in Domains :
        rows[d]["failed"] + rows[d]["success"]
            <= (Budget - 1) + Cardinality(Procs) * (MaxAttempts + 1)

\* try_acquire and dry_run end, whatever the registrar, the database and the
\* operator do.
CallsReturn == \A p \in Procs : ~At(p, "idle") ~> At(p, "idle")

-----------------------------------------------------------------------------
(* The acquisition path implements SafePurchase: a call holds a clearance   *)
(* from the gates to the end of the attempt loop.                           *)

Cleared(p) == Live(p) /\ call[p].at \in {"budget", "check", "rehearse",
                                         "register", "mark", "failed",
                                         "broken"}

ClearanceOf(p) == IF Cleared(p)
                  THEN [dom |-> Dom(p), left |-> MaxAttempts - call[p].sent]
                  ELSE [dom |-> "none", left |-> 0]

Clearance == [p \in Procs |-> ClearanceOf(p)]

Purchase == INSTANCE SafePurchase
               WITH clearance <- Clearance, orders <- wire, ledger <- charged

\* Every step is a step of SafePurchase or changes nothing of it.
ImplementsSafePurchase == Purchase!Spec

-----------------------------------------------------------------------------
(* The inductive invariant: what a call has passed, what it has counted,   *)
(* and what it may still order while the STOP file exists.                 *)

PassedGates(p) ==
    LET c == call[p] IN
    /\ c.at \in {"budget", "check", "rehearse", "register", "mark", "failed",
                 "broken"}
          => c.dom \in Allowlist
    /\ Cleared(p) => p \in AutoProcs
    /\ c.at \in {"check", "rehearse", "register", "mark", "failed", "broken"}
          => c.dom \in ComDomains
    /\ c.at \in {"budget", "register", "mark", "failed", "broken"} => c.live
    /\ c.at \in {"rehearse", "register"}
          => p \in ReadyProcs /\ c.quote \in Prices /\ c.quote <= MaxCost
    /\ c.at = "register" /\ DryRunFirst => c.rehearsed = c.quote
    /\ c.at # "idle" \/ c.report # "none" => c.dom \in Domains
    /\ c.at = "mark" => Ours(c.dom)
    /\ c.report = "drySuccess" => ~c.live

Counted(p) ==
    LET c == call[p] IN
    /\ c.at # "idle" => c.result = "none"
    /\ c.at \in {"record", "announce"} => c.report # "none"
    /\ c.at \in {"preflight", "budget"}
          => c.attempt = 1 /\ c.sent = 0 /\ c.logged = 0
    /\ ~c.live => c.sent = 0
    /\ c.live /\ c.at \in {"check", "rehearse", "register"} =>
          /\ c.attempt <= MaxAttempts
          /\ c.logged = c.attempt - 1
          /\ c.sent < c.attempt
    /\ c.at \in {"mark", "failed", "broken"} =>
          /\ c.attempt <= MaxAttempts
          /\ c.logged = c.attempt - 1
          /\ c.sent <= c.attempt
    /\ c.at = "announce" => c.logged >= 1 /\ c.sent <= c.logged

Draining(p) ==
    /\ ~stop => late[p] = 0
    /\ stop /\ Cleared(p) => late[p] <= call[p].sent

IInv ==
    /\ TypeOK
    /\ ChargesAuthorised
    /\ SuccessIsOurs
    /\ AuditTrail
    /\ StopDrains
    /\ \A p \in Procs : PassedGates(p) /\ Counted(p) /\ Draining(p)
=============================================================================
