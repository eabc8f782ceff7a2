--------------------------- MODULE AcquireProofs ---------------------------
(***************************************************************************)
(* The invariants of Acquire, for every value of the constants.  IInv is   *)
(* split into what all processes share and what one process has passed and *)
(* counted, so that a step of one process leaves the others' part alone:   *)
(* the lemmas of the first part say what Goto, Report, Return and the two  *)
(* kinds of failure do, those of the second take one action each.          *)
(***************************************************************************)
EXTENDS Acquire, TLAPS

Others(p) == \A q \in Procs \ {p} : call'[q] = call[q]

Calls == call \in [Procs -> Call]

\* A step that sets the call of p leaves those of the other processes alone.
LEMMA BecomesEffect ==
    ASSUME Calls, NEW p \in Procs, NEW c \in Call, Becomes(p, c)
    PROVE  Calls' /\ Others(p) /\ call'[p] = c
BY DEF Calls, Others, Becomes

\* Goto moves p to another stage and changes nothing else of its call.
LEMMA GotoEffect ==
    ASSUME Calls, NEW p \in Procs, NEW stage \in Stages, Goto(p, stage)
    PROVE  /\ Calls'
           /\ Others(p)
           /\ call'[p] = [call[p] EXCEPT !.at = stage]
<1>1. [call[p] EXCEPT !.at = stage] \in Call
    BY DEF Calls, Call
<1> QED
    BY <1>1, BecomesEffect DEF Goto

\* Report leaves the attempt loop with a report to record.
LEMMA ReportEffect ==
    ASSUME Calls, NEW p \in Procs, NEW r \in Reports, Report(p, r)
    PROVE  /\ Calls'
           /\ Others(p)
           /\ call'[p] = [call[p] EXCEPT !.at = "record", !.report = r,
                                         !.quote = NoPrice,
                                         !.rehearsed = NoPrice]
<1>1. [call[p] EXCEPT !.at = "record", !.report = r, !.quote = NoPrice,
                      !.rehearsed = NoPrice] \in Call
    BY DEF Calls, Call, Stages
<1> QED
    BY <1>1, BecomesEffect DEF Report

\* Return ends the call with a value or an exception.
LEMMA ReturnEffect ==
    ASSUME Calls, NEW p \in Procs, NEW v \in {"value", "raised"}, Return(p, v)
    PROVE  /\ Calls'
           /\ Others(p)
           /\ call'[p] = [call[p] EXCEPT !.at = "idle", !.result = v,
                                         !.attempt = 1, !.quote = NoPrice,
                                         !.rehearsed = NoPrice]
<1>1. call[p] \in Call /\ 1 \in Nat \ {0} /\ "idle" \in Stages
    BY DEF Calls, Stages
<1>2. [call[p] EXCEPT !.at = "idle", !.result = v, !.attempt = 1,
                      !.quote = NoPrice, !.rehearsed = NoPrice] \in Call
    BY <1>1 DEF Call
<1> QED
    BY <1>2, BecomesEffect DEF Return

-----------------------------------------------------------------------------
(* The invariant, split into what concerns one process and what is shared. *)

Own(p) ==
    /\ call[p].attempt <= MaxAttempts \/ call[p].attempt = 1
    /\ call[p].report = "success" => Ours(Dom(p))
    /\ call[p].sent <= call[p].logged + 1
    /\ Live(p) /\ call[p].result = "value" =>
           call[p].logged >= 1 /\ call[p].sent <= call[p].logged
    /\ late[p] <= MaxAttempts
    /\ PassedGates(p)
    /\ Counted(p)
    /\ Draining(p)

Shared ==
    /\ stop \in BOOLEAN
    /\ dbOk \in BOOLEAN
    /\ rows \in [Domains -> [Outcomes -> Nat]]
    /\ marked \subseteq Tracked
    /\ owner \in [Domains -> {"held", "free", "us"}]
    /\ price \in [Domains -> Prices]
    /\ wire \subseteq Order
    /\ charged \subseteq Order
    /\ ChargesAuthorised
    /\ \A d \in Domains : d \in marked \/ rows[d]["success"] > 0 => Ours(d)

\* The inductive invariant is the shared part and the part of each process.
LEMMA Split ==
    IInv <=> /\ Calls
             /\ late \in [Procs -> Nat]
             /\ Shared
             /\ \A p \in Procs : Own(p)
BY DEF IInv, TypeOK, SuccessIsOurs, AuditTrail, StopDrains, Calls, Shared, Own

\* A purchase is for ever.
Keeps == \A d \in Domains : Ours(d) => Ours(d)'

\* The part of a process that does not move survives a step that takes no
\* domain from us.
LEMMA OthersKeep ==
    ASSUME IInv, NEW p \in Procs, Calls', Others(p), Keeps, stop' = stop,
           NEW q \in Procs \ {p}, late'[q] = late[q]
    PROVE  Own(q)'
<1>1. Own(q) /\ call'[q] = call[q] /\ call[q] \in Call
    BY Split DEF Others, Calls
<1>2. PassedGates(q)'
    BY <1>1 DEF Own, PassedGates, Cleared, Keeps, Ours, Live
<1>3. call'[q].report = "success" => Ours(Dom(q))'
    BY <1>1 DEF Own, PassedGates, Keeps, Ours, Dom
<1>4. Counted(q)' /\ Draining(q)'
    BY <1>1 DEF Own, Counted, Draining, Cleared, Live
<1> QED
    BY <1>1, <1>2, <1>3, <1>4 DEF Own, Live

\* A step of p keeps the invariant when it keeps the shared part and p's own.
LEMMA StepOfOne ==
    ASSUME IInv, NEW p \in Procs, Calls', Others(p), Keeps, stop' = stop,
           late' \in [Procs -> Nat],
           \A q \in Procs \ {p} : late'[q] = late[q],
           Shared', Own(p)'
    PROVE  IInv'
<1>1. ASSUME NEW q \in Procs PROVE Own(q)'
    <2>1. CASE q = p
        BY <2>1
    <2>2. CASE q # p
        BY <2>2, OthersKeep
    <2> QED
        BY <2>1, <2>2
<1> QED
    BY <1>1 DEF IInv, TypeOK, SuccessIsOurs, AuditTrail, StopDrains, Calls, Shared, Own

\* A step that changes nothing but the call of its process.
LocalStep(p) == Others(p) /\ UNCHANGED <<late, stop, dbOk, database, market>>

\* A step that only changes the call of p has only p's own part to keep.
LEMMA LocalStepKeeps ==
    ASSUME IInv, NEW p \in Procs, Calls', LocalStep(p), Own(p)'
    PROVE  IInv'
<1>1. Keeps
    BY DEF LocalStep, Keeps, Ours, market
<1>2. Shared'
    BY Split DEF LocalStep, Shared, Order, ChargesAuthorised, Ours, database, market
<1> QED
    BY <1>1, <1>2, StepOfOne, Split DEF LocalStep

-----------------------------------------------------------------------------
(* One lemma per action: the invariant of the process that takes it.       *)

\* A call that starts has passed and counted nothing.
LEMMA TryAcquireStep ==
    ASSUME IInv, NEW p \in Procs, NEW d \in Domains,
           TryAcquire(p, d) \/ DryRun(p, d)
    PROVE  IInv'
<1>0. Calls /\ Own(p) /\ call[p].at = "idle"
    BY Split DEF TryAcquire, DryRun, At
<1>1. PICK b \in BOOLEAN : Becomes(p, Fresh("preflight", b, d))
    BY DEF TryAcquire, DryRun
<1>2. Fresh("preflight", b, d) \in Call
    BY DEF Fresh, Call, Stages
<1>3. Calls' /\ Others(p) /\ call'[p] = Fresh("preflight", b, d)
    BY <1>0, <1>1, <1>2, BecomesEffect
<1>4. Own(p)'
    BY <1>0, <1>3 DEF Own, Fresh, PassedGates, Counted, Draining, Cleared, TryAcquire, DryRun, Live, Dom, Reports, Blocked, Succeeded, Failed
<1> QED
    BY <1>3, <1>4, LocalStepKeeps DEF LocalStep, TryAcquire, DryRun

\* A process that dies forgets its call, and with it what must hold of it.
LEMMA CrashStep ==
    ASSUME IInv, NEW p \in Procs, Crash(p)
    PROVE  IInv'
<1>0. Calls /\ Own(p)
    BY Split
<1>1. NoCall \in Call
    BY DEF NoCall, Fresh, Call, Stages
<1>2. Calls' /\ Others(p) /\ call'[p] = NoCall
    BY <1>0, <1>1, BecomesEffect DEF Crash
<1>3. Own(p)'
    BY <1>0, <1>2 DEF Own, NoCall, Fresh, PassedGates, Counted, Draining, Cleared, Crash, Live, Dom
<1> QED
    BY <1>2, <1>3, LocalStepKeeps DEF LocalStep, Crash

\* Any report but the one of a success can be made at any time.
LEMMA ReportStep ==
    ASSUME IInv, NEW p \in Procs, call[p].at # "idle",
           NEW r \in Reports \ {"success"}, Report(p, r),
           r = "drySuccess" => ~Live(p),
           UNCHANGED <<late, stop, dbOk, database, market>>
    PROVE  IInv'
<1>0. Calls /\ Own(p) /\ call[p] \in Call
    BY Split DEF Calls
<1>1. /\ Calls' /\ Others(p)
      /\ call'[p] = [call[p] EXCEPT !.at = "record", !.report = r,
                                    !.quote = NoPrice, !.rehearsed = NoPrice]
    BY <1>0, ReportEffect
<1>2. Own(p)'
    BY <1>0, <1>1 DEF Call, Own, PassedGates, Counted, Draining, Cleared, Live, Dom, Reports, Blocked, Succeeded, Failed
<1> QED
    BY <1>1, <1>2, LocalStepKeeps DEF LocalStep

\* A call can end with an exception at any time.
LEMMA RaiseStep ==
    ASSUME IInv, NEW p \in Procs, call[p].at # "idle", Return(p, "raised"),
           UNCHANGED <<late, stop, dbOk, database, market>>
    PROVE  IInv'
<1>0. Calls /\ Own(p) /\ call[p] \in Call
    BY Split DEF Calls
<1>1. /\ Calls' /\ Others(p)
      /\ call'[p] = [call[p] EXCEPT !.at = "idle", !.result = "raised",
                                    !.attempt = 1, !.quote = NoPrice,
                                    !.rehearsed = NoPrice]
    BY <1>0, ReturnEffect
<1>2. Own(p)'
    BY <1>0, <1>1 DEF Call, Own, PassedGates, Counted, Draining, Cleared, Live, Dom, Ours, market
<1> QED
    BY <1>1, <1>2, LocalStepKeeps DEF LocalStep

\* The moves between stages that count nothing.
LEMMA GotoStep ==
    ASSUME IInv, NEW p \in Procs, NEW stage \in Stages, Goto(p, stage),
           UNCHANGED <<late, stop, dbOk, database, market>>,
           \/ call[p].at = "preflight" /\ stage = "budget" /\ Permitted(p) /\ Live(p)
           \/ call[p].at = "preflight" /\ stage = "check" /\ Permitted(p)
              /\ ~Live(p) /\ Dom(p) \in ComDomains
           \/ call[p].at = "budget" /\ stage = "check" /\ Dom(p) \in ComDomains
              /\ MaxAttempts # 0
           \/ call[p].at \in {"check", "rehearse"} /\ stage = "failed" /\ Live(p)
    PROVE  IInv'
<1>0. Calls /\ Own(p) /\ call[p] \in Call
    BY Split DEF Calls
<1>1. Calls' /\ Others(p) /\ call'[p] = [call[p] EXCEPT !.at = stage]
    BY <1>0, GotoEffect
<1>2. Own(p)'
    BY <1>0, <1>1, AttemptsAssumption DEF Call, Own, Permitted, PassedGates, Counted, Draining, Cleared, Live, Dom, Ours, market
<1> QED
    BY <1>1, <1>2, LocalStepKeeps DEF LocalStep

\* Gates G1 to G3 establish what the later stages rely on.
LEMMA PreflightStep ==
    ASSUME IInv, NEW p \in Procs, Preflight(p)
    PROVE  IInv'
<1>1. call[p].at = "preflight" /\ UNCHANGED <<late, stop, dbOk, database, market>>
    BY DEF Preflight, At
<1>2. {"budget", "check"} \subseteq Stages /\ "gate" \in Reports
    BY DEF Stages, Reports, Blocked
<1> QED
    BY <1>1, <1>2, GotoStep, ReportStep, RaiseStep DEF Preflight

\* Gate G4 and the choice of the adapter.
LEMMA AttemptBudgetStep ==
    ASSUME IInv, NEW p \in Procs, AttemptBudget(p)
    PROVE  IInv'
<1>1. call[p].at = "budget" /\ UNCHANGED <<late, stop, dbOk, database, market>>
    BY DEF AttemptBudget, At
<1>2. "check" \in Stages /\ {"gate", "exhausted", "manual", "noAdapter"} \subseteq Reports
    BY DEF Stages, Reports, Blocked, Failed
<1> QED
    BY <1>1, <1>2, GotoStep, ReportStep, RaiseStep DEF AttemptBudget, Route

\* A failed attempt, and an error that ends the loop.
LEMMA RetriableStep ==
    ASSUME IInv, NEW p \in Procs, call[p].at \in {"check", "rehearse"},
           Retriable(p) \/ Unexpected(p),
           UNCHANGED <<late, stop, dbOk, database, market>>
    PROVE  IInv'
<1>1. "failed" \in Stages /\ "exhausted" \in Reports
    BY DEF Stages, Reports, Failed
<1> QED
    BY <1>1, GotoStep, ReportStep, RaiseStep DEF Retriable, Unexpected

\* The availability check and the price gate fix the quote.
LEMMA CheckStep ==
    ASSUME IInv, NEW p \in Procs, Check(p)
    PROVE  IInv'
<1>0. Calls /\ Own(p) /\ call[p] \in Call
    BY Split DEF Calls
<1>1. call[p].at = "check" /\ UNCHANGED <<late, stop, dbOk, database, market>>
    BY DEF Check, At
<1>2. {"dryNotReady", "taken", "dryTaken"} \subseteq Reports \ {"success"}
    BY DEF Reports, Blocked
<1>3. ASSUME p \in ReadyProcs, NEW q \in {price[Dom(p)], NoPrice}, Quote(p, q)
      PROVE  IInv'
    <2>1. CASE q \in 1..MaxCost
        <3> DEFINE stage == IF Live(p) /\ ~DryRunFirst
                            THEN "register" ELSE "rehearse"
        <3> DEFINE c == [call[p] EXCEPT !.quote = q, !.at = stage]
        <3>1. Becomes(p, c)
            BY <2>1, <1>3 DEF Quote, PriceGate
        <3>2. Dom(p) \in Domains
            BY <1>0, <1>1 DEF Own, PassedGates, Dom
        <3>3. q \in Prices /\ q <= MaxCost
            BY <1>3, <2>1, <3>2, Split, LimitsAssumption DEF Shared, NoPrice
        <3>4. c \in Call
            BY <1>0, <3>3 DEF Call, Stages
        <3>5. Calls' /\ Others(p) /\ call'[p] = c
            BY <1>0, <3>1, <3>4, BecomesEffect
        <3>6. Own(p)'
            BY <1>0, <1>1, <1>3, <3>3, <3>5, FlagAssumption DEF Call, Own, PassedGates, Counted, Draining, Cleared, Live, Dom, Ours, market
        <3> QED
            BY <1>1, <3>5, <3>6, LocalStepKeeps DEF LocalStep
    <2>2. CASE q \notin 1..MaxCost
        BY <1>1, <1>3, <2>2, RetriableStep DEF Quote, PriceGate
    <2> QED
        BY <2>1, <2>2
<1> QED
    BY <1>1, <1>2, <1>3, RetriableStep, ReportStep DEF Check, Asked

\* The rehearsal is of the price that will be ordered.
LEMMA RehearseStep ==
    ASSUME IInv, NEW p \in Procs, Rehearse(p)
    PROVE  IInv'
<1>0. Calls /\ Own(p) /\ call[p] \in Call
    BY Split DEF Calls
<1>1. call[p].at = "rehearse" /\ UNCHANGED <<late, stop, dbOk, database, market>>
    BY DEF Rehearse, At
<1>2. {"refused", "drySuccess"} \subseteq Reports \ {"success"}
    BY DEF Reports, Blocked, Succeeded
<1> DEFINE c == [call[p] EXCEPT !.rehearsed = call[p].quote,
                                !.at = "register"]
<1>3. ASSUME Live(p), Becomes(p, c)
      PROVE  IInv'
    <2>1. c \in Call
        BY <1>0 DEF Call, Stages
    <2>2. Calls' /\ Others(p) /\ call'[p] = c
        BY <1>0, <1>3, <2>1, BecomesEffect
    <2>3. Own(p)'
        BY <1>0, <1>1, <1>3, <2>2 DEF Call, Own, PassedGates, Counted, Draining, Cleared, Live, Dom, Ours, market
    <2> QED
        BY <1>1, <2>2, <2>3, LocalStepKeeps DEF LocalStep
<1> QED
    BY <1>1, <1>2, <1>3, RetriableStep, ReportStep DEF Rehearse

\* The order, answered or not, is authorised and counted.
LEMMA RegisterStep ==
    ASSUME IInv, NEW p \in Procs, Register(p)
    PROVE  IInv'
<1>0. Calls /\ Own(p) /\ call[p] \in Call /\ late \in [Procs -> Nat] /\ Shared
    BY Split DEF Calls
<1>1. call[p].at = "register" /\ UNCHANGED <<stop, dbOk, database, price>>
    BY DEF Register, At
<1>2. OrderOf(p) \in Order
    BY <1>0, <1>1 DEF Own, PassedGates, OrderOf, Order, Call, Dom
<1>3. /\ wire' \subseteq wire \cup {OrderOf(p)}
      /\ charged' \subseteq charged \cup {OrderOf(p)}
    BY DEF Register
<1>4. ChargesAuthorised'
    BY <1>0, <1>1, <1>3 DEF Own, PassedGates, Cleared, Live, Shared, ChargesAuthorised, OrderOf, Dom
<1>5. Keeps /\ owner' \in [Domains -> {"held", "free", "us"}]
    BY <1>0, <1>1 DEF Register, Keeps, Ours, Shared
<1>6. Shared'
    BY <1>0, <1>1, <1>2, <1>3, <1>4, <1>5 DEF Shared, Keeps, database
<1>7. /\ late' \in [Procs -> Nat]
      /\ \A q \in Procs \ {p} : late'[q] = late[q]
      /\ late'[p] = IF stop THEN late[p] + 1 ELSE late[p]
    BY <1>0 DEF Register
<1>8. Dom(p) \in Domains
    BY <1>0, <1>1 DEF Own, PassedGates, Dom
<1>9. PICK stage \in {"mark", "failed", "broken"} :
          /\ Becomes(p, [call[p] EXCEPT !.at = stage, !.sent = @ + 1])
          /\ stage = "mark" => /\ owner'[Dom(p)] = "us"
                               /\ \E r \in charged' : r.dom = Dom(p)
    <2>1. CASE /\ owner' = [owner EXCEPT ![Dom(p)] = "us"]
               /\ charged' = charged \cup {OrderOf(p)}
               /\ Becomes(p, [call[p] EXCEPT !.at = "mark", !.sent = @ + 1])
        <3>1. owner'[Dom(p)] = "us"
            BY <1>0, <1>8, <2>1 DEF Shared
        <3>2. OrderOf(p) \in charged' /\ OrderOf(p).dom = Dom(p)
            BY <2>1 DEF OrderOf
        <3> QED
            BY <2>1, <3>1, <3>2
    <2>2. CASE \E next \in {OnNoReply, "broken"} :
                  Becomes(p, [call[p] EXCEPT !.at = next, !.sent = @ + 1])
        BY <2>2 DEF OnNoReply
    <2> QED
        BY <2>1, <2>2 DEF Register
<1> DEFINE c == [call[p] EXCEPT !.at = stage, !.sent = @ + 1]
<1>10. c \in Call
    <2>1. stage \in Stages /\ call[p].sent + 1 \in Nat
        BY <1>0 DEF Call, Stages
    <2> QED
        BY <1>0, <2>1 DEF Call
<1>11. Calls' /\ Others(p) /\ call'[p] = c
    BY <1>0, <1>9, <1>10, BecomesEffect
<1>12. Own(p)'
    BY <1>0, <1>1, <1>5, <1>7, <1>8, <1>9, <1>11, AttemptsAssumption DEF Call, Own, PassedGates, Counted, Draining, Cleared, Live, Dom, Keeps, Ours
<1> QED
    BY <1>1, <1>5, <1>6, <1>7, <1>11, <1>12, StepOfOne

\* An order whose reply cannot be read ends the loop with its report.
LEMMA EndLoopStep ==
    ASSUME IInv, NEW p \in Procs, EndLoop(p)
    PROVE  IInv'
<1>1. call[p].at = "broken" /\ UNCHANGED <<late, stop, dbOk, database, market>>
    BY DEF EndLoop, At
<1>2. "exhausted" \in Reports
    BY DEF Reports, Failed
<1> QED
    BY <1>1, <1>2, ReportStep, RaiseStep DEF EndLoop, Unexpected

\* The mark is set on a domain that is ours.
LEMMA MarkRegisteredStep ==
    ASSUME IInv, NEW p \in Procs, MarkRegistered(p)
    PROVE  IInv'
<1>0. Calls /\ Own(p) /\ call[p] \in Call /\ Shared
    BY Split DEF Calls
<1>1. /\ call[p].at = "mark"
      /\ UNCHANGED <<late, stop, dbOk, rows, owner, price, wire, charged>>
    BY DEF MarkRegistered, At, market
<1>2. Live(p) /\ Ours(Dom(p)) /\ Dom(p) \in Domains
    BY <1>0, <1>1 DEF Own, PassedGates, Live, Dom
<1>3. CASE marked' = marked \cup MarkedRow(Dom(p)) /\ Report(p, "success")
    <2>1. "success" \in Reports
        BY DEF Reports, Succeeded
    <2>2. /\ Calls' /\ Others(p)
          /\ call'[p] = [call[p] EXCEPT !.at = "record", !.report = "success",
                                        !.quote = NoPrice, !.rehearsed = NoPrice]
        BY <1>0, <1>3, <2>1, ReportEffect
    <2>3. Keeps
        BY <1>1 DEF Keeps, Ours
    <2>4. Shared'
        BY <1>0, <1>1, <1>2, <1>3 DEF Shared, ChargesAuthorised, Order, Ours, MarkedRow
    <2>5. Own(p)'
        BY <1>0, <1>1, <1>2, <2>2 DEF Call, Own, PassedGates, Counted, Draining, Cleared, Live, Dom, Ours
    <2> QED
        BY <1>1, <2>2, <2>3, <2>4, <2>5, StepOfOne, Split
<1>4. CASE UNCHANGED marked /\ Unexpected(p)
    <2>1. "exhausted" \in Reports \ {"success"}
        BY DEF Reports, Failed
    <2> QED
        BY <1>1, <1>2, <1>4, <2>1, ReportStep DEF Unexpected, database, market
<1> QED
    BY <1>3, <1>4 DEF MarkRegistered

\* Adding a row that does not say success disturbs nothing that is shared.
LEMMA InsertKeeps ==
    ASSUME IInv, NEW d \in Domains, NEW o \in Outcomes, Insert(d, o),
           o = "success" => Ours(d),
           UNCHANGED <<stop, dbOk, marked, market>>
    PROVE  Keeps /\ Shared'
<1>1. Shared
    BY Split
<1>2. /\ rows' \in [Domains -> [Outcomes -> Nat]]
      /\ \A e \in Domains : rows'[e]["success"] > 0
                            => rows[e]["success"] > 0 \/ (e = d /\ o = "success")
    BY <1>1 DEF Insert, Shared, Outcomes
<1> QED
    BY <1>1, <1>2 DEF Shared, ChargesAuthorised, Order, Keeps, Ours, market

\* A failed attempt gets its row before the next one begins.
LEMMA RecordFailureStep ==
    ASSUME IInv, NEW p \in Procs, RecordFailure(p)
    PROVE  IInv'
<1>0. Calls /\ Own(p) /\ call[p] \in Call
    BY Split DEF Calls
<1>1. call[p].at = "failed" /\ UNCHANGED <<late, stop, dbOk, marked, market>>
    BY DEF RecordFailure, At
<1>2. Live(p) /\ Dom(p) \in Domains
    BY <1>0, <1>1 DEF Own, PassedGates, Live, Dom
<1> DEFINE c == [call[p] EXCEPT
                    !.at = IF Another(p) THEN "check" ELSE "record",
                    !.report = IF Another(p) THEN "none" ELSE "exhausted",
                    !.attempt = Min(@ + 1, MaxAttempts),
                    !.logged = @ + 1,
                    !.quote = NoPrice,
                    !.rehearsed = NoPrice]
<1>3. CASE Insert(Dom(p), "failed") /\ Becomes(p, c)
    <2>1. Keeps /\ Shared'
        BY <1>1, <1>2, <1>3, InsertKeeps DEF Outcomes
    <2>2. /\ call[p].attempt \in 1..MaxAttempts
          /\ Min(call[p].attempt + 1, MaxAttempts) \in 1..MaxAttempts
          /\ Another(p) => Min(call[p].attempt + 1, MaxAttempts) = call[p].attempt + 1
        BY <1>0, <1>1, AttemptsAssumption DEF Own, Counted, Call, Min, Another
    <2>3. /\ {"check", "record"} \subseteq Stages
          /\ {"none", "exhausted"} \subseteq Reports \cup {"none"}
          /\ call[p].logged + 1 \in Nat
          /\ Min(call[p].attempt + 1, MaxAttempts) \in Nat \ {0}
        BY <1>0, <2>2, AttemptsAssumption DEF Call, Stages, Reports, Failed
    <2>4. c \in Call
        BY <1>0, <2>3 DEF Call
    <2>5. Calls' /\ Others(p) /\ call'[p] = c
        BY <1>0, <1>3, <2>4, BecomesEffect
    <2>6. Own(p)'
        BY <1>0, <1>1, <1>2, <2>2, <2>5, AttemptsAssumption DEF Call, Own, PassedGates, Counted, Draining, Cleared, Live, Dom
    <2> QED
        BY <1>1, <2>1, <2>5, <2>6, StepOfOne, Split
<1>4. CASE UNCHANGED rows /\ Return(p, "raised")
    BY <1>1, <1>4, RaiseStep DEF database
<1> QED
    BY <1>3, <1>4 DEF RecordFailure

\* A report that cannot be made ends in another one or in an exception.
LEMMA UnreportableStep ==
    ASSUME IInv, NEW p \in Procs, call[p].at \in {"record", "announce"},
           Unreportable(p),
           UNCHANGED <<late, stop, dbOk, database, market>>
    PROVE  IInv'
<1>1. "exhausted" \in Reports \ {"success"}
    BY DEF Reports, Failed
<1> QED
    BY <1>1, ReportStep, RaiseStep DEF Unreportable

\* The row of the report; a row that says success is of a domain that is ours.
LEMMA RecordAttemptStep ==
    ASSUME IInv, NEW p \in Procs, RecordAttempt(p)
    PROVE  IInv'
<1>0. Calls /\ Own(p) /\ call[p] \in Call /\ Shared
    BY Split DEF Calls
<1>1. call[p].at = "record" /\ UNCHANGED <<late, stop, dbOk, marked, market>>
    BY DEF RecordAttempt, At
<1>2. Dom(p) \in Domains /\ call[p].report \in Reports
    BY <1>0, <1>1 DEF Own, PassedGates, Counted, Dom, Call
<1> DEFINE c == [call[p] EXCEPT !.at = "announce", !.logged = @ + 1]
<1>3. CASE /\ Becomes(p, c)
           /\ IF Live(p) THEN Insert(Dom(p), Outcome(call[p].report))
                         ELSE UNCHANGED rows
    <2>1. /\ Outcome(call[p].report) \in Outcomes
          /\ Outcome(call[p].report) = "success" =>
                call[p].report \in {"success", "drySuccess"}
        BY <1>2 DEF Outcome, Outcomes, Reports, Succeeded, Blocked, Failed
    <2>2. Keeps /\ Shared'
        <3>1. CASE Live(p)
            BY <1>0, <1>1, <1>2, <1>3, <2>1, <3>1, InsertKeeps DEF Own, PassedGates, Live
        <3>2. CASE ~Live(p)
            BY <1>0, <1>1, <1>3, <3>2 DEF Shared, ChargesAuthorised, Order, Keeps, Ours, market
        <3> QED
            BY <3>1, <3>2
    <2>3. "announce" \in Stages /\ call[p].logged + 1 \in Nat
        BY <1>0 DEF Call, Stages
    <2>4. c \in Call
        BY <1>0, <2>3 DEF Call
    <2>5. Calls' /\ Others(p) /\ call'[p] = c
        BY <1>0, <1>3, <2>4, BecomesEffect
    <2>6. Own(p)'
        BY <1>0, <1>1, <2>5 DEF Call, Own, PassedGates, Counted, Draining, Cleared, Live, Dom, Ours, market
    <2> QED
        BY <1>1, <2>2, <2>5, <2>6, StepOfOne, Split
<1>4. CASE UNCHANGED rows /\ Unreportable(p)
    BY <1>1, <1>4, UnreportableStep DEF database
<1> QED
    BY <1>3, <1>4 DEF RecordAttempt

\* The event and the alert, after the row.
LEMMA AnnounceStep ==
    ASSUME IInv, NEW p \in Procs, Announce(p)
    PROVE  IInv'
<1>0. Calls /\ Own(p) /\ call[p] \in Call
    BY Split DEF Calls
<1>1. /\ call[p].at = "announce"
      /\ UNCHANGED <<late, stop, dbOk, database, market>>
    BY DEF Announce, At
<1>2. CASE Return(p, "value")
    <2>1. /\ Calls' /\ Others(p)
          /\ call'[p] = [call[p] EXCEPT !.at = "idle", !.result = "value",
                                        !.attempt = 1, !.quote = NoPrice,
                                        !.rehearsed = NoPrice]
        BY <1>0, <1>2, ReturnEffect
    <2>2. Own(p)'
        BY <1>0, <1>1, <2>1 DEF Call, Own, PassedGates, Counted, Draining, Cleared, Live, Dom, Ours, market
    <2> QED
        BY <1>1, <2>1, <2>2, LocalStepKeeps DEF LocalStep
<1>3. CASE Unreportable(p)
    BY <1>1, <1>3, UnreportableStep
<1> QED
    BY <1>2, <1>3 DEF Announce

-----------------------------------------------------------------------------
(* The environment moves nothing of a call.                                *)

\* A step of the environment that keeps the shared part keeps the invariant.
LEMMA EnvironmentKeeps ==
    ASSUME IInv, UNCHANGED call, late' \in [Procs -> Nat], Keeps, Shared',
           \A p \in Procs : Draining(p)' /\ late'[p] <= MaxAttempts
    PROVE  IInv'
<1>1. ASSUME NEW p \in Procs PROVE Own(p)'
    <2>1. Own(p) /\ call'[p] = call[p]
        BY Split
    <2> QED
        BY <2>1 DEF Own, PassedGates, Counted, Cleared, Keeps, Ours, Live, Dom
<1> QED
    BY <1>1, Split DEF IInv, TypeOK, SuccessIsOurs, AuditTrail, StopDrains, Calls, Shared, Own

\* The STOP file comes and goes; what was ordered under it starts from zero.
LEMMA OperatorStep ==
    ASSUME IInv, OperatorStop \/ OperatorResume
    PROVE  IInv'
<1>0. late \in [Procs -> Nat] /\ Shared /\ \A p \in Procs : Own(p)
    BY Split
<1>1. Keeps /\ Shared'
    BY <1>0 DEF OperatorStop, OperatorResume, Keeps, Ours, Shared, ChargesAuthorised, Order, database, market
<1>2. late' \in [Procs -> Nat]
    BY <1>0 DEF OperatorStop, OperatorResume
<1>3. ASSUME NEW p \in Procs PROVE Draining(p)' /\ late'[p] <= MaxAttempts
    <2>1. late'[p] = 0
        BY <1>0 DEF Own, Draining, OperatorStop, OperatorResume
    <2>2. call[p].sent \in Nat
        BY Split DEF Calls, Call
    <2> QED
        BY <1>0, <2>1, <2>2, AttemptsAssumption DEF Draining, OperatorStop, OperatorResume
<1> QED
    BY <1>1, <1>2, <1>3, EnvironmentKeeps DEF OperatorStop, OperatorResume

\* Database faults and prices.
LEMMA WorldStep ==
    ASSUME IInv, UNCHANGED <<call, late, stop>>, Keeps, Shared'
    PROVE  IInv'
<1>1. late \in [Procs -> Nat] /\ \A p \in Procs : Own(p)
    BY Split
<1>2. ASSUME NEW p \in Procs PROVE Draining(p)' /\ late'[p] <= MaxAttempts
    BY <1>1 DEF Own, Draining, Cleared, Live
<1> QED
    BY <1>1, <1>2, EnvironmentKeeps

\* Every step of the environment keeps the invariant.
LEMMA EnvironmentStep ==
    ASSUME IInv, Environment
    PROVE  IInv'
<1>0. Shared
    BY Split
<1>1. CASE OperatorStop \/ OperatorResume
    BY <1>1, OperatorStep
<1>2. CASE DbToggle
    <2>1. Keeps /\ Shared'
        BY <1>0, <1>2 DEF DbToggle, Keeps, Ours, Shared, ChargesAuthorised, Order, database, market
    <2> QED
        BY <1>2, <2>1, WorldStep DEF DbToggle
<1>3. ASSUME NEW d \in Domains, Age(d) PROVE IInv'
    <2>1. PICK o \in Outcomes : rows[d][o] > 0 /\ rows' = [rows EXCEPT ![d][o] = @ - 1]
        BY <1>3 DEF Age
    <2>2. /\ rows' \in [Domains -> [Outcomes -> Nat]]
          /\ \A e \in Domains : rows'[e]["success"] > 0 => rows[e]["success"] > 0
        BY <1>0, <2>1 DEF Shared, Outcomes
    <2>3. Keeps /\ Shared'
        BY <1>0, <1>3, <2>2 DEF Age, Keeps, Ours, Shared, ChargesAuthorised, Order, market
    <2> QED
        BY <1>3, <2>3, WorldStep DEF Age
<1>4. ASSUME NEW d \in ComDomains, Drop(d) \/ Snatch(d) \/ Reprice(d) PROVE IInv'
    <2>1. Keeps
        BY <1>0, <1>4 DEF Drop, Snatch, Reprice, Keeps, Ours, Shared
    <2>2. /\ owner' \in [Domains -> {"held", "free", "us"}]
          /\ price' \in [Domains -> Prices]
        BY <1>0, <1>4 DEF Drop, Snatch, Reprice, Shared
    <2>3. Shared'
        BY <1>0, <1>4, <2>1, <2>2 DEF Drop, Snatch, Reprice, Keeps, Shared, ChargesAuthorised, Order, database
    <2> QED
        BY <1>4, <2>1, <2>3, WorldStep DEF Drop, Snatch, Reprice
<1>5. ASSUME NEW r \in wire, CarryOut(r) \/ Lose(r) PROVE IInv'
    <2>1. r \in Order /\ r.dom \in Domains
        BY <1>0 DEF Shared, Order, Domains
    <2>2. Keeps /\ owner' \in [Domains -> {"held", "free", "us"}]
        BY <1>0, <1>5, <2>1 DEF CarryOut, Lose, Keeps, Ours, Shared
    <2>3. wire' \cup charged' \subseteq wire \cup charged
        BY <1>5 DEF CarryOut, Lose
    <2>4. ChargesAuthorised'
        BY <1>0, <2>3 DEF Shared, ChargesAuthorised
    <2>5. Shared'
        BY <1>0, <1>5, <2>2, <2>3, <2>4 DEF CarryOut, Lose, Keeps, Shared, database
    <2> QED
        BY <1>5, <2>2, <2>5, WorldStep DEF CarryOut, Lose
<1> QED
    BY <1>1, <1>2, <1>3, <1>4, <1>5 DEF Environment

-----------------------------------------------------------------------------
(* The theorems.                                                           *)

\* The invariant holds initially.
LEMMA InitEstablishes == Init => IInv
<1> SUFFICES ASSUME Init PROVE IInv
    OBVIOUS
<1>1. NoCall \in Call /\ call = [p \in Procs |-> NoCall]
    BY DEF Init, NoCall, Fresh, Call, Stages
<1>2. Calls /\ late \in [Procs -> Nat]
    BY <1>1 DEF Init, Calls
<1>3. Shared
    <2>1. /\ rows \in [Domains -> [Outcomes -> Nat]]
          /\ \A d \in Domains : rows[d]["success"] = 0
        BY DEF Init, Outcomes
    <2>2. owner \in [Domains -> {"held", "free", "us"}]
        BY DEF Init
    <2>3. /\ stop = FALSE /\ dbOk = TRUE /\ price \in [Domains -> Prices]
          /\ marked = {} /\ wire = {} /\ charged = {}
        BY DEF Init
    <2>4. ChargesAuthorised
        BY <2>3 DEF ChargesAuthorised
    <2>5. \A d \in Domains : ~(rows[d]["success"] > 0)
        BY <2>1
    <2> QED
        BY <2>1, <2>2, <2>3, <2>4, <2>5 DEF Shared
<1>4. ASSUME NEW p \in Procs PROVE Own(p)
    <2>1. call[p] = NoCall /\ late[p] = 0 /\ ~stop
        BY <1>1 DEF Init
    <2> QED
        BY <2>1, AttemptsAssumption DEF Own, NoCall, Fresh, PassedGates, Counted, Draining, Cleared, Live, Dom
<1> QED
    BY <1>2, <1>3, <1>4, Split

\* Every step keeps the invariant.
LEMMA NextKeeps == IInv /\ [Next]_vars => IInv'
<1> SUFFICES ASSUME IInv, [Next]_vars PROVE IInv'
    OBVIOUS
<1>1. ASSUME NEW p \in Procs, NEW d \in Domains, TryAcquire(p, d) \/ DryRun(p, d)
      PROVE  IInv'
    BY <1>1, TryAcquireStep
<1>2. ASSUME NEW p \in Procs, Proceed(p) PROVE IInv'
    BY <1>2, PreflightStep, AttemptBudgetStep, CheckStep, RehearseStep,
       RegisterStep, MarkRegisteredStep, RecordFailureStep, EndLoopStep, RecordAttemptStep,
       AnnounceStep DEF Proceed
<1>3. ASSUME NEW p \in Procs, Crash(p) PROVE IInv'
    BY <1>3, CrashStep
<1>4. CASE Environment
    BY <1>4, EnvironmentStep
<1>5. CASE UNCHANGED vars
    BY <1>5 DEF vars, IInv, TypeOK, ChargesAuthorised, SuccessIsOurs, AuditTrail, StopDrains, PassedGates, Counted, Draining, Cleared, Ours, Live, Dom
<1> QED
    BY <1>1, <1>2, <1>3, <1>4, <1>5 DEF Next

\* The inductive invariant holds in every reachable state, for any processes,
\* domains, prices and limits.
THEOREM Invariance == Spec => []IInv
<1> QED
    BY InitEstablishes, NextKeeps, PTL DEF Spec

\* Types, for every value of the constants.
THEOREM TypeCorrect == Spec => []TypeOK
<1>1. IInv => TypeOK
    BY DEF IInv
<1> QED
    BY <1>1, Invariance, PTL

\* No order in flight and no charge that the gates did not let through.
THEOREM ChargesAreAuthorised == Spec => []ChargesAuthorised
<1>1. IInv => ChargesAuthorised
    BY DEF IInv
<1> QED
    BY <1>1, Invariance, PTL

\* What is recorded, marked or reported as a success is ours and paid for.
THEOREM SuccessesAreOurs == Spec => []SuccessIsOurs
<1>1. IInv => SuccessIsOurs
    BY DEF IInv
<1> QED
    BY <1>1, Invariance, PTL

\* A call never has more than one order without a row, and none on return.
THEOREM AuditTrailKept == Spec => []AuditTrail
<1>1. IInv => AuditTrail
    BY DEF IInv
<1> QED
    BY <1>1, Invariance, PTL

\* After the STOP file appears each process orders at most MaxAttempts times.
THEOREM StopIsBounded == Spec => []StopDrains
<1>1. IInv => StopDrains
    BY DEF IInv
<1> QED
    BY <1>1, Invariance, PTL
=============================================================================
