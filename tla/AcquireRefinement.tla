------------------------- MODULE AcquireRefinement -------------------------
(***************************************************************************)
(* Acquire implements SafePurchase, for every value of the constants: each *)
(* step of the code is a step of the abstract specification or leaves it   *)
(* unchanged.  The steps of one process change its clearance only.         *)
(***************************************************************************)
EXTENDS AcquireProofs

AbstractStep == [Purchase!Next]_(Purchase!vars)

\* A step of p changes the clearance of p only.
LEMMA ClearanceEffect ==
    ASSUME NEW p \in Procs, Others(p)
    PROVE  Clearance' = [Clearance EXCEPT ![p] = ClearanceOf(p)']
<1>1. \A q \in Procs \ {p} : ClearanceOf(q)' = ClearanceOf(q)
    BY DEF Others, ClearanceOf, Cleared, Live, Dom
<1> QED
    BY <1>1 DEF Clearance

\* A step of one process that touches nothing abstract but its clearance.
LEMMA ForfeitStep ==
    ASSUME NEW p \in Procs, Others(p), UNCHANGED <<stop, wire, charged>>,
           ~Cleared(p)' \/ ClearanceOf(p)' = ClearanceOf(p)
    PROVE  AbstractStep
<1>1. CASE ~Cleared(p)'
    <2>1. Clearance' = [Clearance EXCEPT ![p] = Purchase!None]
        BY <1>1, ClearanceEffect DEF ClearanceOf, Purchase!None
    <2>2. Purchase!Forfeit(p)
        BY <2>1 DEF Purchase!Forfeit
    <2> QED
        BY <2>2 DEF AbstractStep, Purchase!Next
<1>2. CASE ClearanceOf(p)' = ClearanceOf(p)
    <2>1. Clearance' = Clearance
        BY <1>2, ClearanceEffect DEF Clearance
    <2> QED
        BY <2>1 DEF AbstractStep, Purchase!vars
<1> QED
    BY <1>1, <1>2

\* Passing the gates is the abstract grant of a clearance.
LEMMA ClearStep ==
    ASSUME IInv, NEW p \in Procs, call[p].at = "preflight", Permitted(p),
           Live(p), Goto(p, "budget"), UNCHANGED <<stop, wire, charged>>
    PROVE  AbstractStep
<1>0. Calls /\ Own(p) /\ call[p] \in Call
    BY Split DEF Calls
<1>1. Others(p) /\ call'[p] = [call[p] EXCEPT !.at = "budget"]
    BY <1>0, GotoEffect DEF Stages
<1>2. ClearanceOf(p)' = [dom |-> Dom(p), left |-> MaxAttempts]
    BY <1>0, <1>1, AttemptsAssumption DEF Call, Own, Counted, ClearanceOf, Cleared, Live, Dom
<1>3. Clearance[p] = Purchase!None
    BY DEF Clearance, ClearanceOf, Cleared, Purchase!None
<1>4. p \in AutoProcs /\ Dom(p) \in Allowlist /\ ~stop
    BY DEF Permitted
<1>5. Purchase!Clear(p, Dom(p))
    BY <1>1, <1>2, <1>3, <1>4, ClearanceEffect DEF Purchase!Clear
<1> QED
    BY <1>4, <1>5 DEF AbstractStep, Purchase!Next

\* An order, answered or not, is an abstract purchase.
LEMMA BuyStep ==
    ASSUME IInv, NEW p \in Procs, Register(p)
    PROVE  AbstractStep
<1>0. Calls /\ Own(p) /\ call[p] \in Call /\ call[p].at = "register"
    BY Split DEF Calls, Register, At
<1>1. PICK stage \in {"mark", "failed", "broken"} :
          Becomes(p, [call[p] EXCEPT !.at = stage, !.sent = @ + 1])
    BY DEF Register, OnNoReply
<1> DEFINE c == [call[p] EXCEPT !.at = stage, !.sent = @ + 1]
<1>2. c \in Call
    <2>1. stage \in Stages /\ call[p].sent + 1 \in Nat
        BY <1>0 DEF Call, Stages
    <2> QED
        BY <1>0, <2>1 DEF Call
<1>3. Others(p) /\ call'[p] = c
    BY <1>0, <1>1, <1>2, BecomesEffect
<1>4. Clearance[p] = [dom |-> Dom(p), left |-> MaxAttempts - call[p].sent]
    BY <1>0 DEF Own, PassedGates, Clearance, ClearanceOf, Cleared, Live
<1>5. ClearanceOf(p)' = [dom |-> Dom(p), left |-> MaxAttempts - (call[p].sent + 1)]
    BY <1>0, <1>3 DEF Own, PassedGates, Call, ClearanceOf, Cleared, Live, Dom
<1>6. Clearance' = [Clearance EXCEPT ![p].left = @ - 1]
    <2>1. MaxAttempts - (call[p].sent + 1) = (MaxAttempts - call[p].sent) - 1
        BY <1>0, AttemptsAssumption DEF Call
    <2>2. ClearanceOf(p)' = [Clearance[p] EXCEPT !.left = @ - 1]
        BY <1>4, <1>5, <2>1
    <2> QED
        BY <1>3, <2>2, ClearanceEffect
<1>7. Clearance[p].left > 0
    BY <1>0, <1>4, AttemptsAssumption DEF Own, PassedGates, Counted, Call
<1>8. OrderOf(p) \in Purchase!Order
    BY <1>0 DEF Own, PassedGates, Call, OrderOf, Dom, Purchase!Order, NoPrice
<1>9. /\ OrderOf(p).by = p
      /\ p \in ReadyProcs
      /\ OrderOf(p).dom = Clearance[p].dom
      /\ OrderOf(p).cost <= MaxCost
      /\ DryRunFirst => OrderOf(p).rehearsed = OrderOf(p).cost
    BY <1>0, <1>4 DEF Own, PassedGates, OrderOf
<1>10. /\ \/ charged' = charged \cup {OrderOf(p)} /\ UNCHANGED wire
          \/ wire' = wire \cup {OrderOf(p)} /\ UNCHANGED charged
          \/ UNCHANGED <<wire, charged>>
       /\ UNCHANGED stop
    BY DEF Register
<1>11. Purchase!Buy(p, OrderOf(p))
    BY <1>6, <1>7, <1>9, <1>10 DEF Purchase!Buy
<1> QED
    BY <1>8, <1>11 DEF AbstractStep, Purchase!Next

\* Ending an attempt loop, or never having been in one.
LEMMA LeavingStep ==
    ASSUME IInv, NEW p \in Procs, UNCHANGED <<stop, wire, charged>>,
           \/ \E r \in Reports : Report(p, r)
           \/ \E v \in {"value", "raised"} : Return(p, v)
    PROVE  AbstractStep
<1>0. Calls /\ call[p] \in Call
    BY Split DEF Calls
<1>1. Others(p) /\ call'[p].at \in {"record", "idle"}
    <2>1. ASSUME NEW r \in Reports, Report(p, r)
          PROVE  Others(p) /\ call'[p].at = "record"
        <3>1. /\ Others(p)
              /\ call'[p] = [call[p] EXCEPT !.at = "record", !.report = r,
                                            !.quote = NoPrice,
                                            !.rehearsed = NoPrice]
            BY <1>0, <2>1, ReportEffect
        <3> QED
            BY <1>0, <3>1 DEF Call
    <2>2. ASSUME NEW v \in {"value", "raised"}, Return(p, v)
          PROVE  Others(p) /\ call'[p].at = "idle"
        <3>1. /\ Others(p)
              /\ call'[p] = [call[p] EXCEPT !.at = "idle", !.result = v,
                                            !.attempt = 1, !.quote = NoPrice,
                                            !.rehearsed = NoPrice]
            BY <1>0, <2>2, ReturnEffect
        <3> QED
            BY <1>0, <3>1 DEF Call
    <2> QED
        BY <2>1, <2>2
<1>2. ~Cleared(p)'
    BY <1>1 DEF Cleared
<1> QED
    BY <1>1, <1>2, ForfeitStep

\* Staying in the loop without ordering.
LEMMA StayingStep ==
    ASSUME IInv, NEW p \in Procs, NEW c \in Call, Becomes(p, c),
           UNCHANGED <<stop, wire, charged>>,
           ~Live(p) \/ Cleared(p),
           c.live = call[p].live, c.dom = call[p].dom, c.sent = call[p].sent,
           c.at \in {"check", "rehearse", "register", "failed"}
    PROVE  AbstractStep
<1>0. Calls
    BY Split
<1>1. Others(p) /\ call'[p] = c
    BY <1>0, BecomesEffect
<1>2. ~Cleared(p)' \/ ClearanceOf(p)' = ClearanceOf(p)
    BY <1>1 DEF ClearanceOf, Cleared, Live, Dom
<1> QED
    BY <1>1, <1>2, ForfeitStep

\* The steps of a running call that order nothing and grant nothing.
LEMMA OtherStep ==
    ASSUME IInv, NEW p \in Procs,
           \/ Check(p) \/ Rehearse(p) \/ AttemptBudget(p)
           \/ MarkRegistered(p) \/ RecordFailure(p) \/ EndLoop(p)
    PROVE  AbstractStep
<1>0. /\ Calls /\ Own(p) /\ call[p] \in Call /\ Shared
      /\ UNCHANGED <<stop, wire, charged>>
      /\ ~Live(p) \/ Cleared(p)
      /\ Dom(p) \in Domains
    <2>1. Calls /\ Own(p) /\ call[p] \in Call /\ Shared
        BY Split DEF Calls
    <2> QED
        BY <2>1 DEF Check, Rehearse, AttemptBudget, MarkRegistered, RecordFailure, EndLoop, At, Cleared, market, Own, PassedGates, Dom
<1>1. {"gate", "noAdapter", "manual", "taken", "refused", "dryNotReady",
       "dryTaken", "success", "drySuccess", "exhausted"} \subseteq Reports
    BY DEF Reports, Blocked, Succeeded, Failed
<1>2. ASSUME NEW stage \in {"check", "failed"}, Goto(p, stage)
      PROVE  AbstractStep
    <2>1. [call[p] EXCEPT !.at = stage] \in Call
        BY <1>0 DEF Call, Stages
    <2> QED
        BY <1>0, <1>2, <2>1, StayingStep DEF Goto, Call
<1>3. ASSUME Retriable(p) \/ Unexpected(p) PROVE AbstractStep
    BY <1>0, <1>1, <1>2, <1>3, LeavingStep DEF Retriable, Unexpected
<1>4. CASE Check(p)
    <2>1. ASSUME NEW q \in {price[Dom(p)], NoPrice}, Quote(p, q), q \in 1..MaxCost
          PROVE  AbstractStep
        <3> DEFINE c == [call[p] EXCEPT !.quote = q,
                                        !.at = IF Live(p) /\ ~DryRunFirst
                                               THEN "register" ELSE "rehearse"]
        <3>1. q \in Prices
            BY <1>0, <2>1 DEF Shared, NoPrice
        <3>2. c \in Call
            BY <1>0, <3>1 DEF Call, Stages
        <3>3. Becomes(p, c)
            BY <2>1 DEF Quote, PriceGate
        <3> QED
            BY <1>0, <3>2, <3>3, StayingStep DEF Call
    <2> QED
        BY <1>0, <1>1, <1>3, <1>4, <2>1, LeavingStep DEF Check, Quote, PriceGate, Asked
<1>5. CASE Rehearse(p)
    <2>1. ASSUME Becomes(p, [call[p] EXCEPT !.rehearsed = call[p].quote,
                                            !.at = "register"])
          PROVE  AbstractStep
        <3>1. [call[p] EXCEPT !.rehearsed = call[p].quote, !.at = "register"] \in Call
            BY <1>0 DEF Call, Stages
        <3> QED
            BY <1>0, <2>1, <3>1, StayingStep DEF Call
    <2> QED
        BY <1>0, <1>1, <1>3, <1>5, <2>1, LeavingStep DEF Rehearse
<1>6. CASE AttemptBudget(p)
    BY <1>0, <1>1, <1>2, <1>6, LeavingStep DEF AttemptBudget, Route
<1>7. CASE MarkRegistered(p)
    BY <1>0, <1>1, <1>3, <1>7, LeavingStep DEF MarkRegistered
<1>8. CASE RecordFailure(p)
    <2> DEFINE c == [call[p] EXCEPT
                        !.at = IF Another(p) THEN "check" ELSE "record",
                        !.report = IF Another(p) THEN "none" ELSE "exhausted",
                        !.attempt = Min(@ + 1, MaxAttempts),
                        !.logged = @ + 1,
                        !.quote = NoPrice,
                        !.rehearsed = NoPrice]
    <2>1. ASSUME Becomes(p, c) PROVE AbstractStep
        <3>1. Calls' /\ Others(p) /\ call'[p] = c
            <4>1. call' \in [Procs -> Call]
                BY RecordFailureStep, <1>8 DEF IInv, TypeOK
            <4> QED
                BY <1>0, <2>1, <4>1 DEF Calls, Others, Becomes
        <3>2. ~Cleared(p)' \/ ClearanceOf(p)' = ClearanceOf(p)
            BY <1>0, <1>8, <3>1 DEF RecordFailure, At, Call, ClearanceOf, Cleared, Live, Dom
        <3> QED
            BY <1>0, <3>1, <3>2, ForfeitStep
    <2> QED
        BY <1>0, <1>8, <2>1, LeavingStep DEF RecordFailure
<1>9. CASE EndLoop(p)
    BY <1>0, <1>1, <1>3, <1>9, LeavingStep DEF EndLoop
<1> QED
    BY <1>4, <1>5, <1>6, <1>7, <1>8, <1>9

\* The operator and the registrar are the abstract environment.
LEMMA EnvironmentMaps ==
    ASSUME IInv, Environment
    PROVE  AbstractStep
<1>1. CASE OperatorStop \/ OperatorResume
    <2>1. stop' = ~stop /\ UNCHANGED <<call, wire, charged>>
        BY <1>1 DEF OperatorStop, OperatorResume, market
    <2>2. Clearance' = Clearance
        BY <2>1 DEF Clearance, ClearanceOf, Cleared, Live, Dom
    <2> QED
        BY <2>1, <2>2 DEF AbstractStep, Purchase!Next, Purchase!Toggle
<1>2. CASE UNCHANGED <<call, stop, wire, charged>>
    <2>1. Clearance' = Clearance
        BY <1>2 DEF Clearance, ClearanceOf, Cleared, Live, Dom
    <2> QED
        BY <1>2, <2>1 DEF AbstractStep, Purchase!vars
<1>3. ASSUME NEW r \in wire, CarryOut(r) \/ Lose(r) PROVE AbstractStep
    <2>1. Clearance' = Clearance
        BY <1>3 DEF CarryOut, Lose, Clearance, ClearanceOf, Cleared, Live, Dom
    <2>2. Purchase!Settle(r)
        BY <1>3, <2>1 DEF CarryOut, Lose, Purchase!Settle
    <2> QED
        BY <2>2 DEF AbstractStep, Purchase!Next
<1> QED
    BY <1>1, <1>2, <1>3 DEF Environment, DbToggle, Age, Drop, Snatch, Reprice, market

\* Every step of the code is an abstract step or a stutter.
LEMMA StepMaps ==
    ASSUME IInv, [Next]_vars
    PROVE  AbstractStep
<1>0. Calls /\ \A p \in Procs : Own(p) /\ call[p] \in Call
    BY Split DEF Calls
<1>1. ASSUME NEW p \in Procs, NEW d \in Domains, TryAcquire(p, d) \/ DryRun(p, d)
      PROVE  AbstractStep
    <2>1. PICK b \in BOOLEAN : Becomes(p, Fresh("preflight", b, d))
        BY <1>1 DEF TryAcquire, DryRun
    <2>2. Fresh("preflight", b, d) \in Call
        BY DEF Fresh, Call, Stages
    <2>3. Others(p) /\ call'[p].at = "preflight"
        BY <1>0, <2>1, <2>2, BecomesEffect DEF Fresh
    <2> QED
        BY <1>1, <2>3, ForfeitStep DEF Cleared, TryAcquire, DryRun, market
<1>2. ASSUME NEW p \in Procs, Crash(p) PROVE AbstractStep
    <2>1. NoCall \in Call
        BY DEF NoCall, Fresh, Call, Stages
    <2>2. Others(p) /\ call'[p].at = "idle"
        BY <1>0, <1>2, <2>1, BecomesEffect DEF Crash, NoCall, Fresh
    <2> QED
        BY <1>2, <2>2, ForfeitStep DEF Cleared, Crash, market
<1>3. ASSUME NEW p \in Procs, Preflight(p) PROVE AbstractStep
    <2>1. call[p].at = "preflight" /\ UNCHANGED <<stop, wire, charged>>
        BY <1>3 DEF Preflight, At, market
    <2>2. "gate" \in Reports
        BY DEF Reports, Blocked
    <2>3. ASSUME ~Live(p), Goto(p, "check") PROVE AbstractStep
        <3>1. Others(p) /\ call'[p] = [call[p] EXCEPT !.at = "check"]
            BY <1>0, <2>3, GotoEffect DEF Stages
        <3>2. ~Cleared(p)'
            BY <1>0, <2>3, <3>1 DEF Call, Cleared, Live
        <3> QED
            BY <2>1, <3>1, <3>2, ForfeitStep
    <2> QED
        BY <1>3, <2>1, <2>2, <2>3, ClearStep, LeavingStep DEF Preflight
<1>4. ASSUME NEW p \in Procs, RecordAttempt(p) \/ Announce(p) PROVE AbstractStep
    <2>1. /\ call[p].at \in {"record", "announce"}
          /\ UNCHANGED <<stop, wire, charged>>
        BY <1>4 DEF RecordAttempt, Announce, At, market
    <2>2. "exhausted" \in Reports
        BY DEF Reports, Failed
    <2>3. ASSUME Becomes(p, [call[p] EXCEPT !.at = "announce", !.logged = @ + 1])
          PROVE  AbstractStep
        <3>1. "announce" \in Stages /\ call[p].logged + 1 \in Nat
            BY <1>0 DEF Call, Stages
        <3>2. [call[p] EXCEPT !.at = "announce", !.logged = @ + 1] \in Call
            BY <1>0, <3>1 DEF Call
        <3>3. /\ Others(p)
              /\ call'[p] = [call[p] EXCEPT !.at = "announce", !.logged = @ + 1]
            BY <1>0, <2>3, <3>2, BecomesEffect
        <3>4. call'[p].at = "announce"
            BY <1>0, <3>3 DEF Call
        <3> QED
            BY <2>1, <3>3, <3>4, ForfeitStep DEF Cleared
    <2> QED
        BY <1>4, <2>1, <2>2, <2>3, LeavingStep DEF RecordAttempt, Announce, Unreportable
<1>5. CASE UNCHANGED vars
    BY <1>5 DEF AbstractStep, Purchase!vars, vars, Clearance, ClearanceOf, Cleared, Live, Dom
<1> QED
    BY <1>1, <1>2, <1>3, <1>4, <1>5, BuyStep, OtherStep, EnvironmentMaps DEF Next, Proceed

\* The acquisition path implements SafePurchase: whatever the interleaving,
\* the faults and the market, money moves only under a clearance.
THEOREM Refinement == Spec => ImplementsSafePurchase
<1>1. ASSUME Init PROVE Purchase!Init
    <2>1. \A p \in Procs : ~Cleared(p)
        BY <1>1 DEF Init, Cleared, NoCall, Fresh
    <2>2. Clearance = [p \in Procs |-> Purchase!None]
        BY <2>1 DEF Clearance, ClearanceOf, Purchase!None
    <2> QED
        BY <1>1, <2>2 DEF Init, Purchase!Init
<1>2. IInv /\ [Next]_vars => [Purchase!Next]_(Purchase!vars)
    BY StepMaps DEF AbstractStep
<1> QED
    BY <1>1, <1>2, Invariance, PTL DEF Spec, ImplementsSafePurchase, Purchase!Spec
=============================================================================
