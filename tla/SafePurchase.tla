---------------------------- MODULE SafePurchase ----------------------------
(***************************************************************************)
(* What the acquisition layer promises about money, with none of its       *)
(* machinery.  A process may order a purchase only under a clearance: the  *)
(* right to send at most MaxAttempts orders for one domain, which is given *)
(* only while the operator's STOP file is absent, only to a process that   *)
(* was started with live registration enabled, and only for a domain on    *)
(* the allowlist.  Every order is for a domain the registrar sells, by a   *)
(* process with registrar credentials, at a price no higher than the       *)
(* ceiling that was rehearsed if rehearsals are required.  The account is  *)
(* charged for nothing but an order that was sent, perhaps long afterwards.*)
(***************************************************************************)
EXTENDS Integers

CONSTANTS Procs,        \* processes that can run an acquisition
          ComDomains,   \* domains the registrar sells
          Allowlist,    \* domains the operator allows to be bought
          AutoProcs,    \* processes with live registration enabled
          ReadyProcs,   \* processes with registrar credentials
          Prices,       \* the prices a domain can have
          MaxCost,      \* the price ceiling
          MaxAttempts,  \* orders per clearance
          DryRunFirst   \* a rehearsal is required

VARIABLES clearance,    \* per process: the domain and the orders left
          stop,         \* the operator's STOP file exists
          orders,       \* orders sent and still unanswered
          ledger        \* orders the account was charged for

vars == <<clearance, stop, orders, ledger>>

\* No clearance: no domain, nothing left.
None == [dom |-> "none", left |-> 0]

Order == [by : Procs, dom : ComDomains, cost : Prices,
          rehearsed : Prices \cup {0}]

Init ==
    /\ clearance = [p \in Procs |-> None]
    /\ stop \in BOOLEAN
    /\ orders = {}
    /\ ledger = {}

Toggle ==
    /\ stop' = ~stop
    /\ UNCHANGED <<clearance, orders, ledger>>

Clear(p, d) ==
    /\ ~stop
    /\ p \in AutoProcs
    /\ d \in Allowlist
    /\ clearance[p] = None
    /\ clearance' = [clearance EXCEPT ![p] = [dom |-> d, left |-> MaxAttempts]]
    /\ UNCHANGED <<stop, orders, ledger>>

Forfeit(p) ==
    /\ clearance' = [clearance EXCEPT ![p] = None]
    /\ UNCHANGED <<stop, orders, ledger>>

\* An order is answered at once, refused at once, or left unanswered.
Buy(p, o) ==
    /\ clearance[p].left > 0
    /\ o.by = p
    /\ p \in ReadyProcs
    /\ o.dom = clearance[p].dom
    /\ o.cost <= MaxCost
    /\ DryRunFirst => o.rehearsed = o.cost
    /\ clearance' = [clearance EXCEPT ![p].left = @ - 1]
    /\ \/ ledger' = ledger \cup {o} /\ UNCHANGED orders
       \/ orders' = orders \cup {o} /\ UNCHANGED ledger
       \/ UNCHANGED <<orders, ledger>>
    /\ UNCHANGED stop

\* An unanswered order is carried out, or dropped, at any later time.
Settle(o) ==
    /\ orders' = orders \ {o}
    /\ ledger' \in {ledger, ledger \cup {o}}
    /\ UNCHANGED <<clearance, stop>>

Next ==
    \/ Toggle
    \/ \E p \in Procs :
          \/ \E d \in Allowlist : Clear(p, d)
          \/ Forfeit(p)
          \/ \E o \in Order : Buy(p, o)
    \/ \E o \in orders : Settle(o)

Spec == Init /\ [][Next]_vars
=============================================================================
