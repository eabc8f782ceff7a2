-------------------------------- MODULE Rdap --------------------------------
(***************************************************************************)
(* The lookup of a .com domain (providers/rdap.py): the registry's answer  *)
(* and, when it links to one, the registrar's own, merged into the result  *)
(* that lifecycle.classify turns into a state.                             *)
(*                                                                         *)
(* The two servers are external.  A renewal reaches the registrar first    *)
(* and the registry later; a deletion reaches the registry first and the   *)
(* registrar later, if ever; "last changed" is bumped or not.  Time is     *)
(* counted in units of the model, and so are the dates.                    *)
(***************************************************************************)
EXTENDS Lifecycle

CONSTANTS Horizon,       \* bound of the model on the clock
          FirstExpiry,   \* the expiration date the domain starts with
          Term,          \* what a renewal adds to it
          ExpiringDays   \* EXPIRING_DAYS

ASSUME HorizonAssumption == Horizon \in Nat /\ FirstExpiry \in Nat
ASSUME TermAssumption    == Term \in Nat \ {0} /\ ExpiringDays \in Nat

NoDate == -1
Dates  == 0..(FirstExpiry + Term)

VARIABLES
    now,        \* the clock
    phase,      \* what the domain is at the registry
    registry,   \* what the registry's RDAP says of it
    registrar,  \* what the registrar's RDAP says of it
    seen        \* the state of the last poll, "failed" if it raised

vars == <<now, phase, registry, registrar, seen>>

Phases == {"registered", "redemption", "pendingdelete", "gone"}

Words(p) == CASE p = "redemption"    -> {"redemptionperiod"}
              [] p = "pendingdelete" -> {"pendingdelete"}
              [] OTHER               -> {}

\* _summarize; statuses says whether the answer lists any status.
Summary == [exp : Dates \cup {NoDate}, changed : 0..Horizon \cup {NoDate},
            words : SUBSET {"pendingdelete", "redemptionperiod"},
            statuses : BOOLEAN]

-----------------------------------------------------------------------------
(* The code's decisions.                                                   *)

Later(a, b) == a # NoDate /\ (b = NoDate \/ a > b)

\* Mutants: "last changed" decides alone; a tie goes to the registrar.
PickByChange(reg, rar) ==
    IF Later(rar.changed, reg.changed) THEN "registrar" ELSE "registry"

PickRegistrarOnTie(reg, rar) ==
    IF Later(reg.exp, rar.exp) THEN "registry" ELSE "registrar"

\* _pick_fresher: the later expiration, then the later change.
PickFresher(reg, rar) ==
    CASE Later(rar.exp, reg.exp) -> "registrar"
      [] Later(reg.exp, rar.exp) -> "registry"
      [] OTHER -> CASE Later(rar.changed, reg.changed) -> "registrar"
                    [] Later(reg.changed, rar.changed) -> "registry"
                    [] OTHER                           -> "same"

\* What a fresher registrar says replaces what the registry says, item by
\* item, where it says anything.
Merge(reg, rar) ==
    IF PickFresher(reg, rar) = "registrar"
    THEN [reg EXCEPT !.exp = IF rar.exp = NoDate THEN @ ELSE rar.exp,
                     !.words = IF rar.statuses THEN rar.words ELSE @,
                     !.statuses = @ \/ rar.statuses]
    ELSE reg

\* How classify places an expiration date.
ExpiryOf(date) ==
    CASE date = NoDate -> "unknown"
      [] date # NoDate /\ date <= now -> "past"
      [] date > now /\ date - now <= ExpiringDays -> "soon"
      [] OTHER -> "far"

StateOf(summary) == Classify([available |-> FALSE,
                              words     |-> summary.words,
                              expiry    |-> ExpiryOf(summary.exp),
                              statuses  |-> summary.statuses])

-----------------------------------------------------------------------------
\* A responder may list no status, no expiration or no change.
Init ==
    /\ now = 0
    /\ phase = "registered"
    /\ registry \in [exp : {FirstExpiry, NoDate}, changed : {0, NoDate},
                     words : {{}}, statuses : BOOLEAN]
    /\ registrar \in [exp : {FirstExpiry, NoDate}, changed : {0, NoDate},
                      words : {{}}, statuses : BOOLEAN]
    /\ seen = "UNKNOWN"

\* Only a 404 of the registry says that a domain is free.
PollGone ==
    /\ phase = "gone"
    /\ seen' = "AVAILABLE"
    /\ UNCHANGED <<now, phase, registry, registrar>>

\* The request fails, is rate limited or answered with an error, or an answer
\* -- the registrar's too -- is JSON of a shape that cannot be read: the lookup
\* raises.
PollFails ==
    /\ seen' = "failed"
    /\ UNCHANGED <<now, phase, registry, registrar>>

\* The registry's answer has no link, or the registrar does not answer.
PollRegistry ==
    /\ phase # "gone"
    /\ seen' = StateOf(registry)
    /\ UNCHANGED <<now, phase, registry, registrar>>

PollBoth ==
    /\ phase # "gone"
    /\ seen' = StateOf(Merge(registry, registrar))
    /\ UNCHANGED <<now, phase, registry, registrar>>

-----------------------------------------------------------------------------
(* The world.  A change of a record bumps its "last changed" or does not.  *)

Tick ==
    /\ now < Horizon
    /\ now' = now + 1
    /\ UNCHANGED <<phase, registry, registrar, seen>>

Bumped(record) == {record, [record EXCEPT !.changed = now]}

\* The owner renews, once: the registrar knows first.
Renew ==
    /\ phase = "registered"
    /\ registrar.exp = FirstExpiry
    /\ registrar' \in Bumped([registrar EXCEPT !.exp = FirstExpiry + Term])
    /\ UNCHANGED <<now, phase, registry, seen>>

Renewed == registrar.exp = FirstExpiry + Term

\* The renewal reaches the registry.
RenewalArrives ==
    /\ Renewed
    /\ phase = "registered"
    /\ registry.exp = FirstExpiry
    /\ registry' \in Bumped([registry EXCEPT !.exp = FirstExpiry + Term])
    /\ UNCHANGED <<now, phase, registrar, seen>>

\* The registrar touches its record without renewing the domain.
Touch ==
    /\ registrar' = [registrar EXCEPT !.changed = now]
    /\ UNCHANGED <<now, phase, registry, seen>>

\* An expired domain that was not renewed is given up, queued and purged.
Decline(from, to) ==
    /\ phase = from
    /\ ~Renewed
    /\ now >= FirstExpiry
    /\ phase' = to
    /\ registry' \in Bumped([registry EXCEPT !.words = Words(to),
                                             !.statuses = TRUE])
    /\ UNCHANGED <<now, registrar, seen>>

\* The registrar's record follows the registry's.
Follow ==
    /\ registrar.words # registry.words
    /\ registrar' = [registrar EXCEPT !.words = registry.words,
                                      !.statuses = TRUE]
    /\ UNCHANGED <<now, phase, registry, seen>>

Next ==
    \/ PollGone
    \/ PollFails
    \/ PollRegistry
    \/ PollBoth
    \/ Tick
    \/ Renew
    \/ RenewalArrives
    \/ Touch
    \/ Decline("registered", "redemption")
    \/ Decline("redemption", "pendingdelete")
    \/ Decline("pendingdelete", "gone")
    \/ Follow

Spec == Init /\ [][Next]_vars

-----------------------------------------------------------------------------
(* Properties.                                                             *)

\* Every variable keeps its type; a poll yields a state of the lifecycle.
TypeOK ==
    /\ now \in 0..Horizon
    /\ phase \in Phases
    /\ registry \in Summary
    /\ registrar \in Summary
    /\ seen \in States \cup {"failed"}

\* A renewal the registrar's answer shows is believed at once, however long
\* the registry lags behind and whichever record was touched last: the poll
\* does not report the grace period of an owner who has renewed.
RenewalBelieved ==
    [][PollBoth /\ Renewed /\ registrar.exp > now
       => seen' # "EXPIRED_GRACE"]_vars

\* A registrar's record that is not newer -- not a later expiration, and at the
\* same one not a later change -- hides nothing of the registry's: asking both
\* yields what asking the registry alone would yield.  A record touched last
\* with an earlier expiration, or none, is not newer.
StaleRegistrarHarmless ==
    [][/\ PollBoth
       /\ ~Later(registrar.exp, registry.exp)
       /\ \/ Later(registry.exp, registrar.exp)
          \/ ~Later(registrar.changed, registry.changed)
       => seen' = StateOf(registry)]_vars

\* "make every phase individually visible" (README.en.md:292): whoever polls
\* a domain in the delete queue, never renewed, with both answers complete and
\* agreeing on its expiration, sees PENDING_DELETE.
EveryPhaseVisible ==
    [][/\ PollBoth
       /\ phase = "pendingdelete"
       /\ registry.exp = FirstExpiry /\ registrar.exp = FirstExpiry
       /\ registry.changed # NoDate /\ registry.statuses /\ registrar.statuses
       => seen' = "PENDING_DELETE"]_vars
=============================================================================
