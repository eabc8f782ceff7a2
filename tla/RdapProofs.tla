----------------------------- MODULE RdapProofs -----------------------------
(***************************************************************************)
(* What a lookup of a .com domain makes of the two answers, for any dates, *)
(* terms and clocks.  The lemmas of the first part say what the code's     *)
(* decisions return; the two action properties follow from them and, for   *)
(* the renewal, from the type invariant: no registry shows a later date    *)
(* than a renewal gives.                                                   *)
(***************************************************************************)
EXTENDS Rdap, TLAPS

-----------------------------------------------------------------------------
(* The decisions of the code.                                              *)

\* The states, written out: the provers do not compute the DOMAIN of Rank.
LEMMA StatesAre ==
    States = {"UNKNOWN", "ACTIVE", "EXPIRING", "EXPIRED_GRACE", "REDEMPTION",
              "PENDING_DELETE", "AVAILABLE"}
BY DEF States, Rank

\* classify of a domain that was found is a state other than AVAILABLE, and is
\* the grace period only if the date has passed.
LEMMA ClassifyFound ==
    ASSUME NEW r \in LookupResult, ~r.available
    PROVE  /\ Classify(r) \in States \ {"AVAILABLE"}
           /\ Classify(r) = "EXPIRED_GRACE" => r.expiry = "past"
BY StatesAre DEF Classify, LookupResult

\* A date is before or after now.
LEMMA ExpiryOfDate ==
    ASSUME now \in Int, NEW date \in Int
    PROVE  /\ ExpiryOf(date) \in {"unknown", "past", "soon", "far"}
           /\ date > now => ExpiryOf(date) # "past"
BY TermAssumption DEF ExpiryOf, NoDate

\* An answer of either server is classified, and never as AVAILABLE: only the
\* registry's 404 says that.
LEMMA StateOfSummary ==
    ASSUME now \in Int, NEW s \in Summary
    PROVE  /\ StateOf(s) \in States \ {"AVAILABLE"}
           /\ s.exp > now => StateOf(s) # "EXPIRED_GRACE"
<1> DEFINE r == [available |-> FALSE, words |-> s.words,
                 expiry |-> ExpiryOf(s.exp), statuses |-> s.statuses]
<1>1. s.exp \in Int
    BY HorizonAssumption, TermAssumption DEF Summary, Dates, NoDate
<1>2. /\ ExpiryOf(s.exp) \in {"unknown", "past", "soon", "far"}
      /\ s.exp > now => ExpiryOf(s.exp) # "past"
    BY <1>1, ExpiryOfDate
<1>3. r \in LookupResult /\ ~r.available
    BY <1>2 DEF LookupResult, Summary
<1> QED
    BY <1>2, <1>3, ClassifyFound DEF StateOf

\* What the merge yields is an answer too.
LEMMA MergeIsSummary ==
    ASSUME NEW reg \in Summary, NEW rar \in Summary
    PROVE  Merge(reg, rar) \in Summary
BY DEF Merge, Summary

\* The registrar is preferred only where it is newer: the later expiration, or
\* the later change between two that do not differ in their expiration.
LEMMA RegistrarIsNewer ==
    ASSUME NEW reg, NEW rar, PickFresher(reg, rar) = "registrar"
    PROVE  \/ Later(rar.exp, reg.exp)
           \/ ~Later(reg.exp, rar.exp) /\ Later(rar.changed, reg.changed)
BY DEF PickFresher

\* A registrar that is not newer than the registry changes nothing.
LEMMA StaleMerge ==
    ASSUME NEW reg, NEW rar,
           ~Later(rar.exp, reg.exp),
           Later(reg.exp, rar.exp) \/ ~Later(rar.changed, reg.changed)
    PROVE  Merge(reg, rar) = reg
BY RegistrarIsNewer DEF Merge

\* The merge never loses the later of the two expiration dates.
LEMMA MergeKeepsLater ==
    ASSUME NEW reg \in Summary, NEW rar \in Summary, rar.exp # NoDate
    PROVE  Merge(reg, rar).exp >= rar.exp
<1>1. reg.exp \in Int /\ rar.exp \in Int
    BY HorizonAssumption, TermAssumption DEF Summary, Dates, NoDate
<1>2. CASE PickFresher(reg, rar) = "registrar"
    BY <1>1, <1>2 DEF Merge, Summary
<1>3. CASE PickFresher(reg, rar) # "registrar"
    <2>1. ~Later(rar.exp, reg.exp)
        <3>1. SUFFICES ASSUME Later(rar.exp, reg.exp) PROVE FALSE
            OBVIOUS
        <3>2. ~Later(reg.exp, rar.exp)
            BY <1>1, <3>1 DEF Later
        <3> QED
            BY <1>3, <3>1, <3>2 DEF PickFresher
    <2>2. reg.exp >= rar.exp
        BY <1>1, <2>1 DEF Later
    <2> QED
        BY <1>3, <2>2 DEF Merge
<1> QED
    BY <1>2, <1>3

-----------------------------------------------------------------------------
(* The type invariant.                                                     *)

\* A poll yields a state of the lifecycle, or "failed".
LEMMA PollKeepsTypes ==
    ASSUME TypeOK, PollGone \/ PollFails \/ PollRegistry \/ PollBoth
    PROVE  TypeOK'
<1>1. now \in Int /\ registry \in Summary /\ registrar \in Summary
    BY HorizonAssumption DEF TypeOK
<1>2. StateOf(registry) \in States /\ StateOf(Merge(registry, registrar)) \in States
    BY <1>1, MergeIsSummary, StateOfSummary
<1> QED
    BY <1>2, StatesAre DEF TypeOK, PollGone, PollFails, PollRegistry, PollBoth

\* A record that is touched, or not, is still an answer.
LEMMA BumpedIsSummary ==
    ASSUME now \in 0..Horizon, NEW s \in Summary, NEW t \in Bumped(s)
    PROVE  t \in Summary
BY DEF Bumped, Summary

\* The clock, the owner and the two registries keep the types.
LEMMA WorldKeepsTypes ==
    ASSUME TypeOK, Tick \/ Renew \/ RenewalArrives \/ Touch \/ Follow
    PROVE  TypeOK'
<1> DEFINE renewed == FirstExpiry + Term
<1>1. renewed \in Dates
    BY HorizonAssumption, TermAssumption DEF Dates
<1>2. CASE Tick
    BY <1>2, HorizonAssumption DEF TypeOK, Tick
<1>3. CASE Renew
    <2>1. [registrar EXCEPT !.exp = renewed] \in Summary
        BY <1>1 DEF TypeOK, Summary
    <2> QED
        BY <1>3, <2>1, BumpedIsSummary DEF TypeOK, Renew
<1>4. CASE RenewalArrives
    <2>1. [registry EXCEPT !.exp = renewed] \in Summary
        BY <1>1 DEF TypeOK, Summary
    <2> QED
        BY <1>4, <2>1, BumpedIsSummary DEF TypeOK, RenewalArrives
<1>5. CASE Touch
    BY <1>5 DEF TypeOK, Touch, Summary
<1>6. CASE Follow
    BY <1>6 DEF TypeOK, Follow, Summary
<1> QED
    BY <1>2, <1>3, <1>4, <1>5, <1>6

\* So does a step of the domain towards its deletion.
LEMMA DeclineKeepsTypes ==
    ASSUME TypeOK, NEW from, NEW to \in Phases, Decline(from, to)
    PROVE  TypeOK'
<1>1. Words(to) \in SUBSET {"pendingdelete", "redemptionperiod"}
    BY DEF Words, Phases
<1>2. [registry EXCEPT !.words = Words(to), !.statuses = TRUE] \in Summary
    BY <1>1 DEF TypeOK, Summary
<1> QED
    BY <1>2, BumpedIsSummary DEF TypeOK, Decline

\* The registry's and the registrar's records are answers a responder may give,
\* and each poll has yielded a state of the lifecycle or failed.
THEOREM TypeCorrect == Spec => []TypeOK
<1>1. Init => TypeOK
    BY HorizonAssumption, TermAssumption, StatesAre DEF Init, TypeOK, Summary, Dates, Phases, NoDate
<1>2. TypeOK /\ [Next]_vars => TypeOK'
    <2> SUFFICES ASSUME TypeOK, [Next]_vars PROVE TypeOK'
        OBVIOUS
    <2>1. CASE UNCHANGED vars
        BY <2>1 DEF TypeOK, vars
    <2> QED
        BY <2>1, PollKeepsTypes, WorldKeepsTypes, DeclineKeepsTypes DEF Next, Phases
<1> QED
    BY <1>1, <1>2, PTL DEF Spec

-----------------------------------------------------------------------------
(* The action properties.                                                  *)

\* An owner who has renewed is never reported to be in the grace period by a
\* poll that heard the registrar, whatever the registry says.
THEOREM RenewalsAreBelieved == Spec => RenewalBelieved
<1>1. ASSUME TypeOK, PollBoth, Renewed, registrar.exp > now
      PROVE  seen' # "EXPIRED_GRACE"
    <2> DEFINE merged == Merge(registry, registrar)
    <2>1. /\ now \in Int /\ registry \in Summary /\ registrar \in Summary
          /\ registrar.exp # NoDate
        BY <1>1, HorizonAssumption, TermAssumption DEF TypeOK, Renewed, NoDate
    <2>2. merged \in Summary /\ merged.exp >= registrar.exp
        BY <2>1, MergeIsSummary, MergeKeepsLater
    <2>3. merged.exp \in Int /\ registrar.exp \in Int
        BY <2>1, <2>2, HorizonAssumption, TermAssumption DEF Summary, Dates, NoDate
    <2>4. merged.exp > now
        BY <1>1, <2>1, <2>2, <2>3
    <2> QED
        BY <1>1, <2>1, <2>2, <2>4, StateOfSummary DEF PollBoth
<1> DEFINE A == PollBoth /\ Renewed /\ registrar.exp > now
                => seen' # "EXPIRED_GRACE"
<1>2. TypeOK /\ [Next]_vars => [A]_vars
    BY <1>1
<1>3. Spec => [][A]_vars
    BY <1>2, TypeCorrect, PTL DEF Spec
<1> QED
    BY <1>3 DEF RenewalBelieved

\* A registrar's record that is not newer leaves the registry's answer as it is.
THEOREM StaleRegistrarsAreHarmless == Spec => StaleRegistrarHarmless
<1>1. ASSUME PollBoth, ~Later(registrar.exp, registry.exp),
             \/ Later(registry.exp, registrar.exp)
             \/ ~Later(registrar.changed, registry.changed)
      PROVE  seen' = StateOf(registry)
    BY <1>1, StaleMerge DEF PollBoth
<1> QED
    BY <1>1, PTL DEF StaleRegistrarHarmless, Spec
=============================================================================
