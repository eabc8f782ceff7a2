--------------------------- MODULE ScheduleProofs ---------------------------
(***************************************************************************)
(* Proofs about the monitor's loop: its types, how late a poll can be, how *)
(* soon a signal ends the loop, and that the health probe does not call a  *)
(* working loop unhealthy, for any list of domains and any intervals.      *)
(***************************************************************************)
EXTENDS Schedule, LeastNumber

-----------------------------------------------------------------------------
(* The backoff.                                                            *)

\* Doubled is what its recursion says: every doubling is a number.
LEMMA DoubledType ==
    /\ Doubled \in [0..MaxDoublings -> Nat]
    /\ Doubled[0] = PollCritical
    /\ \A k \in 1..MaxDoublings : Doubled[k] = 2 * Doubled[k - 1]
<1> USE PollAssumption
<1> DEFINE Rec(f) == [k \in 0..MaxDoublings |->
                        IF k = 0 THEN PollCritical ELSE 2 * f[k - 1]]
<1>1. PICK f \in [0..MaxDoublings -> Nat] :
         /\ f[0] = PollCritical
         /\ \A i \in 1..MaxDoublings : f[i] = 2 * f[i - 1]
  <2> DEFINE step == [p \in (1..MaxDoublings) \X Nat |-> 2 * p[2]]
  <2>1. step \in Steps(MaxDoublings, Nat)
    BY DEF Steps
  <2>2. PICK f : Takes(f, MaxDoublings, Nat, PollCritical, step)
    <3> HIDE DEF step
    <3>1. MaxDoublings \in Nat /\ PollCritical \in Nat
      OBVIOUS
    <3>2. QED
      BY <2>1, <3>1, StepByStep, Zenon
  <2>3. f \in [0..MaxDoublings -> Nat] /\ f[0] = PollCritical
    BY <2>2 DEF Takes
  <2>4. ASSUME NEW i \in 1..MaxDoublings
        PROVE  f[i] = 2 * f[i - 1]
    <3>1. f[i - 1] \in Nat
      BY <2>3
    <3>2. step[<<i, f[i - 1]>>] = 2 * f[i - 1]
      BY <3>1
    <3>3. f[i] = step[<<i, f[i - 1]>>]
      BY <2>2 DEF Takes
    <3>4. QED
      BY <3>2, <3>3
  <2>5. QED
    BY <2>3, <2>4
<1>2. f = Rec(f)
  BY <1>1
<1>3. Doubled = Rec(Doubled)
  <2>1. Doubled = CHOOSE g : g = Rec(g)
    BY DEF Doubled
  <2>2. QED
    <3> HIDE DEF Rec
    <3>1. QED
      BY <1>2, <2>1, Zenon
<1>4. ASSUME NEW k \in 0..MaxDoublings
      PROVE  Doubled[k] = IF k = 0 THEN PollCritical ELSE 2 * Doubled[k - 1]
  <2> HIDE DEF Rec
  <2>1. Doubled[k] = Rec(Doubled)[k]
    BY <1>3, Zenon
  <2>2. QED
    BY <2>1 DEF Rec
<1>5. Doubled[0] = PollCritical
  BY <1>4
<1>6. ASSUME NEW k \in 1..MaxDoublings
      PROVE  Doubled[k] = 2 * Doubled[k - 1]
  <2>1. k \in 0..MaxDoublings /\ k # 0
    OBVIOUS
  <2>2. QED
    BY <1>4, <2>1
<1>7. \A k \in 0..MaxDoublings : Doubled[k] \in Nat
  <2> DEFINE T == {k \in 0..MaxDoublings : Doubled[k] \in Nat}
  <2>1. 0 \in T
    BY <1>5
  <2>2. ASSUME NEW k \in 0..(MaxDoublings - 1), k \in T
        PROVE  k + 1 \in T
    <3>1. k + 1 \in 1..MaxDoublings /\ (k + 1) - 1 = k
      OBVIOUS
    <3>2. Doubled[k + 1] = 2 * Doubled[k]
      BY <1>6, <3>1
    <3>3. QED
      BY <2>2, <3>1, <3>2
  <2>3. \A k \in 0..MaxDoublings : k \in T
    <3> HIDE DEF T
    <3>1. MaxDoublings \in Nat
      OBVIOUS
    <3>2. \A k \in 0..(MaxDoublings - 1) : k \in T => k + 1 \in T
      BY <2>2, Zenon
    <3>3. QED
      BY <2>1, <3>1, <3>2, InductionUpTo, Zenon
  <2>4. QED
    BY <2>3
<1>8. Doubled \in [0..MaxDoublings -> Nat]
  <2>1. Doubled = [k \in 0..MaxDoublings |-> Doubled[k]]
    <3>1. Rec(Doubled) = [k \in 0..MaxDoublings |-> Rec(Doubled)[k]]
      OBVIOUS
    <3> HIDE DEF Rec
    <3>2. QED
      BY <1>3, <3>1, Zenon
  <2>2. QED
    BY <1>7, <2>1, Zenon
<1>9. QED
  BY <1>5, <1>6, <1>8

\* A backoff is a number, and none is longer than the last.
LEMMA BackoffType ==
    ASSUME NEW k \in 0..MaxDoublings
    PROVE  Backoff(k) \in Nat /\ Backoff(k) <= Backoff(MaxDoublings)
<1> USE PollAssumption
<1> DEFINE T == {j \in 0..MaxDoublings : Doubled[MaxDoublings - j]
                                          <= Doubled[MaxDoublings]}
<1>1. 0 \in T
  BY DoubledType
<1>2. ASSUME NEW j \in 0..(MaxDoublings - 1), j \in T
      PROVE  j + 1 \in T
  <2>1. MaxDoublings - j \in 1..MaxDoublings
        /\ (MaxDoublings - j) - 1 = MaxDoublings - (j + 1)
        /\ MaxDoublings - (j + 1) \in 0..MaxDoublings
    OBVIOUS
  <2>2. Doubled[MaxDoublings - j] = 2 * Doubled[MaxDoublings - (j + 1)]
    BY <2>1, DoubledType
  <2>3. /\ Doubled[MaxDoublings - (j + 1)] \in Nat
        /\ Doubled[MaxDoublings - j] \in Nat
        /\ Doubled[MaxDoublings] \in Nat
    BY <2>1, DoubledType
  <2>4. Doubled[MaxDoublings - j] <= Doubled[MaxDoublings]
    BY <1>2
  <2>5. Doubled[MaxDoublings - (j + 1)] <= Doubled[MaxDoublings]
    BY <2>2, <2>3, <2>4
  <2>6. QED
    BY <2>5
<1>3. MaxDoublings - k \in T
  <2> HIDE DEF T
  <2>1. MaxDoublings \in Nat /\ MaxDoublings - k \in 0..MaxDoublings
    OBVIOUS
  <2>2. \A j \in 0..(MaxDoublings - 1) : j \in T => j + 1 \in T
    BY <1>2, Zenon
  <2>3. \A j \in 0..MaxDoublings : j \in T
    BY <1>1, <2>1, <2>2, InductionUpTo, Zenon
  <2>4. QED
    BY <2>1, <2>3, Zenon
<1>4. MaxDoublings - (MaxDoublings - k) = k
  OBVIOUS
<1>5. Doubled[k] <= Doubled[MaxDoublings]
  BY <1>3, <1>4
<1>6. Doubled[k] \in Nat /\ Doubled[MaxDoublings] \in Nat
  BY DoubledType
<1>7. Doublings(k) = k /\ Doublings(MaxDoublings) = MaxDoublings
  BY DEF Doublings, Least
<1>8. QED
  BY <1>5, <1>6, <1>7 DEF Backoff, Least

\* Counting one more failure keeps within what the backoff tells apart.
LEMMA DoublingsType ==
    ASSUME NEW k \in 0..MaxDoublings
    PROVE  Doublings(k + 1) \in 0..MaxDoublings
BY PollAssumption DEF Doublings, Least

\* Every distance between two polls is a number within the longest.
LEMMA IntervalType ==
    /\ \A state \in States : IntervalFor(state) \in 0..LongestInterval
    /\ \A k \in 0..MaxDoublings : Backoff(k) \in 0..LongestInterval
    /\ AfterBreak \in Nat
    /\ LongestInterval \in Nat
    /\ LongestWait \in Nat
    /\ LongestInterval + PollJitter <= LongestWait
    /\ AfterBreak + PollJitter <= LongestWait
<1> USE PollAssumption
<1> DEFINE last == Backoff(MaxDoublings)
<1>1. last \in Nat
  BY BackoffType
<1>2. /\ LongestInterval \in Nat
      /\ PollCritical <= LongestInterval /\ PollExpiring <= LongestInterval
      /\ PollNormal <= LongestInterval /\ last <= LongestInterval
  <2>1. last = Least(Doubled[MaxDoublings], BackoffCap)
    <3>1. Doublings(MaxDoublings) = MaxDoublings
      BY DEF Doublings, Least
    <3>2. QED
      BY <3>1, Zenon DEF Backoff
  <2> HIDE DEF last
  <2>2. LongestInterval = Greatest(Greatest(PollNormal, PollExpiring),
                                   Greatest(PollCritical, last))
    BY <2>1, Zenon DEF LongestInterval
  <2>3. QED
    BY <1>1, <2>2 DEF Greatest
<1>3. \A k \in 0..MaxDoublings : Backoff(k) \in 0..LongestInterval
  <2> SUFFICES ASSUME NEW k \in 0..MaxDoublings
               PROVE  Backoff(k) \in 0..LongestInterval
    OBVIOUS
  <2>1. Backoff(k) \in Nat /\ Backoff(k) <= last
    BY BackoffType
  <2> HIDE DEF last
  <2>2. QED
    BY <1>1, <1>2, <2>1
<1> HIDE DEF last
<1>4. \A state \in States : IntervalFor(state) \in 0..LongestInterval
  BY <1>2 DEF IntervalFor
<1>5. AfterBreak \in Nat
  BY DEF AfterBreak
<1>6. QED
  BY <1>2, <1>3, <1>4, <1>5 DEF LongestWait, Greatest

-----------------------------------------------------------------------------
(* Places in the list, and time counted in checks.                         *)

\* Domains have a place each.
LEMMA PositionType ==
    /\ Len(Domains) \in Nat \ {0}
    /\ \A d \in Dom : Position(d) \in 1..Len(Domains)
    /\ \A d, e \in Dom : Position(d) = Position(e) => d = e
    /\ Dom # {}
<1> USE DomainsAssumption
<1>1. Len(Domains) \in Nat \ {0} /\ DOMAIN Domains = 1..Len(Domains)
  OBVIOUS
<1>2. \A d \in Dom : Position(d) \in DOMAIN Domains
                     /\ Domains[Position(d)] = d
  <2> SUFFICES ASSUME NEW d \in Dom
               PROVE  Position(d) \in DOMAIN Domains
                      /\ Domains[Position(d)] = d
    OBVIOUS
  <2>1. \E i \in DOMAIN Domains : Domains[i] = d
    BY Zenon DEF Dom
  <2>2. QED
    BY <2>1, Zenon DEF Position
<1>3. Domains[1] \in Dom
  BY <1>1 DEF Dom
<1>4. QED
  BY <1>1, <1>2, <1>3

\* How long k checks may take.
Rounds(k) == k * MaxCheck

\* The longest a domain may have been due when a round samples the clock.
Base == Rounds(Len(Domains) - 1) + MaxBeat + MinNap

\* Checks take time one after the other.
LEMMA RoundsAdd ==
    /\ MaxCheck \in Nat
    /\ \A k \in Int : Rounds(k) \in Int
    /\ Rounds(0) = 0
    /\ \A k \in Int : Rounds(k + 1) = Rounds(k) + MaxCheck
    /\ \A j, k \in Int : j <= k => Rounds(j) <= Rounds(k)
    /\ \A j, k \in Int : Rounds(j + k) = Rounds(j) + Rounds(k)
<1>1. MaxCheck \in Nat
  BY PollAssumption, DurationAssumption DEF MaxCheck
<1> HIDE DEF MaxCheck
<1>2. QED
  BY <1>1 DEF Rounds

\* The bounds of the module, in checks.
LEMMA Bounds ==
    /\ Base \in Nat
    /\ MaxSlack = Base + Rounds(Len(Domains) - 1) + MaxCheck + MaxCheck
    /\ LongestGap = LongestWait + Base + Rounds(Len(Domains) - 1) + MaxCheck
    /\ \A d \in Dom : Slack(d) = Base + Rounds(Position(d) - 1)
    /\ MaxBeat \in Nat /\ MinNap \in Nat /\ MaxNap \in Nat /\ MinNap <= MaxNap
    /\ Rounds(Len(Domains) - 1) \in Nat
<1> DEFINE n == Len(Domains)
<1>1. n \in Nat \ {0} /\ n - 1 \in Nat
  BY PositionType
<1>2. MaxBeat \in Nat /\ MinNap \in Nat /\ MaxNap \in Nat /\ MinNap <= MaxNap
  BY DurationAssumption, NapAssumption
<1>3. Rounds(n - 1) \in Nat
  <2>1. n - 1 \in Int /\ 0 \in Int /\ 0 <= n - 1
    BY <1>1
  <2>2. Rounds(0) = 0 /\ Rounds(n - 1) \in Int /\ Rounds(0) <= Rounds(n - 1)
    BY <2>1, RoundsAdd
  <2>3. QED
    BY <2>2
<1>4. /\ 2 * n * MaxCheck = Rounds(n - 1) + Rounds(n - 1) + MaxCheck + MaxCheck
      /\ (2 * n - 2) * MaxCheck = Rounds(n - 1) + Rounds(n - 1)
  <2>1. MaxCheck \in Nat
    BY RoundsAdd
  <2> HIDE DEF MaxCheck, n
  <2>2. QED
    BY <1>1, <2>1 DEF Rounds
<1>5. MaxSlack = Base + Rounds(n - 1) + MaxCheck + MaxCheck
  <2>1. MaxCheck \in Nat
    BY RoundsAdd
  <2>2. MaxSlack = 2 * n * MaxCheck + MaxBeat + MinNap
    BY DEF MaxSlack
  <2> HIDE DEF MaxCheck, n
  <2>3. QED
    BY <1>2, <1>3, <1>4, <2>1, <2>2 DEF Base, n
<1>6. LongestGap = LongestWait + Base + Rounds(n - 1) + MaxCheck
  <2>1. MaxCheck \in Nat /\ LongestWait \in Nat
    BY RoundsAdd, IntervalType
  <2>2. LongestGap = LongestWait + (2 * n - 2) * MaxCheck
                     + MaxBeat + MinNap + MaxCheck
    BY DEF LongestGap
  <2> HIDE DEF MaxCheck, LongestWait, n
  <2>3. QED
    BY <1>2, <1>3, <1>4, <2>1, <2>2 DEF Base, n
<1>7. ASSUME NEW d \in Dom
      PROVE  Slack(d) = Base + Rounds(Position(d) - 1)
  BY DEF Slack, Base, Rounds
<1>8. Base \in Nat
  BY <1>2, <1>3 DEF Base
<1>9. QED
  BY <1>2, <1>3, <1>5, <1>6, <1>7, <1>8

-----------------------------------------------------------------------------
(* The inductive invariant.                                                *)

Live == at \notin {"hung", "stopped"}

\* The throttle is never further ahead than one query, but for the one that
\* the check in progress has reserved.
ThrottleKept ==
    /\ at = "check" => cool <= WhoisInterval + busy
    /\ at \in {"round", "beat", "nap"} => cool <= WhoisInterval

\* A check in progress is one of the list, what it or a heartbeat still needs
\* is within its bound, and a loop that has ended does not sleep.
WorkBounded ==
    /\ at = "check" => todo # {}
    /\ at = "stopped" => nap = 0
    /\ \A d \in Dom : Checking(d) => busy <= CheckTime(d)
    /\ at = "beat" => busy <= MaxBeat

\* The time since the signal, by where the loop is.
Ending ==
    /\ running => ending = 0
    /\ Live =>
          /\ \A d \in Dom : Checking(d) => ending + busy <= CheckTime(d)
          /\ at = "round" => ending <= MaxCheck
          /\ at = "beat" => ending + busy <= MaxCheck + MaxBeat
          /\ at = "nap" => ending <= MaxCheck + MaxBeat

\* What the check in progress has taken at most.
Elapsed == IF at = "check" THEN MaxCheck - busy ELSE 0

\* Checks of other domains that a domain outside the list may have seen in
\* this round, when it is the turn of e.
Seen(d, e) == IF Position(d) < Position(e) THEN Position(e) - 2
                                           ELSE Position(e) - 1

\* The first of T in the order of the list.
First(T, e) == e \in T /\ \A x \in T : Position(e) <= Position(x)

\* How late d can be when it is the turn of e, the first of T: who is in T was
\* due at the sample, at most Base ago; who is not was due later or is polled.
Bound(T, d, e) == IF d \in T THEN -Base - Rounds(Position(e) - 1)
                              ELSE -Rounds(Seen(d, e))

\* While a round lasts.
LateInRound ==
    at \in {"round", "check"} =>
        \A d, e \in Dom : Turn(e) => wait[d] >= Bound(todo, d, e) - Elapsed

\* After the last check, during the heartbeat and during the sleep.
LateAfterwards ==
    /\ at = "round" /\ todo = {} =>
          \A d \in Dom : wait[d] >= -Rounds(Len(Domains) - 1)
    /\ at = "beat" =>
          \A d \in Dom :
              wait[d] >= -Rounds(Len(Domains) - 1) - (MaxBeat - busy)
    /\ at = "nap" => \A d \in Dom : wait[d] >= nap - Base

\* The domain whose check wrote a row last, or any after a check by the CLI.
Recent == \E d \in Dom : age + wait[d] <= LongestWait

IInv ==
    /\ TypeOK
    /\ ThrottleKept
    /\ WorkBounded
    /\ Ending
    /\ running => LateInRound
    /\ running => LateAfterwards
    /\ Live /\ running /\ ~unseen => Recent

-----------------------------------------------------------------------------
(* The shape of the steps.                                                 *)

\* While domains are left in the round, it is the turn of exactly one.
LEMMA FirstTurn ==
    ASSUME TypeOK
    PROVE  /\ todo # {} => \E e \in Dom : Turn(e)
           /\ \A d, e \in Dom : Turn(d) /\ Turn(e) => d = e
           /\ \A d, e \in Dom : Turn(e) /\ d \in todo /\ d # e
                                => Position(e) < Position(d)
<1>1. todo \subseteq Dom
  BY DEF TypeOK
<1>2. ASSUME todo # {}
      PROVE  \E e \in Dom : Turn(e)
  <2> DEFINE T == {Position(d) : d \in todo}
  <2>1. T \in SUBSET Nat /\ T # {}
    BY <1>1, <1>2, PositionType
  <2>2. PICK x \in T : \A y \in T : x <= y
    BY <2>1, LeastMember
  <2>3. PICK e \in todo : x = Position(e)
    BY <2>2
  <2>4. \A d \in todo : Position(e) <= Position(d)
    BY <2>2, <2>3
  <2>5. QED
    BY <1>1, <2>4, Zenon DEF Turn
<1>3. ASSUME NEW d \in Dom, NEW e \in Dom, Turn(e), d \in todo, d # e
      PROVE  Position(e) < Position(d)
  <2>1. Position(e) <= Position(d)
    BY <1>3, Zenon DEF Turn
  <2>2. Position(e) \in Nat /\ Position(d) \in Nat
        /\ Position(e) # Position(d)
    BY <1>3, PositionType
  <2>3. QED
    BY <2>1, <2>2
<1>4. ASSUME NEW d \in Dom, NEW e \in Dom, Turn(d), Turn(e)
      PROVE  d = e
  <2>1. Position(d) <= Position(e) /\ Position(e) <= Position(d)
    BY <1>4, Zenon DEF Turn
  <2>2. Position(e) \in Nat /\ Position(d) \in Nat
    BY PositionType
  <2>3. Position(e) = Position(d)
    BY <2>1, <2>2
  <2>4. QED
    BY <2>3, PositionType
<1>5. QED
  BY <1>2, <1>3, <1>4, Zenon

\* What every end of a check does.
Ends(d) ==
    /\ Checking(d) /\ busy = 0
    /\ at' = "round" /\ todo' = todo \ {d}
    /\ \E w \in 0..LongestWait : wait' = [wait EXCEPT ![d] = w]
    /\ errors' \in [Dom -> 0..MaxDoublings]
    /\ \/ age' = 0 /\ unseen' = FALSE
       \/ age' = age /\ unseen' = TRUE
    /\ UNCHANGED <<running, busy, nap, cool, ending, hung>>

\* An answer, a failure that is counted and one that is not all end the check.
LEMMA EveryEnd ==
    ASSUME TypeOK, NEW d \in Dom, Answered(d) \/ Failed(d) \/ Broke(d)
    PROVE  Ends(d)
<1> USE PollAssumption, IntervalType
<1>1. errors \in [Dom -> 0..MaxDoublings]
  BY DEF TypeOK
<1>2. ASSUME NEW i \in Nat, i + PollJitter <= LongestWait, Reschedule(d, i)
      PROVE  /\ at' = "round" /\ todo' = todo \ {d}
             /\ \E w \in 0..LongestWait : wait' = [wait EXCEPT ![d] = w]
             /\ UNCHANGED <<running, busy, nap, cool, ending, hung>>
  <2>1. PICK jitter \in 0..PollJitter :
           wait' = [wait EXCEPT ![d] = i + jitter]
    BY <1>2 DEF Reschedule
  <2>2. i + jitter \in 0..LongestWait
    BY <1>2
  <2>3. QED
    BY <1>2, <2>1, <2>2 DEF Reschedule
<1>3. CASE Answered(d)
  <2>1. PICK state \in States : Reschedule(d, IntervalFor(state))
    BY <1>3, Zenon DEF Answered
  <2> DEFINE i == IntervalFor(state)
  <2>2. i \in Nat /\ i + PollJitter <= LongestWait
    BY <2>1
  <2>3. Reschedule(d, i)
    BY <2>1
  <2>4. errors' = [errors EXCEPT ![d] = 0]
    BY <1>3 DEF Answered
  <2>5. errors' \in [Dom -> 0..MaxDoublings]
    BY <1>1, <2>4
  <2> HIDE DEF i
  <2>6. /\ at' = "round" /\ todo' = todo \ {d}
        /\ \E w \in 0..LongestWait : wait' = [wait EXCEPT ![d] = w]
        /\ UNCHANGED <<running, busy, nap, cool, ending, hung>>
    BY <1>2, <2>2, <2>3, Zenon
  <2>7. QED
    BY <1>3, <2>5, <2>6, Zenon DEF Ends, Answered, Written
<1>4. CASE Failed(d)
  <2> DEFINE k == Doublings(errors[d] + 1)
  <2>1. k \in 0..MaxDoublings
    BY <1>1, DoublingsType
  <2>2. errors' = [errors EXCEPT ![d] = k] /\ Reschedule(d, Backoff(k))
    BY <1>4 DEF Failed
  <2> HIDE DEF k
  <2>3. errors' \in [Dom -> 0..MaxDoublings]
    BY <1>1, <2>1, <2>2
  <2>4. Backoff(k) \in Nat /\ Backoff(k) + PollJitter <= LongestWait
    BY <2>1
  <2>5. /\ at' = "round" /\ todo' = todo \ {d}
        /\ \E w \in 0..LongestWait : wait' = [wait EXCEPT ![d] = w]
        /\ UNCHANGED <<running, busy, nap, cool, ending, hung>>
    BY <1>2, <2>2, <2>4, Zenon
  <2>6. QED
    BY <1>4, <2>3, <2>5, Zenon DEF Ends, Failed, FailureSeen, Written
<1>5. CASE Broke(d)
  <2>1. /\ at' = "round" /\ todo' = todo \ {d}
        /\ \E w \in 0..LongestWait : wait' = [wait EXCEPT ![d] = w]
        /\ UNCHANGED <<running, busy, nap, cool, ending, hung>>
    BY <1>2, <1>5, Zenon DEF Broke
  <2>2. errors' \in [Dom -> 0..MaxDoublings]
    BY <1>1, <1>5 DEF Broke
  <2>3. (age' = 0 /\ unseen' = FALSE) \/ (age' = age /\ unseen' = TRUE)
    BY <1>5 DEF Broke, Written
  <2>4. QED
    BY <1>5, <2>1, <2>2, <2>3, Zenon DEF Ends, Broke
<1>6. QED
  BY <1>3, <1>4, <1>5

\* The throttle's part of a check and the whole of it.
LEMMA ThrottleType ==
    ASSUME TypeOK, NEW d \in Dom
    PROVE  /\ Throttle(d) \in Nat /\ CheckTime(d) \in Nat
           /\ CheckTime(d) <= MaxCheck
           /\ WhoisInterval \in Nat /\ MaxWork \in Nat
           /\ MaxCheck = MaxWork + WhoisInterval
           /\ d \in TrDomains => /\ Throttle(d) = cool
                                 /\ CheckTime(d) = MaxWork + WhoisInterval
           /\ d \notin TrDomains => Throttle(d) = 0 /\ CheckTime(d) = MaxWork
           /\ cool \in Nat
BY PollAssumption, DurationAssumption
   DEF TypeOK, Throttle, CheckTime, MaxCheck

-----------------------------------------------------------------------------
(* The invariant holds initially, and every step keeps each part of it.    *)

\* The bounds are numbers.
LEMMA Numbers ==
    /\ MaxSlack \in Nat /\ LongestWait \in Nat /\ MaxCheck \in Nat
    /\ MaxBeat \in Nat /\ MaxNap \in Nat /\ MinNap \in Nat /\ Base \in Nat
    /\ StaleAfter \in Nat /\ WhoisInterval \in Nat /\ MaxDoublings \in Nat
    /\ MaxCheck = MaxWork + WhoisInterval /\ MaxWork \in Nat
<1>1. MaxSlack \in Nat
  <2>1. MaxCheck \in Nat /\ Base \in Nat /\ Rounds(Len(Domains) - 1) \in Nat
    BY RoundsAdd, Bounds
  <2>2. MaxSlack = Base + Rounds(Len(Domains) - 1) + MaxCheck + MaxCheck
    BY Bounds
  <2>3. QED
    BY <2>1, <2>2
<1>2. QED
  BY <1>1, Bounds, RoundsAdd, IntervalType, PollAssumption, DurationAssumption
     DEF StaleAfter, StaleFactor, MaxCheck

\* Nothing is late, pending or counted when the program starts.
LEMMA InitHolds == Init => IInv
<1> SUFFICES ASSUME Init
             PROVE  IInv
  OBVIOUS
<1> USE DEF Init
<1>1. /\ MaxSlack \in Nat /\ LongestWait \in Nat /\ MaxCheck \in Nat
      /\ MaxBeat \in Nat /\ MaxNap \in Nat /\ Base \in Nat
      /\ StaleAfter \in Nat /\ WhoisInterval \in Nat /\ MaxDoublings \in Nat
  BY Numbers
<1>2. TypeOK
  <2> HIDE DEF MaxSlack, LongestWait, MaxCheck, StaleAfter
  <2>1. wait \in [Dom -> -MaxSlack..LongestWait]
    BY <1>1
  <2>2. errors \in [Dom -> 0..MaxDoublings]
    BY <1>1
  <2>3. QED
    BY <1>1, <2>1, <2>2 DEF TypeOK, NoRows
<1>3. ThrottleKept /\ WorkBounded /\ Ending
  BY <1>1 DEF ThrottleKept, WorkBounded, Ending, Checking, Live
<1>4. LateInRound
  BY DEF LateInRound
<1>5. LateAfterwards
  BY <1>1 DEF LateAfterwards
<1>6. QED
  BY <1>2, <1>3, <1>4, <1>5, Zenon DEF IInv

\* A number of the sleep stays within the sleep's bounds.
LEMMA NapType ==
    ASSUME NEW w \in Int
    PROVE  /\ NapLength(w) \in MinNap..MaxNap
           /\ NapLength(w) <= MinNap \/ NapLength(w) <= w
           /\ Greatest(MinNap, NapLength(w) - 1) \in MinNap..MaxNap
           /\ \/ Greatest(MinNap, NapLength(w) - 1) <= MinNap
              \/ Greatest(MinNap, NapLength(w) - 1) <= w
BY NapAssumption DEF NapLength, Greatest, Least

\* Every step keeps the types.
LEMMA TypeStep ==
    ASSUME TypeOK, ThrottleKept, [Next]_vars
    PROVE  TypeOK'
<1>1. /\ MaxSlack \in Nat /\ LongestWait \in Nat /\ MaxCheck \in Nat
      /\ MaxBeat \in Nat /\ MaxNap \in Nat /\ MinNap \in Nat
      /\ StaleAfter \in Nat /\ WhoisInterval \in Nat /\ MaxDoublings \in Nat
      /\ MaxCheck = MaxWork + WhoisInterval /\ MaxWork \in Nat
  BY Numbers
<1>2. TypeOK
  OBVIOUS
<1> USE DEF NoRows
<1> HIDE DEF TypeOK
<1>3. CASE NewRound
  BY <1>2, <1>3 DEF NewRound, Due, TypeOK
<1>4. ASSUME NEW d \in Dom, BeginCheck(d)
      PROVE  TypeOK'
  <2>1. PICK work \in 0..MaxWork : busy' = Throttle(d) + work
    BY <1>4, Zenon DEF BeginCheck
  <2>2. cool \in 0..WhoisInterval
    BY <1>2, <1>4 DEF TypeOK, ThrottleKept, BeginCheck
  <2>3. Throttle(d) \in 0..WhoisInterval
    BY <1>1, <2>2 DEF Throttle
  <2>4. busy' \in 0..(MaxCheck + MaxBeat)
    BY <1>1, <2>1, <2>3
  <2>5. cool' \in 0..(2 * WhoisInterval)
    BY <1>1, <1>4, <2>2 DEF BeginCheck
  <2>6. QED
    BY <1>2, <1>4, <2>4, <2>5, Zenon DEF BeginCheck, TypeOK
<1>5. ASSUME NEW d \in Dom, Ends(d)
      PROVE  TypeOK'
  <2>1. PICK w \in 0..LongestWait : wait' = [wait EXCEPT ![d] = w]
    BY <1>5, Zenon DEF Ends
  <2>2. wait \in [Dom -> -MaxSlack..LongestWait]
    BY <1>2 DEF TypeOK
  <2>3. w \in -MaxSlack..LongestWait
    <3> HIDE DEF MaxSlack, LongestWait
    <3>1. QED
      BY <1>1
  <2>4. wait' \in [Dom -> -MaxSlack..LongestWait]
    BY <2>1, <2>2, <2>3, Zenon
  <2>5. age' \in NoRows..(StaleAfter + 1)
    BY <1>1, <1>2, <1>5 DEF Ends, TypeOK
  <2>6. unseen' \in BOOLEAN
    BY <1>5, Zenon DEF Ends
  <2>7. todo' \subseteq Dom
    BY <1>2, <1>5 DEF Ends, TypeOK
  <2>8. QED
    BY <1>2, <1>5, <2>4, <2>5, <2>6, <2>7, Zenon DEF Ends, TypeOK
<1>6. CASE EndRound
  BY <1>1, <1>2, <1>6 DEF EndRound, TypeOK
<1>7. CASE EndBeat
  <2>1. PICK d \in Dom : nap' \in {NapLength(wait[d]),
                                   Greatest(MinNap, NapLength(wait[d]) - 1)}
    BY <1>7 DEF EndBeat
  <2>2. wait[d] \in Int
    <3> HIDE DEF MaxSlack, LongestWait
    <3>1. QED
      BY <1>1, <1>2 DEF TypeOK
  <2>3. nap' \in 0..MaxNap
    <3>1. MinNap \in Nat /\ MaxNap \in Nat
      BY <1>1
    <3>2. nap' \in MinNap..MaxNap
      BY <2>1, <2>2, NapType, Zenon
    <3>3. QED
      BY <3>1, <3>2
  <2>4. QED
    BY <1>2, <1>7, <2>3, Zenon DEF EndBeat, TypeOK
<1>8. CASE Shutdown
  BY <1>1, <1>2, <1>8 DEF Shutdown, TypeOK
<1>9. CASE Tick
  <2>1. busy' \in 0..(MaxCheck + MaxBeat)
    BY <1>1, <1>2, <1>9 DEF Tick, Less, TypeOK
  <2>2. nap' \in 0..MaxNap /\ cool' \in 0..(2 * WhoisInterval)
    BY <1>1, <1>2, <1>9 DEF Tick, Less, TypeOK
  <2>3. wait' \in [Dom -> -MaxSlack..LongestWait]
    <3>1. ASSUME NEW d \in Dom
          PROVE  Greatest(wait[d] - 1, -MaxSlack) \in -MaxSlack..LongestWait
      <4> HIDE DEF MaxSlack, LongestWait
      <4>1. wait[d] \in -MaxSlack..LongestWait
        BY <1>2 DEF TypeOK
      <4>2. QED
        BY <1>1, <4>1 DEF Greatest
    <3>2. wait' = [d \in Dom |-> Greatest(wait[d] - 1, -MaxSlack)]
      BY <1>9 DEF Tick
    <3>3. QED
      BY <3>1, <3>2, Zenon
  <2>4. age' \in NoRows..(StaleAfter + 1) /\ hung' \in 0..(StaleAfter + 1)
    BY <1>1, <1>2, <1>9 DEF Tick, Least, TypeOK
  <2>5. ending' \in Nat
    BY <1>2, <1>9 DEF Tick, TypeOK
  <2>6. QED
    BY <1>2, <1>9, <2>1, <2>2, <2>3, <2>4, <2>5, Zenon DEF Tick, TypeOK
<1>10. CASE Signal
  BY <1>2, <1>10 DEF Signal, TypeOK
<1>11. CASE Hang
  BY <1>1, <1>2, <1>11 DEF Hang, TypeOK
<1>12. CASE Crash
  BY <1>1, <1>2, <1>12 DEF Crash, TypeOK
<1>13. CASE Start
  <2>1. wait' \in [Dom -> -MaxSlack..LongestWait]
    <3> HIDE DEF MaxSlack, LongestWait
    <3>1. QED
      BY <1>1, <1>13 DEF Start
  <2>2. age' \in NoRows..(StaleAfter + 1)
    BY <1>1, <1>2, <1>13 DEF Start, TypeOK
  <2>3. cool' \in 0..(2 * WhoisInterval) /\ ending' \in Nat
        /\ hung' \in 0..(StaleAfter + 1)
    BY <1>1, <1>13 DEF Start
  <2>4. QED
    BY <1>2, <1>13, <2>1, <2>2, <2>3, Zenon DEF Start, TypeOK
<1>14. ASSUME NEW d \in Dom, CliCheck(d)
       PROVE  TypeOK'
  <2>1. errors' \in [Dom -> 0..MaxDoublings]
    BY <1>1, <1>2, <1>14 DEF CliCheck, TypeOK
  <2>2. age' \in NoRows..(StaleAfter + 1)
    BY <1>1, <1>14 DEF CliCheck, Written
  <2>3. unseen' \in BOOLEAN
    BY <1>14, Zenon DEF CliCheck, Written
  <2>4. QED
    BY <1>2, <1>14, <2>1, <2>2, <2>3, Zenon DEF CliCheck, TypeOK
<1>15. CASE UNCHANGED vars
  BY <1>2, <1>15, Zenon DEF vars, TypeOK
<1>16. QED
  BY <1>2, <1>3, <1>4, <1>5, <1>6, <1>7, <1>8, <1>9, <1>10, <1>11, <1>12,
     <1>13, <1>14, <1>15, EveryEnd, Zenon DEF Next, Loop, Check

\* Every step keeps the throttle where it is allowed to be.
LEMMA ThrottleStep ==
    ASSUME TypeOK, ThrottleKept, [Next]_vars
    PROVE  ThrottleKept'
<1>1. cool \in Nat /\ busy \in Nat /\ WhoisInterval \in Nat
  BY Numbers DEF TypeOK
<1> USE DEF ThrottleKept
<1>2. CASE NewRound \/ EndRound \/ EndBeat \/ Shutdown
  BY <1>2 DEF NewRound, EndRound, EndBeat, Shutdown
<1>3. ASSUME NEW d \in Dom, BeginCheck(d)
      PROVE  ThrottleKept'
  <2>1. PICK work \in 0..MaxWork : busy' = Throttle(d) + work
    BY <1>3, Zenon DEF BeginCheck
  <2>2. work \in Nat
    BY <2>1, Numbers
  <2>3. QED
    BY <1>1, <1>3, <2>1, <2>2 DEF BeginCheck, Throttle
<1>4. ASSUME NEW d \in Dom, Ends(d)
      PROVE  ThrottleKept'
  BY <1>1, <1>4 DEF Ends, Checking
<1>5. CASE Tick
  BY <1>1, <1>5 DEF Tick, TakesTime, Less
<1>6. CASE Signal \/ Hang \/ Crash \/ Start
  BY <1>1, <1>6 DEF Signal, Hang, Crash, Start
<1>7. ASSUME NEW d \in Dom, CliCheck(d)
      PROVE  ThrottleKept'
  BY <1>7 DEF CliCheck
<1>8. CASE UNCHANGED vars
  BY <1>8 DEF vars
<1> HIDE DEF ThrottleKept
<1>9. QED
  BY <1>2, <1>3, <1>4, <1>5, <1>6, <1>7, <1>8, EveryEnd, Zenon
     DEF Next, Loop, Check

\* Turns move only with the list, checks only with the turns.
LEMMA SameTurn ==
    ASSUME todo' = todo, NEW d
    PROVE  /\ Turn(d)' <=> Turn(d)
           /\ at' = at => (Checking(d)' <=> Checking(d))
BY Zenon DEF Turn, Checking

\* Every step keeps the work in progress within its bounds.
LEMMA WorkStep ==
    ASSUME TypeOK, ThrottleKept, WorkBounded, [Next]_vars
    PROVE  WorkBounded'
<1>1. /\ busy \in Nat /\ cool \in Nat /\ MaxBeat \in Nat
      /\ \A d \in Dom : CheckTime(d) \in Nat
  BY Numbers, ThrottleType DEF TypeOK
<1> USE DEF WorkBounded
<1>2. CASE NewRound \/ EndBeat \/ Shutdown \/ Hang \/ Crash \/ Start
  BY <1>2 DEF NewRound, EndBeat, Shutdown, Hang, Crash, Start, Checking
<1>3. ASSUME NEW d \in Dom, BeginCheck(d)
      PROVE  WorkBounded'
  <2>1. PICK work \in 0..MaxWork : busy' = Throttle(d) + work
    BY <1>3, Zenon DEF BeginCheck
  <2>2. cool <= WhoisInterval
    BY <1>3 DEF ThrottleKept, BeginCheck
  <2>3. busy' <= CheckTime(d)
    BY <2>1, <2>2, ThrottleType
  <2>4. ASSUME NEW e \in Dom, Checking(e)'
        PROVE  e = d
    <3>1. Turn(e) /\ Turn(d)
      BY <1>3, <2>4, SameTurn, Zenon DEF BeginCheck, Checking
    <3>2. QED
      BY <3>1, FirstTurn, Zenon
  <2>5. todo' # {}
    BY <1>3 DEF BeginCheck, Turn
  <2>6. at' = "check"
    BY <1>3 DEF BeginCheck
  <2>7. QED
    BY <2>3, <2>4, <2>5, <2>6
<1>4. ASSUME NEW d \in Dom, Ends(d)
      PROVE  WorkBounded'
  BY <1>4 DEF Ends, Checking
<1>5. CASE EndRound
  BY <1>1, <1>5 DEF EndRound, Checking
<1>6. CASE Tick
  <2>1. at' = at /\ todo' = todo
    BY <1>6 DEF Tick
  <2>2. \A d : Checking(d)' <=> Checking(d)
    BY <2>1, SameTurn, Zenon
  <2>3. busy' <= busy /\ busy' \in Nat
    BY <1>1, <1>6 DEF Tick, Less
  <2>4. at # "stopped"
    BY <1>6 DEF Tick, TakesTime
  <2>5. QED
    BY <1>1, <2>1, <2>2, <2>3, <2>4
<1>7. CASE Signal \/ (\E d \in Dom : CliCheck(d)) \/ UNCHANGED vars
  <2>1. UNCHANGED <<at, todo, busy, nap>>
    BY <1>7 DEF Signal, CliCheck, vars
  <2>2. \A d : Checking(d)' <=> Checking(d)
    BY <2>1, SameTurn, Zenon
  <2>3. QED
    BY <2>1, <2>2
<1> HIDE DEF WorkBounded
<1>8. QED
  BY <1>2, <1>3, <1>4, <1>5, <1>6, <1>7, EveryEnd, Zenon
     DEF Next, Loop, Check

\* Sums keep the order of their parts.
LEMMA SumOrder ==
    \A a, b, c, d \in Int : a <= c /\ b <= d => a + b <= c + d
OBVIOUS

\* What is not below a bound is below no lower one either.
LEMMA AboveBound ==
    \A a, b, c \in Int : a >= -b /\ b <= c => ~(a < -c)
OBVIOUS

\* Every step keeps the time since the signal within its bounds.
LEMMA EndingStep ==
    ASSUME TypeOK, ThrottleKept, WorkBounded, Ending, [Next]_vars
    PROVE  Ending'
<1>1. /\ busy \in Nat /\ ending \in Nat /\ MaxBeat \in Nat /\ MaxCheck \in Nat
      /\ \A d \in Dom : CheckTime(d) \in Nat /\ CheckTime(d) <= MaxCheck
  BY Numbers, ThrottleType DEF TypeOK
<1>2. /\ running \in BOOLEAN
      /\ running => ending = 0
      /\ Live => /\ \A d \in Dom : Checking(d) => ending + busy <= CheckTime(d)
                 /\ at = "round" => ending <= MaxCheck
                 /\ at = "beat" => ending + busy <= MaxCheck + MaxBeat
                 /\ at = "nap" => ending <= MaxCheck + MaxBeat
  BY DEF Ending, TypeOK
<1>3. CASE NewRound
  <2>1. at' = "round" /\ running' = running /\ ending' = ending /\ running
    BY <1>3 DEF NewRound
  <2>2. ending' = 0
    BY <1>2, <2>1
  <2>3. QED
    BY <1>1, <2>1, <2>2 DEF Ending, Checking
<1>4. ASSUME NEW d \in Dom, BeginCheck(d)
      PROVE  Ending'
  <2>1. ending = 0 /\ ending' = 0
    BY <1>2, <1>4 DEF BeginCheck, GoesOn
  <2>2. WorkBounded'
    BY <1>4, WorkStep DEF Next, Loop, Check
  <2>3. busy' \in Nat
    <3>1. Throttle(d) \in Nat /\ MaxWork \in Nat
      BY ThrottleType
    <3>2. QED
      BY <1>4, <3>1 DEF BeginCheck
  <2>4. \A e \in Dom : Checking(e)' => ending' + busy' <= CheckTime(e)
    BY <1>1, <2>1, <2>2, <2>3 DEF WorkBounded
  <2>5. at' = "check"
    BY <1>4 DEF BeginCheck
  <2>6. QED
    BY <2>1, <2>4, <2>5 DEF Ending
<1>5. ASSUME NEW d \in Dom, Ends(d)
      PROVE  Ending'
  <2>1. Checking(d) /\ Live /\ busy = 0
    BY <1>5 DEF Ends, Checking, Live
  <2>2. ending <= MaxCheck
    BY <1>1, <1>2, <2>1
  <2>3. at' = "round" /\ ending' = ending /\ running' = running
    BY <1>5, Zenon DEF Ends
  <2>4. QED
    BY <1>2, <2>2, <2>3 DEF Ending, Checking
<1>6. CASE EndRound
  <2>1. ending <= MaxCheck
    BY <1>2, <1>6 DEF EndRound, Live
  <2>2. at' = "beat" /\ ending' = ending /\ running' = running
    BY <1>6 DEF EndRound
  <2>3. ending' + busy' <= MaxCheck + MaxBeat
    <3>1. ending' = ending /\ busy' \in 0..MaxBeat
      BY <1>6 DEF EndRound
    <3>2. ending \in Nat /\ MaxCheck \in Nat /\ MaxBeat \in Nat
      BY <1>1
    <3>3. ending' \in Int /\ busy' \in Int /\ MaxCheck \in Int
          /\ MaxBeat \in Int /\ ending' <= MaxCheck /\ busy' <= MaxBeat
      BY <2>1, <3>1, <3>2
    <3>4. QED
      BY <3>3, SumOrder, Zenon
  <2>4. QED
    BY <1>2, <2>2, <2>3 DEF Ending, Checking
<1>7. CASE EndBeat
  <2>1. ending <= MaxCheck + MaxBeat
    BY <1>1, <1>2, <1>7 DEF EndBeat, Live
  <2>2. at' = "nap" /\ ending' = ending /\ running' = running
    BY <1>7 DEF EndBeat
  <2>3. QED
    BY <1>2, <2>1, <2>2 DEF Ending, Checking
<1>8. CASE Shutdown \/ Hang \/ Crash
  <2>1. at' \in {"hung", "stopped"} /\ ending' = ending /\ running' = running
    BY <1>8 DEF Shutdown, Hang, Crash
  <2>2. QED
    BY <1>2, <2>1 DEF Ending, Live
<1>9. CASE Tick
  <2>1. at' = at /\ todo' = todo /\ running' = running
    BY <1>9 DEF Tick
  <2>2. \A d : Checking(d)' <=> Checking(d)
    BY <2>1, SameTurn, Zenon
  <2>3. CASE running
    <3>1. ending' = 0 /\ ending = 0
      BY <1>2, <1>9, <2>3 DEF Tick
    <3>2. busy' <= busy /\ busy' \in Nat
      BY <1>1, <1>9 DEF Tick, Less
    <3>3. ASSUME NEW k \in Nat, ending + busy <= k
          PROVE  ending' + busy' <= k
      <4>1. busy \in Nat
        BY <1>1
      <4>2. busy <= k
        BY <3>1, <3>3, <4>1
      <4>3. busy' <= k
        BY <3>2, <4>1, <4>2
      <4>4. ending' \in Int /\ busy' \in Int /\ 0 \in Int /\ k \in Int
            /\ ending' <= 0 /\ 0 + k = k
        BY <3>1, <3>2
      <4>5. QED
        BY <4>3, <4>4, SumOrder, Zenon
    <3>4. MaxCheck \in Nat /\ MaxCheck + MaxBeat \in Nat /\ 0 <= MaxCheck
          /\ 0 <= MaxCheck + MaxBeat
      BY <1>1
    <3>5. \A d \in Dom : Checking(d)' /\ Live
                         => ending' + busy' <= CheckTime(d)
      BY <1>1, <1>2, <2>2, <3>3, Zenon
    <3>6. at' = "beat" => ending' + busy' <= MaxCheck + MaxBeat
      BY <1>2, <2>1, <3>3, <3>4 DEF Live
    <3>7. QED
      BY <2>1, <3>1, <3>4, <3>5, <3>6, Zenon DEF Ending, Live
  <2>4. CASE ~running /\ at = "hung"
    BY <2>1, <2>4 DEF Ending, Live
  <2>5. CASE ~running /\ at # "hung"
    <3>1. at \in {"check", "beat"} /\ busy > 0
      BY <1>9, <2>5 DEF Tick, TakesTime
    <3>2. ending' + busy' = ending + busy
      BY <1>1, <1>9, <2>5, <3>1 DEF Tick, Less
    <3>3. QED
      BY <1>2, <2>1, <2>2, <2>5, <3>1, <3>2 DEF Ending, Live
  <2>6. QED
    BY <1>2, <2>3, <2>4, <2>5
<1>10. CASE Signal
  <2>1. UNCHANGED <<at, todo, busy, ending>> /\ running' = FALSE
    BY <1>10 DEF Signal
  <2>2. \A d : Checking(d)' <=> Checking(d)
    BY <2>1, SameTurn, Zenon
  <2>3. QED
    BY <1>2, <2>1, <2>2 DEF Ending, Live
<1>11. CASE Start
  BY <1>1, <1>11 DEF Start, Ending, Checking
<1>12. CASE (\E d \in Dom : CliCheck(d)) \/ UNCHANGED vars
  <2>1. UNCHANGED <<at, todo, busy, ending, running>>
    BY <1>12 DEF CliCheck, vars
  <2>2. \A d : Checking(d)' <=> Checking(d)
    BY <2>1, SameTurn, Zenon
  <2>3. QED
    BY <1>2, <2>1, <2>2 DEF Ending, Live
<1>13. QED
  BY <1>3, <1>4, <1>5, <1>6, <1>7, <1>8, <1>9, <1>10, <1>11, <1>12,
     EveryEnd, Zenon DEF Next, Loop, Check

-----------------------------------------------------------------------------
(* How late a poll can be.                                                 *)

\* The bounds while it is the turn of e, against those of the module.
LEMMA BoundsInRound ==
    ASSUME NEW T \in SUBSET Dom, NEW d \in Dom, NEW e \in Dom, First(T, e)
    PROVE  /\ Bound(T, d, e) \in Int
           /\ Bound(T, d, e) <= 0
           /\ d \in T => Bound(T, d, e) <= -Base
           /\ d \in T /\ d # e => -Slack(d) <= Bound(T, d, e) - MaxCheck
           /\ d = e => Bound(T, d, e) = -Slack(d)
           /\ d \notin T => -Rounds(Len(Domains) - 1)
                               <= Bound(T, d, e) - MaxCheck
           /\ -Base - Rounds(Len(Domains) - 1) <= Bound(T, d, e)
<1> DEFINE n == Len(Domains)
           i == Position(d)
           j == Position(e)
<1>1. n \in Nat \ {0} /\ i \in 1..n /\ j \in 1..n /\ (i = j => d = e)
  BY PositionType
<1>2. /\ MaxCheck \in Nat /\ Base \in Nat
      /\ Slack(d) = Base + Rounds(i - 1) /\ Rounds(n - 1) \in Nat
  BY Bounds, RoundsAdd
<1>3. e \in T /\ (d \in T => j <= i)
  BY DEF First
<1> HIDE DEF n, i, j
<1>4. Rounds(j - 1) \in Int /\ Rounds(i - 1) \in Int /\ Rounds(0) = 0
      /\ Rounds(0) <= Rounds(j - 1) /\ Rounds(j - 1) <= Rounds(n - 1)
  <2>1. j - 1 \in Int /\ i - 1 \in Int /\ n - 1 \in Int /\ 0 \in Int
        /\ 0 <= j - 1 /\ j - 1 <= n - 1
    BY <1>1
  <2>2. QED
    BY <2>1, RoundsAdd
<1>5. CASE d \in T
  <2>1. Bound(T, d, e) = -Base - Rounds(j - 1)
    BY <1>5 DEF Bound, j
  <2>2. d # e => Rounds(j - 1) + MaxCheck <= Rounds(i - 1)
    <3>1. SUFFICES ASSUME d # e
                   PROVE  Rounds(j - 1) + MaxCheck <= Rounds(i - 1)
      OBVIOUS
    <3>2. j - 1 \in Int /\ (j - 1) + 1 \in Int /\ i - 1 \in Int
          /\ (j - 1) + 1 <= i - 1
      BY <1>1, <1>3, <1>5, <3>1
    <3>3. Rounds((j - 1) + 1) = Rounds(j - 1) + MaxCheck
          /\ Rounds((j - 1) + 1) <= Rounds(i - 1)
      BY <3>2, RoundsAdd
    <3>4. QED
      BY <3>3
  <2>3. d = e => Rounds(i - 1) = Rounds(j - 1)
    BY DEF i, j
  <2>4. d = e => Bound(T, d, e) = -Slack(d)
    BY <1>2, <1>4, <2>1, <2>3
  <2>5. d # e => -Slack(d) <= Bound(T, d, e) - MaxCheck
    BY <1>2, <1>4, <2>1, <2>2
  <2>6. /\ Bound(T, d, e) \in Int /\ Bound(T, d, e) <= -Base
        /\ Bound(T, d, e) <= 0
        /\ -Base - Rounds(n - 1) <= Bound(T, d, e)
    BY <1>2, <1>4, <2>1
  <2>7. QED
    BY <1>5, <2>4, <2>5, <2>6 DEF n
<1>6. CASE d \notin T
  <2> DEFINE s == Seen(d, e)
  <2>1. s \in Int /\ 0 <= s /\ s + 1 \in Int /\ s + 1 <= n - 1 /\ n - 1 \in Int
        /\ 0 \in Int
    BY <1>1, <1>3, <1>6 DEF Seen, i, j
  <2>2. Bound(T, d, e) = -Rounds(s)
    BY <1>6 DEF Bound
  <2>3. d # e
    BY <1>3, <1>6
  <2> HIDE DEF s
  <2>4. Rounds(s) \in Int /\ Rounds(0) <= Rounds(s)
        /\ Rounds(s + 1) = Rounds(s) + MaxCheck
        /\ Rounds(s + 1) <= Rounds(n - 1)
    BY <2>1, RoundsAdd
  <2>5. QED
    BY <1>2, <1>4, <1>6, <2>2, <2>3, <2>4 DEF n
<1>7. QED
  BY <1>5, <1>6

\* The check of e is over and it is the turn of f: the bounds give way by a
\* check.
LEMMA NextTurn ==
    ASSUME NEW T \in SUBSET Dom, NEW d \in Dom, NEW e \in Dom, NEW f \in Dom,
           First(T, e), First(T \ {e}, f), d # e
    PROVE  Bound(T \ {e}, d, f) <= Bound(T, d, e) - MaxCheck
<1> DEFINE i == Position(d)
           j == Position(e)
           k == Position(f)
<1>1. /\ Len(Domains) \in Nat \ {0}
      /\ i \in 1..Len(Domains) /\ j \in 1..Len(Domains)
      /\ k \in 1..Len(Domains)
      /\ i # j /\ j # k /\ (i = k => d = f)
  <2>1. f # e
    BY DEF First
  <2>2. QED
    BY <2>1, PositionType
<1>2. j <= k
  BY DEF First
<1>3. MaxCheck \in Nat /\ Base \in Nat
  BY Bounds, RoundsAdd
<1>4. CASE d \in T
  <2>1. /\ Bound(T, d, e) = -Base - Rounds(j - 1)
        /\ Bound(T \ {e}, d, f) = -Base - Rounds(k - 1)
    BY <1>4 DEF Bound
  <2> HIDE DEF i, j, k
  <2>2. j - 1 \in Int /\ (j - 1) + 1 \in Int /\ k - 1 \in Int
        /\ (j - 1) + 1 <= k - 1
    BY <1>1, <1>2
  <2>3. /\ Rounds(j - 1) \in Int /\ Rounds(k - 1) \in Int
        /\ Rounds((j - 1) + 1) = Rounds(j - 1) + MaxCheck
        /\ Rounds((j - 1) + 1) <= Rounds(k - 1)
    BY <2>2, RoundsAdd
  <2>4. QED
    BY <1>3, <2>1, <2>3
<1>5. CASE d \notin T
  <2> DEFINE s == Seen(d, e)
             t == Seen(d, f)
  <2>1. s \in Int /\ s + 1 \in Int /\ t \in Int /\ s + 1 <= t
    <3>1. i # k
      BY <1>1, <1>5 DEF First
    <3>2. s = (IF i < j THEN j - 2 ELSE j - 1)
          /\ t = (IF i < k THEN k - 2 ELSE k - 1)
      BY DEF Seen
    <3> HIDE DEF i, j, k, s, t
    <3>3. QED
      BY <1>1, <1>2, <3>1, <3>2
  <2>2. Bound(T, d, e) = -Rounds(s) /\ Bound(T \ {e}, d, f) = -Rounds(t)
    BY <1>5 DEF Bound
  <2> HIDE DEF s, t
  <2>3. /\ Rounds(s) \in Int /\ Rounds(t) \in Int
        /\ Rounds(s + 1) = Rounds(s) + MaxCheck
        /\ Rounds(s + 1) <= Rounds(t)
    BY <2>1, RoundsAdd
  <2>4. QED
    BY <1>3, <2>2, <2>3
<1>6. QED
  BY <1>4, <1>5

\* The parts of a state the bounds speak of are numbers.
LEMMA LateNumbers ==
    ASSUME TypeOK
    PROVE  /\ \A d \in Dom : wait[d] \in Int
           /\ busy \in Nat /\ nap \in Nat /\ todo \in SUBSET Dom
           /\ Base \in Nat /\ MaxCheck \in Nat /\ MaxBeat \in Nat
           /\ Rounds(Len(Domains) - 1) \in Nat /\ MinNap \in Nat
           /\ Base = Rounds(Len(Domains) - 1) + MaxBeat + MinNap
<1>1. MaxSlack \in Nat /\ LongestWait \in Nat
  BY Numbers
<1>2. \A d \in Dom : wait[d] \in Int
  <2> HIDE DEF MaxSlack, LongestWait
  <2>1. QED
    BY <1>1 DEF TypeOK
<1>3. QED
  BY <1>2, Numbers, Bounds DEF TypeOK, Base

\* While it is running, no domain has waited for longer than the clamp of the
\* model allows: a tick is a tick for every domain.
LEMMA NotClamped ==
    ASSUME TypeOK, WorkBounded, LateInRound, LateAfterwards,
           running, Tick, at # "hung", NEW d \in Dom
    PROVE  wait'[d] = wait[d] - 1
<1> DEFINE n == Len(Domains)
<1>1. /\ wait[d] \in Int /\ busy \in Nat /\ nap \in Nat /\ Base \in Nat
      /\ MaxCheck \in Nat /\ MaxBeat \in Nat /\ Rounds(n - 1) \in Nat
      /\ MinNap \in Nat /\ Base = Rounds(n - 1) + MaxBeat + MinNap
      /\ MaxSlack = Base + Rounds(n - 1) + MaxCheck + MaxCheck
  BY LateNumbers, Bounds
<1>2. wait[d] - 1 >= -MaxSlack
  <2> HIDE DEF n
  <2>1. CASE at = "check"
    <3>1. PICK e \in Dom : Turn(e)
      BY <2>1, FirstTurn DEF WorkBounded
    <3>2. busy <= MaxCheck /\ busy > 0
      <4>1. Checking(e)
        BY <2>1, <3>1 DEF Checking
      <4>2. busy <= CheckTime(e) /\ CheckTime(e) \in Nat
            /\ CheckTime(e) <= MaxCheck
        BY <4>1, ThrottleType DEF WorkBounded
      <4>3. busy > 0
        BY <2>1 DEF Tick, TakesTime
      <4>4. QED
        BY <1>1, <4>2, <4>3
    <3>3. wait[d] >= Bound(todo, d, e) - (MaxCheck - busy)
      BY <2>1, <3>1 DEF LateInRound, Elapsed
    <3>4. First(todo, e) /\ todo \in SUBSET Dom
      BY <3>1, LateNumbers DEF First, Turn
    <3>5. Bound(todo, d, e) \in Int
          /\ -Base - Rounds(n - 1) <= Bound(todo, d, e)
      BY <3>4, BoundsInRound DEF n
    <3>6. QED
      BY <1>1, <3>2, <3>3, <3>5
  <2>2. CASE at = "beat"
    <3>1. busy > 0
      BY <2>2 DEF Tick, TakesTime
    <3>2. wait[d] >= -Rounds(n - 1) - (MaxBeat - busy)
      BY <2>2 DEF LateAfterwards, n
    <3>3. QED
      BY <1>1, <3>1, <3>2
  <2>3. CASE at = "nap"
    <3>1. nap > 0
      BY <2>3 DEF Tick, TakesTime
    <3>2. wait[d] >= nap - Base
      BY <2>3 DEF LateAfterwards
    <3>3. QED
      BY <1>1, <3>1, <3>2
  <2>4. QED
    BY <2>1, <2>2, <2>3 DEF Tick, TakesTime
<1>3. wait'[d] = Greatest(wait[d] - 1, -MaxSlack)
  BY DEF Tick
<1>4. QED
  <2> HIDE DEF MaxSlack
  <2>1. MaxSlack \in Int
    BY Numbers
  <2>2. Greatest(wait[d] - 1, -MaxSlack) = wait[d] - 1
    <3>1. ~(wait[d] - 1 < -MaxSlack)
      <4>1. wait[d] \in Int
        BY <1>1
      <4>2. wait[d] - 1 \in Int
        BY <4>1
      <4>3. MaxSlack <= MaxSlack
        BY <2>1
      <4>4. QED
        BY <1>2, <2>1, <4>2, <4>3, AboveBound, Zenon
    <3>2. QED
      BY <3>1, Zenon DEF Greatest
  <2>3. QED
    BY <1>3, <2>2, Zenon

\* Every step keeps the polls in time while a round lasts.
LEMMA LateRoundStep ==
    ASSUME TypeOK, ThrottleKept, WorkBounded, running => LateInRound,
           running => LateAfterwards, [Next]_vars, running'
    PROVE  LateInRound'
<1> USE LateNumbers
<1>1. CASE NewRound
  <2>1. SUFFICES ASSUME NEW d \in Dom, NEW e \in Dom, Turn(e)'
                 PROVE  wait'[d] >= Bound(todo', d, e) - Elapsed'
    BY DEF LateInRound
  <2>2. Elapsed' = 0 /\ wait' = wait /\ nap = 0 /\ running /\ at = "nap"
        /\ todo' = {x \in Dom : wait[x] <= 0}
    BY <1>1 DEF NewRound, Due, Elapsed
  <2>3. wait[d] >= -Base
    BY <2>2 DEF LateAfterwards
  <2>4. d \notin todo' => wait[d] > 0
    BY <2>2
  <2>5. First(todo', e) /\ todo' \in SUBSET Dom
    BY <2>1, <2>2 DEF First, Turn
  <2>6. /\ Bound(todo', d, e) \in Int
        /\ Bound(todo', d, e) <= 0
        /\ d \in todo' => Bound(todo', d, e) <= -Base
    BY <2>5, BoundsInRound
  <2>7. wait[d] >= Bound(todo', d, e)
    BY <2>3, <2>4, <2>6
  <2>8. QED
    BY <2>2, <2>6, <2>7
<1>2. ASSUME NEW c \in Dom, BeginCheck(c)
      PROVE  LateInRound'
  <2>1. SUFFICES ASSUME NEW d \in Dom, NEW e \in Dom, Turn(e)'
                 PROVE  wait'[d] >= Bound(todo', d, e) - Elapsed'
    BY DEF LateInRound
  <2>2. at' = "check" /\ wait' = wait /\ todo' = todo /\ at = "round" /\ running
    BY <1>2 DEF BeginCheck, GoesOn
  <2>3. Turn(e) /\ Elapsed = 0
    BY <2>1, <2>2, SameTurn DEF Elapsed
  <2>4. wait[d] >= Bound(todo, d, e) - 0
    BY <2>2, <2>3 DEF LateInRound
  <2>5. Bound(todo, d, e) \in Int
    BY <2>3, BoundsInRound DEF First, Turn
  <2>6. PICK x \in Nat : Elapsed' = x
    <3>1. WorkBounded'
      BY <1>2, WorkStep DEF Next, Loop, Check
    <3>2. busy' <= CheckTime(e)
      BY <2>1, <2>2, <3>1 DEF WorkBounded, Checking
    <3>3. busy' \in Nat
      <4>1. Throttle(c) \in Nat /\ MaxWork \in Nat
        BY ThrottleType
      <4>2. QED
        BY <1>2, <4>1 DEF BeginCheck
    <3>4. Elapsed' = MaxCheck - busy'
      BY <2>2 DEF Elapsed
    <3>5. CheckTime(e) \in Nat /\ CheckTime(e) <= MaxCheck
      BY ThrottleType
    <3>6. QED
      BY <3>2, <3>3, <3>4, <3>5
  <2>7. wait[d] >= Bound(todo, d, e) - x
    BY <2>4, <2>5
  <2>8. QED
    BY <2>2, <2>6, <2>7
<1>3. ASSUME NEW c \in Dom, Ends(c)
      PROVE  LateInRound'
  <2>1. SUFFICES ASSUME NEW d \in Dom, NEW e \in Dom, Turn(e)'
                 PROVE  wait'[d] >= Bound(todo', d, e) - Elapsed'
    BY DEF LateInRound
  <2>2. /\ at' = "round" /\ todo' = todo \ {c} /\ at = "check" /\ Turn(c)
        /\ busy = 0 /\ running
    BY <1>3 DEF Ends, Checking
  <2>3. PICK w \in 0..LongestWait : wait' = [wait EXCEPT ![c] = w]
    BY <1>3 DEF Ends
  <2>4. First(todo, c) /\ First(todo \ {c}, e) /\ Elapsed' = 0
    BY <2>1, <2>2 DEF First, Turn, Elapsed
  <2>5. Bound(todo \ {c}, d, e) \in Int /\ Bound(todo \ {c}, d, e) <= 0
    BY <2>4, BoundsInRound
  <2>6. wait'[d] >= Bound(todo \ {c}, d, e)
    <3>1. CASE d = c
      <4>1. wait'[d] = w /\ w >= 0 /\ w \in Int
        BY <2>3, <3>1, Numbers DEF TypeOK
      <4>2. QED
        BY <2>5, <4>1
    <3>2. CASE d # c
      <4>1. wait'[d] = wait[d]
        BY <2>3, <3>2 DEF TypeOK
      <4>2. wait[d] >= Bound(todo, d, c) - MaxCheck
        BY <2>2 DEF LateInRound, Elapsed
      <4>3. Bound(todo \ {c}, d, e) <= Bound(todo, d, c) - MaxCheck
        BY <2>4, <3>2, NextTurn
      <4>4. Bound(todo, d, c) \in Int
        BY <2>4, BoundsInRound
      <4>5. QED
        BY <2>5, <4>1, <4>2, <4>3, <4>4
    <3>3. QED
      BY <3>1, <3>2
  <2>7. QED
    BY <2>2, <2>4, <2>5, <2>6
<1>4. CASE Tick
  <2>1. SUFFICES ASSUME NEW d \in Dom, NEW e \in Dom, Turn(e)', at' = "check"
                 PROVE  wait'[d] >= Bound(todo', d, e) - Elapsed'
    BY <1>4 DEF LateInRound, Tick, TakesTime
  <2>2. at = "check" /\ todo' = todo /\ running /\ busy > 0
        /\ busy' = busy - 1
    BY <1>4, <2>1 DEF Tick, TakesTime, Less
  <2>3. Turn(e) /\ Elapsed = MaxCheck - busy /\ Elapsed' = MaxCheck - (busy - 1)
    BY <2>1, <2>2, SameTurn DEF Elapsed
  <2>4. wait[d] >= Bound(todo, d, e) - (MaxCheck - busy)
    BY <2>2, <2>3 DEF LateInRound
  <2>5. Bound(todo, d, e) \in Int
    BY <2>3, BoundsInRound DEF First, Turn
  <2>6. wait'[d] = wait[d] - 1
    BY <1>4, <2>2, NotClamped
  <2>7. wait[d] - 1 >= Bound(todo, d, e) - (MaxCheck - (busy - 1))
    BY <2>4, <2>5
  <2>8. QED
    BY <2>2, <2>3, <2>6, <2>7
<1>5. CASE EndRound \/ EndBeat \/ Shutdown \/ Hang \/ Crash \/ Start
  BY <1>5 DEF EndRound, EndBeat, Shutdown, Hang, Crash, Start, LateInRound
<1>6. CASE Signal
  BY <1>6 DEF Signal
<1>7. CASE (\E d \in Dom : CliCheck(d)) \/ UNCHANGED vars
  <2>1. UNCHANGED <<at, todo, busy, wait, running>>
    BY <1>7 DEF CliCheck, vars
  <2>2. \A d : Turn(d)' <=> Turn(d)
    BY <2>1, SameTurn, Zenon
  <2>3. Elapsed' = Elapsed
    BY <2>1 DEF Elapsed
  <2>4. QED
    BY <2>1, <2>2, <2>3 DEF LateInRound
<1>8. QED
  BY <1>1, <1>2, <1>3, <1>4, <1>5, <1>6, <1>7, EveryEnd, Zenon
     DEF Next, Loop, Check

\* Every step keeps the polls in time between the rounds.
LEMMA LateAfterwardsStep ==
    ASSUME TypeOK, ThrottleKept, WorkBounded, running => LateInRound,
           running => LateAfterwards, [Next]_vars, running'
    PROVE  LateAfterwards'
<1> DEFINE n == Len(Domains)
<1> USE LateNumbers
<1>1. CASE NewRound
  <2>1. at' = "round" /\ wait' = wait /\ todo' = {x \in Dom : wait[x] <= 0}
    BY <1>1 DEF NewRound, Due
  <2>2. ASSUME todo' = {}, NEW d \in Dom
        PROVE  wait[d] >= -Rounds(n - 1)
    <3>1. wait[d] > 0
      BY <2>1, <2>2
    <3>2. QED
      BY <3>1
  <2>3. QED
    BY <2>1, <2>2 DEF LateAfterwards
<1>2. ASSUME NEW c \in Dom, BeginCheck(c)
      PROVE  LateAfterwards'
  BY <1>2 DEF BeginCheck, LateAfterwards
<1>3. ASSUME NEW c \in Dom, Ends(c)
      PROVE  LateAfterwards'
  <2>1. /\ at' = "round" /\ todo' = todo \ {c} /\ at = "check" /\ Turn(c)
        /\ busy = 0 /\ running
    BY <1>3 DEF Ends, Checking
  <2>2. PICK w \in 0..LongestWait : wait' = [wait EXCEPT ![c] = w]
    BY <1>3 DEF Ends
  <2>3. ASSUME todo' = {}, NEW d \in Dom
        PROVE  wait'[d] >= -Rounds(n - 1)
    <3>1. CASE d = c
      <4>1. wait'[d] = w /\ w >= 0 /\ w \in Int
        BY <2>2, <3>1, Numbers DEF TypeOK
      <4>2. QED
        BY <4>1
    <3>2. CASE d # c
      <4>1. wait'[d] = wait[d]
        BY <2>2, <3>2 DEF TypeOK
      <4>2. wait[d] >= Bound(todo, d, c) - MaxCheck
        BY <2>1 DEF LateInRound, Elapsed
      <4>3. First(todo, c)
        BY <2>1 DEF First, Turn
      <4>4. d \notin todo
        BY <2>1, <2>3, <3>2
      <4>5. Bound(todo, d, c) \in Int
            /\ -Rounds(n - 1) <= Bound(todo, d, c) - MaxCheck
        BY <4>3, <4>4, BoundsInRound
      <4>6. QED
        BY <4>1, <4>2, <4>5
    <3>3. QED
      BY <3>1, <3>2
  <2>4. QED
    BY <2>1, <2>3 DEF LateAfterwards
<1>4. CASE EndRound
  <2>1. /\ at' = "beat" /\ wait' = wait /\ busy' \in 0..MaxBeat /\ running
        /\ at = "round"
    BY <1>4 DEF EndRound
  <2>2. todo = {}
    BY <1>4, <2>1 DEF EndRound, GoesOn
  <2>3. ASSUME NEW d \in Dom
        PROVE  wait'[d] >= -Rounds(n - 1) - (MaxBeat - busy')
    <3>1. wait[d] >= -Rounds(n - 1)
      BY <2>1, <2>2 DEF LateAfterwards
    <3>2. PICK x \in 0..MaxBeat : busy' = x
      BY <2>1
    <3>3. wait[d] >= -Rounds(n - 1) - (MaxBeat - x)
      BY <3>1
    <3>4. QED
      BY <2>1, <3>2, <3>3
  <2>4. QED
    BY <2>1, <2>3 DEF LateAfterwards
<1>5. CASE EndBeat
  <2>1. at' = "nap" /\ wait' = wait /\ at = "beat" /\ busy = 0 /\ running
    BY <1>5 DEF EndBeat
  <2>2. PICK c \in Dom :
          /\ \A d \in Dom : wait[c] <= wait[d]
          /\ nap' \in {NapLength(wait[c]),
                       Greatest(MinNap, NapLength(wait[c]) - 1)}
    BY <1>5 DEF EndBeat
  <2>3. PICK x \in Int : nap' = x /\ (x <= MinNap \/ x <= wait[c])
    <3>1. MinNap \in Nat /\ MaxNap \in Nat /\ wait[c] \in Int
      BY Numbers
    <3>2. ASSUME NEW y \in MinNap..MaxNap, nap' = y, y <= MinNap \/ y <= wait[c]
          PROVE  \E x \in Int : nap' = x /\ (x <= MinNap \/ x <= wait[c])
      <4>1. y \in Int
        BY <3>1
      <4>2. QED
        BY <3>2, <4>1, Zenon
    <3>3. CASE nap' = NapLength(wait[c])
      BY <3>1, <3>2, <3>3, NapType, Zenon
    <3>4. CASE nap' = Greatest(MinNap, NapLength(wait[c]) - 1)
      BY <3>1, <3>2, <3>4, NapType, Zenon
    <3>5. QED
      BY <2>2, <3>3, <3>4, Zenon
  <2>4. ASSUME NEW d \in Dom
        PROVE  wait'[d] >= nap' - Base
    <3>1. wait[d] >= -Rounds(n - 1) - (MaxBeat - 0)
      BY <2>1 DEF LateAfterwards
    <3>2. wait[c] <= wait[d] /\ wait[c] \in Int /\ wait[d] \in Int
      BY <2>2
    <3>3. wait[d] >= x - Base
      BY <2>3, <3>1, <3>2
    <3>4. QED
      BY <2>1, <2>3, <3>3
  <2>5. QED
    BY <2>1, <2>4 DEF LateAfterwards
<1>6. CASE Tick
  <2>1. at' = at /\ todo' = todo /\ running /\ at # "round"
    BY <1>6 DEF Tick, TakesTime
  <2>2. ASSUME at = "beat", NEW d \in Dom
        PROVE  wait'[d] >= -Rounds(n - 1) - (MaxBeat - busy')
    <3>1. busy > 0 /\ busy' = busy - 1
      BY <1>6, <2>2 DEF Tick, TakesTime, Less
    <3>2. wait[d] >= -Rounds(n - 1) - (MaxBeat - busy)
      BY <2>1, <2>2 DEF LateAfterwards
    <3>3. wait'[d] = wait[d] - 1
      BY <1>6, <2>1, <2>2, NotClamped
    <3>4. wait[d] - 1 >= -Rounds(n - 1) - (MaxBeat - (busy - 1))
      BY <3>2
    <3>5. QED
      BY <3>1, <3>3, <3>4
  <2>3. ASSUME at = "nap", NEW d \in Dom
        PROVE  wait'[d] >= nap' - Base
    <3>1. nap > 0 /\ nap' = nap - 1
      BY <1>6, <2>3 DEF Tick, TakesTime, Less
    <3>2. wait[d] >= nap - Base
      BY <2>1, <2>3 DEF LateAfterwards
    <3>3. wait'[d] = wait[d] - 1
      BY <1>6, <2>1, <2>3, NotClamped
    <3>4. wait[d] - 1 >= (nap - 1) - Base
      BY <3>2
    <3>5. QED
      BY <3>1, <3>3, <3>4
  <2>4. QED
    BY <2>1, <2>2, <2>3 DEF LateAfterwards
<1>7. CASE Shutdown \/ Hang \/ Crash
  BY <1>7 DEF Shutdown, Hang, Crash, LateAfterwards
<1>8. CASE Start
  <2>1. at' = "nap" /\ nap' = nap /\ at = "stopped"
        /\ wait' = [d \in Dom |-> 0]
    BY <1>8 DEF Start
  <2>2. nap = 0
    BY <2>1 DEF WorkBounded
  <2>3. ASSUME NEW d \in Dom
        PROVE  wait'[d] >= nap' - Base
    <3>1. 0 >= 0 - Base
      OBVIOUS
    <3>2. QED
      BY <2>1, <2>2, <3>1
  <2>4. QED
    BY <2>1, <2>3 DEF LateAfterwards
<1>9. CASE Signal
  BY <1>9 DEF Signal
<1>10. CASE (\E d \in Dom : CliCheck(d)) \/ UNCHANGED vars
  <2>1. UNCHANGED <<at, todo, busy, nap, wait, running>>
    BY <1>10 DEF CliCheck, vars
  <2>2. QED
    BY <2>1 DEF LateAfterwards
<1>11. QED
  BY <1>1, <1>2, <1>3, <1>4, <1>5, <1>6, <1>7, <1>8, <1>9, <1>10,
     EveryEnd, Zenon DEF Next, Loop, Check

\* How late any domain can be while the loop runs: a check beyond Slack at
\* most, and that only in its own check.
LEMMA LatePunctual ==
    ASSUME TypeOK, WorkBounded, LateInRound, LateAfterwards, Live,
           NEW d \in Dom
    PROVE  /\ wait[d] >= -Base - Rounds(Len(Domains) - 1) - MaxCheck
           /\ wait[d] < -Slack(d) => Checking(d)
<1> DEFINE n == Len(Domains)
<1>1. /\ wait[d] \in Int /\ busy \in Nat /\ nap \in Nat /\ Base \in Nat
      /\ MaxCheck \in Nat /\ MaxBeat \in Nat /\ Rounds(n - 1) \in Nat
      /\ MinNap \in Nat /\ Base = Rounds(n - 1) + MaxBeat + MinNap
  BY LateNumbers
<1>2. Slack(d) \in Int /\ Base <= Slack(d)
  <2>1. Slack(d) = Base + Rounds(Position(d) - 1)
    BY Bounds
  <2>2. Position(d) - 1 \in Int /\ 0 \in Int /\ 0 <= Position(d) - 1
    BY PositionType
  <2>3. Rounds(Position(d) - 1) \in Int /\ Rounds(0) = 0
        /\ Rounds(0) <= Rounds(Position(d) - 1)
    BY <2>2, RoundsAdd
  <2>4. QED
    BY <1>1, <2>1, <2>3
<1>3. CASE at \in {"round", "check"} /\ todo # {}
  <2>1. PICK e \in Dom : Turn(e)
    BY <1>3, FirstTurn
  <2>2. First(todo, e) /\ todo \in SUBSET Dom
    BY <2>1, LateNumbers DEF First, Turn
  <2>3. wait[d] >= Bound(todo, d, e) - Elapsed
    BY <1>3, <2>1 DEF LateInRound
  <2>4. /\ Bound(todo, d, e) \in Int
        /\ d \in todo /\ d # e => -Slack(d) <= Bound(todo, d, e) - MaxCheck
        /\ d = e => Bound(todo, d, e) = -Slack(d)
        /\ d \notin todo => -Rounds(n - 1) <= Bound(todo, d, e) - MaxCheck
        /\ -Base - Rounds(n - 1) <= Bound(todo, d, e)
    BY <2>2, BoundsInRound
  <2>5. Elapsed \in Int /\ Elapsed <= MaxCheck /\ (at = "round" => Elapsed = 0)
    BY <1>1 DEF Elapsed
  <2>6. d = e /\ at = "check" => Checking(d)
    BY <2>1 DEF Checking
  <2> HIDE DEF n
  <2>7. wait[d] >= -Base - Rounds(n - 1) - MaxCheck
    BY <1>1, <2>3, <2>4, <2>5
  <2>8. d # e => wait[d] >= -Slack(d)
    BY <1>1, <1>2, <2>3, <2>4, <2>5
  <2>9. d = e /\ at = "round" => wait[d] >= -Slack(d)
    BY <1>1, <1>2, <2>3, <2>4, <2>5
  <2>10. wait[d] >= -Slack(d) => ~(wait[d] < -Slack(d))
    BY <1>1, <1>2
  <2>11. QED
    BY <1>3, <2>6, <2>7, <2>8, <2>9, <2>10 DEF n
<1>4. ASSUME wait[d] >= -Base
      PROVE  /\ wait[d] >= -Base - Rounds(n - 1) - MaxCheck
             /\ wait[d] < -Slack(d) => Checking(d)
  <2>1. ~(wait[d] < -Slack(d))
    <3>1. Base \in Int /\ wait[d] \in Int
      BY <1>1
    <3>2. QED
      BY <1>2, <1>4, <3>1, AboveBound, Zenon
  <2>2. wait[d] >= -Base - Rounds(n - 1) - MaxCheck
    BY <1>1, <1>4
  <2>3. QED
    BY <2>1, <2>2, Zenon
<1>5. CASE at = "round" /\ todo = {}
  <2>1. wait[d] >= -Rounds(n - 1)
    BY <1>5 DEF LateAfterwards
  <2> HIDE DEF n
  <2>2. wait[d] >= -Base
    BY <1>1, <2>1
  <2>3. QED
    BY <1>4, <2>2, Zenon DEF n
<1>6. CASE at = "beat"
  <2>1. wait[d] >= -Rounds(n - 1) - (MaxBeat - busy)
    BY <1>6 DEF LateAfterwards
  <2>2. wait[d] >= -Base
    BY <1>1, <2>1
  <2>3. QED
    BY <1>4, <2>2, Zenon
<1>7. CASE at = "nap"
  <2>1. wait[d] >= nap - Base
    BY <1>7 DEF LateAfterwards
  <2>2. wait[d] >= -Base
    BY <1>1, <2>1
  <2>3. QED
    BY <1>4, <2>2, Zenon
<1>8. at \in {"round", "check", "beat", "nap"}
  BY DEF Live, TypeOK
<1>9. QED
  BY <1>3, <1>5, <1>6, <1>7, <1>8 DEF WorkBounded

-----------------------------------------------------------------------------
(* How old the database can be.                                            *)

\* Every step keeps the newest row within an interval of some domain's poll.
LEMMA RecentStep ==
    ASSUME IInv, [Next]_vars, Live', running', ~unseen'
    PROVE  Recent'
<1>1. /\ TypeOK /\ ThrottleKept /\ WorkBounded
      /\ running => LateInRound
      /\ running => LateAfterwards
      /\ Live /\ running /\ ~unseen => Recent
  BY DEF IInv
<1>2. /\ age \in Int /\ LongestWait \in Nat
      /\ \A d \in Dom : wait[d] \in Int /\ wait[d] <= LongestWait
  <2> HIDE DEF MaxSlack, LongestWait, StaleAfter
  <2>1. MaxSlack \in Nat /\ LongestWait \in Nat /\ StaleAfter \in Nat
    BY Numbers
  <2>2. QED
    BY <1>1, <2>1 DEF TypeOK, NoRows
<1> HIDE DEF IInv, LongestWait
<1>3. ASSUME NEW d \in Dom, Ends(d)
      PROVE  Recent'
  <2>1. age' = 0
    BY <1>3, Zenon DEF Ends
  <2>2. PICK w \in 0..LongestWait : wait' = [wait EXCEPT ![d] = w]
    BY <1>3 DEF Ends
  <2>3. wait'[d] = w
    BY <1>1, <2>2 DEF TypeOK
  <2>4. 0 + w <= LongestWait
    BY <1>2
  <2>5. QED
    BY <2>1, <2>3, <2>4 DEF Recent
<1>4. CASE Tick
  <2>1. running /\ Live /\ ~unseen /\ at # "hung"
    BY <1>4 DEF Tick, Live
  <2>2. PICK d \in Dom : age + wait[d] <= LongestWait
    BY <1>1, <2>1 DEF Recent
  <2>3. wait'[d] = wait[d] - 1
    BY <1>1, <1>4, <2>1, NotClamped
  <2>4. PICK a \in Int : age' = a /\ a <= age + 1
    <3>1. StaleAfter \in Nat
      BY Numbers
    <3> HIDE DEF StaleAfter
    <3>2. QED
      BY <1>2, <1>4, <3>1 DEF Tick, Least
  <2>5. a + (wait[d] - 1) <= LongestWait
    BY <1>2, <2>2, <2>4
  <2>6. QED
    BY <2>3, <2>4, <2>5 DEF Recent
<1>5. ASSUME NEW c \in Dom, CliCheck(c)
      PROVE  Recent'
  <2>1. age' = 0 /\ wait' = wait
    BY <1>5 DEF CliCheck, Written
  <2>2. 0 + wait[c] <= LongestWait
    BY <1>2
  <2>3. QED
    BY <2>1, <2>2 DEF Recent
<1>6. ASSUME UNCHANGED <<age, wait, running, unseen>>, Live
      PROVE  Recent'
  <2>1. Recent
    BY <1>1, <1>6
  <2>2. QED
    BY <1>6, <2>1 DEF Recent
<1>7. CASE NewRound \/ EndRound \/ EndBeat
  BY <1>6, <1>7 DEF NewRound, EndRound, EndBeat, Live
<1>8. ASSUME NEW d \in Dom, BeginCheck(d)
      PROVE  Recent'
  BY <1>6, <1>8 DEF BeginCheck, Live
<1>9. CASE Shutdown \/ Hang \/ Crash
  BY <1>9 DEF Shutdown, Hang, Crash, Live
<1>10. CASE Start \/ Signal
  BY <1>10 DEF Start, Signal
<1>11. CASE UNCHANGED vars
  BY <1>6, <1>11 DEF vars, Live
<1>12. QED
  BY <1>1, <1>3, <1>4, <1>5, <1>7, <1>8, <1>9, <1>10, <1>11, EveryEnd, Zenon
     DEF Next, Loop, Check

-----------------------------------------------------------------------------
(* The theorems.                                                           *)

\* Each step keeps the invariant.
LEMMA NextHolds == IInv /\ [Next]_vars => IInv'
<1> SUFFICES ASSUME IInv, [Next]_vars
             PROVE  IInv'
  OBVIOUS
<1>1. /\ TypeOK /\ ThrottleKept /\ WorkBounded /\ Ending
      /\ running => LateInRound
      /\ running => LateAfterwards
  BY Zenon DEF IInv
<1>2. TypeOK' /\ ThrottleKept' /\ WorkBounded' /\ Ending'
  BY <1>1, TypeStep, ThrottleStep, WorkStep, EndingStep, Zenon
<1>3. (running => LateInRound)' /\ (running => LateAfterwards)'
  BY <1>1, LateRoundStep, LateAfterwardsStep, Zenon
<1>4. (Live /\ running /\ ~unseen => Recent)'
  BY RecentStep, Zenon
<1>5. QED
  BY <1>2, <1>3, <1>4, Zenon DEF IInv

\* What the loop, its clock and its history keep to at every moment.
THEOREM Invariance == Spec => []IInv
<1>1. QED
  BY InitHolds, NextHolds, PTL DEF Spec

\* Every reachable state of the loop is well typed: no domain is put off for
\* longer than the longest interval and the jitter (main's schedule).
THEOREM TypeCorrect == Spec => []TypeOK
<1>1. IInv => TypeOK
  BY DEF IInv
<1>2. QED
  BY <1>1, Invariance, PTL

\* main ends within one check and one heartbeat of a signal, and begins no
\* check after it.
THEOREM SignalsAreAnswered == Spec => []StopsSoon
<1>1. IInv => StopsSoon
  <2> SUFFICES ASSUME IInv, ~running, at \notin {"hung", "stopped"}
               PROVE  /\ ending <= MaxCheck + MaxBeat
                      /\ \A d \in Dom :
                            Checking(d) => ending + busy <= CheckTime(d)
    BY DEF StopsSoon
  <2>1. TypeOK /\ WorkBounded /\ Ending /\ Live
    BY DEF IInv, Live
  <2>2. /\ busy \in Nat /\ ending \in Nat /\ MaxCheck \in Nat /\ MaxBeat \in Nat
        /\ \A d \in Dom : CheckTime(d) \in Nat /\ CheckTime(d) <= MaxCheck
    BY <2>1, Numbers, ThrottleType DEF TypeOK
  <2>3. CASE at = "check"
    <3>1. PICK d \in Dom : Checking(d)
      BY <2>1, <2>3, FirstTurn DEF WorkBounded, Checking
    <3>2. QED
      BY <2>1, <2>2, <3>1 DEF Ending
  <2>4. CASE at # "check"
    BY <2>1, <2>2, <2>4 DEF Ending, TypeOK, Live, Checking
  <2>5. QED
    BY <2>3, <2>4
<1>2. QED
  BY <1>1, Invariance, PTL

\* One thread polls every domain in time: a domain that is due waits for the
\* others' checks, the heartbeat and a shortest sleep, never longer.
THEOREM PollsAreInTime == Spec => []Punctual
<1>1. IInv => Punctual
  BY LatePunctual DEF IInv, Punctual, Live
<1>2. QED
  BY <1>1, Invariance, PTL

\* The health probe calls no working loop unhealthy when the intervals fit its
\* window.
THEOREM WorkingLoopsAreHealthy == Spec => []NoFalseAlarm
<1>1. IInv => NoFalseAlarm
  <2> SUFFICES ASSUME IInv, LongestGap <= StaleAfter,
                      at \notin {"hung", "stopped"}, running, ~unseen
               PROVE  age <= StaleAfter
    BY DEF NoFalseAlarm, Healthy
  <2>1. /\ TypeOK /\ WorkBounded /\ LateInRound /\ LateAfterwards /\ Live
        /\ Recent
    BY DEF IInv, Live
  <2>2. PICK d \in Dom : age + wait[d] <= LongestWait
    BY <2>1 DEF Recent
  <2>3. wait[d] >= -Base - Rounds(Len(Domains) - 1) - MaxCheck
    BY <2>1, LatePunctual
  <2>4. /\ wait[d] \in Int /\ Base \in Nat /\ MaxCheck \in Nat
        /\ Rounds(Len(Domains) - 1) \in Nat
    BY <2>1, LateNumbers
  <2>5. /\ LongestGap = LongestWait + Base + Rounds(Len(Domains) - 1) + MaxCheck
        /\ LongestWait \in Nat /\ StaleAfter \in Nat
    BY Bounds, Numbers
  <2>6. age \in Int
    BY <2>1, <2>5 DEF TypeOK, NoRows
  <2> HIDE DEF LongestGap, LongestWait, StaleAfter, MaxCheck, Base
  <2>7. QED
    BY <2>2, <2>3, <2>4, <2>5, <2>6
<1>2. QED
  BY <1>1, Invariance, PTL
=============================================================================
