---------------------------- MODULE WatchProofs ----------------------------
(***************************************************************************)
(* The invariants of Watch, for any domains, CLI processes and answers of  *)
(* the registry.  AvailableAlerted alone is not inductive: it does not say *)
(* what a check in progress knows of the row it read before its lookup,    *)
(* nor what a muted key stands for.  IInv adds both.                       *)
(***************************************************************************)
EXTENDS Watch, TLAPS

Free(d) == row[d].state = "AVAILABLE"

\* What was said of d's availability, or is known to have gone unsaid.
Settled(d) == alerted[d] \/ excused[d]

\* The running check has saved that d is free and still has to say so.
Announcing(d) ==
    mon.dom = d /\ AnnouncesFree /\ mon.at \in {"event", "dedupe", "send"}

\* A check in progress is about a domain, and has failed only if it goes on to
\* the alert for errors; it saves the event of a change only.
Underway ==
    /\ mon.at # "idle" => mon.dom \in Domains
    /\ mon.failed => mon.at \in {"error", "dedupe", "send"}
    /\ mon.at = "error" => mon.failed
    /\ mon.at = "event" => mon.old # mon.seen
    /\ \A c \in Checkers : cli[c].at = "save" => cli[c].dom \in Domains

\* AvailableAlerted, with the alert it counts on being the one for d.
RowSettled(d) == Free(d) => Settled(d) \/ Announcing(d)

\* The check that began on a free domain would not announce it again: its row
\* is still as it was and was alerted, or somebody has changed it meanwhile.
ReadSettled(d) ==
    mon.at \in {"lookup", "save"} /\ mon.dom = d /\ mon.old = "AVAILABLE"
        => excused[d] \/ (alerted[d] /\ Free(d))

\* A key that is muted stands for an alert that went out, failed, or is the one
\* going out.
MutedSettled(d) ==
    <<"AVAILABLE", d>> \in muted
        => Settled(d) \/ (Announcing(d) /\ mon.at = "send")

IInv ==
    /\ TypeOK
    /\ Underway
    /\ \A d \in Domains : RowSettled(d) /\ ReadSettled(d) /\ MutedSettled(d)

-----------------------------------------------------------------------------
(* What the operators of the model return.                                 *)

\* The states, written out: the provers do not compute the DOMAIN of Rank.
LEMMA StatesAre ==
    States = {"UNKNOWN", "ACTIVE", "EXPIRING", "EXPIRED_GRACE", "REDEMPTION",
              "PENDING_DELETE", "AVAILABLE"}
BY DEF States, Rank

\* classify answers with a state of the lifecycle, whatever the lookup said.
LEMMA ClassifyIsState ==
    ASSUME NEW r \in LookupResult
    PROVE  Classify(r) \in States
BY StatesAre DEF Classify, LookupResult

\* A change to AVAILABLE is always worth an alert.
LEMMA FreeIsAlertable ==
    ASSUME NEW old \in States, old # "AVAILABLE"
    PROVE  Alertable(old, "AVAILABLE")
BY DEF Alertable, CriticalStates

LEMMA IdleIsCheck == Idle \in Check /\ Idle.at = "idle" /\ ~Idle.failed
BY StatesAre DEF Idle, Check, Stages

\* Goto moves the running check to another stage and changes nothing else of it.
LEMMA GotoEffect ==
    ASSUME mon \in Check, NEW stage \in Stages, Goto(stage)
    PROVE  /\ mon' \in Check
           /\ mon' = [mon EXCEPT !.at = stage]
           /\ mon'.at = stage
           /\ mon'.dom = mon.dom /\ mon'.old = mon.old
           /\ mon'.seen = mon.seen /\ mon'.failed = mon.failed
BY DEF Goto, Check

\* Finish ends the check, or goes on to the purchase of a domain seen free.
LEMMA FinishEffect ==
    ASSUME mon \in Check, Finish
    PROVE  /\ mon' \in Check
           /\ \/ mon' = Idle
              \/ /\ mon'.at = "acquire" /\ ~mon.failed
                 /\ mon'.dom = mon.dom /\ mon'.failed = mon.failed
<1>1. CASE ~mon.failed /\ WantsPurchase
    BY <1>1, GotoEffect DEF Finish, Stages
<1>2. CASE ~(~mon.failed /\ WantsPurchase)
    BY <1>2, IdleIsCheck DEF Finish
<1> QED
    BY <1>1, <1>2

-----------------------------------------------------------------------------
(* One lemma per action of the monitor: it keeps the invariant.            *)

\* A step that changes nothing but the running check keeps the invariant when
\* the check is well formed after it and what was to be said is still said.
LEMMA CheckMoves ==
    ASSUME IInv, UNCHANGED <<truth, row, cli, muted, alerted, excused>>,
           up' \in BOOLEAN, dbOk' \in BOOLEAN,
           mon' \in Check, Underway',
           \A d \in Domains : Announcing(d) => Settled(d) \/ Announcing(d)',
           \A d \in Domains : mon.at = "send" /\ Announcing(d)
                                  => Settled(d) \/ mon'.at = "send",
           \A d \in Domains : ReadSettled(d)'
    PROVE  IInv'
<1>1. TypeOK'
    BY DEF IInv, TypeOK
<1>2. ASSUME NEW d \in Domains PROVE RowSettled(d)' /\ MutedSettled(d)'
    BY <1>2 DEF IInv, RowSettled, MutedSettled, Settled, Free
<1> QED
    BY <1>1, <1>2 DEF IInv

\* A check begins: what its row says was settled before.
LEMMA BeginStep ==
    ASSUME IInv, NEW d \in Domains, Begin(d)
    PROVE  IInv'
<1>1. mon.at = "idle" /\ mon' \in Check /\ mon'.at = "lookup" /\ mon'.dom = d
      /\ ~mon'.failed
      /\ (mon'.old = "AVAILABLE" => Free(d))
    <2>1. row[d].state \in States \cup {NoState}
        BY DEF IInv, TypeOK, Row
    <2> QED
        BY <2>1, StatesAre DEF Begin, Idle, Check, Stages, NoState, Free
<1>2. Underway'
    BY <1>1 DEF IInv, Underway, Begin
<1>3. ASSUME NEW e \in Domains PROVE ReadSettled(e)'
    BY <1>1 DEF IInv, RowSettled, Settled, Announcing, ReadSettled, Free, Begin, history
<1> QED
    BY <1>1, <1>2, <1>3, CheckMoves DEF Begin, history, Announcing, IInv, TypeOK

\* The answer arrives: the check remembers what it read before.
LEMMA LookupAnswersStep ==
    ASSUME IInv, NEW d \in Domains, LookupAnswers(d)
    PROVE  IInv'
<1>1. /\ mon.at = "lookup" /\ mon' \in Check /\ mon'.at = "save"
      /\ mon'.dom = mon.dom /\ mon'.old = mon.old /\ mon'.failed = mon.failed
    <2>1. truth[d] \in LookupResult
        BY ResultsAssumption DEF IInv, TypeOK
    <2>2. Classify(truth[d]) \in States
        BY <2>1, ClassifyIsState
    <2> QED
        BY <2>2 DEF LookupAnswers, IInv, TypeOK, Check, Stages
<1>2. Underway'
    BY <1>1 DEF IInv, Underway, LookupAnswers
<1>3. ASSUME NEW e \in Domains PROVE ReadSettled(e)'
    BY <1>1 DEF IInv, ReadSettled, Free, LookupAnswers, history
<1> QED
    BY <1>1, <1>2, <1>3, CheckMoves DEF LookupAnswers, history, Announcing, IInv, TypeOK

\* The lookup fails: the check goes on to the row's errors.
LEMMA LookupFailsStep ==
    ASSUME IInv, NEW d \in Domains, LookupFails(d)
    PROVE  IInv'
<1>1. /\ mon.at = "lookup" /\ mon' \in Check /\ mon'.at = "error"
      /\ mon'.dom = mon.dom /\ mon'.failed
    BY DEF LookupFails, IInv, TypeOK, Check, Stages
<1>2. Underway'
    BY <1>1 DEF IInv, Underway, LookupFails
<1>3. ASSUME NEW e \in Domains PROVE ReadSettled(e)'
    BY <1>1 DEF ReadSettled
<1> QED
    BY <1>1, <1>2, <1>3, CheckMoves DEF LookupFails, history, Announcing, IInv, TypeOK

\* A check that is over, or goes on to the purchase, has nothing left to keep.
LEMMA CheckEnds ==
    ASSUME IInv, UNCHANGED <<up, truth, row, cli, dbOk, muted, alerted, excused>>,
           mon' \in Check, mon'.at \in {"idle", "acquire"}, ~mon'.failed,
           mon'.at = "acquire" => mon'.dom \in Domains,
           \A d \in Domains : Announcing(d) => Settled(d)
    PROVE  IInv'
<1>1. Underway'
    BY DEF IInv, Underway
<1>2. ASSUME NEW e \in Domains PROVE ReadSettled(e)'
    BY DEF ReadSettled
<1> QED
    BY <1>1, <1>2, CheckMoves DEF IInv, TypeOK

\* The check is left, before it saved anything.
LEMMA LookupBreaksStep ==
    ASSUME IInv, LookupBreaks
    PROVE  IInv'
BY IdleIsCheck, CheckEnds DEF LookupBreaks, history, Announcing

\* After the purchase the check is over.
LEMMA AcquiredStep ==
    ASSUME IInv, Acquired
    PROVE  IInv'
BY IdleIsCheck, CheckEnds DEF Acquired, history, Announcing

\* The errors are counted: the row keeps its state.
LEMMA SaveErrorStep ==
    ASSUME IInv, SaveError
    PROVE  IInv'
<1>1. mon.at = "error" /\ mon.failed /\ mon.dom \in Domains /\ mon \in Check
    BY DEF SaveError, IInv, Underway, TypeOK
<1>2. /\ mon' \in Check
      /\ mon' = Idle \/ (mon'.at = "dedupe" /\ mon'.dom = mon.dom /\ mon'.failed)
    BY <1>1, IdleIsCheck, GotoEffect DEF SaveError, Stages
<1>3. /\ row' \in [Domains -> Row]
      /\ \A d \in Domains : row'[d].state = row[d].state
    BY <1>1, ErrorsAssumption DEF SaveError, IInv, TypeOK, Row
<1>4. TypeOK'
    BY <1>2, <1>3 DEF SaveError, history, IInv, TypeOK
<1>5. Underway'
    BY <1>1, <1>2, IdleIsCheck DEF IInv, Underway, SaveError
<1>6. ASSUME NEW d \in Domains
      PROVE  RowSettled(d)' /\ ReadSettled(d)' /\ MutedSettled(d)'
    BY <1>1, <1>2, <1>3, IdleIsCheck DEF IInv, RowSettled, ReadSettled, MutedSettled, Settled, Announcing, AnnouncesFree, Free, SaveError, history
<1> QED
    BY <1>4, <1>5, <1>6 DEF IInv

\* The row is written: what is free from now on was announced before, or is
\* going to be by this check.
LEMMA SaveStateStep ==
    ASSUME IInv, SaveState
    PROVE  IInv'
<1>1. mon.at = "save" /\ ~mon.failed /\ mon.dom \in Domains /\ mon \in Check
    BY DEF SaveState, IInv, Underway, TypeOK
<1>2. CASE ~dbOk
    BY <1>1, <1>2, IdleIsCheck, CheckEnds DEF SaveState, history, Announcing
<1>3. CASE dbOk
    <2>1. /\ mon' \in Check
          /\ \/ /\ mon.seen # mon.old /\ mon'.at = "event"
                /\ mon'.seen = mon.seen /\ mon'.old = mon.old
                /\ mon'.dom = mon.dom /\ ~mon'.failed
             \/ mon.seen = mon.old /\ mon'.at \in {"idle", "acquire"}
                /\ (mon'.at = "acquire" => mon'.dom = mon.dom) /\ ~mon'.failed
        BY <1>1, <1>3, IdleIsCheck, GotoEffect, FinishEffect DEF SaveState, Stages
    <2>2. /\ row' \in [Domains -> Row]
          /\ row'[mon.dom].state = mon.seen
          /\ \A d \in Domains \ {mon.dom} : row'[d] = row[d]
        BY <1>1, <1>3, ErrorsAssumption DEF SaveState, IInv, TypeOK, Row, Check, ErrorAlertThreshold
    <2>3. /\ alerted' \in [Domains -> BOOLEAN] /\ excused' \in [Domains -> BOOLEAN]
          /\ \A d \in Domains \ {mon.dom} :
                alerted'[d] = alerted[d] /\ excused'[d] = excused[d]
          /\ EpisodeLasts => /\ alerted[mon.dom] => alerted'[mon.dom]
                             /\ excused[mon.dom] => excused'[mon.dom]
        <3>1. (alerted[mon.dom] /\ EpisodeLasts) \in BOOLEAN
              /\ (excused[mon.dom] /\ EpisodeLasts) \in BOOLEAN
            OBVIOUS
        <3> QED
            BY <1>1, <1>3, <3>1 DEF SaveState, IInv, TypeOK
    <2>4. TypeOK'
        BY <1>3, <2>1, <2>2, <2>3 DEF SaveState, IInv, TypeOK
    <2>5. Underway'
        BY <1>1, <2>1 DEF IInv, Underway, SaveState
    <2>6. ASSUME NEW d \in Domains, d # mon.dom
          PROVE  RowSettled(d)' /\ ReadSettled(d)' /\ MutedSettled(d)'
        BY <1>1, <2>1, <2>2, <2>3, <2>6 DEF SaveState, IInv, RowSettled, ReadSettled, MutedSettled, Settled, Announcing, Free
    <2>7. ASSUME NEW d \in Domains, d = mon.dom
          PROVE  RowSettled(d)' /\ ReadSettled(d)' /\ MutedSettled(d)'
        <3>1. RowSettled(d)'
            BY <1>1, <2>1, <2>2, <2>3, <2>7 DEF SaveState, IInv, RowSettled, ReadSettled, Settled, Announcing, AnnouncesFree, EpisodeLasts, Free
        <3>2. ReadSettled(d)'
            BY <2>1 DEF ReadSettled
        <3>3. MutedSettled(d)'
            BY <1>1, <2>3, <2>7 DEF SaveState, IInv, MutedSettled, Settled, EpisodeLasts
        <3> QED
            BY <3>1, <3>2, <3>3
    <2> QED
        BY <2>4, <2>5, <2>6, <2>7 DEF IInv
<1> QED
    BY <1>2, <1>3 DEF IInv, TypeOK

\* A step that excuses the running check's silence leaves nothing unsettled that
\* the check was to say.
LEMMA UnannouncedEffect ==
    ASSUME IInv, Unannounced, mon.dom \in Domains
    PROVE  /\ excused' \in [Domains -> BOOLEAN]
           /\ \A d \in Domains : excused[d] => excused'[d]
           /\ \A d \in Domains : Announcing(d) => excused'[d]
BY DEF Unannounced, IInv, TypeOK, Announcing

\* A check that ends in silence, or with its alert delivered.
LEMMA SilenceSettles ==
    ASSUME IInv, UNCHANGED <<truth, row, cli, muted>>,
           up' \in BOOLEAN, dbOk' \in BOOLEAN,
           alerted' \in [Domains -> BOOLEAN], excused' \in [Domains -> BOOLEAN],
           \A d \in Domains : Settled(d) => Settled(d)',
           \A d \in Domains : Announcing(d) => Settled(d)',
           mon' \in Check, mon'.at \in {"idle", "acquire"}, ~mon'.failed,
           mon'.at = "acquire" => mon'.dom \in Domains
    PROVE  IInv'
<1>1. TypeOK'
    BY DEF IInv, TypeOK
<1>2. Underway'
    BY DEF IInv, Underway
<1>3. ASSUME NEW d \in Domains
      PROVE  RowSettled(d)' /\ ReadSettled(d)' /\ MutedSettled(d)'
    BY <1>3 DEF IInv, RowSettled, ReadSettled, MutedSettled, Free
<1> QED
    BY <1>1, <1>2, <1>3 DEF IInv

\* The event is written, or the check ends there and its silence is recorded.
LEMMA StateEventStep ==
    ASSUME IInv, StateEvent
    PROVE  IInv'
<1>1. /\ mon.at = "event" /\ ~mon.failed /\ mon.dom \in Domains /\ mon \in Check
      /\ mon.old \in States /\ mon.old # mon.seen
    BY DEF StateEvent, IInv, Underway, TypeOK, Check
<1>2. CASE ~dbOk
    <2>1. mon' = Idle /\ Unannounced
        BY <1>2 DEF StateEvent
    <2> QED
        BY <1>1, <2>1, UnannouncedEffect, IdleIsCheck, SilenceSettles DEF StateEvent, Settled, IInv, TypeOK
<1>3. CASE dbOk /\ Alertable(mon.old, mon.seen)
    <2>1. /\ mon' \in Check /\ mon'.at = "dedupe" /\ mon'.dom = mon.dom
          /\ mon'.seen = mon.seen /\ mon'.failed = mon.failed
        BY <1>1, <1>3, GotoEffect DEF StateEvent, Stages
    <2>2. Underway'
        BY <1>1, <2>1 DEF IInv, Underway, StateEvent
    <2>3. \A d \in Domains : ReadSettled(d)' /\ (Announcing(d) => Announcing(d)')
        BY <1>1, <2>1 DEF ReadSettled, Announcing, AnnouncesFree
    <2> QED
        BY <1>1, <1>3, <2>1, <2>2, <2>3, CheckMoves DEF StateEvent, IInv, TypeOK
<1>4. CASE dbOk /\ ~Alertable(mon.old, mon.seen)
    <2>1. Finish
        BY <1>4 DEF StateEvent
    <2>2. \A d \in Domains : ~Announcing(d)
        BY <1>1, <1>4, FreeIsAlertable DEF Announcing, AnnouncesFree
    <2> QED
        BY <1>1, <1>4, <2>1, <2>2, FinishEffect, IdleIsCheck, CheckEnds DEF StateEvent
<1> QED
    BY <1>2, <1>3, <1>4 DEF IInv, TypeOK

\* The alert's key is asked for and marked: when it suppresses the alert, an
\* earlier one stands for it.
LEMMA DedupeStep ==
    ASSUME IInv, Dedupe
    PROVE  IInv'
<1>1. mon.at = "dedupe" /\ mon.dom \in Domains /\ mon \in Check
    BY DEF Dedupe, IInv, Underway, TypeOK
<1>2. Key \in Keys
    BY <1>1 DEF Key, Keys, Check
<1>3. CASE dbOk /\ Key \in muted
    <2>1. Finish /\ muted' = muted
        BY <1>3 DEF Dedupe
    <2>2. \A d \in Domains : Announcing(d) => Settled(d)
        BY <1>1, <1>3 DEF IInv, MutedSettled, Announcing, AnnouncesFree, Key
    <2> QED
        BY <1>1, <2>1, <2>2, FinishEffect, IdleIsCheck, CheckEnds DEF Dedupe, history
<1>4. CASE ~(dbOk /\ Key \in muted)
    <2>1. /\ mon' \in Check /\ mon'.at = "send" /\ mon'.dom = mon.dom
          /\ mon'.seen = mon.seen /\ mon'.failed = mon.failed
        BY <1>1, <1>4, GotoEffect DEF Dedupe, Stages
    <2>2. muted' \subseteq muted \cup {Key}
        BY DEF Dedupe
    <2>3. TypeOK'
        BY <1>2, <2>1, <2>2 DEF Dedupe, history, IInv, TypeOK
    <2>4. Underway'
        BY <1>1, <2>1 DEF IInv, Underway, Dedupe
    <2>5. ASSUME NEW d \in Domains PROVE RowSettled(d)' /\ ReadSettled(d)'
        BY <1>1, <2>1 DEF IInv, RowSettled, ReadSettled, Settled, Announcing, AnnouncesFree, Free, Dedupe, history
    <2>6. ASSUME NEW d \in Domains PROVE MutedSettled(d)'
        <3>1. CASE <<"AVAILABLE", d>> \in muted
            BY <1>1, <2>1, <3>1 DEF IInv, MutedSettled, Settled, Announcing, AnnouncesFree, Dedupe, history
        <3>2. CASE <<"AVAILABLE", d>> = Key
            BY <1>1, <2>1, <3>2 DEF MutedSettled, Announcing, AnnouncesFree, Key
        <3> QED
            BY <2>2, <3>1, <3>2 DEF MutedSettled
    <2> QED
        BY <2>3, <2>4, <2>5, <2>6 DEF IInv
<1> QED
    BY <1>3, <1>4

\* The round of the channels delivers the alert, or its silence is recorded.
LEMMA SendStep ==
    ASSUME IInv, Send
    PROVE  IInv'
<1>1. mon.at = "send" /\ mon.dom \in Domains /\ mon \in Check
    BY DEF Send, IInv, Underway, TypeOK
<1>2. /\ mon' \in Check /\ mon'.at \in {"idle", "acquire"} /\ ~mon'.failed
      /\ mon'.at = "acquire" => mon'.dom \in Domains
    BY <1>1, FinishEffect, IdleIsCheck DEF Send
<1>3. CASE Unannounced /\ UNCHANGED alerted
    BY <1>1, <1>2, <1>3, UnannouncedEffect, SilenceSettles DEF Send, Settled, IInv, TypeOK
<1>4. CASE /\ alerted' = [alerted EXCEPT ![mon.dom] = @ \/ AnnouncesFree]
           /\ UNCHANGED excused
    <2>1. /\ alerted' \in [Domains -> BOOLEAN]
          /\ \A d \in Domains : alerted[d] => alerted'[d]
          /\ \A d \in Domains : Announcing(d) => alerted'[d]
        BY <1>1, <1>4 DEF IInv, TypeOK, Announcing
    <2> QED
        BY <1>2, <1>4, <2>1, SilenceSettles DEF Send, Settled, IInv, TypeOK
<1> QED
    BY <1>3, <1>4 DEF Send

\* The monitor dies: what it was about to say is recorded as unsaid.
LEMMA CrashStep ==
    ASSUME IInv, Crash
    PROVE  IInv'
<1>1. mon' = Idle /\ up' = FALSE
    BY DEF Crash
<1>2. CASE mon.at \in {"event", "dedupe", "send"}
    <2>1. mon.dom \in Domains /\ Unannounced
        BY <1>2 DEF Crash, IInv, Underway
    <2> QED
        BY <1>1, <2>1, UnannouncedEffect, IdleIsCheck, SilenceSettles DEF Crash, Settled, IInv, TypeOK
<1>3. CASE mon.at \notin {"event", "dedupe", "send"}
    BY <1>1, <1>3, IdleIsCheck, SilenceSettles DEF Crash, Settled, Announcing, IInv, TypeOK
<1> QED
    BY <1>2, <1>3

-----------------------------------------------------------------------------
(* The CLI, the registry, the disk and the clock.                          *)

\* A step that moves neither the check, the rows, the keys nor the history.
LEMMA Elsewhere ==
    ASSUME IInv, UNCHANGED <<row, mon, muted, alerted, excused>>,
           truth' \in [Domains -> Results], up' \in BOOLEAN, dbOk' \in BOOLEAN,
           cli' \in [Checkers -> CliCheck],
           \A c \in Checkers : cli'[c].at = "save" => cli'[c].dom \in Domains
    PROVE  IInv'
<1>1. TypeOK' /\ Underway'
    BY DEF IInv, TypeOK, Underway
<1>2. ASSUME NEW d \in Domains
      PROVE  RowSettled(d)' /\ ReadSettled(d)' /\ MutedSettled(d)'
    BY <1>2 DEF IInv, RowSettled, ReadSettled, MutedSettled, Settled, Announcing, AnnouncesFree, Free
<1> QED
    BY <1>1, <1>2 DEF IInv

\* The registry changes its mind, the disk its state, the monitor comes back.
LEMMA WorldSteps ==
    ASSUME IInv,
           Restart \/ DbToggle \/ \E d \in Domains : RegistryChanges(d)
    PROVE  IInv'
<1>1. /\ UNCHANGED <<row, mon, cli, muted, alerted, excused>>
      /\ truth' \in [Domains -> Results] /\ up' \in BOOLEAN /\ dbOk' \in BOOLEAN
    BY DEF Restart, DbToggle, RegistryChanges, history, IInv, TypeOK
<1>2. /\ cli' \in [Checkers -> CliCheck]
      /\ \A c \in Checkers : cli'[c].at = "save" => cli'[c].dom \in Domains
    BY <1>1 DEF IInv, TypeOK, Underway
<1> QED
    BY <1>1, <1>2, Elsewhere

\* A CLI process asks the registry.
LEMMA CliLookupStep ==
    ASSUME IInv, NEW c \in Checkers, NEW d \in Domains, CliLookup(c, d)
    PROVE  IInv'
<1>1. Classify(truth[d]) \in States
    BY ResultsAssumption, ClassifyIsState DEF IInv, TypeOK
<1>2. [at |-> "save", dom |-> d, seen |-> Classify(truth[d])] \in CliCheck
    BY <1>1 DEF CliCheck
<1>3. /\ cli' \in [Checkers -> CliCheck]
      /\ \A b \in Checkers : cli'[b].at = "save" => cli'[b].dom \in Domains
    BY <1>2 DEF CliLookup, IInv, TypeOK, Underway
<1> QED
    BY <1>3, Elsewhere DEF CliLookup, history, IInv, TypeOK

\* A CLI process writes the row behind the monitor's back: whatever it changes
\* is excused.
LEMMA CliSaveStep ==
    ASSUME IInv, NEW c \in Checkers, CliSave(c)
    PROVE  IInv'
<1> DEFINE d == cli[c].dom
<1>1. d \in Domains /\ cli[c] \in CliCheck
    BY DEF CliSave, IInv, Underway, TypeOK
<1>2. /\ cli' \in [Checkers -> CliCheck]
      /\ \A b \in Checkers : cli'[b].at = "save" => cli'[b].dom \in Domains
    BY StatesAre DEF CliSave, CliIdle, CliCheck, IInv, Underway, TypeOK
<1>3. CASE ~dbOk
    BY <1>2, <1>3, Elsewhere DEF CliSave, IInv, TypeOK
<1>4. CASE dbOk
    <2>1. /\ row' \in [Domains -> Row]
          /\ \A e \in Domains \ {d} : row'[e] = row[e]
        <3>1. [state |-> cli[c].seen, errors |-> 0] \in Row
            BY <1>1, ErrorsAssumption DEF CliCheck, Row, ErrorAlertThreshold
        <3> QED
            BY <1>1, <1>4, <3>1 DEF CliSave, IInv, TypeOK
    <2>2. /\ excused' \in [Domains -> BOOLEAN]
          /\ \A e \in Domains : excused[e] => excused'[e]
          /\ row'[d].state = row[d].state \/ excused'[d]
        <3>1. (excused[d] \/ row[d].state # cli[c].seen) \in BOOLEAN
            OBVIOUS
        <3>2. /\ excused' \in [Domains -> BOOLEAN]
              /\ \A e \in Domains \ {d} : excused'[e] = excused[e]
              /\ excused'[d] = (excused[d] \/ row[d].state # cli[c].seen)
            BY <1>1, <1>4, <3>1 DEF CliSave, IInv, TypeOK
        <3>3. row'[d].state = cli[c].seen
            BY <1>1, <1>4 DEF CliSave, IInv, TypeOK
        <3> QED
            BY <3>2, <3>3
    <2>3. TypeOK' /\ Underway'
        BY <1>2, <2>1, <2>2 DEF CliSave, IInv, TypeOK, Underway
    <2>4. ASSUME NEW e \in Domains
          PROVE  RowSettled(e)' /\ ReadSettled(e)' /\ MutedSettled(e)'
        <3>1. row'[e].state = row[e].state \/ excused'[e]
            BY <2>1, <2>2
        <3> QED
            BY <2>2, <3>1 DEF CliSave, IInv, RowSettled, ReadSettled, MutedSettled, Settled, Announcing, AnnouncesFree, Free
    <2> QED
        BY <2>3, <2>4 DEF IInv
<1> QED
    BY <1>3, <1>4

\* A key's window ends: what it stood for counts on while the domain is free.
LEMMA UnmuteStep ==
    ASSUME IInv, NEW k \in muted, Unmute(k)
    PROVE  IInv'
<1>1. /\ alerted' \in [Domains -> BOOLEAN]
      /\ \A d \in Domains : (k # <<"AVAILABLE", d>> \/ Free(d))
                                => alerted'[d] = alerted[d]
    BY DEF Unmute, IInv, TypeOK, Free
<1>2. TypeOK' /\ Underway'
    BY <1>1 DEF Unmute, IInv, TypeOK, Underway
<1>3. ASSUME NEW d \in Domains
      PROVE  RowSettled(d)' /\ ReadSettled(d)' /\ MutedSettled(d)'
    BY <1>1 DEF Unmute, IInv, RowSettled, ReadSettled, MutedSettled, Settled, Announcing, AnnouncesFree, Free
<1> QED
    BY <1>2, <1>3 DEF IInv

-----------------------------------------------------------------------------
(* The theorems.                                                           *)

\* The invariant holds at the start: no row, no check, no key.
LEMMA InitEstablishes == Init => IInv
<1> SUFFICES ASSUME Init PROVE IInv
    OBVIOUS
<1>1. \A d \in Domains : row[d].state = NoState /\ row[d] \in Row
    BY ErrorsAssumption DEF Init, Row, ErrorAlertThreshold
<1>2. CliIdle \in CliCheck /\ CliIdle.at # "save"
    BY StatesAre DEF CliIdle, CliCheck
<1>3. TypeOK
    BY <1>1, <1>2, IdleIsCheck DEF Init, TypeOK
<1>4. Underway
    BY <1>2, IdleIsCheck DEF Init, Underway
<1>5. ASSUME NEW d \in Domains
      PROVE  RowSettled(d) /\ ReadSettled(d) /\ MutedSettled(d)
    BY <1>1, IdleIsCheck DEF Init, RowSettled, ReadSettled, MutedSettled, Free, NoState
<1> QED
    BY <1>3, <1>4, <1>5 DEF IInv

\* Every step keeps the invariant.
LEMMA NextKeeps == IInv /\ [Next]_vars => IInv'
<1> SUFFICES ASSUME IInv, [Next]_vars PROVE IInv'
    OBVIOUS
<1>1. ASSUME NEW d \in Domains, Begin(d) \/ RegistryChanges(d) PROVE IInv'
    BY <1>1, BeginStep, WorldSteps
<1>2. CASE Proceed
    BY <1>2, LookupAnswersStep, LookupFailsStep, LookupBreaksStep,
       SaveErrorStep, SaveStateStep, StateEventStep, DedupeStep, SendStep,
       AcquiredStep DEF Proceed
<1>3. CASE Crash \/ Restart \/ DbToggle
    BY <1>3, CrashStep, WorldSteps
<1>4. ASSUME NEW c \in Checkers, CliSave(c) \/ \E d \in Domains : CliLookup(c, d)
      PROVE  IInv'
    BY <1>4, CliSaveStep, CliLookupStep
<1>5. ASSUME NEW k \in muted, Unmute(k) PROVE IInv'
    BY <1>5, UnmuteStep
<1>6. CASE UNCHANGED vars
    BY <1>6, Elsewhere DEF vars, IInv, TypeOK, Underway
<1> QED
    BY <1>1, <1>2, <1>3, <1>4, <1>5, <1>6 DEF Next

\* The inductive invariant holds in every reachable state, for any domains, CLI
\* processes and answers of the registry.
THEOREM Invariance == Spec => []IInv
<1> QED
    BY InitEstablishes, NextKeeps, PTL DEF Spec

\* Types, for every value of the constants: the rows hold lifecycle states.
THEOREM TypeCorrect == Spec => []TypeOK
<1>1. IInv => TypeOK
    BY DEF IInv
<1> QED
    BY <1>1, Invariance, PTL

\* A domain the database calls AVAILABLE was alerted, is being alerted, or lost
\* its alert in one of the recorded ways.
THEOREM FreeDomainsAlerted == Spec => []AvailableAlerted
<1>1. IInv => AvailableAlerted
    BY DEF IInv, AvailableAlerted, RowSettled, Settled, Announcing, Free
<1> QED
    BY <1>1, Invariance, PTL
=============================================================================
