------------------------------- MODULE Notify -------------------------------
(***************************************************************************)
(* One alert on its way out (app/notify): the question to the dedupe       *)
(* table, then the channels one after the other.  Calls of several         *)
(* processes share the dedupe table.  The messages' services are external: *)
(* a request is accepted, refused, limited (429), or carried out without   *)
(* an answer.                                                              *)
(*                                                                         *)
(* The row "alert" that notify adds to the events is left out: nothing     *)
(* reads it, and a failure to write it is swallowed.                       *)
(***************************************************************************)
EXTENDS Integers, Sequences, SequencesExt

CONSTANTS
    Callers,      \* processes that send alerts
    Enabled,      \* channels with *_ENABLED
    Configured,   \* channels with the settings their send asks for
    MinSeverity   \* EMAIL_MIN_SEVERITY

Channels == <<"telegram", "email", "webhook">>
Channel  == ToSet(Channels)
Order    == [INFO |-> 0, WARNING |-> 1, CRITICAL |-> 2]

ASSUME ChannelsAssumption == Enabled \subseteq Channel /\ Configured \subseteq Channel
ASSUME SeverityAssumption == MinSeverity \in DOMAIN Order

NoKey    == "none"
MaxTries == 3     \* of telegram.send

VARIABLES
    note,    \* per process: the call of notify in progress
    muted,   \* table alerts: keys inside their window
    dbOk     \* the database can be read and written at the moment

Results == {"none", "true", "false", "error"}

\* "tried" are the channels that were asked to deliver, "arrived" those through
\* which a copy arrived; nothing reads them.
Note(Keys) ==
    [at : {"idle", "ask", "send", "done"}, key : Keys, sev : DOMAIN Order,
     todo : Seq(Channel), tries : 0..(MaxTries - 1), result : [Channel -> Results],
     skipped : BOOLEAN, tried : SUBSET Channel, arrived : SUBSET Channel]

NoNote == [at |-> "idle", key |-> NoKey, sev |-> "INFO", todo |-> <<>>,
           tries |-> 0, result |-> [c \in Channel |-> "none"],
           skipped |-> FALSE, tried |-> {}, arrived |-> {}]

NotifyInit ==
    /\ note = [p \in Callers |-> NoNote]
    /\ muted = {}
    /\ dbOk = TRUE

\* notify passes over a channel that is off.
IfOn(c) == IF c \in Enabled THEN <<c>> ELSE <<>>

ActiveChannels == IfOn("telegram") \o IfOn("email") \o IfOn("webhook")

\* notify(..., dedupe_key=key): no question is asked without a key.
NewNote(key, sev) ==
    [NoNote EXCEPT !.at = IF key = NoKey THEN "send" ELSE "ask",
                   !.key = key, !.sev = sev, !.todo = ActiveChannels]

-----------------------------------------------------------------------------
\* Mutant: the table is not looked at.
SuppressedNever(key) == FALSE

Suppressed(key) == key \in muted

\* Mutant: no answer from the table suppresses the alert.
UnaskedSkips == [at |-> "done", skipped |-> TRUE]

\* The dedupe check failed: the alert goes out.
Unasked == [at |-> "send", skipped |-> FALSE]

\* db.should_send_alert marks the key before anything is sent.
Ask(p) ==
    /\ note[p].at = "ask"
    /\ LET k == note[p].key
           to == IF ~dbOk THEN Unasked
                 ELSE IF Suppressed(k) THEN [at |-> "done", skipped |-> TRUE]
                 ELSE [at |-> "send", skipped |-> FALSE]
       IN  /\ note' = [note EXCEPT ![p].at = to.at, ![p].skipped = to.skipped]
           /\ muted' = IF dbOk THEN muted \cup {k} ELSE muted
    /\ UNCHANGED dbOk

Current(p) == Head(note[p].todo)

\* _severity_ok, of the mail only.
SeverityOk(c, sev) == c # "email" \/ Order[sev] >= Order[MinSeverity]

\* Mutant: an exception of a channel ends the round.
AfterErrorStops(todo) == <<>>

\* notify catches the exceptions of each channel by itself.
AfterError(todo) == Tail(todo)

\* The call of p after its channel ended with a result.
Ended(n, result) ==
    [n EXCEPT !.result[Head(n.todo)] = result, !.tries = 0,
              !.todo = IF result = "error" THEN AfterError(n.todo)
                       ELSE Tail(n.todo)]

\* Settings are missing: RuntimeError; the mail looks at the severity first.
Misconfigured(p) ==
    /\ note[p].at = "send" /\ note[p].todo # <<>>
    /\ Current(p) \notin Configured
    /\ SeverityOk(Current(p), note[p].sev)
    /\ note' = [note EXCEPT ![p] = Ended(@, "error")]
    /\ UNCHANGED <<muted, dbOk>>

BelowSeverity(p) ==
    /\ note[p].at = "send" /\ note[p].todo # <<>>
    /\ ~SeverityOk(Current(p), note[p].sev)
    /\ note' = [note EXCEPT ![p] = Ended(@, "false")]
    /\ UNCHANGED <<muted, dbOk>>

\* One request of p; "lost": it was carried out, its answer did not arrive.
Request(p, reply) ==
    /\ note[p].at = "send" /\ note[p].todo # <<>>
    /\ Current(p) \in Configured
    /\ SeverityOk(Current(p), note[p].sev)
    /\ reply = "limited" => Current(p) = "telegram"

Tried(n, reply) ==
    [n EXCEPT !.tried = @ \cup {Head(n.todo)},
              !.arrived = IF reply \in {"accepted", "lost"}
                          THEN @ \cup {Head(n.todo)} ELSE @]

Accepted(p) ==
    /\ Request(p, "accepted")
    /\ note' = [note EXCEPT ![p] = Ended(Tried(@, "accepted"), "true")]
    /\ UNCHANGED <<muted, dbOk>>

\* Mutant: the last failure counts as sent.
GaveUpSent == "true"

GaveUp == "false"

\* Mutant: one request too many.
AgainOnceMore(tries) == tries < MaxTries

Again(tries) == tries + 1 < MaxTries

\* telegram.send tries again, also after a 429 that asks for a pause.
TelegramFails(p, reply) ==
    /\ Request(p, reply)
    /\ Current(p) = "telegram"
    /\ reply \in {"refused", "lost", "limited"}
    /\ note' = [note EXCEPT ![p] =
                   LET n == Tried(@, reply) IN
                   IF Again(n.tries)
                   THEN [n EXCEPT !.tries = @ + 1]
                   ELSE Ended(n, GaveUp)]
    /\ UNCHANGED <<muted, dbOk>>

\* The mail and the webhook try once; a pause telegram cannot take raises too.
Raises(p, reply) ==
    /\ Request(p, reply)
    /\ \/ Current(p) # "telegram" /\ reply \in {"refused", "lost"}
       \/ Current(p) = "telegram" /\ reply = "limited"
    /\ note' = [note EXCEPT ![p] = Ended(Tried(@, reply), "error")]
    /\ UNCHANGED <<muted, dbOk>>

AllTried(p) ==
    /\ note[p].at = "send" /\ note[p].todo = <<>>
    /\ note' = [note EXCEPT ![p].at = "done"]
    /\ UNCHANGED <<muted, dbOk>>

NotifyStep(p) ==
    \/ Ask(p)
    \/ Misconfigured(p) \/ BelowSeverity(p)
    \/ Accepted(p)
    \/ \E reply \in {"refused", "lost", "limited"} :
          TelegramFails(p, reply) \/ Raises(p, reply)
    \/ AllTried(p)

-----------------------------------------------------------------------------
(* Properties.                                                             *)

Sent(p) == note[p].at = "done" /\ ~note[p].skipped

\* A broken channel does not stand in the way of another (the promise of
\* notify): in a round that was not suppressed every channel that is on, has
\* its settings and takes the severity was asked to deliver.
ChannelsIndependent ==
    \A p \in Callers :
        Sent(p) => {c \in Enabled \cap Configured : SeverityOk(c, note[p].sev)}
                        \subseteq note[p].tried

\* What notify returns is honest: "true" for a channel means that a copy
\* arrived, so a passed "cli test-alerts" is a test passed.  "false" or an
\* error may hide a copy that arrived without an answer.
ResultsHonest ==
    \A p \in Callers, c \in Channel :
        note[p].result[c] = "true" => c \in note[p].arrived
=============================================================================
